------------------------------ MODULE OspfOracle ------------------------------
(***************************************************************************)
(* A domain running global OSPF: every operation of the user updates the   *)
(* coordinator and the tables of the routers at once.                      *)
(***************************************************************************)
EXTENDS GlobalOspf

CONSTANTS
  Topologies,    \* the links to start with: records [links, external]
  Operations     \* the operations of the user, sequences of changes

VARIABLES
  g,         \* the GlobalOspfCoordinator
  links,     \* OspfDomain::links
  external   \* OspfDomain::external_links

vars == <<g, links, external>>

Init ==
  \E t \in Topologies :
    /\ links = t.links
    /\ external = t.external
    /\ g = Restarted(t.links, t.external)

(* OspfDomain::add_links_from, set_weight, set_link_weights_from, set_area, *)
(* remove_link, remove_router: the links, then OspfCoordinator::update.     *)
Operate(op) ==
  /\ AllPossible(links, external, op)
  /\ links' = LinksAfter(links, op)[Len(op)]
  /\ external' = ExternalAfter(external, op)[Len(op)]
  /\ g' = Update(g, BatchSettings(links, op), links', external')

Next == \E op \in Operations : Operate(op)

Spec == Init /\ [][Next]_vars
-----------------------------------------------------------------------------
AreaLinks(r, a) == {n \in Routers : <<r, n>> \in DOMAIN links /\ links[r, n].area = a}
AreasOf(r) == {a \in Areas : AreaLinks(r, a) # {}}

(* The Router-LSAs of area a, as the links are. *)
LinkLsas(a) ==
  {NewLsa(RouterKey(r), [n \in AreaLinks(r, a) |-> links[r, n].weight]) :
     r \in {q \in Routers : AreaLinks(q, a) # {}}}

(* The trees hold the shortest paths over the links as they are, and those *)
(* of an area that a router has left are gone: only areas whose Router-LSAs *)
(* changed are computed again (update_intra_area_routes).                  *)
IntraAreaCurrent ==
  \A r \in Routers :
    /\ DOMAIN g.spts[r] = AreasOf(r)
    /\ \A a \in AreasOf(r) :
         LET fresh == IntraAreaRoutes(r, LinkLsas(a), a)
         IN  \A t \in Routers :
               IF t \in DOMAIN fresh THEN t \in DOMAIN g.spts[r][a] /\ g.spts[r][a][t] = fresh[t]
               ELSE t \in DOMAIN g.spts[r][a] => g.spts[r][a][t].inter_area

(* A router's RIB holds the best of its trees, and all external routers it *)
(* has a route to: those that were not computed again are right, too.      *)
RibsCurrent ==
  \A r \in DOMAIN g.ribs : g.ribs[r] = ExternalRoutes(r, g.ext, Rib(g, r)) @@ Rib(g, r)

(* The routers forward by the RIBs as they are: no router whose RIB or     *)
(* neighbors changed is passed over (step 8 of perform_actions).           *)
TablesCurrent ==
  \A r \in DOMAIN g.ribs : g.tables[r] = TableOf(g, r, links, external)

(* The Summary-LSAs of an area are those that its border routers remember  *)
(* to redistribute into it; other routers have none left.                  *)
SummariesBooked ==
  \A a \in Areas :
    {l \in g.lsas[a] : l.key.type = Summary} =
      UNION {{NewLsa(Key(Summary, r, t), t :> g.redistributed[r, a][t]) :
                t \in DOMAIN g.redistributed[r, a]} :
             r \in {q \in Routers : IsBorder(g, q, a)}}

(* A border router redistributes into an area every path that it is to, of *)
(* all its other areas: the doc says that only the targets to be computed  *)
(* again are touched ("Only recompute a target if either `recompute_all`   *)
(* is set, or if it is present in `recompute_targets`").                   *)
SummariesComplete ==
  \A r \in Routers, a \in Areas : IsBorder(g, r, a) =>
    \A from \in g.member[r] \ {a} : \A t \in DOMAIN g.spts[r][from] :
      \/ t \in DOMAIN g.redistributed[r, a]
      \/ t \in DOMAIN g.spts[r][a] /\ ~g.spts[r][a][t].inter_area
      \/ g.spts[r][from][t].inter_area /\ from # Backbone
      \/ g.spts[r][from][t].fibs \cap AreaLinks(r, a) # {}
=============================================================================
