----------------------------- MODULE OspfDatabase -----------------------------
(***************************************************************************)
(* The link-state database and the routing table of a router running local *)
(* OSPF: OspfRib and AreaDataStructure (ospf/local/database.rs).           *)
(*                                                                         *)
(* The operators take and return the state p of a LocalOspfProcess (module *)
(* OspfProcess), of which they change p.areas, the data structures of the  *)
(* areas the router is in, p.ext, the External-LSAs, p.ext_changed, the    *)
(* flag that recomputes the routes to them, and p.rib.                     *)
(***************************************************************************)
EXTENDS OspfRoutes

(* AreaDataStructure::new *)
NewArea(r, a) ==
  [lsas |-> {NewLsa(RouterKey(r), NoLinks)},
   spt |-> Only(r, Path({}, 0, FALSE, {a})),
   recompute_intra |-> FALSE,
   recompute_inter |-> {},
   redistributed |-> NoLinks]      \* target -> cost

WithArea(p, a) ==
  IF a \in DOMAIN p.areas THEN p
  ELSE [p EXCEPT !.areas = Extended(@, a, NewArea(p.id, a))]

WithoutArea(p, a) ==
  [p EXCEPT !.areas = Restricted(@, DOMAIN @ \ {a})]

(* get_lsa: the stored instance of an LSA, none or one. *)
Stored(p, key, a) ==
  IF key.type = External THEN Find(p.ext, key)
  ELSE IF a \in DOMAIN p.areas THEN Find(p.areas[a].lsas, key)
  ELSE {}

OwnLsa(p, a) == The(Stored(p, RouterKey(p.id), a))

(* The LSAs of an area, with what their change makes to be computed again; *)
(* es as in Edit.                                                          *)
Edited(lsas, es) ==
  {l \in lsas : \A e \in es : l.key # e.key} \cup UNION {e.after : e \in es}

EditArea(ds, es) ==
  [ds EXCEPT !.lsas = Edited(@, es),
             !.recompute_intra = @ \/ \E e \in es : e.key.type = Router,
             !.recompute_inter = @ \cup {e.key.target : e \in {f \in es : f.key.type # Router}}]

(* insert and remove, of several LSAs: those with the keys of the edits    *)
(* [area, key, after] are replaced by after, an option.                    *)
Edit(p, edits) ==
  LET ext == {e \in edits : e.key.type = External}
      in(a) == {e \in edits \ ext : e.area = a}
      known == DOMAIN p.areas \cup {e.area : e \in edits \ ext}
  IN  [p EXCEPT
         !.ext = Edited(@, ext),
         !.ext_changed = @ \/ ext # {},
         !.areas = [a \in known |->
                      EditArea(IF a \in DOMAIN @ THEN @[a] ELSE NewArea(p.id, a), in(a))]]

Insert(p, l, a) == Edit(p, {[area |-> a, key |-> l.key, after |-> {l}]})

(* set_max_seq_and_age: premature aging. *)
Aged(l) == [l EXCEPT !.seq = MaxSeq, !.dead = TRUE]

(* set_seq; nothing is computed again. *)
SetSeq(p, l, a) ==
  IF l.key.type = External THEN [p EXCEPT !.ext = Put(@, l)]
  ELSE [WithArea(p, a) EXCEPT !.areas[a].lsas = Put(@, l)]

(* get_summary_list: what a router describes to a neighbor in area a. *)
SummaryList(p, a) ==
  Live((IF a \in DOMAIN p.areas THEN p.areas[a].lsas ELSE {}) \cup p.ext)

(* OspfRib::remove_unreachable_lsas, after convergence: forget the LSAs of *)
(* routers that are not reached within the area.                           *)
RemoveUnreachable(p) ==
  [p EXCEPT !.areas = [a \in DOMAIN p.areas |->
     LET ds == p.areas[a]
         kept(q) == q = p.id \/ (q \in DOMAIN ds.spt /\ ~ds.spt[q].inter_area)
     IN  [ds EXCEPT !.lsas = {l \in @ : kept(l.key.router)}]]]
-----------------------------------------------------------------------------
(* Originating LSAs.  An update [p, flood, after] is the database, the LSA *)
(* to flood, if any, and the options that are to be tracked: {} if the LSA *)
(* needs no tracking, {{}} if it is removed once it is acknowledged, and   *)
(* {{l}} if l then takes its place.                                        *)

Unchanged(p) == [p |-> p, flood |-> {}, after |-> {}]

Issue(p, l, a, after) == [p |-> Insert(p, l, a), flood |-> {l}, after |-> after]

(* The LSA l with new links: with the next sequence number, or, if there   *)
(* is none left, aged prematurely until all neighbors acknowledged it.     *)
NextInstance(p, l, links, a) ==
  IF l.seq < MaxSeq - 1
  THEN Issue(p, [l EXCEPT !.links = links, !.seq = @ + 1], a, {})
  ELSE Issue(p, Aged(l), a,
             {{[l EXCEPT !.links = links, !.seq = 0, !.dead = FALSE]}})

SetLinks(p, l, links, a) ==
  IF links = l.links THEN Unchanged(p) ELSE NextInstance(p, l, links, a)

(* update_local_lsa: weight is an option, a set of at most one weight. *)
UpdateLocalLsa(p, n, a, weight) ==
  LET own == OwnLsa(WithArea(p, a), a)
  IN  SetLinks(WithArea(p, a), own, WithLink(own.links, n, weight), a)

ExternalKey(p, x) == Key(External, p.id, x)

(* update_external_lsa; the weight of an external link is always 0. *)
UpdateExternalLsa(p, x, weight) ==
  LET old == Find(p.ext, ExternalKey(p, x))
      links == Only(x, The(weight))
  IN  IF old = {} /\ weight = {} THEN Unchanged(p)
      ELSE IF old = {}
      THEN Issue(p, NewLsa(ExternalKey(p, x), links), External, {})
      ELSE IF weight = {}
      THEN Issue(p, [The(old) EXCEPT !.dead = TRUE], External, {{}})
      ELSE SetLinks(p, The(old), links, External)
-----------------------------------------------------------------------------
(* Faulty: inter-area paths are not computed again with the intra-area ones. *)
Faulty_UpdateSpt(r, ds, a) ==
  IF ds.recompute_intra
  THEN [ds EXCEPT !.spt = IntraAreaRoutes(r, ds.lsas, a),
                  !.recompute_intra = FALSE]
  ELSE [ds EXCEPT !.spt = InterAreaRoutes(r, ds.lsas, @, a, FALSE,
                                          ds.recompute_inter),
                  !.recompute_inter = {}]

(* AreaDataStructure::update_spt *)
UpdateSpt(r, ds, a) ==
  LET spt == IF ds.recompute_intra THEN IntraAreaRoutes(r, ds.lsas, a) ELSE ds.spt
  IN  [ds EXCEPT !.spt = InterAreaRoutes(r, ds.lsas, spt, a, ds.recompute_intra,
                                         ds.recompute_inter),
                 !.recompute_intra = FALSE,
                 !.recompute_inter = {}]

(* The best paths over all areas, then those to external routers. *)
RoutingTable(r, areas, ext) ==
  LET paths(t) == (IF t = r THEN {Path({}, 0, FALSE, {})} ELSE {}) \cup
                  {areas[a].spt[t] : a \in {b \in DOMAIN areas : t \in DOMAIN areas[b].spt}}
      known == {t \in Routers : paths(t) # {}}
      internal == [t \in known |-> Merge(paths(t))]
      external == ExternalRoutes(r, ext, internal)
  IN  [t \in known \cup DOMAIN external |->
         IF t \in DOMAIN external THEN external[t] ELSE internal[t]]

(* update_routing_table: is there anything to compute? *)
Outdated(p) ==
  \/ p.areas = << >>
  \/ p.ext_changed
  \/ \E a \in DOMAIN p.areas : \/ p.areas[a].recompute_intra
                               \/ p.areas[a].recompute_inter # {}

(* The routing table of the trees in areas *)
WithTrees(p, areas) ==
  [p EXCEPT !.areas = areas,
            !.ext_changed = FALSE,
            !.rib = RoutingTable(p.id, areas, p.ext)]

UpdateRoutingTable(p) ==
  WithTrees(p, [a \in DOMAIN p.areas |->
                  IF p.areas[a].recompute_intra \/ p.areas[a].recompute_inter # {}
                  THEN UpdateSpt(p.id, p.areas[a], a) ELSE p.areas[a]])

(* Faulty: a path of which only the cost changed is passed over. *)
Faulty_Redistribute(p, a, t, cost, old) ==
  LET key == Key(Summary, p.id, t)
      cur == Find(p.areas[a].lsas, key)
      fresh == NewLsa(key, Only(t, The(cost)))
      nothing == [lsa |-> cur, flood |-> FALSE, after |-> {}]
      retract == [key |-> key, links |-> Only(t, The(old)), dead |-> TRUE,
                  seq |-> IF cur = {} THEN MaxSeq ELSE The(cur).seq]
  IN  IF (cost = {}) = (old = {}) THEN nothing
      ELSE IF cost = {} THEN [lsa |-> {retract}, flood |-> TRUE, after |-> {{}}]
      ELSE IF cur = {} THEN [lsa |-> {fresh}, flood |-> TRUE, after |-> {}]
      ELSE [nothing EXCEPT !.after = {{fresh}}]

(* redistribute_from_paths, for one target: the Summary-LSA to store and,  *)
(* if flood is set, to flood, and what is to be tracked.  cost and old are *)
(* what is redistributed and what was, options.                            *)
Redistribute(p, a, t, cost, old) ==
  LET key == Key(Summary, p.id, t)
      cur == Find(p.areas[a].lsas, key)
      fresh == NewLsa(key, Only(t, The(cost)))
      nothing == [lsa |-> cur, flood |-> FALSE, after |-> {}]
      retract == [key |-> key, links |-> Only(t, The(old)), dead |-> TRUE,
                  seq |-> IF cur = {} THEN MaxSeq ELSE The(cur).seq]
  IN  IF cost = old THEN nothing
      ELSE IF cost = {} THEN [lsa |-> {retract}, flood |-> TRUE, after |-> {{}}]
      ELSE IF cur = {} THEN [lsa |-> {fresh}, flood |-> TRUE, after |-> {}]
      ELSE IF The(cur).dead \/ old = {} THEN [nothing EXCEPT !.after = {{fresh}}]
      ELSE IF The(cur).seq >= MaxSeq - 1
      THEN [lsa |-> {Aged(The(cur))}, flood |-> TRUE, after |-> {{fresh}}]
      ELSE [lsa |-> {[The(cur) EXCEPT !.seq = @ + 1, !.links = Only(t, The(cost))]},
            flood |-> TRUE, after |-> {}]

(* redistribute_into; nothing happens in an area without links.  A router  *)
(* that is no area border router retracts what it redistributed.           *)
RedistributedPaths(p, a) ==
  LET neighbors == DOMAIN OwnLsa(p, a).links
      border == Backbone \in DOMAIN p.areas /\ Cardinality(DOMAIN p.areas) > 1
      targets == {t \in DOMAIN p.rib : IsRedistributed(p.id, a, neighbors, t, p.rib[t])}
  IN  IF ~border THEN NoLinks
      ELSE IF neighbors = {} THEN p.areas[a].redistributed
      ELSE [t \in targets |-> p.rib[t].cost]

(* The outcomes new[a][t] of Redistribute are stored, flooded and tracked. *)
StoreSummaries(p, paths, new) ==
  LET keys(a) == {Key(Summary, p.id, t) : t \in DOMAIN new[a]}
      all == UNION {{a} \X DOMAIN new[a] : a \in DOMAIN new}
      stored(a) == {l \in p.areas[a].lsas : l.key \notin keys(a)} \cup
                   UNION {new[a][t].lsa : t \in DOMAIN new[a]}
  IN  [p |-> [p EXCEPT !.areas = [a \in DOMAIN p.areas |->
                 [p.areas[a] EXCEPT !.lsas = stored(a), !.redistributed = paths[a]]]],
       flood |-> UNION {{[lsa |-> l, area |-> x[1]] : l \in new[x[1]][x[2]].lsa} :
                          x \in {y \in all : new[y[1]][y[2]].flood}},
       track |-> UNION {{[area |-> x[1], key |-> Key(Summary, p.id, x[2]), after |-> o] :
                           o \in new[x[1]][x[2]].after} : x \in all}]

(* paths[a] is to be redistributed into area a from now on. *)
RedistributeAll(p, paths) ==
  LET option(f, t) == IF t \in DOMAIN f THEN {f[t]} ELSE {}
      targets(a) == DOMAIN paths[a] \cup DOMAIN p.areas[a].redistributed
  IN  StoreSummaries(p, paths, [a \in DOMAIN p.areas |-> [t \in targets(a) |->
        Redistribute(p, a, t, option(paths[a], t),
                     option(p.areas[a].redistributed, t))]])

(* update_summary_lsas *)
UpdateSummaryLsas(p) ==
  RedistributeAll(p, [a \in DOMAIN p.areas |-> RedistributedPaths(p, a)])
=============================================================================
