------------------------------ MODULE OspfDomain ------------------------------
(***************************************************************************)
(* The links of the routers of an AS and their changes (OspfDomain and     *)
(* NeighborhoodChange in ospf/mod.rs), and what local and global OSPF are  *)
(* told of a change.                                                       *)
(*                                                                         *)
(* links maps <<a, b>> to [weight, area], in both directions; external     *)
(* holds the pairs of a router and an external router linked to it.  An    *)
(* operation is a sequence of changes, a batch.                            *)
(***************************************************************************)
EXTENDS OspfRoutes

CONSTANT DefaultWeight    \* DEFAULT_LINK_WEIGHT

(* add_links_from: a new link is in the backbone.  The weights are those   *)
(* from a to b, and back.                                                  *)
AddLink(a, b, area, w, back) ==
  [type |-> "AddLink", a |-> a, b |-> b, area |-> area, weight |-> w, back |-> back]
Link(a, b) == AddLink(a, b, Backbone, DefaultWeight, DefaultWeight)
Unlink(a, b) == [type |-> "RemoveLink", a |-> a, b |-> b]
Weigh(a, b, w) == [type |-> "Weight", a |-> a, b |-> b, weight |-> w]
Area(a, b, area) == [type |-> "Area", a |-> a, b |-> b, area |-> area]
Attach(a, x) == [type |-> "AddExternalNetwork", a |-> a, b |-> x]
Detach(a, x) == [type |-> "RemoveExternalNetwork", a |-> a, b |-> x]

(* The changes of a user, and the links as OspfDomain keeps them: in both   *)
(* directions, which are in the same area.                                 *)
Changes ==
  {d \in [type : {"AddLink"}, a : Routers, b : Routers, area : Areas,
          weight : Nat, back : Nat] : d.a # d.b} \cup
  [type : {"RemoveLink"}, a : Routers, b : Routers] \cup
  [type : {"Weight"}, a : Routers, b : Routers, weight : Nat] \cup
  [type : {"Area"}, a : Routers, b : Routers, area : Areas] \cup
  [type : {"AddExternalNetwork", "RemoveExternalNetwork"}, a : Routers, b : Externals]

IsDomain(ls, xs) ==
  /\ ls \in [DOMAIN ls -> [weight : Nat, area : Areas]]
  /\ \A e \in DOMAIN ls : \E a, b \in Routers :
       /\ a # b /\ e = <<a, b>>
       /\ <<b, a>> \in DOMAIN ls /\ ls[b, a].area = ls[a, b].area
  /\ xs \subseteq Routers \X Externals

(* Is the change d possible?  Network refuses the others. *)
Possible(ls, xs, d) ==
  CASE d.type = "AddLink" -> <<d.a, d.b>> \notin DOMAIN ls
    [] d.type = "AddExternalNetwork" -> <<d.a, d.b>> \notin xs
    [] d.type = "RemoveExternalNetwork" -> <<d.a, d.b>> \in xs
    [] OTHER -> <<d.a, d.b>> \in DOMAIN ls

NewLinks(ls, d) ==
  LET ab == <<d.a, d.b>>  ba == <<d.b, d.a>>
      new(w) == [weight |-> w, area |-> d.area]
  IN  CASE d.type = "AddLink" -> Extended(Extended(ls, ba, new(d.back)), ab, new(d.weight))
        [] d.type = "RemoveLink" -> Restricted(ls, DOMAIN ls \ {ab, ba})
        [] d.type = "Weight" -> [ls EXCEPT ![ab].weight = d.weight]
        [] d.type = "Area" -> [ls EXCEPT ![ab].area = d.area, ![ba].area = d.area]
        [] OTHER -> ls

NewExternal(xs, d) ==
  CASE d.type = "AddExternalNetwork" -> xs \cup {<<d.a, d.b>>}
    [] d.type = "RemoveExternalNetwork" -> xs \ {<<d.a, d.b>>}
    [] OTHER -> xs

(* The links and the external links after every number of changes of op *)
LinksAfter(ls, op) ==
  LET after[k \in 0 .. Len(op)] == IF k = 0 THEN ls ELSE NewLinks(after[k - 1], op[k])
  IN  after

ExternalAfter(xs, op) ==
  LET after[k \in 0 .. Len(op)] == IF k = 0 THEN xs ELSE NewExternal(after[k - 1], op[k])
  IN  after

(* Every change of the batch is possible after those before it. *)
AllPossible(ls, xs, op) ==
  \A i \in DOMAIN op : Possible(LinksAfter(ls, op)[i - 1], ExternalAfter(xs, op)[i - 1], op[i])

NoChange == [type |-> "None"]

(* LocalNeighborhoodChange::from_global: what router r is told of d. *)
LocalChange(d, r) ==
  LET n == IF r = d.a THEN d.b ELSE d.a
  IN  IF r \notin {d.a, d.b} \/ (d.type = "Weight" /\ r # d.a) THEN NoChange
      ELSE CASE d.type = "AddLink" -> [type |-> "AddNeighbor", neighbor |-> n,
                                       area |-> d.area,
                                       weight |-> IF r = d.a THEN d.weight ELSE d.back]
             [] d.type = "RemoveLink" -> [type |-> "DelNeighbor", neighbor |-> n]
             [] d.type = "Area" -> [type |-> "Area", neighbor |-> n, area |-> d.area]
             [] d.type = "Weight" -> [type |-> "Weight", neighbor |-> n, weight |-> d.weight]
             [] d.type = "AddExternalNetwork" ->
                  [type |-> "SetExternalLink", ext |-> d.b, weight |-> {0}]
             [] d.type = "RemoveExternalNetwork" ->
                  [type |-> "SetExternalLink", ext |-> d.b, weight |-> {}]

(* Setting a directed link, as the oracle does; the weight is an option. *)
Internal(area, a, b, weight) ==
  [type |-> "internal", area |-> area, src |-> a, dst |-> b, weight |-> weight]
ExternalLink(a, x, weight) ==
  [type |-> "external", src |-> a, dst |-> x, weight |-> weight]

(* prepare_actions: the settings d stands for, with the links ls before. *)
Settings(ls, d) ==
  LET both(area, ab, ba) == <<Internal(area, d.a, d.b, ab), Internal(area, d.b, d.a, ba)>>
      old == ls[d.a, d.b]
  IN  CASE d.type = "AddLink" -> both(d.area, {d.weight}, {d.back})
        [] d.type = "RemoveLink" -> both(old.area, {}, {})
        [] d.type = "Weight" -> <<Internal(old.area, d.a, d.b, {d.weight})>>
        [] d.type = "Area" ->
             both(old.area, {}, {}) \o both(d.area, {old.weight}, {ls[d.b, d.a].weight})
        [] d.type = "AddExternalNetwork" -> <<ExternalLink(d.a, d.b, {0})>>
        [] d.type = "RemoveExternalNetwork" -> <<ExternalLink(d.a, d.b, {})>>

(* The settings of a batch, each with the links before it. *)
BatchSettings(ls, op) ==
  FlattenSeq([i \in DOMAIN op |-> Settings(LinksAfter(ls, op)[i - 1], op[i])])

(* OspfDomain::reset: everything is forgotten, and one batch restores the  *)
(* external links, and the links with their weights and areas.             *)
ResetBatch(ls, xs) ==
  SetToSeq({Attach(x[1], x[2]) : x \in xs}) \o
  SetToSeq({AddLink(e[1], e[2], ls[e].area, ls[e].weight, ls[e[2], e[1]].weight) :
              e \in {f \in DOMAIN ls : f[1] < f[2]}})
=============================================================================
