------------------------------ MODULE BgpRoutes ------------------------------
(***************************************************************************)
(* BGP routes, RIB entries and the best-path selection (bgp/mod.rs).       *)
(*                                                                         *)
(* One prefix is modelled: no table of a router is ever read for another   *)
(* prefix.  LOCAL_PREF and MED hold the value the code substitutes for an  *)
(* absent attribute, because BgpRoute's PartialEq identifies the two.      *)
(* Communities are left out: best_route never looks at them.               *)
(***************************************************************************)
EXTENDS Integers, Sequences

CONSTANTS
  Routers,  \* RouterIds; an index into the network graph, hence ordered
  AsOf,     \* the AS number of every router
  None      \* Option::None: no route, no session, no ORIGINATOR_ID, no cost

ASSUME RoutersAssumption ==
  /\ Routers \subseteq Nat
  /\ AsOf \in [Routers -> Nat]

SessionType == {"IBgpPeer", "IBgpClient", "EBgp"}

Route == [as_path : Seq(Nat), next_hop : Routers, local_pref : Nat, med : Nat,
          originator_id : Routers \cup {None}, cluster_list : Seq(Routers)]

(* What RIB_IN stores; the neighbor is the key of the table. *)
Received == [route : Route, from_type : SessionType]

(* A route that went through the import policy. *)
Entry == [route : Route, from_type : SessionType, from_id : Routers,
          igp_cost : Nat, weight : Nat]

(* None is not a value of any of the types it is added to. *)
ASSUME NoneAssumption ==
  /\ None \notin Routers
  /\ None \notin Nat
  /\ None \notin SessionType
  /\ None \notin Route
  /\ None \notin Received
  /\ None \notin Entry

DefaultLocalPref == 100
DefaultMed == 0
DefaultWeight == 100

NewSessionType(source_asn, target_asn, client) ==
  CASE source_asn # target_asn            -> "EBgp"
    [] source_asn = target_asn /\ client  -> "IBgpClient"
    [] source_asn = target_asn /\ ~client -> "IBgpPeer"

(* Faulty: an identifier of its own stands for "no ORIGINATOR_ID". *)
Faulty_NewRoute(next_hop, as_path, med) ==
  [as_path |-> as_path, next_hop |-> next_hop, local_pref |-> DefaultLocalPref,
   med |-> med, originator_id |-> 0, cluster_list |-> << >>]

(* BgpRoute::new: only transitive attributes are given by the caller. *)
NewRoute(next_hop, as_path, med) ==
  [as_path |-> as_path, next_hop |-> next_hop, local_pref |-> DefaultLocalPref,
   med |-> med, originator_id |-> None, cluster_list |-> << >>]

(* PartialEq of BgpRibEntry: the session type is not compared. *)
SameEntry(a, b) ==
  IF a = None \/ b = None
  THEN a = b
  ELSE /\ a.route = b.route
       /\ a.from_id = b.from_id
       /\ a.weight = b.weight
       /\ a.igp_cost = b.igp_cost
-----------------------------------------------------------------------------
Precedes(s, t) ==
  \E i \in DOMAIN s : s[i] < t[i] /\ \A j \in 1 .. i - 1 : s[j] = t[j]

(* The steps of the selection as keys: the smaller key is preferred. *)
PreMedKey(e) == <<-e.weight, -e.route.local_pref, Len(e.route.as_path)>>

(* Faulty: the longer CLUSTER_LIST is preferred. *)
Faulty_PostMedKey(e) ==
  LET source == IF e.route.originator_id = None
                THEN e.from_id ELSE e.route.originator_id
  IN  <<IF e.from_type = "EBgp" THEN 0 ELSE 1, e.igp_cost, e.route.next_hop,
        source, -Len(e.route.cluster_list), e.from_id>>

PostMedKey(e) ==
  LET source == IF e.route.originator_id = None
                THEN e.from_id ELSE e.route.originator_id
  IN  <<IF e.from_type = "EBgp" THEN 0 ELSE 1, e.igp_cost, e.route.next_hop,
        source, Len(e.route.cluster_list), e.from_id>>

FirstAs(e) == IF e.route.as_path = << >> THEN None ELSE Head(e.route.as_path)

MaxPreMed(S) == {a \in S : \A b \in S : ~Precedes(PreMedKey(b), PreMedKey(a))}

(* Faulty: the MED is compared across neighboring ASes. *)
Faulty_MinMed(S) ==
  {a \in S : \A b \in S : a.route.med <= b.route.med}

MinMed(S) ==
  {a \in S : \A b \in S : FirstAs(a) = FirstAs(b) => a.route.med <= b.route.med}

(* BgpRibEntry::best_route over a set of entries with distinct from_ids. *)
BestRoute(S) ==
  LET kept == MinMed(MaxPreMed(S))
      best == {a \in kept : \A b \in kept : ~Precedes(PostMedKey(b), PostMedKey(a))}
  IN  IF best = {} THEN None ELSE CHOOSE a \in best : TRUE
=============================================================================
