----------------------------- MODULE BgpStateView -----------------------------
(***************************************************************************)
(* BgpState (bgp/state.rs): how the routes of a prefix were propagated, as *)
(* a graph of the routers, read off the tables of the network at any time. *)
(***************************************************************************)
EXTENDS BgpNetwork

(* from_net: what router r selects, from whom, and whom it tells what. *)
Node(r) ==
  [selected     |-> IF bgp[r].rib = None THEN None ELSE bgp[r].rib.route,
   learned_from |-> IF bgp[r].rib = None THEN None ELSE bgp[r].rib.from_id,
   edges_out    |-> {n \in Routers : bgp[r].rib_out[n] # None},
   edges_in     |-> {n \in Routers : bgp[n].rib_out[r] # None}]

Advertised(src, dst) == bgp[src].rib_out[dst]

(* The routers that propagation_path comes to, k steps before r; it stops  *)
(* at one that learned its route from itself or from none.                 *)
Upstream(r) ==
  LET up[k \in 0 .. Cardinality(Routers)] ==
        IF k = 0 THEN r
        ELSE IF Node(up[k - 1]).learned_from = None THEN up[k - 1]
        ELSE Node(up[k - 1]).learned_from
  IN  up

Stops(r) == Node(r).learned_from \in {None, r}

(* Among routers that learn a route from each other the loop of            *)
(* propagation_path does not end.                                          *)
PathEnds(r) == \E k \in DOMAIN Upstream(r) : Stops(Upstream(r)[k])

PropagationPath(r) ==
  LET n == CHOOSE k \in DOMAIN Upstream(r) :
             Stops(Upstream(r)[k]) /\ \A j \in 0 .. k - 1 : ~Stops(Upstream(r)[j])
  IN  IF Node(r).learned_from = None THEN << >>
      ELSE [i \in 1 .. n + 1 |-> Upstream(r)[n + 1 - i]]

IngressSession(r) ==
  LET path == PropagationPath(r)
  IN  IF Len(path) <= 1 THEN None ELSE <<path[1], path[2]>>

(* Faulty: the neighbors that are told the route, whether they use it or not *)
Faulty_Users(r) == Node(r).edges_out

(* The neighbors that use what r tells them *)
Users(r) == {n \in Node(r).edges_out : Node(n).learned_from = r}

(* reach: the routers that use the route of r, and r itself. *)
Reach(r) ==
  LET within[k \in 0 .. Cardinality(Routers)] ==
        IF k = 0 THEN {r}
        ELSE within[k - 1] \cup UNION {Users(n) : n \in within[k - 1]}
  IN  within[Cardinality(Routers)]
=============================================================================
