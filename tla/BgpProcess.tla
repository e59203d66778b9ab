------------------------------ MODULE BgpProcess ------------------------------
(***************************************************************************)
(* The BGP process of one router (router/bgp_process.rs).  A process is a  *)
(* record; the operators below are the phases every handler of the code    *)
(* goes through: an edit of the tables, the decision process, and the      *)
(* dissemination to the peers.                                             *)
(***************************************************************************)
EXTENDS BgpRoutes

(* A route-map list is abstracted to its effect on the entries it is       *)
(* applied to: deny, or overwrite attributes (None keeps).  A set of the   *)
(* next hop discards an IGP cost set before, so igp_cost is one set after. *)
RouteMap == [permit : BOOLEAN, next_hop : Routers \cup {None},
             weight : Nat \cup {None}, local_pref : Nat \cup {None},
             med : Nat \cup {None}, igp_cost : Nat \cup {None}]

AllowAll == [permit |-> TRUE, next_hop |-> None, weight |-> None,
             local_pref |-> None, med |-> None, igp_cost |-> None]

Process ==
  [router_id : Routers,
   sessions : [Routers -> SessionType \cup {None}],
   rib_in : [Routers -> Received \cup {None}],   \* [r] holds r's own route
   rib : Entry \cup {None},
   rib_out : [Routers -> Route \cup {None}],
   route_maps_in : [Routers -> RouteMap],
   route_maps_out : [Routers -> RouteMap],
   igp_cost : [Routers -> Nat \cup {None}]]      \* None: absent or infinite

NewProcess(r) ==
  [router_id |-> r,
   sessions |-> [n \in Routers |-> None],
   rib_in |-> [n \in Routers |-> None],
   rib |-> None,
   rib_out |-> [n \in Routers |-> None],
   route_maps_in |-> [n \in Routers |-> AllowAll],
   route_maps_out |-> [n \in Routers |-> AllowAll],
   igp_cost |-> [n \in Routers |-> None]]

Overwrite(new, old) == IF new = None THEN old ELSE new
-----------------------------------------------------------------------------
(* Phase 2: import policy and decision process.                            *)

(* The next hop a route map may have set must be reachable; the neighbor   *)
(* of an eBGP session replaces it only then.                               *)
ProcessRibIn(p, n) ==
  LET map  == p.route_maps_in[n]
      in   == p.rib_in[n]
      hop  == Overwrite(map.next_hop, in.route.next_hop)
      cost == p.igp_cost[hop]
      ebgp == in.from_type = "EBgp"
  IN  IF ~map.permit \/ cost = None
      THEN None
      ELSE [route |-> [in.route EXCEPT
                         !.next_hop = IF ebgp THEN n ELSE hop,
                         !.local_pref = Overwrite(map.local_pref, @),
                         !.med = Overwrite(map.med, @)],
            from_type |-> in.from_type,
            from_id |-> n,
            igp_cost |-> IF ebgp THEN 0 ELSE Overwrite(map.igp_cost, cost),
            weight |-> Overwrite(map.weight, DefaultWeight)]

Candidates(p) ==
  {ProcessRibIn(p, n) : n \in {m \in Routers : p.rib_in[m] # None}} \ {None}

Selected(p) == BestRoute(Candidates(p))

Changed(p) == ~SameEntry(Selected(p), p.rib)

Decide(p) == IF Changed(p) THEN [p EXCEPT !.rib = Selected(p)] ELSE p
-----------------------------------------------------------------------------
(* Phase 3: export policy and dissemination.                               *)

ShouldExport(e, to, to_type) ==
  /\ e.from_id # to
  /\ e.from_type # "IBgpPeer" \/ to_type # "IBgpPeer"

(* Faulty: a reflector, too, sets itself as the next hop. *)
Faulty_ProcessRibOut(p, e, n) ==
  LET to_ebgp   == p.sessions[n] = "EBgp"
      reflected == e.from_type # "EBgp" /\ ~to_ebgp
  IN  IF ~p.route_maps_out[n].permit THEN None
      ELSE [e.route EXCEPT
              !.as_path = IF to_ebgp THEN <<AsOf[p.router_id]>> \o @ ELSE @,
              !.next_hop = Overwrite(p.route_maps_out[n].next_hop, p.router_id),
              !.originator_id = IF reflected /\ @ = None THEN e.from_id ELSE @,
              !.cluster_list = IF reflected THEN Append(@, p.router_id) ELSE @]

(* A route map is applied after next-hop-self, but before the attributes   *)
(* of a route for an eBGP peer are reset.                                  *)
ProcessRibOut(p, e, n) ==
  LET map       == p.route_maps_out[n]
      to_ebgp   == p.sessions[n] = "EBgp"
      from_ebgp == e.from_type = "EBgp"
      reflected == ~from_ebgp /\ ~to_ebgp
      route == [e.route EXCEPT
        !.as_path = IF to_ebgp THEN <<AsOf[p.router_id]>> \o @ ELSE @,
        !.next_hop = IF to_ebgp THEN p.router_id
                     ELSE Overwrite(map.next_hop,
                                    IF from_ebgp THEN p.router_id ELSE @),
        !.local_pref = IF to_ebgp THEN DefaultLocalPref
                       ELSE Overwrite(map.local_pref, @),
        !.med = Overwrite(map.med, IF to_ebgp /\ e.from_id # p.router_id
                                   THEN DefaultMed ELSE @),
        !.originator_id = CASE to_ebgp -> None
                            [] reflected /\ @ = None -> e.from_id
                            [] OTHER -> @,
        !.cluster_list = CASE to_ebgp -> << >>
                           [] reflected -> Append(@, p.router_id)
                           [] OTHER -> @]
  IN  IF map.permit THEN route ELSE None

(* The route that peer n must end up with in RIB_OUT. *)
Export(p, n) ==
  IF p.rib = None THEN None
  ELSE IF ShouldExport(p.rib, n, p.sessions[n]) THEN ProcessRibOut(p, p.rib, n)
  ELSE None

Peers(p) == {n \in Routers : p.sessions[n] # None}

Disseminate(p) ==
  [p EXCEPT !.rib_out =
     [n \in Routers |-> IF n \in Peers(p) THEN Export(p, n) ELSE p.rib_out[n]]]

(* Faulty: peers are told without a look at RIB_OUT. *)
Faulty_NoCompare(p) ==
  [n \in Routers |-> IF n \in Peers(p) THEN <<Export(p, n)>> ELSE << >>]

(* The events of the dissemination: a route is an Update, None a Withdraw. *)
Announcements(p) ==
  [n \in Routers |-> IF n \in Peers(p) /\ Export(p, n) # p.rib_out[n]
                     THEN <<Export(p, n)>> ELSE << >>]
-----------------------------------------------------------------------------
(* Phases 2 and 3 after an edit of the tables; p is the edited process.    *)

Update(p, force) ==
  IF Changed(p) \/ force THEN Disseminate(Decide(p)) ELSE p

Events(p, force) ==
  IF Changed(p) \/ force THEN Announcements(Decide(p))
  ELSE [n \in Routers |-> << >>]
-----------------------------------------------------------------------------
(* Phase 1: the edits.                                                     *)

(* Faulty: the CLUSTER_LIST is not looked at. *)
Faulty_NoClusterCheck(r, route) == route.originator_id = r

(* insert_route refuses a route that this router already reflected. *)
Refused(r, route) ==
  \/ route.originator_id = r
  \/ \E i \in DOMAIN route.cluster_list : route.cluster_list[i] = r

(* handle_event up to the decision: an Update or a Withdraw from a peer. A *)
(* refused Update is treated like a Withdraw.                              *)
Receive(p, from, msg) ==
  [p EXCEPT !.rib_in[from] =
     IF msg = None \/ Refused(p.router_id, msg) THEN None
     ELSE [route |-> msg, from_type |-> p.sessions[from]]]

(* handle_event for the router's own route (advertise_route). *)
Originate(p, route) ==
  [p EXCEPT !.rib_in[p.router_id] =
     IF route = None THEN None
     ELSE [route |-> [route EXCEPT !.next_hop = p.router_id],
           from_type |-> "EBgp"]]

(* set_session: type is None to tear the session down. *)
EditSession(p, target, type) ==
  IF type = None
  THEN [p EXCEPT !.sessions[target] = None,
                 !.rib_in[target] = None,
                 !.rib_out[target] = None]
  ELSE [p EXCEPT !.sessions[target] = type]
=============================================================================
