------------------------------ MODULE BgpNetwork ------------------------------
(***************************************************************************)
(* The BGP side of a Network (network.rs, interactive.rs): the routers'    *)
(* BGP processes, the events in flight between them, and the operations    *)
(* of the user, each of which edits one process and enqueues the events    *)
(* the edit caused.                                                        *)
(*                                                                         *)
(* The event queue is kept per ordered pair of routers, and the head of    *)
(* any pair may be handled next.  Every order in which BasicEventQueue,    *)
(* PerRouterQueue and the parallel simulation handle events is one of      *)
(* these orders (module EventQueues).                                      *)
(***************************************************************************)
EXTENDS BgpProcess, FiniteSets

CONSTANTS
  Advertisements,   \* routes the user may advertise: [router, as_path, med]
  SessionChanges,   \* arguments of set_bgp_session: [source, target, ty]
  RouteMapChanges,  \* arguments of set_bgp_route_map: [router, neighbor, incoming, map]
  Topologies,       \* outcomes of OSPF: [cost, reach], see below
  InitialSessions,  \* the sessions configured at the start
  InitialTopology,  \* the OSPF state at the start
  Manual,           \* TRUE: manual simulation, the user may act at any time
  MaxOps            \* bound on the number of operations of the user

(* A configured session: is the peer a client of this router? *)
SessionConfig == [Routers -> [Routers -> {"client", "peer", None}]]

(* What OSPF computes: the cost tables and the pairs that reach each other. *)
Topology == [cost : [Routers -> [Routers -> Nat \cup {None}]],
             reach : [Routers -> SUBSET Routers]]

ASSUME ConfigAssumption ==
  /\ None \notin {"client", "peer"}
  /\ Advertisements \subseteq
       [router : Routers, as_path : Seq(Nat), med : Nat]
  /\ SessionChanges \subseteq
       [source : Routers, target : Routers, ty : {"client", "peer", None}]
  /\ \A c \in SessionChanges : c.source # c.target
  /\ RouteMapChanges \subseteq
       [router : Routers, neighbor : Routers, incoming : BOOLEAN, map : RouteMap]
  /\ Topologies \subseteq Topology
  /\ InitialTopology \in Topology
  /\ InitialSessions \in SessionConfig
  /\ \A a \in Routers : InitialSessions[a][a] = None
  /\ \A a, b \in Routers :
       InitialSessions[a][b] = None => InitialSessions[b][a] = None
  /\ Manual \in BOOLEAN
  /\ MaxOps \in Nat

(* OspfDomain::is_reachable holds in both directions or in none. *)
ASSUME ReachSymmetric ==
  \A t \in Topologies \cup {InitialTopology} : \A a, b \in Routers :
    b \in t.reach[a] => a \in t.reach[b]

VARIABLES
  bgp,          \* the BGP process of every router
  chan,         \* chan[a][b]: the events from a to b, oldest first
  bgp_sessions, \* Network::bgp_sessions, the configured sessions
  topology,     \* what OSPF currently says
  refresh,      \* the pairs refresh_bgp_sessions still has to visit
  ops           \* number of operations of the user so far

vars == <<bgp, chan, bgp_sessions, topology, refresh, ops>>

(* The keys of Network::bgp_sessions that hold a session. *)
Configured(config) ==
  {p \in Routers \X Routers : config[p[1]][p[2]] # None}

(* The session a router should run with target: configured and reachable. *)
Effective(config, topo, a, b) ==
  IF config[a][b] = None \/ b \notin topo.reach[a] THEN None
  ELSE NewSessionType(AsOf[a], AsOf[b], config[a][b] = "client")

Quiet == \A a, b \in Routers : chan[a][b] = << >>

(* do_queue_maybe_skip drains the queue at the end of every operation,     *)
(* unless the network is in manual simulation.                             *)
Idle == refresh = {} /\ (Manual \/ Quiet)

InitialProcess(r) ==
  [NewProcess(r) EXCEPT
     !.igp_cost = InitialTopology.cost[r],
     !.sessions = [n \in Routers |->
                     Effective(InitialSessions, InitialTopology, r, n)]]

Init ==
  /\ bgp = [r \in Routers |-> InitialProcess(r)]
  /\ chan = [a \in Routers |-> [b \in Routers |-> << >>]]
  /\ bgp_sessions = InitialSessions
  /\ topology = InitialTopology
  /\ refresh = {}
  /\ ops = 0
-----------------------------------------------------------------------------
(* Router r runs the process p, an edit of its own; events are enqueued.   *)
Enqueue(channels, r, events) ==
  [channels EXCEPT ![r] = [n \in Routers |-> channels[r][n] \o events[n]]]

Run(r, p, force) ==
  /\ bgp' = [bgp EXCEPT ![r] = Update(p, force)]
  /\ chan' = Enqueue(chan, r, Events(p, force))

Operation ==
  /\ Idle
  /\ ops < MaxOps
  /\ ops' = ops + 1

AdvertiseRoute(ad) ==
  /\ Operation
  /\ Run(ad.router,
         Originate(bgp[ad.router], NewRoute(ad.router, ad.as_path, ad.med)),
         FALSE)
  /\ UNCHANGED <<bgp_sessions, topology, refresh>>

WithdrawRoute(r) ==
  /\ Operation
  /\ bgp[r].rib_in[r] # None
  /\ Run(r, Originate(bgp[r], None), FALSE)
  /\ UNCHANGED <<bgp_sessions, topology, refresh>>

SetBgpRouteMap(c) ==
  /\ Operation
  /\ Run(c.router,
         IF c.incoming
         THEN [bgp[c.router] EXCEPT !.route_maps_in[c.neighbor] = c.map]
         ELSE [bgp[c.router] EXCEPT !.route_maps_out[c.neighbor] = c.map],
         TRUE)
  /\ UNCHANGED <<bgp_sessions, topology, refresh>>

(* Faulty: only the direction the user names is overwritten. *)
Faulty_SetBgpSession(c) ==
  /\ Operation
  /\ bgp_sessions' = [bgp_sessions EXCEPT ![c.source][c.target] = c.ty]
  /\ refresh' = Configured(bgp_sessions) \cup Configured(bgp_sessions')
  /\ UNCHANGED <<bgp, chan, topology>>

(* _set_bgp_session also overwrites the reverse direction. *)
SetBgpSession(c) ==
  /\ Operation
  /\ bgp_sessions' = [bgp_sessions EXCEPT
       ![c.source][c.target] = c.ty,
       ![c.target][c.source] = IF c.ty = None THEN None ELSE "peer"]
  /\ refresh' = Configured(bgp_sessions) \cup Configured(bgp_sessions')
  /\ UNCHANGED <<bgp, chan, topology>>

(* Faulty: the sessions are refreshed, but BGP keeps the old IGP costs. *)
Faulty_SetTopology(t) ==
  /\ Operation
  /\ t # topology
  /\ topology' = t
  /\ refresh' = Configured(bgp_sessions)
  /\ UNCHANGED <<bgp, chan, bgp_sessions>>

(* Faulty: the new costs are installed, but no decision is made. *)
Faulty_StaleTopology(t) ==
  /\ Operation
  /\ t # topology
  /\ topology' = t
  /\ bgp' = [r \in Routers |-> [bgp[r] EXCEPT !.igp_cost = t.cost[r]]]
  /\ refresh' = Configured(bgp_sessions)
  /\ UNCHANGED <<chan, bgp_sessions>>

(* A link or weight change under global OSPF: the coordinator installs the *)
(* new tables at all routers, each of which updates its BGP tables.        *)
SetTopology(t) ==
  LET edited(r) == [bgp[r] EXCEPT !.igp_cost = t.cost[r]]
  IN  /\ Operation
      /\ t # topology
      /\ topology' = t
      /\ bgp' = [r \in Routers |-> Update(edited(r), FALSE)]
      /\ chan' = [r \in Routers |-> [n \in Routers |->
                    chan[r][n] \o Events(edited(r), FALSE)[n]]]
      /\ refresh' = Configured(bgp_sessions)
      /\ UNCHANGED bgp_sessions

(* One iteration of refresh_bgp_sessions.  The loop visits the pairs in the *)
(* order of a hash map.  A visit touches only the source's process and its  *)
(* own channels, so the order among sources is fixed here and the order     *)
(* among the targets of a source is free.                                   *)
RefreshSession(a, b) ==
  /\ <<a, b>> \in refresh
  /\ \A p \in refresh : a <= p[1]
  /\ refresh' = refresh \ {<<a, b>>}
  /\ Run(a, EditSession(bgp[a], b, Effective(bgp_sessions, topology, a, b)), TRUE)
  /\ UNCHANGED <<bgp_sessions, topology, ops>>

(* Faulty: the youngest event of a pair overtakes the others. *)
Faulty_Overtake(a, b) ==
  /\ refresh = {}
  /\ chan[a][b] # << >>
  /\ bgp[b].sessions[a] # None
  /\ LET n == Len(chan[a][b])
         edited == Receive(bgp[b], a, chan[a][b][n])
     IN  /\ bgp' = [bgp EXCEPT ![b] = Update(edited, FALSE)]
         /\ chan' = Enqueue([chan EXCEPT ![a][b] = SubSeq(@, 1, n - 1)],
                            b, Events(edited, FALSE))
  /\ UNCHANGED <<bgp_sessions, topology, refresh, ops>>

(* Faulty: an event is handled whether or not its session still runs. *)
Faulty_NoSessionCheck(a, b) ==
  /\ refresh = {}
  /\ chan[a][b] # << >>
  /\ LET edited == Receive(bgp[b], a, Head(chan[a][b]))
     IN  /\ bgp' = [bgp EXCEPT ![b] = Update(edited, FALSE)]
         /\ chan' = Enqueue([chan EXCEPT ![a][b] = Tail(@)],
                            b, Events(edited, FALSE))
  /\ UNCHANGED <<bgp_sessions, topology, refresh, ops>>

(* simulate_step: an event from a router without a session is ignored. *)
HandleEvent(a, b) ==
  /\ refresh = {}
  /\ chan[a][b] # << >>
  /\ LET popped == [chan EXCEPT ![a][b] = Tail(@)]
         edited == Receive(bgp[b], a, Head(chan[a][b]))
     IN  IF bgp[b].sessions[a] = None
         THEN chan' = popped /\ UNCHANGED bgp
         ELSE /\ bgp' = [bgp EXCEPT ![b] = Update(edited, FALSE)]
              /\ chan' = Enqueue(popped, b, Events(edited, FALSE))
  /\ UNCHANGED <<bgp_sessions, topology, refresh, ops>>

(* What the simulator does by itself: finish a refresh, handle an event. *)
Simulate ==
  \/ \E a, b \in Routers : RefreshSession(a, b)
  \/ \E a, b \in Routers : HandleEvent(a, b)

Next ==
  \/ \E ad \in Advertisements : AdvertiseRoute(ad)
  \/ \E r \in Routers : WithdrawRoute(r)
  \/ \E c \in RouteMapChanges : SetBgpRouteMap(c)
  \/ \E c \in SessionChanges : SetBgpSession(c)
  \/ \E t \in Topologies : SetTopology(t)
  \/ Simulate

Spec == Init /\ [][Next]_vars

(* simulate() handles one event after the other until the queue is empty;  *)
(* which event is next is up to the queue, and the user may do nothing.    *)
(* This is WF_vars(Simulate): the action is enabled unless all is quiet.   *)
Fairness == []<>(Quiet /\ refresh = {}) \/ []<><<Simulate>>_vars

FairSpec == Spec /\ Fairness
=============================================================================
