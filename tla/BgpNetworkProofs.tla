-------------------------- MODULE BgpNetworkProofs --------------------------
(***************************************************************************)
(* Theorems about BgpNetwork, for every network and every configuration:   *)
(* first that the state is well-formed and consistent at any time, then    *)
(* what the routers do by themselves, what the converged network is, and   *)
(* how routes were propagated in it (BgpStateView).                        *)
(***************************************************************************)
EXTENDS BgpProperties, WellFoundedInduction, FiniteSetTheorems, TLAPS

Msg == Route \cup {None}

(***************************************************************************)
(* Type lemmas: every phase of the BGP process maps processes to processes.*)
(***************************************************************************)

LEMMA AllowAllType == AllowAll \in RouteMap
  BY DEF AllowAll, RouteMap

(* The decision process selects an entry, or nothing. *)
LEMMA ProcessRibInType ==
  ASSUME NEW p \in Process, NEW n \in Routers, p.rib_in[n] # None
  PROVE  ProcessRibIn(p, n) \in Entry \cup {None}
<1> DEFINE map  == p.route_maps_in[n]
           in   == p.rib_in[n]
           ebgp == in.from_type = "EBgp"
           hop  == Overwrite(map.next_hop, in.route.next_hop)
           cost == p.igp_cost[hop]
<1>1. in \in Received /\ map \in RouteMap
  BY DEF Process
<1>2. in.route \in Route /\ in.from_type \in SessionType
  BY <1>1 DEF Received
<1>3. hop \in Routers
  BY <1>1, <1>2 DEF Route, RouteMap, Overwrite
<1> HIDE DEF hop
<1>4. cost \in Nat \cup {None}
  BY <1>3 DEF Process
<1>5. /\ Overwrite(map.local_pref, in.route.local_pref) \in Nat
      /\ Overwrite(map.med, in.route.med) \in Nat
      /\ Overwrite(map.weight, DefaultWeight) \in Nat
      /\ cost # None => Overwrite(map.igp_cost, cost) \in Nat
  BY <1>1, <1>2, <1>4 DEF Route, RouteMap, Overwrite, DefaultWeight
<1> DEFINE route == [in.route EXCEPT
                       !.next_hop = IF ebgp THEN n ELSE hop,
                       !.local_pref = Overwrite(map.local_pref, @),
                       !.med = Overwrite(map.med, @)]
           paid  == IF ebgp THEN 0 ELSE Overwrite(map.igp_cost, cost)
<1>6. route \in Route
  BY <1>2, <1>3, <1>5 DEF Route
<1>7. CASE ~map.permit \/ cost = None
  BY <1>7 DEF ProcessRibIn, hop
<1>8. CASE ~(~map.permit \/ cost = None)
  <2>1. ProcessRibIn(p, n) =
          [route |-> route, from_type |-> in.from_type, from_id |-> n,
           igp_cost |-> paid, weight |-> Overwrite(map.weight, DefaultWeight)]
    BY <1>8 DEF ProcessRibIn, hop
  <2>2. paid \in Nat
    BY <1>5, <1>8
  <2> HIDE DEF paid, route
  <2> QED
    BY <2>1, <2>2, <1>2, <1>5, <1>6 DEF Entry
<1> QED
  BY <1>7, <1>8

LEMMA SelectedType ==
  ASSUME NEW p \in Process
  PROVE  Selected(p) \in Entry \cup {None}
<1>1. Candidates(p) \subseteq Entry
  BY ProcessRibInType DEF Candidates
<1>2. \A S : BestRoute(S) = None \/ BestRoute(S) \in S
  BY DEF BestRoute, MinMed, MaxPreMed
<1> QED
  BY <1>1, <1>2 DEF Selected

LEMMA DecideType ==
  ASSUME NEW p \in Process
  PROVE  /\ Decide(p) \in Process
         /\ Decide(p) = [p EXCEPT !.rib = Decide(p).rib]
<1>1. [p EXCEPT !.rib = Selected(p)] \in Process
  BY SelectedType DEF Process
<1> QED
  BY <1>1 DEF Decide, Process

LEMMA ProcessRibOutType ==
  ASSUME NEW p \in Process, NEW e \in Entry, NEW n \in Routers
  PROVE  ProcessRibOut(p, e, n) \in Msg
<1> DEFINE map       == p.route_maps_out[n]
           to_ebgp   == p.sessions[n] = "EBgp"
           from_ebgp == e.from_type = "EBgp"
           reflected == ~from_ebgp /\ ~to_ebgp
           as_path   == IF to_ebgp THEN <<AsOf[p.router_id]>> \o e.route.as_path
                        ELSE e.route.as_path
           next_hop  == IF to_ebgp THEN p.router_id
                        ELSE Overwrite(map.next_hop, IF from_ebgp THEN p.router_id
                                                     ELSE e.route.next_hop)
           local_pref == IF to_ebgp THEN DefaultLocalPref
                         ELSE Overwrite(map.local_pref, e.route.local_pref)
           med == Overwrite(map.med, IF to_ebgp /\ e.from_id # p.router_id
                                     THEN DefaultMed ELSE e.route.med)
           originator_id == CASE to_ebgp -> None
                              [] reflected /\ e.route.originator_id = None -> e.from_id
                              [] OTHER -> e.route.originator_id
           cluster_list == CASE to_ebgp -> << >>
                             [] reflected -> Append(e.route.cluster_list, p.router_id)
                             [] OTHER -> e.route.cluster_list
<1>1. map \in RouteMap /\ p.router_id \in Routers
  BY DEF Process
<1>2. e.route \in Route /\ e.from_id \in Routers
  BY DEF Entry
<1>3. as_path \in Seq(Nat)
  <2>1. AsOf[p.router_id] \in Nat
    BY <1>1, RoutersAssumption
  <2>2. e.route.as_path \in Seq(Nat)
    BY <1>2 DEF Route
  <2>3. <<AsOf[p.router_id]>> \in Seq(Nat)
    BY <2>1
  <2> QED
    BY <2>2, <2>3
<1>4. next_hop \in Routers
  BY <1>1, <1>2 DEF Route, RouteMap, Overwrite
<1>5. local_pref \in Nat /\ med \in Nat
  BY <1>1, <1>2 DEF Route, RouteMap, Overwrite, DefaultLocalPref, DefaultMed
<1>6. originator_id \in Routers \cup {None}
  BY <1>2 DEF Route
<1>7. cluster_list \in Seq(Routers)
  <2>1. e.route.cluster_list \in Seq(Routers)
    BY <1>2 DEF Route
  <2> QED
    BY <2>1, <1>1
<1>8. [e.route EXCEPT !.as_path = as_path, !.next_hop = next_hop,
                      !.local_pref = local_pref, !.med = med,
                      !.originator_id = originator_id,
                      !.cluster_list = cluster_list] \in Route
  BY <1>2, <1>3, <1>4, <1>5, <1>6, <1>7 DEF Route
<1> QED
  BY <1>8 DEF ProcessRibOut, Msg

LEMMA ExportType ==
  ASSUME NEW p \in Process, NEW n \in Routers
  PROVE  Export(p, n) \in Msg
<1>1. p.rib \in Entry \cup {None}
  BY DEF Process
<1> QED
  BY <1>1, ProcessRibOutType DEF Export, Msg

(* The dissemination edits RIB_OUT only; it sends an event to a peer if    *)
(* and only if it edits the route for the peer, and the event carries it.  *)
LEMMA DisseminateType ==
  ASSUME NEW p \in Process
  PROVE  /\ Disseminate(p) \in Process
         /\ Disseminate(p) = [p EXCEPT !.rib_out = Disseminate(p).rib_out]
         /\ \A n \in Routers :
              Disseminate(p).rib_out[n] =
                IF n \in Peers(p) THEN Export(p, n) ELSE p.rib_out[n]
<1> DEFINE out == [n \in Routers |->
                     IF n \in Peers(p) THEN Export(p, n) ELSE p.rib_out[n]]
<1>1. out \in [Routers -> Msg]
  BY ExportType DEF Process, Msg
<1>2. Disseminate(p) = [p EXCEPT !.rib_out = out]
  BY DEF Disseminate
<1>3. [p EXCEPT !.rib_out = out] \in Process /\ [p EXCEPT !.rib_out = out].rib_out = out
  BY <1>1 DEF Process, Msg
<1> QED
  BY <1>2, <1>3

(* Phases 2 and 3 leave all but RIB and RIB_OUT alone.  The events are the *)
(* changes of RIB_OUT, and only peers get one.                             *)
LEMMA UpdateFacts ==
  ASSUME NEW p \in Process, NEW force \in BOOLEAN
  PROVE  /\ Update(p, force) \in Process
         /\ Update(p, force).router_id = p.router_id
         /\ Update(p, force).sessions = p.sessions
         /\ Update(p, force).rib_in = p.rib_in
         /\ Update(p, force).igp_cost = p.igp_cost
         /\ Events(p, force) \in [Routers -> Seq(Msg)]
         /\ \A n \in Routers :
              \/ /\ Events(p, force)[n] = << >>
                 /\ Update(p, force).rib_out[n] = p.rib_out[n]
              \/ /\ p.sessions[n] # None
                 /\ Events(p, force)[n] = <<Update(p, force).rib_out[n]>>
<1> DEFINE d == Decide(p)
<1>1. /\ d \in Process
      /\ d = [p EXCEPT !.rib = d.rib]
  BY DecideType
<1>2. /\ d.router_id = p.router_id
      /\ d.sessions = p.sessions
      /\ d.rib_in = p.rib_in
      /\ d.rib_out = p.rib_out
      /\ d.igp_cost = p.igp_cost
  BY <1>1 DEF Process
<1>3. CASE ~(Changed(p) \/ force)
  <2>1. Update(p, force) = p /\ Events(p, force) = [n \in Routers |-> << >>]
    BY <1>3 DEF Update, Events
  <2>2. << >> \in Seq(Msg)
    OBVIOUS
  <2> QED
    BY <2>1, <2>2
<1>4. CASE Changed(p) \/ force
  <2>1. Update(p, force) = Disseminate(d) /\ Events(p, force) = Announcements(d)
    BY <1>4 DEF Update, Events
  <2>2. /\ Disseminate(d) \in Process
        /\ Disseminate(d) = [d EXCEPT !.rib_out = Disseminate(d).rib_out]
        /\ \A n \in Routers :
             Disseminate(d).rib_out[n] =
               IF n \in Peers(d) THEN Export(d, n) ELSE d.rib_out[n]
    BY <1>1, DisseminateType
  <2>3. /\ Disseminate(d).router_id = d.router_id
        /\ Disseminate(d).sessions = d.sessions
        /\ Disseminate(d).rib_in = d.rib_in
        /\ Disseminate(d).igp_cost = d.igp_cost
    BY <2>2, <1>1 DEF Process
  <2>4. \A n \in Routers :
          Announcements(d)[n] = IF n \in Peers(d) /\ Export(d, n) # d.rib_out[n]
                                THEN <<Export(d, n)>> ELSE << >>
    BY DEF Announcements
  <2>5. Announcements(d) \in [Routers -> Seq(Msg)]
    <3>1. \A n \in Routers : Export(d, n) \in Msg
      BY <1>1, ExportType
    <3>2. \A n \in Routers :
            (IF n \in Peers(d) /\ Export(d, n) # d.rib_out[n]
             THEN <<Export(d, n)>> ELSE << >>) \in Seq(Msg)
      <4>1. \A m \in Msg : <<m>> \in Seq(Msg)
        OBVIOUS
      <4>2. << >> \in Seq(Msg)
        OBVIOUS
      <4> HIDE DEF d
      <4> QED
        BY <3>1, <4>1, <4>2
    <3> QED
      BY <3>2 DEF Announcements
  <2>6. ASSUME NEW n \in Routers
        PROVE  \/ /\ Announcements(d)[n] = << >>
                  /\ Disseminate(d).rib_out[n] = p.rib_out[n]
               \/ /\ p.sessions[n] # None
                  /\ Announcements(d)[n] = <<Disseminate(d).rib_out[n]>>
    BY <2>2, <2>4, <1>2 DEF Peers
  <2> QED
    BY <2>1, <2>2, <2>3, <2>5, <2>6, <1>2
<1> QED
  BY <1>3, <1>4

LEMMA ReceiveType ==
  ASSUME NEW p \in Process, NEW from \in Routers, NEW msg \in Msg,
         p.sessions[from] # None
  PROVE  Receive(p, from, msg) \in Process
<1>1. p.sessions[from] \in SessionType
  BY DEF Process
<1>2. (IF msg = None \/ Refused(p.router_id, msg) THEN None
       ELSE [route |-> msg, from_type |-> p.sessions[from]]) \in Received \cup {None}
  BY <1>1 DEF Received, Msg
<1> QED
  BY <1>2 DEF Receive, Process

LEMMA OriginateType ==
  ASSUME NEW p \in Process, NEW route \in Msg
  PROVE  Originate(p, route) \in Process
<1>1. p.router_id \in Routers
  BY DEF Process
<1>2. (IF route = None THEN None
       ELSE [route |-> [route EXCEPT !.next_hop = p.router_id],
             from_type |-> "EBgp"]) \in Received \cup {None}
  BY <1>1 DEF Received, Route, Msg, SessionType
<1> QED
  BY <1>2 DEF Originate, Process

LEMMA EditSessionType ==
  ASSUME NEW p \in Process, NEW target \in Routers,
         NEW type \in SessionType \cup {None}
  PROVE  EditSession(p, target, type) \in Process
<1>1. CASE type = None
  <2>1. [p EXCEPT !.sessions[target] = None] \in Process
    BY DEF Process
  <2>2. [[p EXCEPT !.sessions[target] = None] EXCEPT !.rib_in[target] = None] \in Process
    BY <2>1 DEF Process
  <2>3. [p EXCEPT !.sessions[target] = None,
                  !.rib_in[target] = None,
                  !.rib_out[target] = None] \in Process
    BY <2>2 DEF Process
  <2> QED
    BY <2>3, <1>1 DEF EditSession
<1>2. CASE type # None
  BY <1>2 DEF EditSession, Process
<1> QED
  BY <1>1, <1>2

LEMMA EffectiveType ==
  ASSUME NEW config \in SessionConfig, NEW topo \in Topology,
         NEW a \in Routers, NEW b \in Routers
  PROVE  Effective(config, topo, a, b) \in SessionType \cup {None}
<1>1. AsOf[a] \in Nat /\ AsOf[b] \in Nat
  BY RoutersAssumption
<1>2. \A client \in BOOLEAN : NewSessionType(AsOf[a], AsOf[b], client) \in SessionType
  BY <1>1 DEF NewSessionType, SessionType
<1> QED
  BY <1>2 DEF Effective
-----------------------------------------------------------------------------
Channel == [Routers -> [Routers -> Seq(Msg)]]

LEMMA EnqueueFacts ==
  ASSUME NEW channels \in Channel, NEW r \in Routers,
         NEW events \in [Routers -> Seq(Msg)]
  PROVE  /\ Enqueue(channels, r, events) \in Channel
         /\ \A a, n \in Routers :
              Enqueue(channels, r, events)[a][n] =
                IF a = r THEN channels[a][n] \o events[n] ELSE channels[a][n]
<1>1. \A n \in Routers : channels[r][n] \o events[n] \in Seq(Msg)
  <2>1. \A s, t \in Seq(Msg) : s \o t \in Seq(Msg)
    OBVIOUS
  <2> QED
    BY <2>1 DEF Channel
<1>2. [n \in Routers |-> channels[r][n] \o events[n]] \in [Routers -> Seq(Msg)]
  BY <1>1
<1> QED
  BY <1>2 DEF Enqueue, Channel

LEMMA RunType ==
  ASSUME TypeOK, NEW r \in Routers, NEW p \in Process, NEW force \in BOOLEAN,
         Run(r, p, force)
  PROVE  bgp' \in [Routers -> Process] /\ chan' \in Channel
<1>1. Update(p, force) \in Process /\ Events(p, force) \in [Routers -> Seq(Msg)]
  BY UpdateFacts
<1>2. chan \in Channel /\ bgp \in [Routers -> Process]
  BY DEF TypeOK, Channel, Msg
<1>3. Enqueue(chan, r, Events(p, force)) \in Channel
  BY <1>1, <1>2, EnqueueFacts
<1> QED
  BY <1>1, <1>2, <1>3 DEF Run

LEMMA InitialProcessType ==
  ASSUME NEW r \in Routers
  PROVE  /\ InitialProcess(r) \in Process
         /\ InitialProcess(r).router_id = r
         /\ InitialProcess(r).rib_in = [n \in Routers |-> None]
         /\ InitialProcess(r).rib_out = [n \in Routers |-> None]
         /\ InitialProcess(r).sessions =
              [n \in Routers |-> Effective(InitialSessions, InitialTopology, r, n)]
<1>1. NewProcess(r) \in Process
  BY AllowAllType DEF NewProcess, Process
<1>2. InitialTopology.cost[r] \in [Routers -> Nat \cup {None}]
  BY ConfigAssumption DEF Topology
<1>3. [n \in Routers |-> Effective(InitialSessions, InitialTopology, r, n)]
        \in [Routers -> SessionType \cup {None}]
  BY EffectiveType, ConfigAssumption
<1> DEFINE new == [NewProcess(r) EXCEPT
                     !.igp_cost = InitialTopology.cost[r],
                     !.sessions = [n \in Routers |->
                        Effective(InitialSessions, InitialTopology, r, n)]]
<1>4. new \in Process
  BY <1>1, <1>2, <1>3 DEF Process
<1> QED
  BY <1>4 DEF InitialProcess, NewProcess

LEMMA RouteMapEditType ==
  ASSUME NEW p \in Process, NEW n \in Routers, NEW map \in RouteMap
  PROVE  /\ [p EXCEPT !.route_maps_in[n] = map] \in Process
         /\ [p EXCEPT !.route_maps_out[n] = map] \in Process
  BY DEF Process

LEMMA IgpEditFacts ==
  ASSUME NEW p \in Process, NEW t \in Topology, NEW r \in Routers
  PROVE  /\ [p EXCEPT !.igp_cost = t.cost[r]] \in Process
         /\ [p EXCEPT !.igp_cost = t.cost[r]].router_id = p.router_id
         /\ [p EXCEPT !.igp_cost = t.cost[r]].sessions = p.sessions
         /\ [p EXCEPT !.igp_cost = t.cost[r]].rib_in = p.rib_in
         /\ [p EXCEPT !.igp_cost = t.cost[r]].rib_out = p.rib_out
<1>1. t.cost[r] \in [Routers -> Nat \cup {None}]
  BY DEF Topology
<1> QED
  BY <1>1 DEF Process

LEMMA NewRouteType ==
  ASSUME NEW ad \in Advertisements
  PROVE  /\ ad.router \in Routers
         /\ NewRoute(ad.router, ad.as_path, ad.med) \in Msg
<1>1. ad \in [router : Routers, as_path : Seq(Nat), med : Nat]
  BY ConfigAssumption
<1>2. << >> \in Seq(Routers)
  OBVIOUS
<1> QED
  BY <1>1, <1>2 DEF NewRoute, Route, Msg, DefaultLocalPref
-----------------------------------------------------------------------------
(* Every variable always has its type: no handler and no operation leaves  *)
(* an ill-formed table or puts an ill-formed event in the queue.           *)
LEMMA TypeInit == Init => TypeOK
<1> SUFFICES ASSUME Init PROVE TypeOK
  OBVIOUS
<1>1. bgp \in [Routers -> Process]
  BY InitialProcessType DEF Init
<1>2. chan \in [Routers -> [Routers -> Seq(Msg)]]
  <2>1. << >> \in Seq(Msg)
    OBVIOUS
  <2> QED
    BY <2>1 DEF Init
<1>3. ops \in 0 .. MaxOps
  BY ConfigAssumption DEF Init
<1> QED
  BY <1>1, <1>2, <1>3, ConfigAssumption DEF Init, TypeOK, Msg

LEMMA TypeStep == TypeOK /\ [Next]_vars => TypeOK'
<1> SUFFICES ASSUME TypeOK, [Next]_vars PROVE TypeOK'
  OBVIOUS
<1> USE ConfigAssumption
<1>0. /\ bgp \in [Routers -> Process]
      /\ chan \in Channel
      /\ bgp_sessions \in SessionConfig
      /\ topology \in Topology
  BY DEF TypeOK, Channel, Msg
<1>a. Operation => ops' \in 0 .. MaxOps
  BY DEF Operation, TypeOK
<1>1. ASSUME NEW ad \in Advertisements, AdvertiseRoute(ad)
      PROVE  TypeOK'
  <2>1. ad.router \in Routers /\ NewRoute(ad.router, ad.as_path, ad.med) \in Msg
    BY NewRouteType
  <2>2. Originate(bgp[ad.router], NewRoute(ad.router, ad.as_path, ad.med)) \in Process
    BY <1>0, <2>1, OriginateType
  <2>3. bgp' \in [Routers -> Process] /\ chan' \in Channel
    BY <1>1, <2>1, <2>2, RunType DEF AdvertiseRoute
  <2> QED
    BY <1>1, <1>a, <2>3 DEF AdvertiseRoute, TypeOK, Channel, Msg
<1>2. ASSUME NEW r \in Routers, WithdrawRoute(r)
      PROVE  TypeOK'
  <2>1. Originate(bgp[r], None) \in Process
    BY <1>0, OriginateType DEF Msg
  <2>2. bgp' \in [Routers -> Process] /\ chan' \in Channel
    BY <1>2, <2>1, RunType DEF WithdrawRoute
  <2> QED
    BY <1>2, <1>a, <2>2 DEF WithdrawRoute, TypeOK, Channel, Msg
<1>3. ASSUME NEW c \in RouteMapChanges, SetBgpRouteMap(c)
      PROVE  TypeOK'
  <2>1. c \in [router : Routers, neighbor : Routers, incoming : BOOLEAN, map : RouteMap]
    OBVIOUS
  <2> DEFINE p == IF c.incoming
                  THEN [bgp[c.router] EXCEPT !.route_maps_in[c.neighbor] = c.map]
                  ELSE [bgp[c.router] EXCEPT !.route_maps_out[c.neighbor] = c.map]
  <2>2. p \in Process /\ c.router \in Routers
    BY <1>0, <2>1, RouteMapEditType
  <2>3. Run(c.router, p, TRUE)
    BY <1>3 DEF SetBgpRouteMap
  <2> HIDE DEF p
  <2>4. bgp' \in [Routers -> Process] /\ chan' \in Channel
    BY <2>2, <2>3, RunType
  <2> QED
    BY <1>3, <1>a, <2>4 DEF SetBgpRouteMap, TypeOK, Channel, Msg
<1>4. ASSUME NEW c \in SessionChanges, SetBgpSession(c)
      PROVE  TypeOK'
  <2>1. c \in [source : Routers, target : Routers, ty : {"client", "peer", None}]
    OBVIOUS
  <2>2. bgp_sessions' \in SessionConfig
    BY <1>0, <1>4, <2>1 DEF SetBgpSession, SessionConfig
  <2>3. refresh' \in SUBSET (Routers \X Routers)
    BY <1>4 DEF SetBgpSession, Configured
  <2> QED
    BY <1>4, <1>a, <2>2, <2>3 DEF SetBgpSession, TypeOK
<1>5. ASSUME NEW t \in Topologies, SetTopology(t)
      PROVE  TypeOK'
  <2> DEFINE edited(r) == [bgp[r] EXCEPT !.igp_cost = t.cost[r]]
  <2>1. \A r \in Routers : edited(r) \in Process
    BY <1>0, IgpEditFacts
  <2>2. \A r \in Routers : /\ Update(edited(r), FALSE) \in Process
                           /\ Events(edited(r), FALSE) \in [Routers -> Seq(Msg)]
    BY <2>1, UpdateFacts
  <2>3. bgp' = [r \in Routers |-> Update(edited(r), FALSE)]
    BY <1>5 DEF SetTopology
  <2>4. chan' = [r \in Routers |-> [n \in Routers |->
                   chan[r][n] \o Events(edited(r), FALSE)[n]]]
    BY <1>5 DEF SetTopology
  <2> HIDE DEF edited
  <2>5. \A r, n \in Routers : chan[r][n] \o Events(edited(r), FALSE)[n] \in Seq(Msg)
    <3>1. \A u, v \in Seq(Msg) : u \o v \in Seq(Msg)
      OBVIOUS
    <3> QED
      BY <1>0, <2>2, <3>1 DEF Channel
  <2>6. bgp' \in [Routers -> Process] /\ chan' \in Channel
    BY <2>2, <2>3, <2>4, <2>5 DEF Channel
  <2>7. refresh' \in SUBSET (Routers \X Routers)
    BY <1>5 DEF SetTopology, Configured
  <2>8. topology' \in Topology /\ UNCHANGED bgp_sessions
    BY <1>5 DEF SetTopology
  <2>9. ops' \in 0 .. MaxOps
    BY <1>5, <1>a DEF SetTopology
  <2> QED
    BY <2>6, <2>7, <2>8, <2>9, <1>0 DEF TypeOK, Channel, Msg
<1>6. ASSUME NEW a \in Routers, NEW b \in Routers, RefreshSession(a, b)
      PROVE  TypeOK'
  <2>1. Effective(bgp_sessions, topology, a, b) \in SessionType \cup {None}
    BY <1>0, EffectiveType
  <2>2. EditSession(bgp[a], b, Effective(bgp_sessions, topology, a, b)) \in Process
    BY <1>0, <2>1, EditSessionType
  <2>3. bgp' \in [Routers -> Process] /\ chan' \in Channel
    BY <1>6, <2>2, RunType DEF RefreshSession
  <2> QED
    BY <1>6, <2>3 DEF RefreshSession, TypeOK, Channel, Msg
<1>7. ASSUME NEW a \in Routers, NEW b \in Routers, HandleEvent(a, b)
      PROVE  TypeOK'
  <2> DEFINE popped == [chan EXCEPT ![a][b] = Tail(@)]
             edited == Receive(bgp[b], a, Head(chan[a][b]))
  <2>1. Head(chan[a][b]) \in Msg /\ Tail(chan[a][b]) \in Seq(Msg)
    <3>1. chan[a][b] \in Seq(Msg) /\ chan[a][b] # << >>
      BY <1>0, <1>7 DEF HandleEvent, Channel
    <3> QED
      BY <3>1
  <2>2. popped \in Channel
    BY <1>0, <2>1 DEF Channel
  <2>3. CASE bgp[b].sessions[a] = None
    BY <1>7, <2>2, <2>3 DEF HandleEvent, TypeOK, Channel, Msg
  <2>4. CASE bgp[b].sessions[a] # None
    <3>1. edited \in Process
      BY <1>0, <2>1, <2>4, ReceiveType
    <3>2. /\ bgp' = [bgp EXCEPT ![b] = Update(edited, FALSE)]
          /\ chan' = Enqueue(popped, b, Events(edited, FALSE))
      BY <1>7, <2>4 DEF HandleEvent
    <3> HIDE DEF edited, popped
    <3>3. /\ Update(edited, FALSE) \in Process
          /\ Events(edited, FALSE) \in [Routers -> Seq(Msg)]
      BY <3>1, UpdateFacts
    <3>4. bgp' \in [Routers -> Process] /\ chan' \in Channel
      BY <1>0, <2>2, <3>2, <3>3, EnqueueFacts
    <3> QED
      BY <1>7, <3>4 DEF HandleEvent, TypeOK, Channel, Msg
  <2> QED
    BY <2>3, <2>4
<1>8. CASE UNCHANGED vars
  BY <1>8 DEF vars, TypeOK
<1> QED
  BY <1>1, <1>2, <1>3, <1>4, <1>5, <1>6, <1>7, <1>8 DEF Next, Simulate

THEOREM TypeCorrect == Spec => []TypeOK
<1> QED
  BY TypeInit, TypeStep, PTL DEF Spec
-----------------------------------------------------------------------------
(* Facts about the steps, in terms of the tables that invariants are about.*)

LEMMA EffectiveSymmetric ==
  ASSUME NEW config \in SessionConfig, NEW topo \in Topologies \cup {InitialTopology},
         \A a, b \in Routers : config[a][b] = None => config[b][a] = None,
         NEW a \in Routers, NEW b \in Routers,
         Effective(config, topo, a, b) = None
  PROVE  Effective(config, topo, b, a) = None
<1>1. AsOf[a] \in Nat /\ AsOf[b] \in Nat
  BY RoutersAssumption
<1>2. \A client \in BOOLEAN : NewSessionType(AsOf[a], AsOf[b], client) # None
  BY <1>1, NoneAssumption DEF NewSessionType, SessionType
<1>3. config[a][b] = None \/ b \notin topo.reach[a]
  BY <1>2 DEF Effective
<1>4. config[b][a] = None \/ a \notin topo.reach[b]
  BY <1>3, ReachSymmetric
<1> QED
  BY <1>4 DEF Effective

(* Run, where the queue is not chan but channels: chan less an event. *)
RunFrom(channels, r, p, force) ==
  /\ bgp' = [bgp EXCEPT ![r] = Update(p, force)]
  /\ chan' = Enqueue(channels, r, Events(p, force))

(* Router r runs p, its own process with edited tables. *)
LEMMA RunFacts ==
  ASSUME NEW channels \in Channel, bgp \in [Routers -> Process],
         NEW r \in Routers, NEW p \in Process, NEW force \in BOOLEAN,
         RunFrom(channels, r, p, force)
  PROVE  /\ bgp'[r].router_id = p.router_id
         /\ bgp'[r].sessions = p.sessions
         /\ bgp'[r].rib_in = p.rib_in
         /\ \A n \in Routers :
              \/ /\ chan'[r][n] = channels[r][n]
                 /\ bgp'[r].rib_out[n] = p.rib_out[n]
              \/ /\ p.sessions[n] # None
                 /\ chan'[r][n] = Append(channels[r][n], bgp'[r].rib_out[n])
         /\ \A a \in Routers \ {r} : bgp'[a] = bgp[a]
         /\ \A a \in Routers \ {r}, n \in Routers : chan'[a][n] = channels[a][n]
<1> DEFINE q == Update(p, force)
           events == Events(p, force)
<1>1. /\ q.router_id = p.router_id
      /\ q.sessions = p.sessions
      /\ q.rib_in = p.rib_in
      /\ events \in [Routers -> Seq(Msg)]
      /\ \A n \in Routers : \/ events[n] = << >> /\ q.rib_out[n] = p.rib_out[n]
                            \/ p.sessions[n] # None /\ events[n] = <<q.rib_out[n]>>
  BY UpdateFacts
<1>2. q \in Process
  BY UpdateFacts
<1>3. chan' = Enqueue(channels, r, events)
  BY DEF RunFrom
<1>4. bgp' = [bgp EXCEPT ![r] = q]
  BY DEF RunFrom
<1> HIDE DEF q, events
<1>5. \A a, n \in Routers :
        chan'[a][n] = IF a = r THEN channels[a][n] \o events[n] ELSE channels[a][n]
  <2>1. events \in [Routers -> Seq(Msg)]
    BY <1>1
  <2>2. \A a, n \in Routers :
          Enqueue(channels, r, events)[a][n] =
            IF a = r THEN channels[a][n] \o events[n] ELSE channels[a][n]
    BY <2>1, EnqueueFacts
  <2> QED
    BY <1>3, <2>2
<1>6. bgp'[r] = q /\ \A a \in Routers \ {r} : bgp'[a] = bgp[a]
  BY <1>4
<1>7. ASSUME NEW n \in Routers
      PROVE  \/ /\ chan'[r][n] = channels[r][n]
                /\ q.rib_out[n] = p.rib_out[n]
             \/ /\ p.sessions[n] # None
                /\ chan'[r][n] = Append(channels[r][n], q.rib_out[n])
  <2>1. chan'[r][n] = channels[r][n] \o events[n]
    BY <1>5
  <2>2. channels[r][n] \in Seq(Msg)
    BY DEF Channel
  <2>3. \A s \in Seq(Msg) : s \o << >> = s
    OBVIOUS
  <2>4. \A s \in Seq(Msg), m \in Msg : s \o <<m>> = Append(s, m)
    OBVIOUS
  <2>5. q.rib_out[n] \in Msg
    BY <1>2 DEF Process, Msg
  <2>6. CASE events[n] = << >> /\ q.rib_out[n] = p.rib_out[n]
    BY <2>1, <2>2, <2>3, <2>6
  <2>7. CASE p.sessions[n] # None /\ events[n] = <<q.rib_out[n]>>
    BY <2>1, <2>2, <2>4, <2>5, <2>7
  <2> QED
    BY <1>1, <2>6, <2>7
<1> QED
  BY <1>1, <1>5, <1>6, <1>7

(* A step of the sender or of nobody keeps a session in step. *)
LEMMA InStepPreserved ==
  ASSUME chan \in Channel, bgp' \in [Routers -> Process],
         NEW a \in Routers, NEW b \in Routers,
         InStep(a, b),
         bgp'[b].rib_in[a] = bgp[b].rib_in[a],
         \/ /\ chan'[a][b] = chan[a][b]
            /\ bgp'[a].rib_out[b] = bgp[a].rib_out[b]
         \/ chan'[a][b] = Append(chan[a][b], bgp'[a].rib_out[b])
  PROVE  InStep(a, b)'
<1>1. CASE /\ chan'[a][b] = chan[a][b]
           /\ bgp'[a].rib_out[b] = bgp[a].rib_out[b]
  BY <1>1 DEF InStep, Believes
<1>2. CASE chan'[a][b] = Append(chan[a][b], bgp'[a].rib_out[b])
  <2>1. \A s \in Seq(Msg), m \in Msg : /\ Append(s, m) # << >>
                                      /\ Append(s, m)[Len(Append(s, m))] = m
    OBVIOUS
  <2>2. chan[a][b] \in Seq(Msg) /\ bgp'[a].rib_out[b] \in Msg
    BY SMTT(60) DEF Channel, Process, Msg
  <2>3. chan'[a][b] # << >> /\ Last(chan'[a][b]) = bgp'[a].rib_out[b]
    BY <1>2, <2>1, <2>2 DEF Last
  <2> QED
    BY <2>3 DEF InStep
<1> QED
  BY <1>1, <1>2

(* The edits of the handlers, field by field. *)
LEMMA EditSessionFacts ==
  ASSUME NEW p \in Process, NEW target \in Routers,
         NEW type \in SessionType \cup {None}
  PROVE  /\ EditSession(p, target, type).router_id = p.router_id
         /\ EditSession(p, target, type).sessions = [p.sessions EXCEPT ![target] = type]
         /\ type = None =>
              /\ EditSession(p, target, type).rib_in = [p.rib_in EXCEPT ![target] = None]
              /\ EditSession(p, target, type).rib_out = [p.rib_out EXCEPT ![target] = None]
         /\ type # None =>
              /\ EditSession(p, target, type).rib_in = p.rib_in
              /\ EditSession(p, target, type).rib_out = p.rib_out
<1>1. CASE type = None
  BY <1>1 DEF EditSession, Process
<1>2. CASE type # None
  BY <1>2 DEF EditSession, Process
<1> QED
  BY <1>1, <1>2

LEMMA OriginateFacts ==
  ASSUME NEW p \in Process, NEW route
  PROVE  /\ Originate(p, route).router_id = p.router_id
         /\ Originate(p, route).sessions = p.sessions
         /\ Originate(p, route).rib_out = p.rib_out
         /\ \A n \in Routers \ {p.router_id} :
              Originate(p, route).rib_in[n] = p.rib_in[n]
  BY DEF Originate, Process

LEMMA ReceiveKeeps ==
  ASSUME NEW p \in Process, NEW from \in Routers, NEW msg
  PROVE  /\ Receive(p, from, msg).router_id = p.router_id
         /\ Receive(p, from, msg).sessions = p.sessions
         /\ Receive(p, from, msg).rib_out = p.rib_out
         /\ \A n \in Routers \ {from} :
              Receive(p, from, msg).rib_in[n] = p.rib_in[n]
  BY DEF Receive, Process

LEMMA ReceiveBelieves ==
  ASSUME NEW p \in Process, NEW from \in Routers, NEW msg
  PROVE  Receive(p, from, msg).rib_in[from] =
           IF msg = None \/ Refused(p.router_id, msg) THEN None
           ELSE [route |-> msg, from_type |-> p.sessions[from]]
  BY DEF Receive, Process
-----------------------------------------------------------------------------
(* Sessions.                                                               *)

(* A step that changes no session, and no table of a peer without one.     *)
LEMMA SessionsKept ==
  ASSUME SessionInv, UNCHANGED <<bgp_sessions, topology, refresh>>,
         \A r \in Routers : /\ bgp'[r].router_id = bgp[r].router_id
                           /\ bgp'[r].sessions = bgp[r].sessions,
         \A r, n \in Routers :
           r # n /\ bgp[r].sessions[n] = None =>
             /\ bgp'[r].rib_in[n] = bgp[r].rib_in[n]
             /\ bgp'[r].rib_out[n] = bgp[r].rib_out[n]
  PROVE  SessionInv'
  BY DEF SessionInv, Running

(* A router runs its own process with edited tables, sessions excepted.    *)
LEMMA SessionsKeptByRun ==
  ASSUME TypeOK, SessionInv, UNCHANGED <<bgp_sessions, topology, refresh>>,
         NEW channels \in Channel,
         NEW r \in Routers, NEW p \in Process, NEW force \in BOOLEAN,
         RunFrom(channels, r, p, force),
         p.router_id = r, p.sessions = bgp[r].sessions, p.rib_out = bgp[r].rib_out,
         \A n \in Routers : r # n /\ bgp[r].sessions[n] = None =>
                            p.rib_in[n] = bgp[r].rib_in[n]
  PROVE  SessionInv'
<1>1. bgp \in [Routers -> Process]
  BY DEF TypeOK
<1>2. /\ bgp'[r].router_id = p.router_id
      /\ bgp'[r].sessions = p.sessions
      /\ bgp'[r].rib_in = p.rib_in
      /\ \A n \in Routers :
           \/ /\ chan'[r][n] = channels[r][n]
              /\ bgp'[r].rib_out[n] = p.rib_out[n]
           \/ /\ p.sessions[n] # None
              /\ chan'[r][n] = Append(channels[r][n], bgp'[r].rib_out[n])
      /\ \A a \in Routers \ {r} : bgp'[a] = bgp[a]
  BY <1>1, RunFacts, SMTT(60)
<1>3. bgp[r].router_id = r
  BY DEF SessionInv
<1>4. \A a \in Routers : /\ bgp'[a].router_id = bgp[a].router_id
                        /\ bgp'[a].sessions = bgp[a].sessions
  BY <1>2, <1>3
<1>5. \A a, n \in Routers :
        a # n /\ bgp[a].sessions[n] = None =>
          /\ bgp'[a].rib_in[n] = bgp[a].rib_in[n]
          /\ bgp'[a].rib_out[n] = bgp[a].rib_out[n]
  BY <1>2
<1> QED
  BY <1>4, <1>5, SessionsKept

LEMMA SessionInit == Init => SessionInv
<1> SUFFICES ASSUME Init PROVE SessionInv
  OBVIOUS
<1>1. ASSUME NEW r \in Routers
      PROVE  /\ bgp[r].router_id = r
             /\ \A n \in Routers :
                  /\ bgp[r].sessions[n] = Effective(bgp_sessions, topology, r, n)
                  /\ bgp[r].rib_in[n] = None
                  /\ bgp[r].rib_out[n] = None
  <2>1. /\ bgp[r] = InitialProcess(r)
        /\ bgp_sessions = InitialSessions
        /\ topology = InitialTopology
    BY DEF Init
  <2>2. /\ InitialProcess(r).router_id = r
        /\ InitialProcess(r).rib_in = [n \in Routers |-> None]
        /\ InitialProcess(r).rib_out = [n \in Routers |-> None]
        /\ InitialProcess(r).sessions =
             [n \in Routers |-> Effective(InitialSessions, InitialTopology, r, n)]
    BY InitialProcessType
  <2> QED
    BY <2>1, <2>2
<1>2. /\ \A a \in Routers : bgp_sessions[a][a] = None
      /\ \A a, b \in Routers : bgp_sessions[a][b] = None => bgp_sessions[b][a] = None
  BY ConfigAssumption DEF Init
<1>3. \A a \in Routers : bgp[a].sessions[a] = None
  BY <1>1, <1>2 DEF Effective
<1> QED
  BY <1>1, <1>2, <1>3 DEF Init, SessionInv

LEMMA SessionStep == TypeOK /\ SessionInv /\ [Next]_vars => SessionInv'
<1> SUFFICES ASSUME TypeOK, SessionInv, [Next]_vars PROVE SessionInv'
  OBVIOUS
<1>0. /\ bgp \in [Routers -> Process]
      /\ chan \in Channel
      /\ bgp_sessions \in SessionConfig
      /\ topology \in Topology
  BY DEF TypeOK, Channel, Msg
<1>a. \A r \in Routers : bgp[r].router_id = r /\ bgp[r].sessions[r] = None
  BY DEF SessionInv
<1>1. ASSUME NEW ad \in Advertisements, AdvertiseRoute(ad)
      PROVE  SessionInv'
  <2> DEFINE r == ad.router
             p == Originate(bgp[r], NewRoute(ad.router, ad.as_path, ad.med))
  <2>1. r \in Routers /\ NewRoute(ad.router, ad.as_path, ad.med) \in Msg
    BY NewRouteType
  <2>2. p \in Process
    BY <1>0, <2>1, OriginateType
  <2>3. /\ p.router_id = r
        /\ p.sessions = bgp[r].sessions
        /\ p.rib_out = bgp[r].rib_out
        /\ \A n \in Routers : r # n => p.rib_in[n] = bgp[r].rib_in[n]
    BY <1>0, <1>a, <2>1, OriginateFacts
  <2>4. RunFrom(chan, r, p, FALSE) /\ UNCHANGED <<bgp_sessions, topology, refresh>>
    BY <1>1 DEF AdvertiseRoute, Run, RunFrom
  <2> HIDE DEF r, p
  <2> QED
    BY <1>0, <2>1, <2>2, <2>3, <2>4, SessionsKeptByRun, ZenonT(60)
<1>2. ASSUME NEW r \in Routers, WithdrawRoute(r)
      PROVE  SessionInv'
  <2> DEFINE p == Originate(bgp[r], None)
  <2>1. p \in Process
    BY <1>0, OriginateType DEF Msg
  <2>2. /\ p.router_id = r
        /\ p.sessions = bgp[r].sessions
        /\ p.rib_out = bgp[r].rib_out
        /\ \A n \in Routers : r # n => p.rib_in[n] = bgp[r].rib_in[n]
    BY <1>0, <1>a, OriginateFacts
  <2>3. RunFrom(chan, r, p, FALSE) /\ UNCHANGED <<bgp_sessions, topology, refresh>>
    BY <1>2 DEF WithdrawRoute, Run, RunFrom
  <2> HIDE DEF p
  <2> QED
    BY <1>0, <2>1, <2>2, <2>3, SessionsKeptByRun, ZenonT(60)
<1>3. ASSUME NEW c \in RouteMapChanges, SetBgpRouteMap(c)
      PROVE  SessionInv'
  <2> DEFINE r == c.router
             p == IF c.incoming
                  THEN [bgp[c.router] EXCEPT !.route_maps_in[c.neighbor] = c.map]
                  ELSE [bgp[c.router] EXCEPT !.route_maps_out[c.neighbor] = c.map]
  <2>1. c \in [router : Routers, neighbor : Routers, incoming : BOOLEAN, map : RouteMap]
    BY ConfigAssumption
  <2>2. r \in Routers /\ p \in Process
    BY <1>0, <2>1, RouteMapEditType
  <2>3. /\ p.router_id = r
        /\ p.sessions = bgp[r].sessions
        /\ p.rib_out = bgp[r].rib_out
        /\ p.rib_in = bgp[r].rib_in
    BY <1>0, <1>a, <2>2 DEF Process
  <2>4. RunFrom(chan, r, p, TRUE) /\ UNCHANGED <<bgp_sessions, topology, refresh>>
    BY <1>3 DEF SetBgpRouteMap, Run, RunFrom
  <2> HIDE DEF r, p
  <2> QED
    BY <1>0, <2>2, <2>3, <2>4, SessionsKeptByRun, ZenonT(60)
<1>4. ASSUME NEW c \in SessionChanges, SetBgpSession(c)
      PROVE  SessionInv'
  <2>1. /\ c \in [source : Routers, target : Routers, ty : {"client", "peer", None}]
        /\ c.source # c.target
    BY ConfigAssumption
  <2>2. /\ UNCHANGED <<bgp, topology>>
        /\ refresh = {}
        /\ refresh' = Configured(bgp_sessions) \cup Configured(bgp_sessions')
        /\ bgp_sessions' = [bgp_sessions EXCEPT
             ![c.source][c.target] = c.ty,
             ![c.target][c.source] = IF c.ty = None THEN None ELSE "peer"]
    BY <1>4 DEF SetBgpSession, Operation, Idle
  <2>3. /\ \A a \in Routers : bgp_sessions'[a][a] = None
        /\ \A a, b \in Routers :
             bgp_sessions'[a][b] = None => bgp_sessions'[b][a] = None
    <3>1. \A a, b \in Routers :
            bgp_sessions'[a][b] =
              IF a = c.target /\ b = c.source
              THEN IF c.ty = None THEN None ELSE "peer"
              ELSE IF a = c.source /\ b = c.target THEN c.ty
              ELSE bgp_sessions[a][b]
      BY <1>0, <2>1, <2>2 DEF SessionConfig
    <3>2. c.ty # None => "peer" # None
      BY ConfigAssumption
    <3> QED
      BY <2>1, <3>1, <3>2 DEF SessionInv
  <2>4. \A a, b \in Routers :
          <<a, b>> \notin refresh' =>
            bgp'[a].sessions[b] = Effective(bgp_sessions', topology', a, b)
    <3>1. \A a, b \in Routers :
            <<a, b>> \notin refresh' =>
              bgp_sessions[a][b] = None /\ bgp_sessions'[a][b] = None
      BY <2>2 DEF Configured
    <3> QED
      BY <2>2, <3>1, ZenonT(60) DEF SessionInv, Effective
  <2> QED
    BY <2>2, <2>3, <2>4 DEF SessionInv, Running
<1>5. ASSUME NEW t \in Topologies, SetTopology(t)
      PROVE  SessionInv'
  <2> DEFINE edited(r) == [bgp[r] EXCEPT !.igp_cost = t.cost[r]]
  <2>1. t \in Topology /\ t \in Topologies
    BY ConfigAssumption
  <2>2. /\ topology' = t
        /\ refresh = {}
        /\ refresh' = Configured(bgp_sessions)
        /\ UNCHANGED bgp_sessions
        /\ bgp' = [r \in Routers |-> Update(edited(r), FALSE)]
    BY <1>5 DEF SetTopology, Operation, Idle
  <2>3. ASSUME NEW r \in Routers
        PROVE  /\ bgp'[r].router_id = r
               /\ bgp'[r].sessions = bgp[r].sessions
               /\ bgp'[r].rib_in = bgp[r].rib_in
               /\ \A n \in Routers : bgp[r].sessions[n] = None =>
                                     bgp'[r].rib_out[n] = bgp[r].rib_out[n]
    <3> DEFINE p == edited(r)
    <3>1. /\ p \in Process
          /\ p.router_id = bgp[r].router_id
          /\ p.sessions = bgp[r].sessions
          /\ p.rib_in = bgp[r].rib_in
          /\ p.rib_out = bgp[r].rib_out
      BY <1>0, <2>1, IgpEditFacts
    <3>2. bgp'[r] = Update(p, FALSE)
      BY <2>2
    <3> HIDE DEF p
    <3>3. /\ Update(p, FALSE).router_id = p.router_id
          /\ Update(p, FALSE).sessions = p.sessions
          /\ Update(p, FALSE).rib_in = p.rib_in
          /\ \A n \in Routers :
               \/ /\ Events(p, FALSE)[n] = << >>
                  /\ Update(p, FALSE).rib_out[n] = p.rib_out[n]
               \/ /\ p.sessions[n] # None
                  /\ Events(p, FALSE)[n] = <<Update(p, FALSE).rib_out[n]>>
      BY <3>1, UpdateFacts
    <3> QED
      BY <1>a, <3>1, <3>2, <3>3
  <2>4. \A a, b \in Routers :
          <<a, b>> \notin refresh' =>
            bgp'[a].sessions[b] = Effective(bgp_sessions', topology', a, b)
    <3>1. \A a, b \in Routers : <<a, b>> \notin refresh' => bgp_sessions[a][b] = None
      BY <2>2 DEF Configured
    <3>2. \A a, b \in Routers : bgp[a].sessions[b] = Effective(bgp_sessions, topology, a, b)
      BY <2>2 DEF SessionInv
    <3>3. \A a, b \in Routers : bgp'[a].sessions[b] = bgp[a].sessions[b]
      BY <2>3
    <3>4. bgp_sessions' = bgp_sessions
      BY <2>2
    <3> QED
      BY <3>1, <3>2, <3>3, <3>4 DEF Effective
  <2>5. /\ bgp_sessions' = bgp_sessions
        /\ topology' \in Topologies \cup {InitialTopology}
    BY <2>1, <2>2
  <2>6. \A a, b \in Routers :
          a # b /\ bgp'[a].sessions[b] = None =>
            bgp'[a].rib_in[b] = None /\ bgp'[a].rib_out[b] = None
    BY <2>3 DEF SessionInv, Running
  <2> QED
    BY <1>a, <2>3, <2>4, <2>5, <2>6 DEF SessionInv, Running
<1>6. ASSUME NEW a \in Routers, NEW b \in Routers, RefreshSession(a, b)
      PROVE  SessionInv'
  <2> DEFINE type == Effective(bgp_sessions, topology, a, b)
             p == EditSession(bgp[a], b, type)
  <2>1. type \in SessionType \cup {None}
    BY <1>0, EffectiveType
  <2>2. a = b => type = None
    BY DEF SessionInv, Effective
  <2> HIDE DEF type
  <2>0. bgp[a] \in Process
    BY <1>0
  <2>3. p \in Process
    BY <2>0, <2>1, EditSessionType
  <2>4. /\ p.router_id = bgp[a].router_id
        /\ p.sessions = [bgp[a].sessions EXCEPT ![b] = type]
        /\ type = None =>
             /\ p.rib_in = [bgp[a].rib_in EXCEPT ![b] = None]
             /\ p.rib_out = [bgp[a].rib_out EXCEPT ![b] = None]
        /\ type # None =>
             /\ p.rib_in = bgp[a].rib_in
             /\ p.rib_out = bgp[a].rib_out
    BY <2>0, <2>1, EditSessionFacts
  <2>5. /\ RunFrom(chan, a, p, TRUE)
        /\ refresh' = refresh \ {<<a, b>>}
        /\ UNCHANGED <<bgp_sessions, topology>>
    BY <1>6 DEF RefreshSession, Run, RunFrom, type
  <2> HIDE DEF p
  <2>6. /\ bgp'[a].router_id = p.router_id
        /\ bgp'[a].sessions = p.sessions
        /\ bgp'[a].rib_in = p.rib_in
        /\ \A n \in Routers :
             \/ /\ chan'[a][n] = chan[a][n]
                /\ bgp'[a].rib_out[n] = p.rib_out[n]
             \/ /\ p.sessions[n] # None
                /\ chan'[a][n] = Append(chan[a][n], bgp'[a].rib_out[n])
        /\ \A x \in Routers \ {a} : bgp'[x] = bgp[x]
    BY <1>0, <2>3, <2>5, RunFacts, ZenonT(60)
  <2>8. \A n \in Routers : p.sessions[n] = IF n = b THEN type ELSE bgp[a].sessions[n]
    BY <2>4, <2>0 DEF Process
  <2>9. \A n \in Routers :
          a # n /\ p.sessions[n] = None => p.rib_in[n] = None /\ p.rib_out[n] = None
    BY <2>4, <2>0, <2>8 DEF Process, SessionInv, Running
  <2>10. ASSUME NEW x \in Routers
         PROVE  /\ \A n \in Routers :
                     x # n /\ bgp'[x].sessions[n] = None =>
                       bgp'[x].rib_in[n] = None /\ bgp'[x].rib_out[n] = None
                /\ bgp'[x].sessions[x] = None
                /\ bgp'[x].router_id = x
    <3>1. CASE x = a
      <4>1. bgp'[a].sessions[a] = None
        BY <1>a, <2>2, <2>6, <2>8
      <4>2. bgp'[a].router_id = a
        BY <1>a, <2>4, <2>6
      <4>3. \A n \in Routers :
              a # n /\ bgp'[a].sessions[n] = None =>
                bgp'[a].rib_in[n] = None /\ bgp'[a].rib_out[n] = None
        BY <2>6, <2>9
      <4> QED
        BY <3>1, <4>1, <4>2, <4>3
    <3>2. CASE x # a
      BY <1>a, <2>6, <3>2 DEF SessionInv, Running
    <3> QED
      BY <3>1, <3>2
  <2>11. \A x, n \in Routers :
           <<x, n>> \notin refresh' =>
             bgp'[x].sessions[n] = Effective(bgp_sessions, topology, x, n)
    BY <2>5, <2>6, <2>8 DEF SessionInv, type
  <2> QED
    BY <2>5, <2>10, <2>11 DEF SessionInv, Running
<1>7. ASSUME NEW a \in Routers, NEW b \in Routers, HandleEvent(a, b)
      PROVE  SessionInv'
  <2> DEFINE popped == [chan EXCEPT ![a][b] = Tail(@)]
             p == Receive(bgp[b], a, Head(chan[a][b]))
  <2>0. UNCHANGED <<bgp_sessions, topology, refresh>>
    BY <1>7 DEF HandleEvent
  <2>1. Head(chan[a][b]) \in Msg /\ Tail(chan[a][b]) \in Seq(Msg)
    <3>1. chan[a][b] \in Seq(Msg) /\ chan[a][b] # << >>
      BY <1>0, <1>7 DEF HandleEvent, Channel
    <3> QED
      BY <3>1
  <2>2. popped \in Channel
    BY <1>0, <2>1 DEF Channel
  <2>3. CASE bgp[b].sessions[a] = None
    BY <1>7, <2>0, <2>3 DEF HandleEvent, SessionInv, Running
  <2>4. CASE bgp[b].sessions[a] # None
    <3>1. p \in Process
      BY <1>0, <2>1, <2>4, ReceiveType
    <3>2. /\ p.router_id = b
          /\ p.sessions = bgp[b].sessions
          /\ p.rib_out = bgp[b].rib_out
          /\ \A n \in Routers \ {a} : p.rib_in[n] = bgp[b].rib_in[n]
      <4>1. bgp[b] \in Process
        BY <1>0
      <4>2. \A m : /\ Receive(bgp[b], a, m).router_id = bgp[b].router_id
                   /\ Receive(bgp[b], a, m).sessions = bgp[b].sessions
                   /\ Receive(bgp[b], a, m).rib_out = bgp[b].rib_out
                   /\ \A n \in Routers \ {a} :
                        Receive(bgp[b], a, m).rib_in[n] = bgp[b].rib_in[n]
        BY <4>1, ReceiveKeeps
      <4> QED
        BY <1>a, <4>2
    <3>3. RunFrom(popped, b, p, FALSE)
      BY <1>7, <2>4 DEF HandleEvent, RunFrom
    <3>4. \A n \in Routers : b # n /\ bgp[b].sessions[n] = None =>
                            p.rib_in[n] = bgp[b].rib_in[n]
      BY <2>4, <3>2
    <3> HIDE DEF p, popped
    <3> QED
      BY <2>0, <2>2, <3>1, <3>2, <3>3, <3>4, SessionsKeptByRun, ZenonT(60)
  <2> QED
    BY <2>3, <2>4
<1>8. CASE UNCHANGED vars
  BY <1>8 DEF vars, SessionInv, Running
<1> QED
  BY <1>1, <1>2, <1>3, <1>4, <1>5, <1>6, <1>7, <1>8 DEF Next, Simulate

LEMMA SessionsAreEffective ==
  ASSUME SessionInv, bgp_sessions \in SessionConfig, refresh = {},
         NEW a \in Routers, NEW b \in Routers
  PROVE  /\ Running(a, b) <=> Due(a, b)
         /\ Running(a, b) <=> Running(b, a)
<1>1. \A x, y \in Routers : Running(x, y) <=> Due(x, y)
  BY DEF SessionInv, Running, Due
<1>2. \A x, y \in Routers : ~Due(x, y) => ~Due(y, x)
  BY EffectiveSymmetric DEF SessionInv, Due
<1> QED
  BY <1>1, <1>2

(* No router believes in a session that its peer does not run, whatever    *)
(* the user reconfigures and whatever OSPF says, except in the middle of   *)
(* refresh_bgp_sessions.                                                   *)
THEOREM SessionsStayPaired == Spec => []SessionsPaired
<1>1. TypeOK /\ SessionInv => SessionsPaired
  <2> SUFFICES ASSUME TypeOK, SessionInv, refresh = {},
                      NEW a \in Routers, NEW b \in Routers
               PROVE  /\ Running(a, b) <=> Running(b, a)
                      /\ ~Running(a, b) /\ a # b =>
                           bgp[a].rib_in[b] = None /\ bgp[a].rib_out[b] = None
    BY DEF SessionsPaired
  <2>1. Running(a, b) <=> Running(b, a)
    BY SessionsAreEffective DEF TypeOK
  <2> QED
    BY <2>1 DEF SessionInv
<1> QED
  BY <1>1, TypeInit, TypeStep, SessionInit, SessionStep, PTL DEF Spec
-----------------------------------------------------------------------------
(* Coherence of the tables at the two ends of a session.                   *)

(* While all is quiet, also the pairs without a session are in step.       *)
LEMMA QuietInStep ==
  ASSUME TypeOK, SessionInv, CoherenceInv, Quiet, refresh = {},
         NEW a \in Routers, NEW b \in Routers, a # b
  PROVE  InStep(a, b)
<1>1. Running(a, b) <=> Running(b, a)
  BY SessionsAreEffective DEF TypeOK
<1>2. CASE Running(a, b)
  BY <1>1, <1>2 DEF CoherenceInv
<1>3. CASE ~Running(a, b)
  <2>1. bgp[b].rib_in[a] = None /\ bgp[a].rib_out[b] = None
    BY <1>1, <1>3 DEF SessionInv
  <2>2. chan[a][b] = << >>
    BY DEF Quiet
  <2> QED
    BY <2>1, <2>2 DEF InStep, Believes
<1> QED
  BY <1>2, <1>3

(* The edit of r's process to p and of chan to channels left the pair alone. *)
LeftAlone(channels, r, p, a, b) ==
  /\ channels[a][b] = chan[a][b]
  /\ a = r => p.rib_out[b] = bgp[r].rib_out[b]
  /\ b = r => p.rib_in[a] = bgp[r].rib_in[a]

(* A router that runs its process disturbs no pair its edit left alone. *)
LEMMA RunKeepsInStep ==
  ASSUME TypeOK, TypeOK', NEW channels \in Channel,
         NEW r \in Routers, NEW p \in Process, NEW force \in BOOLEAN,
         RunFrom(channels, r, p, force),
         NEW a \in Routers, NEW b \in Routers,
         InStep(a, b),
         LeftAlone(channels, r, p, a, b)
  PROVE  InStep(a, b)'
<1>1. /\ bgp \in [Routers -> Process]
      /\ chan \in Channel
      /\ bgp' \in [Routers -> Process]
  BY DEF TypeOK, Channel, Msg
<1>2. /\ bgp'[r].router_id = p.router_id
      /\ bgp'[r].sessions = p.sessions
      /\ bgp'[r].rib_in = p.rib_in
      /\ \A n \in Routers :
           \/ /\ chan'[r][n] = channels[r][n]
              /\ bgp'[r].rib_out[n] = p.rib_out[n]
           \/ /\ p.sessions[n] # None
              /\ chan'[r][n] = Append(channels[r][n], bgp'[r].rib_out[n])
      /\ \A x \in Routers \ {r} : bgp'[x] = bgp[x]
      /\ \A x \in Routers \ {r}, n \in Routers : chan'[x][n] = channels[x][n]
  BY <1>1, RunFacts, SMTT(60)
<1>3. bgp'[b].rib_in[a] = bgp[b].rib_in[a]
  BY <1>2 DEF LeftAlone
<1>4. \/ /\ chan'[a][b] = chan[a][b]
         /\ bgp'[a].rib_out[b] = bgp[a].rib_out[b]
      \/ chan'[a][b] = Append(chan[a][b], bgp'[a].rib_out[b])
  <2>1. channels[a][b] = chan[a][b] /\ (a = r => p.rib_out[b] = bgp[r].rib_out[b])
    BY DEF LeftAlone
  <2>2. CASE a = r
    <3>1. \/ chan'[r][b] = channels[r][b] /\ bgp'[r].rib_out[b] = p.rib_out[b]
          \/ chan'[r][b] = Append(channels[r][b], bgp'[r].rib_out[b])
      BY <1>2
    <3> QED
      BY <2>1, <2>2, <3>1
  <2>3. CASE a # r
    <3>1. bgp'[a] = bgp[a] /\ chan'[a][b] = channels[a][b]
      BY <1>2, <2>3
    <3> QED
      BY <2>1, <3>1
  <2> QED
    BY <2>2, <2>3
<1> QED
  BY <1>1, <1>3, <1>4, InStepPreserved

LEMMA CoherenceInit == Init => CoherenceInv
<1> SUFFICES ASSUME Init, NEW a \in Routers, NEW b \in Routers
             PROVE  InStep(a, b)
  BY DEF CoherenceInv
<1>1. chan[a][b] = << >> /\ bgp[a] = InitialProcess(a) /\ bgp[b] = InitialProcess(b)
  BY DEF Init
<1>2. \A r \in Routers : /\ InitialProcess(r).rib_in = [n \in Routers |-> None]
                        /\ InitialProcess(r).rib_out = [n \in Routers |-> None]
  BY InitialProcessType
<1>3. bgp[b].rib_in[a] = None /\ bgp[a].rib_out[b] = None
  BY <1>1, <1>2
<1> QED
  BY <1>1, <1>3 DEF InStep, Believes

(* The operations, which act on a quiet network: every pair is in step.    *)
LEMMA CoherentAfterRun ==
  ASSUME TypeOK, TypeOK', SessionInv, SessionInv', CoherenceInv, Quiet, refresh = {},
         NEW r \in Routers, NEW p \in Process, NEW force \in BOOLEAN,
         RunFrom(chan, r, p, force),
         p.rib_out = bgp[r].rib_out,
         \A n \in Routers : r # n => p.rib_in[n] = bgp[r].rib_in[n],
         UNCHANGED <<bgp_sessions, topology>>
  PROVE  CoherenceInv'
<1>1. chan \in Channel
  BY DEF TypeOK, Channel, Msg
<1>2. \A a, b \in Routers : a # b => InStep(a, b)'
  <2> SUFFICES ASSUME NEW a \in Routers, NEW b \in Routers, a # b
               PROVE  InStep(a, b)'
    OBVIOUS
  <2>1. InStep(a, b)
    BY QuietInStep
  <2>2. LeftAlone(chan, r, p, a, b)
    BY DEF LeftAlone
  <2> QED
    BY <1>1, <2>1, <2>2, RunKeepsInStep
<1>3. \A a \in Routers : ~Due(a, a)' /\ ~Running(a, a)'
  BY DEF SessionInv, Due, Effective, Running
<1> QED
  BY <1>2, <1>3 DEF CoherenceInv

LEMMA LastOfTail ==
  ASSUME NEW s \in Seq(Msg), s # << >>
  PROVE  /\ Head(s) \in Msg
         /\ Tail(s) \in Seq(Msg)
         /\ Tail(s) = << >> => Head(s) = Last(s)
         /\ Tail(s) # << >> => Last(Tail(s)) = Last(s)
<1> DEFINE n == Len(s)
           t == Tail(s)
<1>1. n \in Nat /\ n # 0 /\ Head(s) = s[1] /\ s[1] \in Msg
  OBVIOUS
<1>2. /\ t \in Seq(Msg)
      /\ Len(t) = n - 1
      /\ \A i \in 1 .. n - 1 : t[i] = s[i + 1]
  OBVIOUS
<1>3. t = << >> <=> Len(t) = 0
  <2>1. \A u \in Seq(Msg) : u = << >> <=> Len(u) = 0
    OBVIOUS
  <2> HIDE DEF t
  <2> QED
    BY <1>2, <2>1
<1>4. Last(s) = s[n] /\ Last(t) = t[Len(t)]
  BY DEF Last
<1> HIDE DEF n, t
<1>5. t = << >> => n = 1
  BY <1>1, <1>2, <1>3
<1>6. t # << >> => t[n - 1] = s[n]
  BY <1>1, <1>2, <1>3
<1>7. t = << >> => Head(s) = Last(s)
  BY <1>1, <1>4, <1>5
<1>8. t # << >> => Last(t) = Last(s)
  BY <1>2, <1>4, <1>6
<1> QED
  BY <1>1, <1>2, <1>7, <1>8 DEF t

LEMMA CoherenceStep ==
  ASSUME Manual = FALSE
  PROVE  TypeOK /\ TypeOK' /\ SessionInv /\ SessionInv' /\ CoherenceInv /\ [Next]_vars
           => CoherenceInv'
<1> SUFFICES ASSUME TypeOK, TypeOK', SessionInv, SessionInv', CoherenceInv, [Next]_vars
             PROVE  CoherenceInv'
  OBVIOUS
<1>0. /\ bgp \in [Routers -> Process] /\ bgp' \in [Routers -> Process]
      /\ chan \in Channel /\ chan' \in Channel
      /\ bgp_sessions \in SessionConfig
      /\ topology \in Topology
  BY DEF TypeOK, Channel, Msg
<1>a. \A r \in Routers : bgp[r].router_id = r
  BY DEF SessionInv
<1>b. Operation => Quiet /\ refresh = {}
  BY DEF Operation, Idle
<1>c. \A a \in Routers : /\ ~Due(a, a) /\ ~Running(a, a)
                        /\ ~Due(a, a)' /\ ~Running(a, a)'
  BY DEF SessionInv, Due, Effective, Running
<1>1. ASSUME NEW ad \in Advertisements, AdvertiseRoute(ad)
      PROVE  CoherenceInv'
  <2> DEFINE r == ad.router
             p == Originate(bgp[r], NewRoute(ad.router, ad.as_path, ad.med))
  <2>1. r \in Routers /\ NewRoute(ad.router, ad.as_path, ad.med) \in Msg
    BY NewRouteType
  <2>2. p \in Process
    BY <1>0, <2>1, OriginateType
  <2>3. /\ p.rib_out = bgp[r].rib_out
        /\ \A n \in Routers : r # n => p.rib_in[n] = bgp[r].rib_in[n]
    BY <1>0, <1>a, <2>1, OriginateFacts
  <2>4. /\ RunFrom(chan, r, p, FALSE)
        /\ UNCHANGED <<bgp_sessions, topology>>
        /\ Quiet /\ refresh = {}
    BY <1>1, <1>b DEF AdvertiseRoute, Run, RunFrom
  <2> HIDE DEF r, p
  <2> QED
    BY <2>1, <2>2, <2>3, <2>4, CoherentAfterRun
<1>2. ASSUME NEW r \in Routers, WithdrawRoute(r)
      PROVE  CoherenceInv'
  <2> DEFINE p == Originate(bgp[r], None)
  <2>1. p \in Process
    BY <1>0, OriginateType DEF Msg
  <2>2. /\ p.rib_out = bgp[r].rib_out
        /\ \A n \in Routers : r # n => p.rib_in[n] = bgp[r].rib_in[n]
    BY <1>0, <1>a, OriginateFacts
  <2>3. /\ RunFrom(chan, r, p, FALSE)
        /\ UNCHANGED <<bgp_sessions, topology>>
        /\ Quiet /\ refresh = {}
    BY <1>2, <1>b DEF WithdrawRoute, Run, RunFrom
  <2> HIDE DEF p
  <2> QED
    BY <2>1, <2>2, <2>3, CoherentAfterRun
<1>3. ASSUME NEW c \in RouteMapChanges, SetBgpRouteMap(c)
      PROVE  CoherenceInv'
  <2> DEFINE r == c.router
             p == IF c.incoming
                  THEN [bgp[c.router] EXCEPT !.route_maps_in[c.neighbor] = c.map]
                  ELSE [bgp[c.router] EXCEPT !.route_maps_out[c.neighbor] = c.map]
  <2>1. c \in [router : Routers, neighbor : Routers, incoming : BOOLEAN, map : RouteMap]
    BY ConfigAssumption
  <2>2. r \in Routers /\ p \in Process
    BY <1>0, <2>1, RouteMapEditType
  <2>3. p.rib_out = bgp[r].rib_out /\ p.rib_in = bgp[r].rib_in
    BY <1>0, <2>2 DEF Process
  <2>4. /\ RunFrom(chan, r, p, TRUE)
        /\ UNCHANGED <<bgp_sessions, topology>>
        /\ Quiet /\ refresh = {}
    BY <1>3, <1>b DEF SetBgpRouteMap, Run, RunFrom
  <2> HIDE DEF r, p
  <2> QED
    BY <2>2, <2>3, <2>4, CoherentAfterRun
<1>4. ASSUME NEW c \in SessionChanges, SetBgpSession(c)
      PROVE  CoherenceInv'
  <2>1. /\ UNCHANGED <<bgp, chan>>
        /\ Quiet /\ refresh = {}
    BY <1>4, <1>b DEF SetBgpSession
  <2>2. \A a, b \in Routers : a # b => InStep(a, b)
    BY <2>1, QuietInStep
  <2>3. \A a, b \in Routers : a # b => InStep(a, b)'
    BY <2>1, <2>2 DEF InStep, Believes
  <2> QED
    BY <1>c, <2>3 DEF CoherenceInv
<1>5. ASSUME NEW t \in Topologies, SetTopology(t)
      PROVE  CoherenceInv'
  <2> DEFINE edited(r) == [bgp[r] EXCEPT !.igp_cost = t.cost[r]]
  <2>1. t \in Topology
    BY ConfigAssumption
  <2>2. /\ Quiet /\ refresh = {}
        /\ bgp' = [r \in Routers |-> Update(edited(r), FALSE)]
        /\ chan' = [r \in Routers |-> [n \in Routers |->
                      chan[r][n] \o Events(edited(r), FALSE)[n]]]
    BY <1>5, <1>b DEF SetTopology
  <2>3. ASSUME NEW r \in Routers
        PROVE  /\ bgp'[r].rib_in = bgp[r].rib_in
               /\ \A n \in Routers :
                    \/ /\ chan'[r][n] = chan[r][n]
                       /\ bgp'[r].rib_out[n] = bgp[r].rib_out[n]
                    \/ chan'[r][n] = Append(chan[r][n], bgp'[r].rib_out[n])
    <3> DEFINE p == edited(r)
    <3>1. p \in Process /\ p.rib_in = bgp[r].rib_in /\ p.rib_out = bgp[r].rib_out
      BY <1>0, <2>1, IgpEditFacts
    <3>2. /\ bgp'[r] = Update(p, FALSE)
          /\ \A n \in Routers : chan'[r][n] = chan[r][n] \o Events(p, FALSE)[n]
      BY <2>2
    <3> HIDE DEF p, edited
    <3>3. /\ Update(p, FALSE).rib_in = p.rib_in
          /\ Update(p, FALSE) \in Process
          /\ \A n \in Routers :
               \/ /\ Events(p, FALSE)[n] = << >>
                  /\ Update(p, FALSE).rib_out[n] = p.rib_out[n]
               \/ /\ p.sessions[n] # None
                  /\ Events(p, FALSE)[n] = <<Update(p, FALSE).rib_out[n]>>
      BY <3>1, UpdateFacts
    <3>4. ASSUME NEW n \in Routers
          PROVE  \/ /\ chan'[r][n] = chan[r][n]
                    /\ bgp'[r].rib_out[n] = bgp[r].rib_out[n]
                 \/ chan'[r][n] = Append(chan[r][n], bgp'[r].rib_out[n])
      <4>1. chan[r][n] \in Seq(Msg)
        BY <1>0 DEF Channel
      <4>2. \A s \in Seq(Msg) : s \o << >> = s
        OBVIOUS
      <4>3. \A s \in Seq(Msg), m \in Msg : s \o <<m>> = Append(s, m)
        OBVIOUS
      <4>4. Update(p, FALSE).rib_out[n] \in Msg
        BY <3>3 DEF Process, Msg
      <4>5. CASE /\ Events(p, FALSE)[n] = << >>
                 /\ Update(p, FALSE).rib_out[n] = p.rib_out[n]
        BY <3>1, <3>2, <4>1, <4>2, <4>5
      <4>6. CASE Events(p, FALSE)[n] = <<Update(p, FALSE).rib_out[n]>>
        BY <3>2, <4>1, <4>3, <4>4, <4>6
      <4> QED
        BY <3>3, <4>5, <4>6
    <3> QED
      BY <3>1, <3>2, <3>3, <3>4
  <2> HIDE DEF edited
  <2>4. ASSUME NEW a \in Routers, NEW b \in Routers, a # b
        PROVE  InStep(a, b)'
    <3>1. InStep(a, b)
      BY <2>2, <2>4, QuietInStep
    <3>2. bgp'[b].rib_in[a] = bgp[b].rib_in[a]
      BY <2>3
    <3>3. \/ /\ chan'[a][b] = chan[a][b]
             /\ bgp'[a].rib_out[b] = bgp[a].rib_out[b]
          \/ chan'[a][b] = Append(chan[a][b], bgp'[a].rib_out[b])
      BY <2>3
    <3> QED
      BY <1>0, <3>1, <3>2, <3>3, InStepPreserved
  <2> QED
    BY <1>c, <2>4 DEF CoherenceInv
<1>6. ASSUME NEW a \in Routers, NEW b \in Routers, RefreshSession(a, b)
      PROVE  CoherenceInv'
  <2> DEFINE type == Effective(bgp_sessions, topology, a, b)
             p == EditSession(bgp[a], b, type)
  <2>1. type \in SessionType \cup {None}
    BY <1>0, EffectiveType
  <2>2. type # None <=> Due(a, b)
    BY DEF Due
  <2>3. \A x, y \in Routers : Due(x, y) => Due(y, x)
    <3>0. /\ topology \in Topologies \cup {InitialTopology}
          /\ \A x, y \in Routers : bgp_sessions[x][y] = None => bgp_sessions[y][x] = None
      BY DEF SessionInv
    <3>1. \A x, y \in Routers :
            Effective(bgp_sessions, topology, y, x) = None =>
              Effective(bgp_sessions, topology, x, y) = None
      BY <1>0, <3>0, EffectiveSymmetric
    <3>2. \A x, y \in Routers : ~Due(y, x) => ~Due(x, y)
      BY <3>1 DEF Due
    <3> QED
      BY <3>2
  <2> HIDE DEF type
  <2>4. bgp[a] \in Process
    BY <1>0
  <2>5. p \in Process
    BY <2>4, <2>1, EditSessionType
  <2>6. /\ p.sessions = [bgp[a].sessions EXCEPT ![b] = type]
        /\ type = None =>
             /\ p.rib_in = [bgp[a].rib_in EXCEPT ![b] = None]
             /\ p.rib_out = [bgp[a].rib_out EXCEPT ![b] = None]
        /\ type # None =>
             /\ p.rib_in = bgp[a].rib_in
             /\ p.rib_out = bgp[a].rib_out
    BY <2>4, <2>1, EditSessionFacts
  <2>7. /\ RunFrom(chan, a, p, TRUE)
        /\ UNCHANGED <<bgp_sessions, topology>>
    BY <1>6 DEF RefreshSession, Run, RunFrom, type
  <2> HIDE DEF p
  <2>8. /\ bgp'[a].sessions = p.sessions
        /\ \A x \in Routers \ {a} : bgp'[x] = bgp[x]
    <3>1. /\ bgp'[a].router_id = p.router_id
          /\ bgp'[a].sessions = p.sessions
          /\ bgp'[a].rib_in = p.rib_in
          /\ \A n \in Routers :
               \/ /\ chan'[a][n] = chan[a][n]
                  /\ bgp'[a].rib_out[n] = p.rib_out[n]
               \/ /\ p.sessions[n] # None
                  /\ chan'[a][n] = Append(chan[a][n], bgp'[a].rib_out[n])
          /\ \A x \in Routers \ {a} : bgp'[x] = bgp[x]
      BY <1>0, <2>5, <2>7, RunFacts, ZenonT(60)
    <3> QED
      BY <3>1
  <2>9. \A n \in Routers : p.sessions[n] = IF n = b THEN type ELSE bgp[a].sessions[n]
    BY <2>4, <2>6 DEF Process
  <2>10. \A n \in Routers :
           n # b \/ type # None =>
             p.rib_in[n] = bgp[a].rib_in[n] /\ p.rib_out[n] = bgp[a].rib_out[n]
    BY <2>4, <2>6 DEF Process
  <2>11. \A x, y \in Routers : Due(x, y)' <=> Due(x, y)
    BY <2>7 DEF Due
  <2>12. \A x, y \in Routers : Running(x, y)' =>
           \/ Running(x, y)
           \/ x = a /\ y = b /\ Due(a, b)
    BY <2>2, <2>8, <2>9 DEF Running
  <2>13. ~Due(a, b) => ~Running(a, b)'
    BY <2>2, <2>8, <2>9 DEF Running
  <2>14. ASSUME NEW x \in Routers, NEW y \in Routers,
                Due(x, y)' \/ (Running(x, y)' /\ Running(y, x)')
         PROVE  InStep(x, y)'
    <3>1. Due(x, y) \/ (Running(x, y) /\ Running(y, x))
      BY <2>3, <2>11, <2>12, <2>14
    <3>2. InStep(x, y)
      BY <3>1 DEF CoherenceInv
    <3>3. type = None => <<x, y>> # <<a, b>> /\ <<x, y>> # <<b, a>>
      BY <2>2, <2>3, <2>11, <2>13, <2>14
    <3>4. LeftAlone(chan, a, p, x, y)
      BY <2>10, <3>3 DEF LeftAlone
    <3> QED
      BY <1>0, <2>5, <2>7, <3>2, <3>4, RunKeepsInStep
  <2> QED
    BY <2>14 DEF CoherenceInv
<1>7. ASSUME NEW a \in Routers, NEW b \in Routers, HandleEvent(a, b)
      PROVE  CoherenceInv'
  <2> DEFINE popped == [chan EXCEPT ![a][b] = Tail(@)]
             m == Head(chan[a][b])
             p == Receive(bgp[b], a, m)
  <2>0. /\ refresh = {}
        /\ UNCHANGED <<bgp_sessions, topology, refresh>>
    BY <1>7 DEF HandleEvent
  <2>1. chan[a][b] \in Seq(Msg) /\ chan[a][b] # << >>
    BY <1>0, <1>7 DEF HandleEvent, Channel
  <2>2. /\ m \in Msg
        /\ Tail(chan[a][b]) \in Seq(Msg)
        /\ Tail(chan[a][b]) = << >> => m = Last(chan[a][b])
        /\ Tail(chan[a][b]) # << >> => Last(Tail(chan[a][b])) = Last(chan[a][b])
    BY <2>1, LastOfTail
  <2>3. popped \in Channel
    BY <1>0, <2>2 DEF Channel
  <2>4. /\ popped[a][b] = Tail(chan[a][b])
        /\ \A x, y \in Routers : <<x, y>> # <<a, b>> => popped[x][y] = chan[x][y]
    BY <1>0 DEF Channel
  <2>5. \A x, y \in Routers :
          /\ Running(x, y) <=> Due(x, y)
          /\ Running(x, y) <=> Running(y, x)
    BY <1>0, <2>0, SessionsAreEffective
  <2>6. \A x, y \in Routers :
          /\ Running(x, y)' <=> Due(x, y)'
          /\ Due(x, y)' <=> Due(x, y)
    BY <2>0 DEF SessionInv, Running, Due
  <2>7. CASE bgp[b].sessions[a] = None
    <3>1. chan' = popped /\ UNCHANGED bgp
      BY <1>7, <2>7 DEF HandleEvent
    <3>2. ~Due(a, b)
      BY <2>5, <2>7 DEF Running
    <3> HIDE DEF popped
    <3>3. ASSUME NEW x \in Routers, NEW y \in Routers, Due(x, y)
          PROVE  InStep(x, y)'
      <4>1. InStep(x, y)
        BY <3>3 DEF CoherenceInv
      <4>2. chan'[x][y] = chan[x][y]
        BY <2>4, <3>1, <3>2, <3>3
      <4> QED
        BY <3>1, <4>1, <4>2 DEF InStep, Believes
    <3> QED
      BY <2>6, <3>3 DEF CoherenceInv
  <2>8. CASE bgp[b].sessions[a] # None
    <3>1. bgp[b] \in Process
      BY <1>0
    <3>2. RunFrom(popped, b, p, FALSE)
      BY <1>7, <2>8 DEF HandleEvent, RunFrom
    <3>3. a # b
      BY <1>c, <2>8 DEF Running
    <3> HIDE DEF m, popped
    <3>4. p \in Process
      BY <2>2, <2>8, <3>1, ReceiveType
    <3>5. /\ p.router_id = b
          /\ p.sessions = bgp[b].sessions
          /\ p.rib_out = bgp[b].rib_out
          /\ \A n \in Routers \ {a} : p.rib_in[n] = bgp[b].rib_in[n]
      BY <1>a, <3>1, ReceiveKeeps
    <3>6. p.rib_in[a] = IF m = None \/ Refused(b, m) THEN None
                        ELSE [route |-> m, from_type |-> bgp[b].sessions[a]]
      BY <1>a, <3>1, ReceiveBelieves
    <3> HIDE DEF p
    <3>7. ASSUME NEW x \in Routers, NEW y \in Routers, Due(x, y),
                 <<x, y>> # <<a, b>>
          PROVE  InStep(x, y)'
      <4>1. InStep(x, y)
        BY <3>7 DEF CoherenceInv
      <4>2. LeftAlone(popped, b, p, x, y)
        BY <2>4, <3>5, <3>7 DEF LeftAlone
      <4> QED
        BY <2>3, <3>2, <3>4, <4>1, <4>2, RunKeepsInStep
    <3>8. /\ bgp'[b].rib_in = p.rib_in
          /\ bgp'[a] = bgp[a]
          /\ chan'[a][b] = popped[a][b]
      <4>1. /\ bgp'[b].router_id = p.router_id
            /\ bgp'[b].sessions = p.sessions
            /\ bgp'[b].rib_in = p.rib_in
            /\ \A n \in Routers :
                 \/ /\ chan'[b][n] = popped[b][n]
                    /\ bgp'[b].rib_out[n] = p.rib_out[n]
                 \/ /\ p.sessions[n] # None
                    /\ chan'[b][n] = Append(popped[b][n], bgp'[b].rib_out[n])
            /\ \A x \in Routers \ {b} : bgp'[x] = bgp[x]
            /\ \A x \in Routers \ {b}, n \in Routers : chan'[x][n] = popped[x][n]
        BY <1>0, <2>3, <3>2, <3>4, RunFacts
      <4> QED
        BY <3>3, <4>1
    <3>9. InStep(a, b)'
      <4>1. Last(chan[a][b]) = bgp[a].rib_out[b]
        <5>1. InStep(a, b)
          BY <2>5, <2>8 DEF CoherenceInv, Running
        <5> QED
          BY <2>1, <5>1 DEF InStep
      <4>2. CASE Tail(chan[a][b]) = << >>
        <5>1. m = bgp'[a].rib_out[b] /\ chan'[a][b] = << >>
          BY <2>2, <2>4, <3>8, <4>1, <4>2
        <5>2. CASE m = None \/ Refused(b, m)
          <6>1. bgp'[b].rib_in[a] = None
            BY <3>6, <3>8, <5>2
          <6> QED
            BY <5>1, <5>2, <6>1 DEF InStep, Believes
        <5>3. CASE ~(m = None \/ Refused(b, m))
          <6>1. bgp'[b].rib_in[a] = [route |-> m, from_type |-> bgp[b].sessions[a]]
            BY <3>6, <3>8, <5>3
          <6>2. m \in Route /\ bgp[b].sessions[a] \in SessionType
            BY <2>2, <2>8, <3>1, <5>3 DEF Msg, Process
          <6>3. bgp'[b].rib_in[a] # None
            BY <6>1, <6>2, NoneAssumption DEF Received
          <6> QED
            BY <5>1, <5>3, <6>1, <6>3 DEF InStep, Believes
        <5> QED
          BY <5>2, <5>3
      <4>3. CASE Tail(chan[a][b]) # << >>
        BY <2>2, <2>4, <3>8, <4>1, <4>3 DEF InStep
      <4> QED
        BY <4>2, <4>3
    <3>10. ASSUME NEW x \in Routers, NEW y \in Routers, Due(x, y)
           PROVE  InStep(x, y)'
      BY <3>7, <3>9, <3>10
    <3> QED
      BY <2>6, <3>10 DEF CoherenceInv
  <2> QED
    BY <2>7, <2>8
<1>8. CASE UNCHANGED vars
  BY <1>8 DEF vars, CoherenceInv, InStep, Believes, Due, Running
<1> QED
  BY <1>1, <1>2, <1>3, <1>4, <1>5, <1>6, <1>7, <1>8 DEF Next, Simulate

(* In automatic simulation the tables at the two ends of every running     *)
(* session are in step: what the receiver believes, or will believe after  *)
(* the events under way, is what the sender last sent.                     *)
THEOREM TablesInStep ==
  ASSUME Manual = FALSE
  PROVE  Spec => []ChannelCoherent
<1>1. CoherenceInv => ChannelCoherent
  BY DEF CoherenceInv, ChannelCoherent
<1> QED
  BY <1>1, TypeInit, TypeStep, SessionInit, SessionStep, CoherenceInit,
     CoherenceStep, PTL DEF Spec
-----------------------------------------------------------------------------
(* What the decision process and the export depend on *)
LEMMA SelectedDepends ==
  ASSUME NEW p, NEW q, q.rib_in = p.rib_in, q.route_maps_in = p.route_maps_in,
         q.igp_cost = p.igp_cost
  PROVE  Selected(q) = Selected(p)
<1>1. \A n \in Routers : ProcessRibIn(q, n) = ProcessRibIn(p, n)
  BY DEF ProcessRibIn
<1>2. Candidates(q) = Candidates(p)
  BY <1>1 DEF Candidates
<1> QED
  BY <1>2 DEF Selected

LEMMA ExportDepends ==
  ASSUME NEW p, NEW q, q.rib = p.rib, q.sessions = p.sessions,
         q.route_maps_out = p.route_maps_out, q.router_id = p.router_id
  PROVE  /\ Peers(q) = Peers(p)
         /\ \A n \in Routers : Export(q, n) = Export(p, n)
<1>1. \A n \in Routers : ProcessRibOut(q, p.rib, n) = ProcessRibOut(p, p.rib, n)
  BY DEF ProcessRibOut
<1>2. \A n \in Routers : Export(q, n) = Export(p, n)
  BY <1>1 DEF Export
<1>3. Peers(q) = Peers(p)
  BY DEF Peers
<1> QED
  BY <1>2, <1>3

(* The process has told its peers what it selects. *)
Told(p) == \A n \in Peers(p) : p.rib_out[n] = Export(p, n)

LEMMA ToldIff ==
  ASSUME NEW p \in Process
  PROVE  Disseminate(p) = p <=> Told(p)
<1>1. /\ Disseminate(p) = [p EXCEPT !.rib_out = Disseminate(p).rib_out]
      /\ \A n \in Routers :
           Disseminate(p).rib_out[n] = IF n \in Peers(p) THEN Export(p, n) ELSE p.rib_out[n]
      /\ Disseminate(p) \in Process
  BY DisseminateType
<1>2. ASSUME Told(p)
      PROVE  Disseminate(p) = p
  <2>1. \A n \in Routers : Disseminate(p).rib_out[n] = p.rib_out[n]
    BY <1>1, <1>2 DEF Told
  <2>2. Disseminate(p).rib_out = p.rib_out
    BY <1>1, <2>1 DEF Process
  <2>3. [p EXCEPT !.rib_out = p.rib_out] = p
    BY DEF Process
  <2> QED
    BY <1>1, <2>2, <2>3
<1>3. ASSUME Disseminate(p) = p
      PROVE  Told(p)
  BY <1>1, <1>3 DEF Told, Peers
<1> QED
  BY <1>2, <1>3

LEMMA UpdateKeepsMaps ==
  ASSUME NEW p \in Process, NEW force \in BOOLEAN
  PROVE  /\ Update(p, force).route_maps_in = p.route_maps_in
         /\ Update(p, force).route_maps_out = p.route_maps_out
<1> DEFINE d == Decide(p)
<1>1. d \in Process /\ d = [p EXCEPT !.rib = d.rib]
  BY DecideType
<1>2. d.route_maps_in = p.route_maps_in /\ d.route_maps_out = p.route_maps_out
  BY <1>1 DEF Process
<1>3. Disseminate(d) = [d EXCEPT !.rib_out = Disseminate(d).rib_out]
  BY <1>1, DisseminateType
<1>4. /\ Disseminate(d).route_maps_in = d.route_maps_in
      /\ Disseminate(d).route_maps_out = d.route_maps_out
  BY <1>1, <1>3 DEF Process
<1> QED
  BY <1>2, <1>4 DEF Update

(* A process that updates its tables is settled afterwards, if it was      *)
(* before the edit or is forced to disseminate.                            *)
LEMMA UpdateSettles ==
  ASSUME NEW p \in Process, NEW force \in BOOLEAN, force \/ Told(p)
  PROVE  ~Changed(Update(p, force)) /\ Told(Update(p, force))
<1> DEFINE d == Decide(p)
           q == Disseminate(d)
<1>1. d \in Process /\ d = [p EXCEPT !.rib = d.rib]
  BY DecideType
<1>2. /\ q \in Process
      /\ q = [d EXCEPT !.rib_out = q.rib_out]
      /\ \A n \in Routers :
           q.rib_out[n] = IF n \in Peers(d) THEN Export(d, n) ELSE d.rib_out[n]
  BY <1>1, DisseminateType
<1>3. /\ d.rib_in = p.rib_in /\ d.route_maps_in = p.route_maps_in
      /\ d.igp_cost = p.igp_cost
  BY <1>1 DEF Process
<1>4. /\ q.rib_in = d.rib_in /\ q.route_maps_in = d.route_maps_in
      /\ q.igp_cost = d.igp_cost /\ q.rib = d.rib /\ q.sessions = d.sessions
      /\ q.route_maps_out = d.route_maps_out /\ q.router_id = d.router_id
  BY <1>1, <1>2 DEF Process
<1>5. Selected(q) = Selected(p)
  BY <1>3, <1>4, SelectedDepends
<1>6. ~Changed(q)
  <2>1. CASE Changed(p)
    <3>1. d.rib = Selected(p)
      BY <2>1 DEF Decide, Process
    <3> QED
      BY <1>4, <1>5, <3>1 DEF Changed, SameEntry
  <2>2. CASE ~Changed(p)
    <3>1. d.rib = p.rib
      BY <2>2 DEF Decide
    <3> QED
      BY <1>4, <1>5, <2>2, <3>1 DEF Changed
  <2> QED
    BY <2>1, <2>2
<1>7. Told(q)
  <2>1. Peers(q) = Peers(d) /\ \A n \in Routers : Export(q, n) = Export(d, n)
    BY <1>4, ExportDepends
  <2> QED
    BY <1>2, <2>1 DEF Told, Peers
<1>8. CASE Changed(p) \/ force
  BY <1>6, <1>7, <1>8 DEF Update
<1>9. CASE ~(Changed(p) \/ force)
  BY <1>9 DEF Update
<1> QED
  BY <1>8, <1>9
-----------------------------------------------------------------------------
(* What a step does to router r: it edits the tables of the phases before  *)
(* the decision, and updates the others.                                   *)
Own(in) ==
  in.from_type = "EBgp" /\ in.route.originator_id = None /\ in.route.cluster_list = << >>

Edited(r, p, force) ==
  /\ p \in Process /\ p.router_id = r /\ p.rib = bgp[r].rib
  /\ force \/ /\ p.sessions = bgp[r].sessions /\ p.rib_out = bgp[r].rib_out
              /\ p.route_maps_out = bgp[r].route_maps_out
  /\ \A n \in Routers :
       p.sessions[n] \in {bgp[r].sessions[n], Effective(bgp_sessions, topology, r, n)}
  /\ \A n \in Routers : p.rib_out[n] \in {bgp[r].rib_out[n], None}
  /\ \A n \in Routers :
       \/ p.rib_in[n] \in {bgp[r].rib_in[n], None}
       \/ n = r /\ Own(p.rib_in[n])
       \/ /\ n # r /\ chan[n][r] # << >> /\ Head(chan[n][r]) # None
          /\ ~Refused(r, Head(chan[n][r]))
          /\ p.rib_in[n] = [route |-> Head(chan[n][r]), from_type |-> bgp[r].sessions[n]]
  /\ \/ topology' = topology /\ p.igp_cost = bgp[r].igp_cost
     \/ p.igp_cost = topology'.cost[r]

RouterStep(r) ==
  \/ bgp'[r] = bgp[r] /\ topology' = topology
  \/ \E p \in Process, force \in BOOLEAN : bgp'[r] = Update(p, force) /\ Edited(r, p, force)

(* What is under way was so before, or is in the RIB_OUT of its router. *)
ChannelStep(a, b) ==
  \A i \in DOMAIN chan'[a][b] :
    \/ \E j \in DOMAIN chan[a][b] : chan'[a][b][i] = chan[a][b][j]
    \/ chan'[a][b][i] = bgp'[a].rib_out[b]

LEMMA AppendedOrNot ==
  ASSUME NEW s \in Seq(Msg), NEW t \in Seq(Msg), NEW u \in Seq(Msg), NEW m \in Msg,
         s = t \/ (t # << >> /\ s = Tail(t)), u = s \/ u = Append(s, m)
  PROVE  \A i \in DOMAIN u : (\E j \in DOMAIN t : u[i] = t[j]) \/ u[i] = m
<1>1. \A i \in DOMAIN s : \E j \in DOMAIN t : s[i] = t[j]
  <2>1. CASE s = t
    BY <2>1
  <2>2. CASE t # << >> /\ s = Tail(t)
    <3>1. \A i \in DOMAIN s : i + 1 \in DOMAIN t /\ s[i] = t[i + 1]
      BY <2>2
    <3> QED
      BY <3>1
  <2> QED
    BY <2>1, <2>2
<1>2. \A i \in DOMAIN u : (i \in DOMAIN s /\ u[i] = s[i]) \/ u[i] = m
  <2>1. CASE u = s
    BY <2>1
  <2>2. CASE u = Append(s, m)
    BY <2>2
  <2> QED
    BY <2>1, <2>2
<1> QED
  BY <1>1, <1>2

(* The steps in which one router runs, from the queue or from the oldest   *)
(* event of a pair taken away                                              *)
LEMMA RunSteps ==
  ASSUME TypeOK, TypeOK', topology' = topology,
         NEW channels \in Channel,
         \A a, n \in Routers :
           \/ channels[a][n] = chan[a][n]
           \/ chan[a][n] # << >> /\ channels[a][n] = Tail(chan[a][n]),
         NEW r \in Routers, NEW p \in Process, NEW force \in BOOLEAN,
         RunFrom(channels, r, p, force), Edited(r, p, force)
  PROVE  /\ \A x \in Routers : RouterStep(x)
         /\ \A a, b \in Routers : ChannelStep(a, b)
<1>1. /\ bgp \in [Routers -> Process] /\ bgp' \in [Routers -> Process]
      /\ chan \in Channel /\ chan' \in Channel
  BY DEF TypeOK, Channel, Msg
<1>2. bgp' = [bgp EXCEPT ![r] = Update(p, force)]
  BY DEF RunFrom
<1>3. bgp'[r] = Update(p, force) /\ \A x \in Routers \ {r} : bgp'[x] = bgp[x]
  BY <1>1, <1>2
<1>4. \A x \in Routers : RouterStep(x)
  BY <1>3 DEF RouterStep
<1>5. /\ \A n \in Routers :
           chan'[r][n] = channels[r][n] \/ chan'[r][n] = Append(channels[r][n], bgp'[r].rib_out[n])
      /\ \A a \in Routers \ {r}, n \in Routers : chan'[a][n] = channels[a][n]
  BY <1>1, RunFacts
<1>6. ASSUME NEW a \in Routers, NEW b \in Routers
      PROVE  ChannelStep(a, b)
  <2>1. /\ chan[a][b] \in Seq(Msg) /\ channels[a][b] \in Seq(Msg)
        /\ chan'[a][b] \in Seq(Msg) /\ bgp'[a].rib_out[b] \in Msg
    <3>1. \A c \in Channel : c[a][b] \in Seq(Msg)
      BY ONLY a \in Routers, b \in Routers DEF Channel
    <3>2. \A q \in Process : q.rib_out[b] \in Msg
      BY ONLY b \in Routers DEF Process, Msg
    <3>3. bgp'[a] \in Process
      BY ONLY <1>1, a \in Routers
    <3> QED
      BY <1>1, <3>1, <3>2, <3>3
  <2>2. \/ chan'[a][b] = channels[a][b]
        \/ chan'[a][b] = Append(channels[a][b], bgp'[a].rib_out[b])
    BY <1>5
  <2>3. \/ channels[a][b] = chan[a][b]
        \/ chan[a][b] # << >> /\ channels[a][b] = Tail(chan[a][b])
    OBVIOUS
  <2> DEFINE s == channels[a][b]
             v == chan[a][b]
             u == chan'[a][b]
             m == bgp'[a].rib_out[b]
  <2>4. \A i \in DOMAIN u : (\E j \in DOMAIN v : u[i] = v[j]) \/ u[i] = m
    <3> HIDE DEF s, v, u, m
    <3>1. s \in Seq(Msg) /\ v \in Seq(Msg) /\ u \in Seq(Msg) /\ m \in Msg
      BY <2>1 DEF s, v, u, m
    <3>2. (s = v \/ (v # << >> /\ s = Tail(v))) /\ (u = s \/ u = Append(s, m))
      BY <2>2, <2>3 DEF s, v, u, m
    <3> QED
      BY ONLY <3>1, <3>2, AppendedOrNot
  <2> QED
    BY <2>4 DEF ChannelStep
<1> QED
  BY <1>4, <1>6

LEMMA StepFacts ==
  ASSUME TypeOK, TypeOK', SessionInv, [Next]_vars
  PROVE  /\ \A r \in Routers : RouterStep(r)
         /\ \A a, b \in Routers : ChannelStep(a, b)
<1> USE ConfigAssumption
<1>0. /\ bgp \in [Routers -> Process] /\ bgp' \in [Routers -> Process]
      /\ chan \in Channel /\ chan' \in Channel
      /\ bgp_sessions \in SessionConfig /\ topology \in Topology
      /\ \A r \in Routers : bgp[r].router_id = r /\ bgp[r].sessions[r] = None
  BY DEF TypeOK, Channel, Msg, SessionInv
<1>a. ASSUME bgp' = bgp, topology' = topology,
             \A a, b \in Routers :
               chan'[a][b] = chan[a][b] \/ (chan[a][b] # << >> /\ chan'[a][b] = Tail(chan[a][b]))
      PROVE  /\ \A r \in Routers : RouterStep(r)
             /\ \A a, b \in Routers : ChannelStep(a, b)
  <2>1. \A r \in Routers : RouterStep(r)
    BY <1>a DEF RouterStep
  <2>2. ASSUME NEW a \in Routers, NEW b \in Routers
        PROVE  ChannelStep(a, b)
    <3> DEFINE v == chan[a][b]
               u == chan'[a][b]
               m == bgp'[a].rib_out[b]
    <3>1. u \in Seq(Msg) /\ v \in Seq(Msg) /\ m \in Msg
      <4>1. chan \in Channel /\ chan' \in Channel /\ bgp'[a] \in Process
        BY ONLY <1>0
      <4>2. \A c \in Channel : c[a][b] \in Seq(Msg)
        BY ONLY a \in Routers, b \in Routers DEF Channel
      <4>3. bgp'[a].rib_out[b] \in Msg
        BY ONLY <4>1, a \in Routers, b \in Routers DEF Process, Msg
      <4> QED
        BY ONLY <4>1, <4>2, <4>3
    <3>2. u = v \/ (v # << >> /\ u = Tail(v))
      BY <1>a
    <3>3. \A i \in DOMAIN u : (\E j \in DOMAIN v : u[i] = v[j]) \/ u[i] = m
      <4> HIDE DEF v, u, m
      <4> QED
        BY ONLY <3>1, <3>2, AppendedOrNot
    <3> QED
      BY <3>3 DEF ChannelStep
  <2> QED
    BY <2>1, <2>2
<1>1. ASSUME NEW ad \in Advertisements, AdvertiseRoute(ad)
      PROVE  /\ \A r \in Routers : RouterStep(r)
             /\ \A a, b \in Routers : ChannelStep(a, b)
  <2> DEFINE r == ad.router
             new == NewRoute(ad.router, ad.as_path, ad.med)
             p == Originate(bgp[r], new)
  <2>1. r \in Routers /\ new \in Msg
    BY NewRouteType
  <2>2. new # None /\ new \in Route /\ new.originator_id = None /\ new.cluster_list = << >>
    <3>1. new.originator_id = None /\ new.cluster_list = << >> /\ new.next_hop = r
      BY DEF NewRoute
    <3>2. new # None
      <4>1. ad \in [router : Routers, as_path : Seq(Nat), med : Nat] /\ << >> \in Seq(Routers)
        OBVIOUS
      <4>2. new \in Route
        BY <4>1 DEF NewRoute, Route, DefaultLocalPref
      <4> QED
        BY <4>2, NoneAssumption
    <3> QED
      BY <2>1, <3>1, <3>2 DEF Msg
  <2>3. p \in Process
    BY <1>0, <2>1, OriginateType
  <2> HIDE DEF new
  <2>4. /\ p = [bgp[r] EXCEPT !.rib_in[r] = [route |-> [new EXCEPT !.next_hop = r],
                                           from_type |-> "EBgp"]]
    BY <1>0, <2>1, <2>2 DEF Originate
  <2> HIDE DEF r, p
  <2>5. /\ p.rib_in[r] = [route |-> [new EXCEPT !.next_hop = r], from_type |-> "EBgp"]
        /\ \A n \in Routers \ {r} : p.rib_in[n] = bgp[r].rib_in[n]
        /\ p.router_id = bgp[r].router_id /\ p.rib = bgp[r].rib
        /\ p.sessions = bgp[r].sessions /\ p.rib_out = bgp[r].rib_out
        /\ p.route_maps_out = bgp[r].route_maps_out /\ p.igp_cost = bgp[r].igp_cost
    BY <1>0, <2>1, <2>4 DEF Process
  <2>6. Own(p.rib_in[r])
    <3> DEFINE w == [new EXCEPT !.next_hop = r]
    <3>1. w.originator_id = None /\ w.cluster_list = << >>
      BY <2>2 DEF Route
    <3> HIDE DEF w
    <3>2. p.rib_in[r] = [route |-> w, from_type |-> "EBgp"]
      BY <2>5 DEF w
    <3> QED
      BY <3>1, <3>2 DEF Own
  <2>7. UNCHANGED topology /\ RunFrom(chan, r, p, FALSE)
    BY <1>1 DEF AdvertiseRoute, Run, RunFrom, r, p, new
  <2>8. Edited(r, p, FALSE)
    BY <1>0, <2>1, <2>3, <2>5, <2>6, <2>7 DEF Edited
  <2> QED
    BY <1>0, <2>1, <2>3, <2>7, <2>8, RunSteps
<1>2. ASSUME NEW r \in Routers, WithdrawRoute(r)
      PROVE  /\ \A x \in Routers : RouterStep(x)
             /\ \A a, b \in Routers : ChannelStep(a, b)
  <2> DEFINE p == Originate(bgp[r], None)
  <2>1. p \in Process
    BY <1>0, OriginateType DEF Msg
  <2>2. p = [bgp[r] EXCEPT !.rib_in[r] = None]
    BY <1>0 DEF Originate
  <2> HIDE DEF p
  <2>3. /\ p.rib_in[r] = None
        /\ \A n \in Routers \ {r} : p.rib_in[n] = bgp[r].rib_in[n]
        /\ p.router_id = bgp[r].router_id /\ p.rib = bgp[r].rib
        /\ p.sessions = bgp[r].sessions /\ p.rib_out = bgp[r].rib_out
        /\ p.route_maps_out = bgp[r].route_maps_out /\ p.igp_cost = bgp[r].igp_cost
    BY <1>0, <2>2 DEF Process
  <2>4. UNCHANGED topology /\ RunFrom(chan, r, p, FALSE)
    BY <1>2 DEF WithdrawRoute, Run, RunFrom, p
  <2>5. Edited(r, p, FALSE)
    BY <1>0, <2>1, <2>3, <2>4 DEF Edited
  <2> QED
    BY <1>0, <2>1, <2>4, <2>5, RunSteps
<1>3. ASSUME NEW c \in RouteMapChanges, SetBgpRouteMap(c)
      PROVE  /\ \A r \in Routers : RouterStep(r)
             /\ \A a, b \in Routers : ChannelStep(a, b)
  <2> DEFINE r == c.router
             p == IF c.incoming
                  THEN [bgp[c.router] EXCEPT !.route_maps_in[c.neighbor] = c.map]
                  ELSE [bgp[c.router] EXCEPT !.route_maps_out[c.neighbor] = c.map]
  <2>1. c \in [router : Routers, neighbor : Routers, incoming : BOOLEAN, map : RouteMap]
    OBVIOUS
  <2>2. r \in Routers /\ p \in Process
    BY <1>0, <2>1, RouteMapEditType
  <2>3. /\ p.router_id = bgp[r].router_id /\ p.rib = bgp[r].rib
        /\ p.rib_out = bgp[r].rib_out /\ p.rib_in = bgp[r].rib_in
        /\ p.igp_cost = bgp[r].igp_cost /\ p.sessions = bgp[r].sessions
    BY <1>0, <2>2 DEF Process
  <2>4. UNCHANGED topology /\ RunFrom(chan, r, p, TRUE)
    BY <1>3 DEF SetBgpRouteMap, Run, RunFrom
  <2> HIDE DEF r, p
  <2>5. Edited(r, p, TRUE)
    BY <1>0, <2>2, <2>3, <2>4 DEF Edited
  <2> QED
    BY <1>0, <2>2, <2>4, <2>5, RunSteps
<1>4. ASSUME NEW c \in SessionChanges, SetBgpSession(c)
      PROVE  /\ \A r \in Routers : RouterStep(r)
             /\ \A a, b \in Routers : ChannelStep(a, b)
  <2>1. UNCHANGED <<bgp, chan, topology>>
    BY <1>4 DEF SetBgpSession
  <2>2. bgp' = bgp /\ topology' = topology
    BY <2>1
  <2>3. \A a, b \in Routers :
          chan'[a][b] = chan[a][b] \/ (chan[a][b] # << >> /\ chan'[a][b] = Tail(chan[a][b]))
    BY <2>1
  <2> QED
    BY ONLY <1>a, <2>2, <2>3
<1>5. ASSUME NEW t \in Topologies, SetTopology(t)
      PROVE  /\ \A r \in Routers : RouterStep(r)
             /\ \A a, b \in Routers : ChannelStep(a, b)
  <2> DEFINE edited(r) == [bgp[r] EXCEPT !.igp_cost = t.cost[r]]
  <2>1. /\ topology' = t
        /\ bgp' = [r \in Routers |-> Update(edited(r), FALSE)]
        /\ chan' = [r \in Routers |-> [n \in Routers |->
                      chan[r][n] \o Events(edited(r), FALSE)[n]]]
    BY <1>5 DEF SetTopology
  <2>2. ASSUME NEW r \in Routers
        PROVE  edited(r) \in Process /\ Edited(r, edited(r), FALSE)
    <3> DEFINE p == edited(r)
    <3>1. p \in Process
      BY <1>0, IgpEditFacts
    <3>2. /\ p.router_id = bgp[r].router_id /\ p.rib = bgp[r].rib
          /\ p.rib_out = bgp[r].rib_out /\ p.rib_in = bgp[r].rib_in
          /\ p.sessions = bgp[r].sessions /\ p.route_maps_out = bgp[r].route_maps_out
          /\ p.igp_cost = topology'.cost[r]
      BY <1>0, <2>1 DEF Process
    <3> HIDE DEF p, edited
    <3>3. Edited(r, p, FALSE)
      BY <1>0, <3>1, <3>2 DEF Edited
    <3> QED
      BY <3>1, <3>3 DEF p
  <2> HIDE DEF edited
  <2>3. \A r \in Routers : RouterStep(r)
    BY <2>1, <2>2 DEF RouterStep
  <2>4. ASSUME NEW a \in Routers, NEW b \in Routers
        PROVE  ChannelStep(a, b)
    <3> DEFINE v == chan[a][b]
               u == chan'[a][b]
               m == bgp'[a].rib_out[b]
    <3>1. u \in Seq(Msg) /\ v \in Seq(Msg) /\ m \in Msg
      <4>1. chan \in Channel /\ chan' \in Channel /\ bgp'[a] \in Process
        BY ONLY <1>0
      <4>2. \A c \in Channel : c[a][b] \in Seq(Msg)
        BY ONLY a \in Routers, b \in Routers DEF Channel
      <4>3. bgp'[a].rib_out[b] \in Msg
        BY ONLY <4>1, a \in Routers, b \in Routers DEF Process, Msg
      <4> QED
        BY ONLY <4>1, <4>2, <4>3
    <3>2. u = v \o Events(edited(a), FALSE)[b] /\ m = Update(edited(a), FALSE).rib_out[b]
      BY <2>1
    <3>3. Events(edited(a), FALSE)[b] \in {<< >>, <<m>>}
      <4> DEFINE p == edited(a)
      <4>1. p \in Process
        BY <2>2
      <4> HIDE DEF p
      <4>2. \/ Events(p, FALSE)[b] = << >>
            \/ Events(p, FALSE)[b] = <<Update(p, FALSE).rib_out[b]>>
        BY <4>1, UpdateFacts
      <4> QED
        BY <3>2, <4>2 DEF p
    <3>4. v = v \/ (v # << >> /\ v = Tail(v))
      OBVIOUS
    <3>5. u = v \/ u = Append(v, m)
      <4> HIDE DEF u, v, m
      <4>1. v \o << >> = v /\ v \o <<m>> = Append(v, m)
        BY <3>1
      <4> QED
        BY <3>2, <3>3, <4>1
    <3>6. \A i \in DOMAIN u : (\E j \in DOMAIN v : u[i] = v[j]) \/ u[i] = m
      <4> HIDE DEF v, u, m
      <4> QED
        BY ONLY <3>1, <3>4, <3>5, AppendedOrNot
    <3> QED
      BY <3>6 DEF ChannelStep
  <2> QED
    BY <2>3, <2>4
<1>6. ASSUME NEW a \in Routers, NEW b \in Routers, RefreshSession(a, b)
      PROVE  /\ \A x \in Routers : RouterStep(x)
             /\ \A x, y \in Routers : ChannelStep(x, y)
  <2> DEFINE type == Effective(bgp_sessions, topology, a, b)
             p == EditSession(bgp[a], b, type)
  <2>1. type \in SessionType \cup {None}
    BY <1>0, EffectiveType
  <2>2. p \in Process
    BY <1>0, <2>1, EditSessionType
  <2>3. UNCHANGED topology /\ RunFrom(chan, a, p, TRUE)
    BY <1>6 DEF RefreshSession, Run, RunFrom
  <2> HIDE DEF type
  <2>4. /\ p.router_id = bgp[a].router_id /\ p.rib = bgp[a].rib
        /\ p.igp_cost = bgp[a].igp_cost
        /\ p.sessions[b] = type
        /\ \A n \in Routers \ {b} : p.sessions[n] = bgp[a].sessions[n]
        /\ \A n \in Routers : p.rib_in[n] \in {bgp[a].rib_in[n], None}
        /\ \A n \in Routers : p.rib_out[n] \in {bgp[a].rib_out[n], None}
    BY <1>0, <2>1 DEF EditSession, Process
  <2> HIDE DEF p
  <2>5. Edited(a, p, TRUE)
    BY <1>0, <2>2, <2>3, <2>4 DEF Edited, type
  <2> QED
    BY <1>0, <2>2, <2>3, <2>5, RunSteps
<1>7. ASSUME NEW a \in Routers, NEW b \in Routers, HandleEvent(a, b)
      PROVE  /\ \A x \in Routers : RouterStep(x)
             /\ \A x, y \in Routers : ChannelStep(x, y)
  <2> DEFINE popped == [chan EXCEPT ![a][b] = Tail(@)]
             m == Head(chan[a][b])
             p == Receive(bgp[b], a, m)
  <2>1. /\ chan[a][b] \in Seq(Msg) /\ chan[a][b] # << >> /\ UNCHANGED topology
    BY <1>0, <1>7 DEF HandleEvent, Channel
  <2>2. m \in Msg /\ Tail(chan[a][b]) \in Seq(Msg)
    BY <2>1
  <2>3. /\ popped \in Channel
        /\ \A x, y \in Routers :
             popped[x][y] = chan[x][y] \/ (chan[x][y] # << >> /\ popped[x][y] = Tail(chan[x][y]))
    <3>1. popped \in Channel
      BY <1>0, <2>2 DEF Channel
    <3>2. popped[a][b] = Tail(chan[a][b])
      BY <1>0 DEF Channel
    <3>3. /\ popped[a] = [chan[a] EXCEPT ![b] = Tail(@)]
          /\ \A x \in Routers \ {a} : popped[x] = chan[x]
      BY <1>0 DEF Channel
    <3>4. \A y \in Routers \ {b} : popped[a][y] = chan[a][y]
      BY <1>0, <3>3 DEF Channel
    <3> HIDE DEF popped
    <3> QED
      BY <2>1, <3>1, <3>2, <3>3, <3>4
  <2>4. CASE bgp[b].sessions[a] = None
    <3>1. chan' = popped /\ UNCHANGED bgp
      BY <1>7, <2>4 DEF HandleEvent
    <3> HIDE DEF popped
    <3> QED
      BY <1>a, <2>1, <2>3, <3>1
  <2>5. CASE bgp[b].sessions[a] # None
    <3>1. RunFrom(popped, b, p, FALSE)
      BY <1>7, <2>5 DEF HandleEvent, RunFrom
    <3>2. p \in Process
      BY <1>0, <2>2, <2>5, ReceiveType
    <3> HIDE DEF m, popped
    <3>3. p.rib_in[a] = IF m = None \/ Refused(b, m) THEN None
                        ELSE [route |-> m, from_type |-> bgp[b].sessions[a]]
      BY <1>0, ReceiveBelieves
    <3>4. /\ p.router_id = bgp[b].router_id /\ p.rib = bgp[b].rib
          /\ p.sessions = bgp[b].sessions /\ p.rib_out = bgp[b].rib_out
          /\ p.route_maps_out = bgp[b].route_maps_out /\ p.igp_cost = bgp[b].igp_cost
          /\ \A n \in Routers \ {a} : p.rib_in[n] = bgp[b].rib_in[n]
      BY <1>0 DEF Receive, Process
    <3>5. a # b
      BY <1>0, <2>5
    <3> HIDE DEF p
    <3>6. Edited(b, p, FALSE)
      BY <1>0, <2>1, <3>2, <3>3, <3>4, <3>5 DEF Edited, m
    <3> QED
      BY <1>0, <2>1, <2>3, <3>1, <3>2, <3>6, RunSteps
  <2> QED
    BY <2>4, <2>5
<1>8. CASE UNCHANGED vars
  <2>1. UNCHANGED <<bgp, chan, topology>>
    BY <1>8 DEF vars
  <2>2. bgp' = bgp /\ topology' = topology
    BY <2>1
  <2>3. \A a, b \in Routers :
          chan'[a][b] = chan[a][b] \/ (chan[a][b] # << >> /\ chan'[a][b] = Tail(chan[a][b]))
    BY <2>1
  <2> QED
    BY ONLY <1>a, <2>2, <2>3
<1> QED
  BY <1>1, <1>2, <1>3, <1>4, <1>5, <1>6, <1>7, <1>8 DEF Next, Simulate
-----------------------------------------------------------------------------
(* Every router is settled in every state.                                 *)
SettledInv == \A r \in Routers : ~Changed(bgp[r]) /\ Told(bgp[r])

LEMMA SettledInit == Init => SettledInv
<1> SUFFICES ASSUME Init, NEW r \in Routers
             PROVE  ~Changed(bgp[r]) /\ Told(bgp[r])
  BY DEF SettledInv
<1>1. bgp[r] = InitialProcess(r)
  BY DEF Init
<1>2. InitialProcess(r) \in Process
  BY InitialProcessType
<1>3. bgp[r].rib = None /\ \A n \in Routers : bgp[r].rib_in[n] = None /\ bgp[r].rib_out[n] = None
  BY <1>1 DEF InitialProcess, NewProcess
<1>4. Candidates(bgp[r]) = {}
  BY <1>3 DEF Candidates
<1>5. Selected(bgp[r]) = None
  BY <1>4 DEF Selected, BestRoute, MinMed, MaxPreMed
<1>6. ~Changed(bgp[r])
  BY <1>3, <1>5 DEF Changed, SameEntry
<1>7. Told(bgp[r])
  BY <1>3 DEF Told, Export, Peers
<1> QED
  BY <1>6, <1>7

LEMMA SettledStep ==
  TypeOK /\ TypeOK' /\ SessionInv /\ SettledInv /\ [Next]_vars => SettledInv'
<1> SUFFICES ASSUME TypeOK, TypeOK', SessionInv, SettledInv, [Next]_vars,
                    NEW r \in Routers
             PROVE  (~Changed(bgp[r]) /\ Told(bgp[r]))'
  BY DEF SettledInv
<1>1. bgp[r] \in Process /\ bgp[r].router_id = r
  BY DEF TypeOK, SessionInv
<1>2. RouterStep(r)
  BY StepFacts
<1>3. CASE bgp'[r] = bgp[r]
  <2>1. ~Changed(bgp[r]) /\ Told(bgp[r])
    BY DEF SettledInv
  <2> QED
    BY <1>3, <2>1
<1>4. ASSUME NEW p \in Process, NEW force \in BOOLEAN,
             bgp'[r] = Update(p, force), Edited(r, p, force)
      PROVE  (~Changed(bgp[r]) /\ Told(bgp[r]))'
  <2>1. CASE force
    BY <1>4, <2>1, UpdateSettles
  <2>2. CASE ~force
    <3>1. /\ p.rib = bgp[r].rib /\ p.sessions = bgp[r].sessions
          /\ p.rib_out = bgp[r].rib_out /\ p.router_id = bgp[r].router_id
          /\ p.route_maps_out = bgp[r].route_maps_out
      BY <1>1, <1>4, <2>2 DEF Edited
    <3>2. Peers(p) = Peers(bgp[r]) /\ \A n \in Routers : Export(p, n) = Export(bgp[r], n)
      BY <3>1, ExportDepends
    <3>3. Told(p)
      BY <3>1, <3>2 DEF SettledInv, Told, Peers
    <3>4. ~Changed(Update(p, force)) /\ Told(Update(p, force))
      BY <1>4, <3>3, UpdateSettles
    <3> QED
      BY <1>4, <3>4
  <2> QED
    BY <2>1, <2>2
<1> QED
  BY <1>2, <1>3, <1>4 DEF RouterStep

LEMMA SettledIsSettled == TypeOK /\ SettledInv => LocallySettled
  BY ToldIff DEF TypeOK, SettledInv, LocallySettled

(* A router has nothing left to do by itself, at any time and also when    *)
(* the user acts while events are under way: every operation and every     *)
(* event ends with the decision process and the dissemination it needs.    *)
(* So the forced update_tables of refresh_bgp_sessions changes nothing for *)
(* the sessions that stay as they are.                                     *)
THEOREM RoutersSettle == Spec => []LocallySettled
<1>1. Spec => [](TypeOK /\ SessionInv /\ SettledInv)
  <2>1. Init => TypeOK /\ SessionInv /\ SettledInv
    BY TypeInit, SessionInit, SettledInit
  <2>2. TypeOK /\ SessionInv /\ SettledInv /\ [Next]_vars
          => (TypeOK /\ SessionInv /\ SettledInv)'
    BY TypeStep, SessionStep, SettledStep
  <2> QED
    BY <2>1, <2>2, PTL DEF Spec
<1>2. TypeOK /\ SessionInv /\ SettledInv => LocallySettled
  BY SettledIsSettled
<1> QED
  BY <1>1, <1>2, PTL
-----------------------------------------------------------------------------
(* What becomes of a route on its way through a router                     *)
LEMMA ProcessRibInFacts ==
  ASSUME NEW p \in Process, NEW n \in Routers, p.rib_in[n] # None,
         ProcessRibIn(p, n) # None
  PROVE  /\ ProcessRibIn(p, n).from_id = n
         /\ ProcessRibIn(p, n).from_type = p.rib_in[n].from_type
         /\ ProcessRibIn(p, n).route.as_path = p.rib_in[n].route.as_path
         /\ ProcessRibIn(p, n).route.originator_id = p.rib_in[n].route.originator_id
         /\ ProcessRibIn(p, n).route.cluster_list = p.rib_in[n].route.cluster_list
         /\ ProcessRibIn(p, n).route.next_hop =
              IF p.rib_in[n].from_type = "EBgp" THEN n
              ELSE Overwrite(p.route_maps_in[n].next_hop, p.rib_in[n].route.next_hop)
<1> DEFINE map   == p.route_maps_in[n]
           in    == p.rib_in[n]
           hop   == Overwrite(map.next_hop, in.route.next_hop)
           route == [in.route EXCEPT
                       !.next_hop = IF in.from_type = "EBgp" THEN n ELSE hop,
                       !.local_pref = Overwrite(map.local_pref, @),
                       !.med = Overwrite(map.med, @)]
<1>1. in.route \in Route
  BY DEF Process, Received
<1>2. /\ route.as_path = in.route.as_path
      /\ route.originator_id = in.route.originator_id
      /\ route.cluster_list = in.route.cluster_list
      /\ route.next_hop = IF in.from_type = "EBgp" THEN n ELSE hop
  BY <1>1 DEF Route
<1> HIDE DEF route
<1>3. /\ ProcessRibIn(p, n).route = route /\ ProcessRibIn(p, n).from_id = n
      /\ ProcessRibIn(p, n).from_type = in.from_type
  BY DEF ProcessRibIn, route
<1> QED
  BY <1>2, <1>3

LEMMA SelectedFrom ==
  ASSUME NEW p \in Process, Selected(p) # None
  PROVE  \E n \in Routers : /\ p.rib_in[n] # None
                            /\ ProcessRibIn(p, n) # None
                            /\ Selected(p) = ProcessRibIn(p, n)
<1>1. \A S : BestRoute(S) = None \/ BestRoute(S) \in S
  BY DEF BestRoute, MinMed, MaxPreMed
<1>2. Selected(p) \in Candidates(p)
  BY <1>1 DEF Selected
<1> QED
  BY <1>2 DEF Candidates

(* m is what router p makes of the entry e for its peer n, but for         *)
(* LOCAL_PREF and MED.                                                     *)
ExportOf(p, e, n, m) ==
  LET to_ebgp   == p.sessions[n] = "EBgp"
      from_ebgp == e.from_type = "EBgp"
  IN  /\ m.as_path = IF to_ebgp THEN <<AsOf[p.router_id]>> \o e.route.as_path
                     ELSE e.route.as_path
      /\ m.next_hop =
           IF to_ebgp THEN p.router_id
           ELSE Overwrite(p.route_maps_out[n].next_hop,
                          IF from_ebgp THEN p.router_id ELSE e.route.next_hop)
      /\ to_ebgp => m.originator_id = None /\ m.cluster_list = << >>
      /\ ~to_ebgp /\ from_ebgp =>
           /\ m.originator_id = e.route.originator_id
           /\ m.cluster_list = e.route.cluster_list
      /\ ~to_ebgp /\ ~from_ebgp =>
           /\ m.originator_id = IF e.route.originator_id = None THEN e.from_id
                                ELSE e.route.originator_id
           /\ m.cluster_list = Append(e.route.cluster_list, p.router_id)

LEMMA ProcessRibOutFacts ==
  ASSUME NEW p \in Process, NEW e \in Entry, NEW n \in Routers,
         ProcessRibOut(p, e, n) # None
  PROVE  /\ ProcessRibOut(p, e, n) \in Route
         /\ ExportOf(p, e, n, ProcessRibOut(p, e, n))
<1>1. e.route \in Route
  BY DEF Entry
<1>2. ProcessRibOut(p, e, n) \in Route
  BY ProcessRibOutType DEF Msg
<1> DEFINE map       == p.route_maps_out[n]
           to_ebgp   == p.sessions[n] = "EBgp"
           from_ebgp == e.from_type = "EBgp"
           reflected == ~from_ebgp /\ ~to_ebgp
           as_path   == IF to_ebgp THEN <<AsOf[p.router_id]>> \o e.route.as_path
                        ELSE e.route.as_path
           next_hop  == IF to_ebgp THEN p.router_id
                        ELSE Overwrite(map.next_hop, IF from_ebgp THEN p.router_id
                                                     ELSE e.route.next_hop)
           local_pref == IF to_ebgp THEN DefaultLocalPref
                         ELSE Overwrite(map.local_pref, e.route.local_pref)
           med == Overwrite(map.med, IF to_ebgp /\ e.from_id # p.router_id
                                     THEN DefaultMed ELSE e.route.med)
           originator_id == CASE to_ebgp -> None
                              [] reflected /\ e.route.originator_id = None -> e.from_id
                              [] OTHER -> e.route.originator_id
           cluster_list == CASE to_ebgp -> << >>
                             [] reflected -> Append(e.route.cluster_list, p.router_id)
                             [] OTHER -> e.route.cluster_list
           m == [e.route EXCEPT !.as_path = as_path, !.next_hop = next_hop,
                                !.local_pref = local_pref, !.med = med,
                                !.originator_id = originator_id,
                                !.cluster_list = cluster_list]
<1>3. ProcessRibOut(p, e, n) = m
  BY DEF ProcessRibOut
<1>4. /\ to_ebgp => originator_id = None /\ cluster_list = << >>
      /\ ~to_ebgp /\ from_ebgp =>
           originator_id = e.route.originator_id /\ cluster_list = e.route.cluster_list
      /\ ~to_ebgp /\ ~from_ebgp =>
           /\ originator_id = IF e.route.originator_id = None THEN e.from_id
                              ELSE e.route.originator_id
           /\ cluster_list = Append(e.route.cluster_list, p.router_id)
  OBVIOUS
<1> HIDE DEF originator_id, cluster_list, as_path, next_hop, local_pref, med
<1>5. /\ m.as_path = as_path /\ m.next_hop = next_hop
      /\ m.originator_id = originator_id /\ m.cluster_list = cluster_list
  BY <1>1 DEF Route
<1> HIDE DEF m
<1> QED
  BY <1>2, <1>3, <1>4, <1>5 DEF as_path, next_hop, ExportOf

LEMMA UpdateTables ==
  ASSUME NEW p \in Process, NEW force \in BOOLEAN
  PROVE  /\ Update(p, force).rib \in {p.rib, Selected(p)}
         /\ \A n \in Routers :
              Update(p, force).rib_out[n] \in {p.rib_out[n], Export(Update(p, force), n)}
<1> DEFINE d == Decide(p)
           q == Disseminate(d)
<1>1. d \in Process /\ d = [p EXCEPT !.rib = d.rib] /\ d.rib \in {p.rib, Selected(p)}
  <2>1. d \in Process /\ d = [p EXCEPT !.rib = d.rib]
    BY DecideType
  <2>2. d.rib \in {p.rib, Selected(p)}
    BY DEF Decide, Process
  <2> QED
    BY <2>1, <2>2
<1>2. /\ q \in Process
      /\ q = [d EXCEPT !.rib_out = q.rib_out]
      /\ \A n \in Routers :
           q.rib_out[n] = IF n \in Peers(d) THEN Export(d, n) ELSE d.rib_out[n]
  BY <1>1, DisseminateType
<1>3. d.rib_out = p.rib_out
  BY <1>1 DEF Process
<1>4. /\ q.rib = d.rib /\ q.sessions = d.sessions
      /\ q.route_maps_out = d.route_maps_out /\ q.router_id = d.router_id
  BY <1>1, <1>2 DEF Process
<1>5. \A n \in Routers : Export(q, n) = Export(d, n)
  BY <1>4, ExportDepends
<1>6. CASE Changed(p) \/ force
  <2>1. Update(p, force) = q
    BY <1>6 DEF Update
  <2> HIDE DEF q, d
  <2> QED
    BY <2>1, <1>1, <1>2, <1>3, <1>4, <1>5
<1>7. CASE ~(Changed(p) \/ force)
  BY <1>7 DEF Update
<1> QED
  BY <1>6, <1>7
-----------------------------------------------------------------------------
(* Route reflection                                                        *)

(* A CLUSTER_LIST grows only together with an ORIGINATOR_ID, and repeats   *)
(* neither a reflector nor the originator.                                 *)
Clean(m) ==
  /\ \A i, j \in DOMAIN m.cluster_list : m.cluster_list[i] = m.cluster_list[j] => i = j
  /\ \A i \in DOMAIN m.cluster_list : m.cluster_list[i] # m.originator_id
  /\ m.originator_id = None => m.cluster_list = << >>

(* The routes that p received and the one it selects are clean, and p did  *)
(* not reflect them before; what it learned from itself is its own route.  *)
CleanIn(p) ==
  \A n \in Routers : p.rib_in[n] # None =>
    /\ Clean(p.rib_in[n].route) /\ ~Refused(p.router_id, p.rib_in[n].route)
    /\ n = p.router_id => p.rib_in[n].from_type = "EBgp"

CleanSelected(p) ==
  p.rib # None =>
    /\ Clean(p.rib.route) /\ ~Refused(p.router_id, p.rib.route)
    /\ p.rib.from_id = p.router_id => p.rib.from_type = "EBgp"

CleanOut(p) == \A n \in Routers : p.rib_out[n] # None => Clean(p.rib_out[n])

CleanInv ==
  /\ \A r \in Routers : CleanIn(bgp[r]) /\ CleanSelected(bgp[r]) /\ CleanOut(bgp[r])
  /\ \A a, b \in Routers : \A i \in DOMAIN chan[a][b] :
       chan[a][b][i] # None => Clean(chan[a][b][i])

LEMMA CleanSelection ==
  ASSUME NEW p \in Process, CleanIn(p), Selected(p) # None
  PROVE  /\ Clean(Selected(p).route) /\ ~Refused(p.router_id, Selected(p).route)
         /\ Selected(p).from_id = p.router_id => Selected(p).from_type = "EBgp"
<1>1. PICK n \in Routers : /\ p.rib_in[n] # None
                           /\ ProcessRibIn(p, n) # None
                           /\ Selected(p) = ProcessRibIn(p, n)
  BY SelectedFrom
<1> DEFINE e == Selected(p)
           in == p.rib_in[n]
<1>2. /\ e.from_id = n /\ e.from_type = in.from_type
      /\ e.route.originator_id = in.route.originator_id
      /\ e.route.cluster_list = in.route.cluster_list
  BY <1>1, ProcessRibInFacts
<1> HIDE DEF e
<1>3. /\ Clean(in.route) /\ ~Refused(p.router_id, in.route)
      /\ n = p.router_id => in.from_type = "EBgp"
  BY <1>1 DEF CleanIn
<1>4. Clean(e.route) /\ ~Refused(p.router_id, e.route)
  BY <1>2, <1>3 DEF Clean, Refused
<1> QED
  BY <1>2, <1>3, <1>4 DEF e

LEMMA CleanExport ==
  ASSUME NEW p \in Process, CleanSelected(p), NEW n \in Routers, Export(p, n) # None
  PROVE  Clean(Export(p, n))
<1> DEFINE e == p.rib
           m == Export(p, n)
           r == p.router_id
<1>1. e # None /\ m = ProcessRibOut(p, e, n)
  BY DEF Export
<1>2. e \in Entry /\ r \in Routers
  BY <1>1 DEF Process
<1>3. e.route \in Route /\ e.from_id \in Routers /\ e.from_id # None
  BY <1>2, NoneAssumption DEF Entry
<1>4. ExportOf(p, e, n, m)
  BY <1>1, <1>2, ProcessRibOutFacts
<1>5. /\ Clean(e.route) /\ ~Refused(r, e.route)
      /\ e.from_id = r => e.from_type = "EBgp"
  BY <1>1 DEF CleanSelected
<1> HIDE DEF m, e, r
<1>6. CASE p.sessions[n] = "EBgp"
  BY <1>4, <1>6 DEF Clean, ExportOf, m
<1>7. CASE p.sessions[n] # "EBgp" /\ e.from_type = "EBgp"
  BY <1>4, <1>5, <1>7 DEF Clean, ExportOf, m
<1>8. CASE p.sessions[n] # "EBgp" /\ e.from_type # "EBgp"
  <2> DEFINE l == e.route.cluster_list
             k == m.cluster_list
             o == m.originator_id
  <2>1. l \in Seq(Routers) /\ k = Append(l, r) /\ r \in Routers
    BY <1>2, <1>3, <1>4, <1>8 DEF Route, ExportOf, r
  <2>2. /\ o = IF e.route.originator_id = None THEN e.from_id ELSE e.route.originator_id
        /\ e.from_id # r /\ e.route.originator_id # r
    BY <1>4, <1>5, <1>8 DEF Refused, ExportOf
  <2>3. /\ \A i, j \in DOMAIN l : l[i] = l[j] => i = j
        /\ \A i \in DOMAIN l : l[i] # e.route.originator_id /\ l[i] # r
        /\ e.route.originator_id = None => l = << >>
    BY <1>5 DEF Clean, Refused
  <2>4. o # None /\ o # r /\ \A i \in DOMAIN l : l[i] # o
    BY <1>3, <2>2, <2>3
  <2>5. \A i \in DOMAIN k : (i \in DOMAIN l /\ k[i] = l[i]) \/ (i = Len(l) + 1 /\ k[i] = r)
    <3> HIDE DEF l, k
    <3> QED
      BY <2>1
  <2>6. \A i, j \in DOMAIN k : k[i] = k[j] => i = j
    <3>1. \A i \in DOMAIN l : l[i] # r
      BY <2>3
    <3>2. \A i, j \in DOMAIN l : l[i] = l[j] => i = j
      BY <2>3
    <3> HIDE DEF l, k
    <3> QED
      BY <2>5, <3>1, <3>2
  <2>7. \A i \in DOMAIN k : k[i] # o
    <3> HIDE DEF l, k, o
    <3> QED
      BY <2>4, <2>5
  <2> QED
    BY <2>4, <2>6, <2>7 DEF Clean, m
<1> QED
  BY <1>6, <1>7, <1>8

LEMMA CleanUpdate ==
  ASSUME NEW p \in Process, NEW force \in BOOLEAN,
         CleanIn(p), CleanSelected(p), CleanOut(p)
  PROVE  /\ CleanIn(Update(p, force)) /\ CleanSelected(Update(p, force))
         /\ CleanOut(Update(p, force))
<1> DEFINE q == Update(p, force)
<1>1. /\ q \in Process /\ q.router_id = p.router_id /\ q.rib_in = p.rib_in
      /\ q.rib \in {p.rib, Selected(p)}
      /\ \A n \in Routers : q.rib_out[n] \in {p.rib_out[n], Export(q, n)}
  BY UpdateFacts, UpdateTables
<1> HIDE DEF q
<1>2. CleanIn(q)
  BY <1>1 DEF CleanIn
<1>3. CleanSelected(q)
  BY <1>1, CleanSelection DEF CleanSelected
<1>4. CleanOut(q)
  <2>1. \A n \in Routers : Export(q, n) # None => Clean(Export(q, n))
    BY <1>1, <1>3, CleanExport
  <2> QED
    BY <1>1, <2>1 DEF CleanOut
<1> QED
  BY <1>2, <1>3, <1>4 DEF q

LEMMA CleanInit == Init => CleanInv
<1> SUFFICES ASSUME Init PROVE CleanInv
  OBVIOUS
<1>1. ASSUME NEW r \in Routers
      PROVE  CleanIn(bgp[r]) /\ CleanSelected(bgp[r]) /\ CleanOut(bgp[r])
  <2>1. bgp[r] = InitialProcess(r)
    BY DEF Init
  <2>2. bgp[r].rib = None /\ \A n \in Routers : bgp[r].rib_in[n] = None /\ bgp[r].rib_out[n] = None
    BY <2>1 DEF InitialProcess, NewProcess
  <2> QED
    BY <2>2 DEF CleanIn, CleanSelected, CleanOut
<1>2. \A a, b \in Routers : chan[a][b] = << >>
  BY DEF Init
<1> QED
  BY <1>1, <1>2 DEF CleanInv

LEMMA CleanStep == TypeOK /\ TypeOK' /\ SessionInv /\ CleanInv /\ [Next]_vars => CleanInv'
<1> SUFFICES ASSUME TypeOK, TypeOK', SessionInv, CleanInv, [Next]_vars PROVE CleanInv'
  OBVIOUS
<1>1. /\ \A r \in Routers : RouterStep(r)
      /\ \A a, b \in Routers : ChannelStep(a, b)
  BY StepFacts
<1>2. /\ bgp \in [Routers -> Process] /\ bgp' \in [Routers -> Process]
      /\ \A r \in Routers : bgp[r].router_id = r
      /\ chan \in Channel
  BY DEF TypeOK, SessionInv, Channel, Msg
<1>3. ASSUME NEW r \in Routers
      PROVE  (CleanIn(bgp[r]) /\ CleanSelected(bgp[r]) /\ CleanOut(bgp[r]))'
  <2>1. CleanIn(bgp[r]) /\ CleanSelected(bgp[r]) /\ CleanOut(bgp[r])
    BY DEF CleanInv
  <2>2. CASE bgp'[r] = bgp[r]
    BY <2>1, <2>2
  <2>3. ASSUME NEW p \in Process, NEW force \in BOOLEAN,
               bgp'[r] = Update(p, force), Edited(r, p, force)
        PROVE  (CleanIn(bgp[r]) /\ CleanSelected(bgp[r]) /\ CleanOut(bgp[r]))'
    <3>1. p.router_id = r /\ p.rib = bgp[r].rib /\ bgp[r].router_id = r
      BY <1>2, <2>3 DEF Edited
    <3>2. CleanSelected(p)
      BY <2>1, <3>1 DEF CleanSelected
    <3>3. CleanOut(p)
      BY <2>1, <2>3 DEF CleanOut, Edited
    <3>4. ASSUME NEW n \in Routers, p.rib_in[n] # None
          PROVE  /\ Clean(p.rib_in[n].route) /\ ~Refused(r, p.rib_in[n].route)
                 /\ n = r => p.rib_in[n].from_type = "EBgp"
      <4>1. CASE p.rib_in[n] \in {bgp[r].rib_in[n], None}
        BY <2>1, <3>1, <3>4, <4>1 DEF CleanIn
      <4>2. CASE n = r /\ Own(p.rib_in[n])
        BY <4>2, NoneAssumption DEF Own, Clean, Refused
      <4>3. CASE /\ n # r /\ chan[n][r] # << >> /\ Head(chan[n][r]) # None
                 /\ ~Refused(r, Head(chan[n][r]))
                 /\ p.rib_in[n] = [route |-> Head(chan[n][r]),
                                   from_type |-> bgp[r].sessions[n]]
        <5> DEFINE m == Head(chan[n][r])
        <5>1. p.rib_in[n].route = m /\ ~Refused(r, m) /\ m # None /\ n # r
          BY <4>3
        <5>2. 1 \in DOMAIN chan[n][r] /\ m = chan[n][r][1]
          BY <1>2, <4>3 DEF Channel
        <5>3. Clean(m)
          BY <5>1, <5>2 DEF CleanInv
        <5> QED
          BY <5>1, <5>3
      <4> QED
        BY <2>3, <4>1, <4>2, <4>3 DEF Edited
    <3>5. CleanIn(p)
      BY <3>1, <3>4 DEF CleanIn
    <3>6. CleanIn(Update(p, force)) /\ CleanSelected(Update(p, force)) /\ CleanOut(Update(p, force))
      BY <2>3, <3>2, <3>3, <3>5, CleanUpdate
    <3> QED
      BY <2>3, <3>6
  <2> QED
    BY <1>1, <2>2, <2>3 DEF RouterStep
<1>4. ASSUME NEW a \in Routers, NEW b \in Routers, NEW i \in DOMAIN chan'[a][b],
             chan'[a][b][i] # None
      PROVE  Clean(chan'[a][b][i])
  <2>1. \/ \E j \in DOMAIN chan[a][b] : chan'[a][b][i] = chan[a][b][j]
        \/ chan'[a][b][i] = bgp'[a].rib_out[b]
    BY <1>1 DEF ChannelStep
  <2>2. CleanOut(bgp'[a])
    BY <1>3
  <2> QED
    BY <1>4, <2>1, <2>2 DEF CleanInv, CleanOut
<1> QED
  BY <1>3, <1>4 DEF CleanInv

(* A route never comes back to a router that reflected it, nor to the one  *)
(* that it stems from: the refusal of insert_route, together with the      *)
(* ORIGINATOR_ID and CLUSTER_LIST that every reflector sets, breaks each   *)
(* loop among route reflectors, whatever their sessions and route maps.    *)
THEOREM ReflectionEnds == Spec => []NoReflectionLoop
<1>1. CleanInv => NoReflectionLoop
  <2> SUFFICES ASSUME CleanInv, NEW m \in InUse
               PROVE  Clean(m)
    BY DEF NoReflectionLoop, Clean
  <2>1. m # None
    BY DEF InUse
  <2>2. PICK a \in Routers, b \in Routers :
          m \in {bgp[a].rib_out[b]} \cup {chan[a][b][i] : i \in DOMAIN chan[a][b]}
    BY DEF InUse
  <2> QED
    BY <2>1, <2>2 DEF CleanInv, CleanOut
<1>2. Spec => [](TypeOK /\ SessionInv /\ CleanInv)
  <2>1. Init => TypeOK /\ SessionInv /\ CleanInv
    BY TypeInit, SessionInit, CleanInit
  <2>2. TypeOK /\ SessionInv /\ CleanInv /\ [Next]_vars
          => (TypeOK /\ SessionInv /\ CleanInv)'
    BY TypeStep, SessionStep, CleanStep
  <2> QED
    BY <2>1, <2>2, PTL DEF Spec
<1> QED
  BY <1>1, <1>2, PTL
-----------------------------------------------------------------------------
(* Session types                                                           *)

(* What the user may ever configure router a to see in b, and the types    *)
(* that the session has by that at a.                                      *)
Kinds(a, b) ==
  {ty \in {"client", "peer"} :
     \/ InitialSessions[a][b] = ty
     \/ \E c \in SessionChanges : c.source = a /\ c.target = b /\ c.ty = ty
     \/ \E c \in SessionChanges :
          c.source = b /\ c.target = a /\ c.ty # None /\ ty = "peer"}

Types(a, b) == {NewSessionType(AsOf[a], AsOf[b], ty = "client") : ty \in Kinds(a, b)}

(* The type under which router r keeps what it learned from n              *)
LearnedAs(r, n, type) == IF n = r THEN type = "EBgp" ELSE type \in Types(r, n)

TypedInv ==
  /\ \A a, b \in Routers : bgp_sessions[a][b] \in Kinds(a, b) \cup {None}
  /\ \A r, n \in Routers :
       /\ bgp[r].sessions[n] \in Types(r, n) \cup {None}
       /\ bgp[r].rib_in[n] # None => LearnedAs(r, n, bgp[r].rib_in[n].from_type)
  /\ \A r \in Routers :
       /\ bgp[r].rib # None => LearnedAs(r, bgp[r].rib.from_id, bgp[r].rib.from_type)
       /\ bgp[r].igp_cost = topology.cost[r]

LEMMA TypesAs ==
  ASSUME NEW a \in Routers, NEW b \in Routers, NEW type \in Types(a, b)
  PROVE  type = "EBgp" <=> AsOf[a] # AsOf[b]
  BY DEF Types, NewSessionType

LEMMA EffectiveTyped ==
  ASSUME NEW config, NEW topo, NEW a \in Routers, NEW b \in Routers,
         config[a][b] \in Kinds(a, b) \cup {None}
  PROVE  Effective(config, topo, a, b) \in Types(a, b) \cup {None}
  BY DEF Effective, Types

LEMMA TypedInit == Init => TypedInv
<1> SUFFICES ASSUME Init PROVE TypedInv
  OBVIOUS
<1>1. ASSUME NEW a \in Routers, NEW b \in Routers
      PROVE  InitialSessions[a][b] \in Kinds(a, b) \cup {None}
  BY ConfigAssumption DEF SessionConfig, Kinds
<1>2. ASSUME NEW r \in Routers
      PROVE  /\ bgp[r].igp_cost = topology.cost[r] /\ bgp[r].rib = None
             /\ \A n \in Routers :
                  /\ bgp[r].rib_in[n] = None
                  /\ bgp[r].sessions[n] = Effective(InitialSessions, InitialTopology, r, n)
  <2>1. bgp[r] = InitialProcess(r) /\ topology = InitialTopology
    BY DEF Init
  <2>2. bgp[r].igp_cost = topology.cost[r] /\ bgp[r].rib = None
    BY <2>1 DEF InitialProcess, NewProcess
  <2>3. /\ bgp[r].rib_in = [n \in Routers |-> None]
        /\ bgp[r].sessions = [n \in Routers |->
                                Effective(InitialSessions, InitialTopology, r, n)]
    BY <2>1, InitialProcessType
  <2> QED
    BY <2>2, <2>3
<1>3. \A r, n \in Routers : bgp[r].sessions[n] \in Types(r, n) \cup {None}
  BY <1>1, <1>2, EffectiveTyped
<1>4. bgp_sessions = InitialSessions
  BY DEF Init
<1> QED
  BY <1>1, <1>2, <1>3, <1>4 DEF TypedInv

LEMMA ConfigStep ==
  ASSUME TypeOK, TypedInv, [Next]_vars, NEW a \in Routers, NEW b \in Routers
  PROVE  bgp_sessions'[a][b] \in Kinds(a, b) \cup {None}
<1>1. bgp_sessions \in SessionConfig
  BY DEF TypeOK
<1>2. ASSUME NEW c \in SessionChanges, SetBgpSession(c)
      PROVE  bgp_sessions'[a][b] \in Kinds(a, b) \cup {None}
  <2> DEFINE back == IF c.ty = None THEN None ELSE "peer"
  <2>1. /\ c.source \in Routers /\ c.target \in Routers /\ c.source # c.target
        /\ c.ty \in {"client", "peer", None}
    BY ConfigAssumption
  <2>2. bgp_sessions' = [bgp_sessions EXCEPT ![c.source][c.target] = c.ty,
                                             ![c.target][c.source] = back]
    BY <1>2 DEF SetBgpSession
  <2>3. c.ty \in Kinds(c.source, c.target) \cup {None}
    BY <2>1 DEF Kinds
  <2>4. back \in Kinds(c.target, c.source) \cup {None}
    BY <2>1 DEF Kinds
  <2> HIDE DEF back
  <2>5. bgp_sessions'[a][b] = IF a = c.source /\ b = c.target THEN c.ty
                              ELSE IF a = c.target /\ b = c.source THEN back
                              ELSE bgp_sessions[a][b]
    BY <1>1, <2>1, <2>2 DEF SessionConfig
  <2> QED
    BY <2>3, <2>4, <2>5 DEF TypedInv
<1>3. CASE UNCHANGED bgp_sessions
  BY <1>3 DEF TypedInv
<1> QED
  BY <1>2, <1>3 DEF Next, Simulate, AdvertiseRoute, WithdrawRoute, SetBgpRouteMap,
     SetTopology, RefreshSession, HandleEvent, vars

LEMMA TypedStep ==
  TypeOK /\ TypeOK' /\ SessionInv /\ TypedInv /\ [Next]_vars => TypedInv'
<1> SUFFICES ASSUME TypeOK, TypeOK', SessionInv, TypedInv, [Next]_vars
             PROVE  TypedInv'
  OBVIOUS
<1>1. \A a, b \in Routers : bgp_sessions'[a][b] \in Kinds(a, b) \cup {None}
  BY ConfigStep
<1>2. ASSUME NEW r \in Routers
      PROVE  /\ bgp'[r].igp_cost = topology'.cost[r]
             /\ bgp'[r].rib # None =>
                  LearnedAs(r, bgp'[r].rib.from_id, bgp'[r].rib.from_type)
             /\ \A n \in Routers :
                  /\ bgp'[r].sessions[n] \in Types(r, n) \cup {None}
                  /\ bgp'[r].rib_in[n] # None =>
                       LearnedAs(r, n, bgp'[r].rib_in[n].from_type)
  <2>0. RouterStep(r)
    BY StepFacts
  <2>1. CASE bgp'[r] = bgp[r] /\ topology' = topology
    BY <2>1 DEF TypedInv
  <2>2. ASSUME NEW p \in Process, NEW force \in BOOLEAN,
               bgp'[r] = Update(p, force), Edited(r, p, force)
        PROVE  /\ bgp'[r].igp_cost = topology'.cost[r]
               /\ bgp'[r].rib # None =>
                    LearnedAs(r, bgp'[r].rib.from_id, bgp'[r].rib.from_type)
               /\ \A n \in Routers :
                    /\ bgp'[r].sessions[n] \in Types(r, n) \cup {None}
                    /\ bgp'[r].rib_in[n] # None =>
                         LearnedAs(r, n, bgp'[r].rib_in[n].from_type)
    <3>1. /\ bgp'[r].sessions = p.sessions /\ bgp'[r].rib_in = p.rib_in
          /\ bgp'[r].igp_cost = p.igp_cost /\ bgp'[r].rib \in {p.rib, Selected(p)}
      BY <2>2, UpdateFacts, UpdateTables
    <3>2. p.igp_cost = topology'.cost[r] /\ p.router_id = r /\ p.rib = bgp[r].rib
      BY <2>2 DEF Edited, TypedInv
    <3>3. ASSUME NEW n \in Routers
          PROVE  p.sessions[n] \in Types(r, n) \cup {None}
      <4>1. p.sessions[n] \in {bgp[r].sessions[n], Effective(bgp_sessions, topology, r, n)}
        BY <2>2 DEF Edited
      <4>2. Effective(bgp_sessions, topology, r, n) \in Types(r, n) \cup {None}
        BY EffectiveTyped DEF TypedInv
      <4> QED
        BY <4>1, <4>2 DEF TypedInv
    <3>4. ASSUME NEW n \in Routers, p.rib_in[n] # None
          PROVE  LearnedAs(r, n, p.rib_in[n].from_type)
      <4>1. CASE p.rib_in[n] \in {bgp[r].rib_in[n], None}
        BY <3>4, <4>1 DEF TypedInv
      <4>2. CASE n = r /\ Own(p.rib_in[n])
        BY <4>2 DEF Own, LearnedAs
      <4>3. CASE /\ n # r /\ chan[n][r] # << >> /\ Head(chan[n][r]) # None
                 /\ ~Refused(r, Head(chan[n][r]))
                 /\ p.rib_in[n] = [route |-> Head(chan[n][r]),
                                   from_type |-> bgp[r].sessions[n]]
        <5>1. p.rib_in[n].from_type = bgp[r].sessions[n] /\ n # r
          BY <4>3
        <5>2. p.rib_in[n].from_type \in SessionType
          BY <3>4 DEF Process, Received
        <5>3. bgp[r].sessions[n] \in Types(r, n) \cup {None}
          BY DEF TypedInv
        <5> QED
          BY <5>1, <5>2, <5>3, NoneAssumption DEF LearnedAs
      <4> QED
        BY <2>2, <4>1, <4>2, <4>3 DEF Edited
    <3>5. ASSUME Selected(p) # None
          PROVE  LearnedAs(r, Selected(p).from_id, Selected(p).from_type)
      <4>1. PICK n \in Routers : /\ p.rib_in[n] # None
                                 /\ ProcessRibIn(p, n) # None
                                 /\ Selected(p) = ProcessRibIn(p, n)
        BY <3>5, SelectedFrom
      <4>2. Selected(p).from_id = n /\ Selected(p).from_type = p.rib_in[n].from_type
        BY <4>1, ProcessRibInFacts
      <4> QED
        BY <3>4, <4>1, <4>2
    <3>6. bgp'[r].rib # None => LearnedAs(r, bgp'[r].rib.from_id, bgp'[r].rib.from_type)
      BY <3>1, <3>2, <3>5 DEF TypedInv
    <3> QED
      BY <3>1, <3>2, <3>3, <3>4, <3>6
  <2> QED
    BY <2>0, <2>1, <2>2 DEF RouterStep
<1> QED
  BY <1>1, <1>2 DEF TypedInv
-----------------------------------------------------------------------------
(* The route a router selects                                              *)

(* On triples of integers, exactly one of two comes first.                 *)
LEMMA PrecedesTotal ==
  ASSUME NEW a \in Int, NEW b \in Int, NEW c \in Int,
         NEW x \in Int, NEW y \in Int, NEW z \in Int,
         ~Precedes(<<a, b, c>>, <<x, y, z>>), ~Precedes(<<x, y, z>>, <<a, b, c>>)
  PROVE  <<a, b, c>> = <<x, y, z>>
<1> DEFINE s == <<a, b, c>>
           t == <<x, y, z>>
<1>1. DOMAIN s = {1, 2, 3} /\ DOMAIN t = {1, 2, 3}
  OBVIOUS
<1>2. s[1] = a /\ s[2] = b /\ s[3] = c /\ t[1] = x /\ t[2] = y /\ t[3] = z
  OBVIOUS
<1> HIDE DEF s, t
<1>3. /\ 1 .. 1 - 1 = {} /\ 1 .. 2 - 1 = {1} /\ 1 .. 3 - 1 = {1, 2}
  OBVIOUS
<1>4. ~Precedes(s, t) /\ ~Precedes(t, s)
  BY DEF s, t
<1>5. a = x
  BY <1>1, <1>2, <1>3, <1>4 DEF Precedes
<1>6. b = y
  BY <1>1, <1>2, <1>3, <1>4, <1>5 DEF Precedes
<1>7. c = z
  BY <1>1, <1>2, <1>3, <1>4, <1>5, <1>6 DEF Precedes
<1> QED
  BY <1>5, <1>6, <1>7

(* best is the one of S that MedDecides says.                              *)
DecidedByMed(S, best) ==
  LET ties == {e \in S : PreMedKey(e) = PreMedKey(best)}
  IN  /\ \A e \in S : ~Precedes(PreMedKey(e), PreMedKey(best))
      /\ \A e \in ties : FirstAs(e) = FirstAs(best) => best.route.med <= e.route.med
      /\ \A e \in ties : Precedes(PostMedKey(e), PostMedKey(best)) =>
           \E f \in ties : FirstAs(f) = FirstAs(e) /\ f.route.med < e.route.med

LEMMA BestIsDecidedByMed ==
  ASSUME NEW S, S \subseteq Entry, BestRoute(S) # None
  PROVE  DecidedByMed(S, BestRoute(S))
<1> DEFINE best == BestRoute(S)
           top  == MaxPreMed(S)
           ties == {e \in S : PreMedKey(e) = PreMedKey(best)}
<1>1. best \in MinMed(top) /\ \A e \in MinMed(top) : ~Precedes(PostMedKey(e), PostMedKey(best))
  BY DEF BestRoute
<1> HIDE DEF best
<1>2. best \in top /\ \A e \in top : FirstAs(best) = FirstAs(e) => best.route.med <= e.route.med
  BY <1>1 DEF MinMed
<1>3. best \in S /\ \A e \in S : ~Precedes(PreMedKey(e), PreMedKey(best))
  BY <1>2 DEF MaxPreMed
<1>4. ties \subseteq top
  BY <1>3 DEF MaxPreMed
<1>5. top \subseteq ties
  <2> SUFFICES ASSUME NEW e \in top
               PROVE  e \in S /\ PreMedKey(e) = PreMedKey(best)
    OBVIOUS
  <2>1. e \in S /\ ~Precedes(PreMedKey(best), PreMedKey(e)) /\ ~Precedes(PreMedKey(e), PreMedKey(best))
    BY <1>3 DEF MaxPreMed
  <2>2. \A d \in Entry : /\ -d.weight \in Int /\ -d.route.local_pref \in Int
                          /\ Len(d.route.as_path) \in Int
    <3> SUFFICES ASSUME NEW d \in Entry
                 PROVE  /\ -d.weight \in Int /\ -d.route.local_pref \in Int
                        /\ Len(d.route.as_path) \in Int
      OBVIOUS
    <3>1. d.weight \in Nat /\ d.route.local_pref \in Nat /\ d.route.as_path \in Seq(Nat)
      BY DEF Entry, Route
    <3> QED
      BY <3>1
  <2> DEFINE w(d) == -d.weight
             l(d) == -d.route.local_pref
             n(d) == Len(d.route.as_path)
  <2>3. /\ w(e) \in Int /\ l(e) \in Int /\ n(e) \in Int
        /\ w(best) \in Int /\ l(best) \in Int /\ n(best) \in Int
    BY <1>3, <2>1, <2>2
  <2>4. /\ PreMedKey(e) = <<w(e), l(e), n(e)>>
        /\ PreMedKey(best) = <<w(best), l(best), n(best)>>
    BY DEF PreMedKey
  <2> HIDE DEF w, l, n
  <2> QED
    BY <2>1, <2>3, <2>4, PrecedesTotal
<1>6. ASSUME NEW e \in ties, Precedes(PostMedKey(e), PostMedKey(best))
      PROVE  \E f \in ties : FirstAs(f) = FirstAs(e) /\ f.route.med < e.route.med
  <2>1. e \in top /\ e \notin MinMed(top)
    BY <1>1, <1>4, <1>6
  <2>2. PICK f \in top : FirstAs(e) = FirstAs(f) /\ ~(e.route.med <= f.route.med)
    BY <2>1 DEF MinMed
  <2>3. e.route.med \in Nat /\ f.route.med \in Nat
    <3>1. e \in Entry /\ f \in Entry
      BY <2>1 DEF MaxPreMed
    <3> QED
      BY <3>1 DEF Entry, Route
  <2>4. f \in ties
    BY <1>5
  <2> QED
    BY <2>2, <2>3, <2>4
<1> HIDE DEF top
<1> QED
  BY <1>2, <1>3, <1>4, <1>6 DEF DecidedByMed, best

(* What routers are by themselves, whatever is in flight                   *)
LocalInv == TypeOK /\ SessionInv /\ SettledInv /\ CleanInv /\ TypedInv

LEMMA LocalAlways == Spec => []LocalInv
<1>1. Init => LocalInv
  BY TypeInit, SessionInit, SettledInit, CleanInit, TypedInit DEF LocalInv
<1>2. LocalInv /\ [Next]_vars => LocalInv'
  <2> SUFFICES ASSUME LocalInv, [Next]_vars
               PROVE  LocalInv'
    OBVIOUS
  <2>1. TypeOK /\ SessionInv /\ SettledInv /\ CleanInv /\ TypedInv
    BY DEF LocalInv
  <2>2. TypeOK' /\ SessionInv'
    BY <2>1, TypeStep, SessionStep
  <2>3. SettledInv' /\ CleanInv' /\ TypedInv'
    BY <2>1, <2>2, SettledStep, CleanStep, TypedStep
  <2> QED
    BY <2>2, <2>3 DEF LocalInv
<1> QED
  BY <1>1, <1>2, PTL DEF Spec

(* rib holds what the decision process selects now, but perhaps under the  *)
(* session type of earlier: eBGP or iBGP it is all the same.               *)
LEMMA SelectedAlike ==
  ASSUME LocalInv, NEW r \in Routers, bgp[r].rib # None
  PROVE  LET sel == Selected(bgp[r])
         IN  /\ sel # None
             /\ PreMedKey(sel) = PreMedKey(bgp[r].rib)
             /\ PostMedKey(sel) = PostMedKey(bgp[r].rib)
             /\ FirstAs(sel) = FirstAs(bgp[r].rib)
             /\ sel.route.med = bgp[r].rib.route.med
<1> DEFINE p   == bgp[r]
           sel == Selected(p)
<1>1. p \in Process /\ p.router_id = r
  BY DEF LocalInv, TypeOK, SessionInv
<1>2. SameEntry(sel, p.rib)
  BY DEF LocalInv, SettledInv, Changed
<1>3. /\ sel # None /\ sel.route = p.rib.route /\ sel.from_id = p.rib.from_id
      /\ sel.weight = p.rib.weight /\ sel.igp_cost = p.rib.igp_cost
  BY <1>2 DEF SameEntry
<1>4. PICK n \in Routers : /\ p.rib_in[n] # None /\ ProcessRibIn(p, n) # None
                           /\ sel = ProcessRibIn(p, n)
  BY <1>1, <1>3, SelectedFrom
<1>5. sel.from_id = n /\ sel.from_type = p.rib_in[n].from_type
  BY <1>1, <1>4, ProcessRibInFacts
<1>6. LearnedAs(r, n, sel.from_type) /\ LearnedAs(r, n, p.rib.from_type)
  BY <1>3, <1>4, <1>5 DEF LocalInv, TypedInv
<1>7. sel.from_type = "EBgp" <=> p.rib.from_type = "EBgp"
  <2>1. CASE n = r
    BY <1>6, <2>1 DEF LearnedAs
  <2>2. CASE n # r
    BY <1>6, <2>2, TypesAs DEF LearnedAs
  <2> QED
    BY <2>1, <2>2
<1> HIDE DEF sel
<1>8. PreMedKey(sel) = PreMedKey(p.rib) /\ FirstAs(sel) = FirstAs(p.rib)
  BY <1>3 DEF PreMedKey, FirstAs
<1>9. PostMedKey(sel) = PostMedKey(p.rib)
  BY <1>3, <1>7 DEF PostMedKey
<1> QED
  BY <1>3, <1>8, <1>9 DEF sel

(* In manual and automatic simulation, in every state: the routes that     *)
(* would win the tie-break against the one a router selects are excluded   *)
(* by a lower MED of the same neighboring AS, and by nothing else; the     *)
(* selected one is itself not beaten before the tie-break.                 *)
THEOREM SelectionIsBest == Spec => []MedDecides
<1>1. LocalInv => MedDecides
  <2> SUFFICES ASSUME LocalInv, NEW r \in Routers, bgp[r].rib # None
               PROVE  DecidedByMed(Candidates(bgp[r]), bgp[r].rib)
    BY DEF MedDecides, DecidedByMed
  <2> DEFINE S   == Candidates(bgp[r])
             sel == Selected(bgp[r])
  <2>1. /\ sel # None
        /\ PreMedKey(sel) = PreMedKey(bgp[r].rib)
        /\ PostMedKey(sel) = PostMedKey(bgp[r].rib)
        /\ FirstAs(sel) = FirstAs(bgp[r].rib)
        /\ sel.route.med = bgp[r].rib.route.med
    BY SelectedAlike
  <2>2. S \subseteq Entry
    <3>1. bgp[r] \in Process
      BY DEF LocalInv, TypeOK
    <3> QED
      BY <3>1, ProcessRibInType DEF Candidates
  <2>3. sel = BestRoute(S)
    BY DEF Selected
  <2> HIDE DEF S, sel
  <2>4. DecidedByMed(S, sel)
    BY <2>1, <2>2, <2>3, BestIsDecidedByMed
  <2> QED
    BY <2>1, <2>4 DEF DecidedByMed, S
<1>2. Spec => []LocalInv
  BY LocalAlways
<1> QED
  BY <1>1, <1>2, PTL
-----------------------------------------------------------------------------
(* The converged network                                                   *)

(* What the network is when a simulation is done *)
StableInv == TypeOK /\ SessionInv /\ SettledInv /\ CleanInv /\ TypedInv /\ CoherenceInv

LEMMA StableAlways ==
  ASSUME Manual = FALSE
  PROVE  Spec => []StableInv
<1>1. Init => StableInv
  BY TypeInit, SessionInit, SettledInit, CleanInit, TypedInit, CoherenceInit DEF StableInv
<1>2. StableInv /\ [Next]_vars => StableInv'
  <2> SUFFICES ASSUME StableInv, [Next]_vars
               PROVE  StableInv'
    OBVIOUS
  <2>1. TypeOK /\ SessionInv /\ SettledInv /\ CleanInv /\ TypedInv /\ CoherenceInv
    BY DEF StableInv
  <2>2. TypeOK' /\ SessionInv'
    BY <2>1, TypeStep, SessionStep
  <2>3. SettledInv' /\ CleanInv' /\ TypedInv'
    BY <2>1, <2>2, SettledStep, CleanStep, TypedStep
  <2>4. CoherenceInv'
    BY <2>1, <2>2, CoherenceStep
  <2> QED
    BY <2>2, <2>3, <2>4 DEF StableInv
<1> QED
  BY <1>1, <1>2, PTL DEF Spec

(* The table of router b holds what its peers export. *)
LEMMA LearnedFromPeer ==
  ASSUME StableInv, Converged, NEW a \in Routers, NEW b \in Routers, a # b, Running(b, a)
  PROVE  /\ bgp[a].sessions[b] # None
         /\ Believes(b, a, Export(bgp[a], b))
<1>1. refresh = {} /\ Quiet /\ bgp_sessions \in SessionConfig
  BY DEF Converged, StableInv, TypeOK
<1>2. Running(a, b)
  BY <1>1, SessionsAreEffective DEF StableInv
<1>3. InStep(a, b) /\ chan[a][b] = << >>
  BY <1>1, QuietInStep DEF StableInv, Quiet
<1>4. Believes(b, a, bgp[a].rib_out[b])
  BY <1>3 DEF InStep
<1>5. bgp[a].rib_out[b] = Export(bgp[a], b)
  BY <1>2 DEF StableInv, SettledInv, Told, Peers, Running
<1> QED
  BY <1>2, <1>4, <1>5 DEF Running

(* What router b selects, it selects by its tables of now.                 *)
LEMMA SelectedNow ==
  ASSUME StableInv, NEW b \in Routers, bgp[b].rib # None
  PROVE  /\ bgp[b] \in Process /\ bgp[b].router_id = b /\ bgp[b].rib \in Entry
         /\ Selected(bgp[b]) # None /\ SameEntry(Selected(bgp[b]), bgp[b].rib)
         /\ bgp[b].rib.from_id \in Routers
         /\ bgp[b].rib_in[bgp[b].rib.from_id] # None
         /\ Selected(bgp[b]) = ProcessRibIn(bgp[b], bgp[b].rib.from_id)
<1>1. bgp[b] \in Process /\ bgp[b].router_id = b
  BY DEF StableInv, TypeOK, SessionInv
<1>2. bgp[b].rib \in Entry
  BY <1>1 DEF Process
<1>3. SameEntry(Selected(bgp[b]), bgp[b].rib)
  BY DEF StableInv, SettledInv, Changed
<1>4. Selected(bgp[b]) # None /\ Selected(bgp[b]).from_id = bgp[b].rib.from_id
  BY <1>3 DEF SameEntry
<1>5. PICK n \in Routers : /\ bgp[b].rib_in[n] # None
                           /\ ProcessRibIn(bgp[b], n) # None
                           /\ Selected(bgp[b]) = ProcessRibIn(bgp[b], n)
  BY <1>1, <1>4, SelectedFrom
<1>6. Selected(bgp[b]).from_id = n
  BY <1>1, <1>5, ProcessRibInFacts
<1> QED
  BY <1>1, <1>2, <1>3, <1>4, <1>5, <1>6

(* Every pair of routers has sessions of one type only.  Where the user    *)
(* turns a peer into a client while the session runs, the entries of       *)
(* RIB_IN keep the type under which they arrived, and the export with them. *)
TypesFixed == \A a, b \in Routers : \A t, u \in Types(a, b) : t = u

LEMMA TablesAreFresh ==
  ASSUME TypesFixed, StableInv, Converged, NEW b \in Routers
  PROVE  FreshRibIn(b) = bgp[b].rib_in
<1>1. bgp[b] \in Process /\ bgp[b].router_id = b
  BY DEF StableInv, TypeOK, SessionInv
<1>2. refresh = {} /\ bgp_sessions \in SessionConfig
  BY DEF Converged, StableInv, TypeOK
<1>3. ASSUME NEW a \in Routers
      PROVE  FreshRibIn(b)[a] = bgp[b].rib_in[a]
  <2>1. CASE a = b
    BY <2>1 DEF FreshRibIn
  <2>2. CASE a # b /\ ~(Running(a, b) /\ Running(b, a))
    <3>1. ~Running(b, a)
      BY <1>2, <2>2, SessionsAreEffective DEF StableInv
    <3>2. bgp[b].rib_in[a] = None
      BY <2>2, <3>1 DEF StableInv, SessionInv
    <3> QED
      BY <2>2, <3>2 DEF FreshRibIn
  <2>3. CASE a # b /\ Running(a, b) /\ Running(b, a)
    <3> DEFINE m == Export(bgp[a], b)
               in == bgp[b].rib_in[a]
    <3>1. Believes(b, a, m)
      BY <2>3, LearnedFromPeer
    <3>2. FreshRibIn(b)[a] = Receive(bgp[b], a, m).rib_in[a]
      BY <2>3 DEF FreshRibIn
    <3>3. Receive(bgp[b], a, m).rib_in[a] =
            IF m = None \/ Refused(b, m) THEN None
            ELSE [route |-> m, from_type |-> bgp[b].sessions[a]]
      BY <1>1, ReceiveBelieves
    <3>4. ASSUME in # None
          PROVE  in = [route |-> in.route, from_type |-> bgp[b].sessions[a]]
      <4>1. in \in Received
        BY <1>1, <3>4 DEF Process
      <4>2. in.from_type \in Types(b, a) /\ bgp[b].sessions[a] \in Types(b, a)
        BY <2>3, <3>4 DEF StableInv, TypedInv, LearnedAs, Running
      <4>3. in.from_type = bgp[b].sessions[a]
        BY <4>2 DEF TypesFixed
      <4> QED
        BY <4>1, <4>3 DEF Received
    <3> HIDE DEF m
    <3> QED
      BY <3>1, <3>2, <3>3, <3>4 DEF Believes
  <2> QED
    BY <2>1, <2>2, <2>3
<1>4. bgp[b].rib_in = [a \in Routers |-> bgp[b].rib_in[a]]
  BY <1>1 DEF Process
<1>5. FreshRibIn(b) = [a \in Routers |-> FreshRibIn(b)[a]]
  BY DEF FreshRibIn
<1> QED
  BY <1>3, <1>4, <1>5

(* When a simulation is done, the network is a stable state of the routing *)
(* protocol: a router that heard its peers anew, and that looked up its    *)
(* IGP costs anew, would select what it selects, in every network and      *)
(* after any sequence of operations.  The events under way, the refreshes  *)
(* and the conditional dissemination lose nothing.                         *)
THEOREM NetworkIsStable ==
  ASSUME Manual = FALSE, TypesFixed
  PROVE  Spec => []ConvergedIsStable
<1>1. StableInv => ConvergedIsStable
  <2> SUFFICES ASSUME StableInv, Converged, NEW b \in Routers
               PROVE  bgp[b].rib = Selected([bgp[b] EXCEPT !.rib_in = FreshRibIn(b),
                                                           !.igp_cost = topology.cost[b]])
    BY DEF ConvergedIsStable
  <2> DEFINE p == bgp[b]
             q == [bgp[b] EXCEPT !.rib_in = FreshRibIn(b), !.igp_cost = topology.cost[b]]
  <2>1. p \in Process /\ p.router_id = b
    BY DEF StableInv, TypeOK, SessionInv
  <2>2. FreshRibIn(b) = p.rib_in /\ topology.cost[b] = p.igp_cost
    BY TablesAreFresh DEF StableInv, TypedInv
  <2>3. q = p
    BY <2>1, <2>2 DEF Process
  <2>4. p.rib = Selected(p)
    <3>1. SameEntry(Selected(p), p.rib)
      BY DEF StableInv, SettledInv, Changed
    <3>2. CASE p.rib = None
      BY <3>1, <3>2 DEF SameEntry
    <3>3. CASE p.rib # None
      <4> DEFINE e == Selected(p)
                 n == p.rib.from_id
      <4>1. e # None /\ n \in Routers /\ p.rib_in[n] # None /\ e = ProcessRibIn(p, n)
        BY <3>3, SelectedNow
      <4>2. e.from_type = p.rib_in[n].from_type
        BY <2>1, <4>1, ProcessRibInFacts
      <4>3. LearnedAs(b, n, p.rib.from_type) /\ LearnedAs(b, n, e.from_type)
        BY <3>3, <4>1, <4>2 DEF StableInv, TypedInv
      <4>4. e.from_type = p.rib.from_type
        BY <4>1, <4>3 DEF LearnedAs, TypesFixed
      <4>5. e \in Entry /\ p.rib \in Entry
        BY <2>1, <3>3, <4>1, SelectedType DEF Process
      <4>6. /\ e.route = p.rib.route /\ e.from_id = p.rib.from_id
            /\ e.weight = p.rib.weight /\ e.igp_cost = p.rib.igp_cost
        BY <3>1, <3>3, <4>1 DEF SameEntry
      <4> HIDE DEF e
      <4> QED
        BY <4>4, <4>5, <4>6 DEF Entry, e
    <3> QED
      BY <3>2, <3>3
  <2> QED
    BY <2>3, <2>4
<1>2. Spec => []StableInv
  BY StableAlways
<1> QED
  BY <1>1, <1>2, PTL
-----------------------------------------------------------------------------
(* What a router tells its peers is news to them                           *)

LEMMA EventsAreNews ==
  ASSUME NEW p \in Process, NEW force \in BOOLEAN, NEW n \in Routers
  PROVE  \/ Events(p, force)[n] = << >> /\ Update(p, force).rib_out[n] = p.rib_out[n]
         \/ /\ Events(p, force)[n] = <<Update(p, force).rib_out[n]>>
            /\ Update(p, force).rib_out[n] # p.rib_out[n]
            /\ p.sessions[n] # None
<1> DEFINE d == Decide(p)
<1>1. d \in Process /\ d.rib_out = p.rib_out
  BY DecideType DEF Process
<1>2. \/ Events(p, force)[n] = << >> /\ Update(p, force).rib_out[n] = p.rib_out[n]
      \/ /\ p.sessions[n] # None
         /\ Events(p, force)[n] = <<Update(p, force).rib_out[n]>>
  BY UpdateFacts
<1>3. ASSUME Events(p, force)[n] # << >>
      PROVE  Update(p, force).rib_out[n] # p.rib_out[n]
  <2>1. Update(p, force) = Disseminate(d) /\ Events(p, force) = Announcements(d)
    BY <1>3 DEF Update, Events
  <2>2. n \in Peers(d) /\ Export(d, n) # d.rib_out[n]
    BY <1>3, <2>1 DEF Announcements
  <2>3. Disseminate(d).rib_out[n] = Export(d, n)
    BY <1>1, <2>2, DisseminateType
  <2> QED
    BY <1>1, <2>1, <2>2, <2>3
<1> QED
  BY <1>2, <1>3

(* Router r, which ran p, told n nothing or what is news. *)
Tells(channels, r, p, n) ==
  \/ chan'[r][n] = channels[r][n] /\ bgp'[r].rib_out[n] = p.rib_out[n]
  \/ /\ chan'[r][n] = Append(channels[r][n], bgp'[r].rib_out[n])
     /\ bgp'[r].rib_out[n] # p.rib_out[n]
     /\ p.sessions[n] # None

LEMMA RunSends ==
  ASSUME NEW channels \in Channel, bgp \in [Routers -> Process],
         NEW r \in Routers, NEW p \in Process, NEW force \in BOOLEAN,
         RunFrom(channels, r, p, force)
  PROVE  \A n \in Routers : Tells(channels, r, p, n)
<1> SUFFICES ASSUME NEW n \in Routers
             PROVE  Tells(channels, r, p, n)
  OBVIOUS
<1> DEFINE q == Update(p, force)
           events == Events(p, force)
           s == channels[r][n]
<1>1. \/ events[n] = << >> /\ q.rib_out[n] = p.rib_out[n]
      \/ /\ events[n] = <<q.rib_out[n]>> /\ q.rib_out[n] # p.rib_out[n]
         /\ p.sessions[n] # None
  BY EventsAreNews
<1>2. bgp'[r] = q
  BY DEF RunFrom
<1>3. s \in Seq(Msg) /\ q.rib_out[n] \in Msg
  <2>1. q \in Process
    BY UpdateFacts
  <2> HIDE DEF q
  <2>2. q.rib_out[n] \in Msg
    BY <2>1 DEF Process, Msg
  <2> QED
    BY <2>2 DEF Channel
<1>4. chan'[r][n] = s \o events[n]
  <2>1. channels \in [Routers -> [Routers -> Seq(Msg)]]
    BY DEF Channel
  <2> HIDE DEF events
  <2> QED
    BY <2>1 DEF RunFrom, Enqueue, events
<1> HIDE DEF q, events, s
<1>5. s \o << >> = s /\ s \o <<q.rib_out[n]>> = Append(s, q.rib_out[n])
  <2>1. \A t \in Seq(Msg), m \in Msg : t \o << >> = t /\ t \o <<m>> = Append(t, m)
    OBVIOUS
  <2> QED
    BY <1>3, <2>1
<1>6. CASE events[n] = << >> /\ q.rib_out[n] = p.rib_out[n]
  BY <1>2, <1>4, <1>5, <1>6 DEF s, Tells
<1>7. CASE /\ events[n] = <<q.rib_out[n]>> /\ q.rib_out[n] # p.rib_out[n]
           /\ p.sessions[n] # None
  BY <1>2, <1>4, <1>5, <1>7 DEF s, Tells
<1> QED
  BY <1>1, <1>6, <1>7

LEMMA RunOthers ==
  ASSUME NEW channels \in Channel, bgp \in [Routers -> Process],
         NEW r \in Routers, NEW p \in Process, NEW force \in BOOLEAN,
         RunFrom(channels, r, p, force)
  PROVE  /\ bgp'[r].sessions = p.sessions /\ bgp'[r].rib_in = p.rib_in
         /\ \A x \in Routers \ {r} : bgp'[x] = bgp[x]
         /\ \A x \in Routers \ {r}, n \in Routers : chan'[x][n] = channels[x][n]
  BY RunFacts

Varied(s) == \A i \in 1 .. Len(s) - 1 : s[i] # s[i + 1]

LEMMA VariedTail ==
  ASSUME NEW s \in Seq(Msg), s # << >>, Varied(s)
  PROVE  /\ Varied(Tail(s))
         /\ Tail(s) # << >> => Head(Tail(s)) # Head(s) /\ Last(Tail(s)) = Last(s)
<1> DEFINE t == Tail(s)
<1>1. t \in Seq(Msg) /\ Len(t) = Len(s) - 1 /\ \A i \in 1 .. Len(t) : t[i] = s[i + 1]
  OBVIOUS
<1>2. Head(s) = s[1] /\ Len(s) \in Nat /\ Len(s) >= 1
  OBVIOUS
<1>3. t # << >> => Head(t) = t[1] /\ Len(t) >= 1 /\ Last(t) = Last(s)
  BY LastOfTail
<1> HIDE DEF t
<1>4. Varied(t)
  BY <1>1, <1>2 DEF Varied
<1>5. t # << >> => Head(t) # Head(s)
  BY <1>1, <1>2, <1>3 DEF Varied
<1> QED
  BY <1>3, <1>4, <1>5 DEF t

LEMMA VariedAppend ==
  ASSUME NEW s \in Seq(Msg), NEW m \in Msg, Varied(s), s # << >> => Last(s) # m
  PROVE  /\ Varied(Append(s, m)) /\ Append(s, m) # << >> /\ Last(Append(s, m)) = m
         /\ Head(Append(s, m)) = IF s = << >> THEN m ELSE Head(s)
<1> DEFINE t == Append(s, m)
<1>1. /\ t \in Seq(Msg) /\ Len(t) = Len(s) + 1 /\ t[Len(s) + 1] = m
      /\ \A i \in 1 .. Len(s) : t[i] = s[i]
      /\ Len(s) \in Nat
  OBVIOUS
<1>a. s # << >> => Len(s) >= 1 /\ Head(s) = s[1]
  OBVIOUS
<1>b. s = << >> => Len(s) = 0
  OBVIOUS
<1>c. t # << >> /\ Head(t) = t[1]
  <2> HIDE DEF t
  <2>1. \A u \in Seq(Msg) : Len(u) > 0 => u # << >> /\ Head(u) = u[1]
    OBVIOUS
  <2> QED
    BY <1>1, <2>1
<1> HIDE DEF t
<1>2. Varied(t)
  <2> SUFFICES ASSUME NEW i \in 1 .. Len(s)
               PROVE  t[i] # t[i + 1]
    BY <1>1 DEF Varied
  <2>1. CASE i = Len(s)
    BY <1>1, <1>b, <2>1 DEF Last
  <2>2. CASE i < Len(s)
    BY <1>1, <2>2 DEF Varied
  <2> QED
    BY <1>1, <2>1, <2>2
<1>3. Last(t) = m
  BY <1>1 DEF Last
<1>4. Head(t) = IF s = << >> THEN m ELSE Head(s)
  BY <1>1, <1>a, <1>b, <1>c
<1> QED
  BY <1>c, <1>2, <1>3, <1>4 DEF t

(* The events of a pair vary, the last one is what the sender holds for    *)
(* its peer, and the next one is not what the receiver holds already.      *)
News(a, b) ==
  /\ Varied(chan[a][b])
  /\ chan[a][b] # << >> =>
       /\ Running(a, b) => Last(chan[a][b]) = bgp[a].rib_out[b]
       /\ Due(a, b) => Running(a, b)
       /\ /\ Due(a, b) \/ (Running(a, b) /\ Running(b, a))
          /\ bgp[b].rib_in[a] # None
          => Head(chan[a][b]) # bgp[b].rib_in[a].route

NewsInv == \A a, b \in Routers : News(a, b)

(* The sender a runs its process, and says nothing to b or what is news. *)
LEMMA NewsSent ==
  ASSUME TypeOK, TypeOK', NEW a \in Routers, NEW b \in Routers,
         \/ chan'[a][b] = chan[a][b] /\ bgp'[a].rib_out[b] = bgp[a].rib_out[b]
         \/ /\ chan'[a][b] = Append(chan[a][b], bgp'[a].rib_out[b])
            /\ bgp'[a].rib_out[b] # bgp[a].rib_out[b]
            /\ Running(a, b)',
         bgp'[b].rib_in[a] = bgp[b].rib_in[a],
         chan[a][b] # << >> /\ Running(a, b)' => Running(a, b),
         chan'[a][b] # << >> /\ Due(a, b)' => Running(a, b)',
         Due(a, b)' \/ (Running(a, b)' /\ Running(b, a)') =>
           /\ InStep(a, b)
           /\ chan[a][b] # << >> => Due(a, b) \/ (Running(a, b) /\ Running(b, a)),
         News(a, b)
  PROVE  News(a, b)'
<1> DEFINE s == chan[a][b]
           t == chan'[a][b]
           m == bgp'[a].rib_out[b]
           in == bgp[b].rib_in[a]
           both == Due(a, b)' \/ (Running(a, b)' /\ Running(b, a)')
<1>1. s \in Seq(Msg) /\ t \in Seq(Msg) /\ m \in Msg
  <2>1. \A c \in [Routers -> [Routers -> Seq(Msg)]] : c[a][b] \in Seq(Msg)
    BY ONLY a \in Routers, b \in Routers
  <2>2. \A q \in Process : q.rib_out[b] \in Msg
    BY ONLY b \in Routers DEF Process, Msg
  <2>3. bgp'[a] \in Process
    BY DEF TypeOK
  <2>4. /\ chan \in [Routers -> [Routers -> Seq(Msg)]]
        /\ chan' \in [Routers -> [Routers -> Seq(Msg)]]
    BY DEF TypeOK, Msg
  <2> QED
    BY ONLY <2>1, <2>2, <2>3, <2>4
<1>2. /\ Varied(t)
      /\ t # << >> /\ Running(a, b)' => Last(t) = m
      /\ t # << >> /\ both /\ in # None => Head(t) # in.route
  <2>1. CASE t = s /\ m = bgp[a].rib_out[b]
    BY <2>1 DEF News
  <2>2. CASE t = Append(s, m) /\ m # bgp[a].rib_out[b] /\ Running(a, b)'
    <3>1. Varied(s) /\ (s # << >> => Last(s) # m)
      BY <2>2 DEF News
    <3>2. ASSUME both, in # None, s = << >>
          PROVE  in.route = bgp[a].rib_out[b]
      BY <3>2 DEF InStep, Believes
    <3>3. both /\ in # None /\ s # << >> => Head(s) # in.route
      BY DEF News
    <3> HIDE DEF s, t, m, in, both
    <3>4. /\ Varied(t) /\ t # << >> /\ Last(t) = m
          /\ Head(t) = IF s = << >> THEN m ELSE Head(s)
      BY <1>1, <2>2, <3>1, VariedAppend
    <3> QED
      BY <2>2, <3>2, <3>3, <3>4
  <2> QED
    BY <2>1, <2>2
<1> QED
  BY <1>2 DEF News

(* The operations, which act on a quiet network *)
LEMMA NewsAfterQuiet ==
  ASSUME TypeOK, TypeOK', SessionInv, CoherenceInv, NewsInv, Quiet, refresh = {},
         \A a \in Routers : bgp'[a].sessions = bgp[a].sessions,
         \A a, b \in Routers : a # b => bgp'[b].rib_in[a] = bgp[b].rib_in[a],
         \A a, b \in Routers :
           \/ chan'[a][b] = chan[a][b] /\ bgp'[a].rib_out[b] = bgp[a].rib_out[b]
           \/ /\ chan'[a][b] = Append(chan[a][b], bgp'[a].rib_out[b])
              /\ bgp'[a].rib_out[b] # bgp[a].rib_out[b]
              /\ bgp[a].sessions[b] # None
  PROVE  NewsInv'
<1> SUFFICES ASSUME NEW a \in Routers, NEW b \in Routers
             PROVE  News(a, b)'
  BY DEF NewsInv
<1>1. chan[a][b] = << >> /\ News(a, b)
  BY DEF Quiet, NewsInv
<1>2. \A x, y \in Routers : Running(x, y)' <=> Running(x, y)
  BY DEF Running
<1>3. CASE a = b
  <2>1. bgp[a].sessions[a] = None
    BY DEF SessionInv
  <2>2. chan'[a][b] = << >>
    BY <1>1, <1>3, <2>1
  <2> QED
    BY <2>2 DEF News, Varied
<1>4. CASE a # b
  <2>1. InStep(a, b)
    BY <1>4, QuietInStep
  <2>2. chan'[a][b] # << >> => Running(a, b)'
    BY <1>1, <1>2 DEF Running
  <2> QED
    BY <1>1, <1>2, <1>4, <2>1, <2>2, NewsSent DEF Running
<1> QED
  BY <1>3, <1>4

LEMMA NewsAfterRun ==
  ASSUME TypeOK, TypeOK', SessionInv, CoherenceInv, NewsInv, Quiet, refresh = {},
         NEW r \in Routers, NEW p \in Process, NEW force \in BOOLEAN,
         RunFrom(chan, r, p, force),
         p.rib_out = bgp[r].rib_out, p.sessions = bgp[r].sessions,
         \A n \in Routers : r # n => p.rib_in[n] = bgp[r].rib_in[n]
  PROVE  NewsInv'
<1>1. bgp \in [Routers -> Process] /\ chan \in Channel
  BY DEF TypeOK, Channel, Msg
<1>2. /\ bgp'[r].sessions = p.sessions /\ bgp'[r].rib_in = p.rib_in
      /\ \A a \in Routers \ {r} : bgp'[a] = bgp[a]
      /\ \A a \in Routers \ {r}, n \in Routers : chan'[a][n] = chan[a][n]
  BY <1>1, RunFacts
<1>3. \A n \in Routers : Tells(chan, r, p, n)
  BY <1>1, RunSends
<1>4. \A a \in Routers : bgp'[a].sessions = bgp[a].sessions
  BY <1>2
<1>5. \A a, b \in Routers : a # b => bgp'[b].rib_in[a] = bgp[b].rib_in[a]
  BY <1>2
<1>6. \A a, b \in Routers :
        \/ chan'[a][b] = chan[a][b] /\ bgp'[a].rib_out[b] = bgp[a].rib_out[b]
        \/ /\ chan'[a][b] = Append(chan[a][b], bgp'[a].rib_out[b])
           /\ bgp'[a].rib_out[b] # bgp[a].rib_out[b]
           /\ bgp[a].sessions[b] # None
  BY <1>2, <1>3 DEF Tells
<1> QED
  BY <1>4, <1>5, <1>6, NewsAfterQuiet

LEMMA NewsInit == Init => NewsInv
  BY DEF Init, NewsInv, News, Varied

LEMMA NewsStep ==
  ASSUME Manual = FALSE
  PROVE  TypeOK /\ TypeOK' /\ SessionInv /\ SessionInv' /\ CoherenceInv /\ NewsInv
           /\ [Next]_vars => NewsInv'
<1> SUFFICES ASSUME TypeOK, TypeOK', SessionInv, SessionInv', CoherenceInv, NewsInv,
                    [Next]_vars
             PROVE  NewsInv'
  OBVIOUS
<1>0. /\ bgp \in [Routers -> Process] /\ bgp' \in [Routers -> Process]
      /\ chan \in Channel /\ chan' \in Channel
      /\ bgp_sessions \in SessionConfig /\ topology \in Topology
  BY DEF TypeOK, Channel, Msg
<1>a. \A r \in Routers : bgp[r].router_id = r /\ bgp[r].sessions[r] = None
  BY DEF SessionInv
<1>b. Operation => Quiet /\ refresh = {}
  BY DEF Operation, Idle
<1>c. \A a \in Routers : /\ ~Due(a, a) /\ ~Running(a, a)
                        /\ ~Due(a, a)' /\ ~Running(a, a)'
  BY DEF SessionInv, Due, Effective, Running
<1>1. ASSUME NEW ad \in Advertisements, AdvertiseRoute(ad)
      PROVE  NewsInv'
  <2> DEFINE r == ad.router
             new == NewRoute(ad.router, ad.as_path, ad.med)
             p == Originate(bgp[r], new)
  <2>1. r \in Routers /\ new \in Msg
    BY NewRouteType
  <2> HIDE DEF new
  <2>2. p \in Process
    BY <1>0, <2>1, OriginateType
  <2>3. /\ p.rib_out = bgp[r].rib_out /\ p.sessions = bgp[r].sessions
        /\ \A n \in Routers : r # n => p.rib_in[n] = bgp[r].rib_in[n]
    BY <1>0, <1>a, <2>1, OriginateFacts
  <2>4. RunFrom(chan, r, p, FALSE) /\ Quiet /\ refresh = {}
    BY <1>1, <1>b DEF AdvertiseRoute, Run, RunFrom, new
  <2> HIDE DEF r, p
  <2> QED
    BY <2>1, <2>2, <2>3, <2>4, NewsAfterRun
<1>2. ASSUME NEW r \in Routers, WithdrawRoute(r)
      PROVE  NewsInv'
  <2> DEFINE p == Originate(bgp[r], None)
  <2>1. p \in Process
    BY <1>0, OriginateType DEF Msg
  <2>2. /\ p.rib_out = bgp[r].rib_out /\ p.sessions = bgp[r].sessions
        /\ \A n \in Routers : r # n => p.rib_in[n] = bgp[r].rib_in[n]
    BY <1>0, <1>a, OriginateFacts
  <2>3. RunFrom(chan, r, p, FALSE) /\ Quiet /\ refresh = {}
    BY <1>2, <1>b DEF WithdrawRoute, Run, RunFrom
  <2> HIDE DEF p
  <2> QED
    BY <2>1, <2>2, <2>3, NewsAfterRun
<1>3. ASSUME NEW c \in RouteMapChanges, SetBgpRouteMap(c)
      PROVE  NewsInv'
  <2> DEFINE r == c.router
             p == IF c.incoming
                  THEN [bgp[c.router] EXCEPT !.route_maps_in[c.neighbor] = c.map]
                  ELSE [bgp[c.router] EXCEPT !.route_maps_out[c.neighbor] = c.map]
  <2>1. c \in [router : Routers, neighbor : Routers, incoming : BOOLEAN, map : RouteMap]
    BY ConfigAssumption
  <2>2. r \in Routers /\ p \in Process
    BY <1>0, <2>1, RouteMapEditType
  <2>3. /\ p.rib_out = bgp[r].rib_out /\ p.rib_in = bgp[r].rib_in
        /\ p.sessions = bgp[r].sessions
    BY <1>0, <2>2 DEF Process
  <2>4. RunFrom(chan, r, p, TRUE) /\ Quiet /\ refresh = {}
    BY <1>3, <1>b DEF SetBgpRouteMap, Run, RunFrom
  <2> HIDE DEF r, p
  <2> QED
    BY <2>2, <2>3, <2>4, NewsAfterRun
<1>4. ASSUME NEW c \in SessionChanges, SetBgpSession(c)
      PROVE  NewsInv'
  <2>1. Quiet /\ chan' = chan
    BY <1>4, <1>b DEF SetBgpSession
  <2> QED
    BY <2>1 DEF Quiet, NewsInv, News, Varied
<1>5. ASSUME NEW t \in Topologies, SetTopology(t)
      PROVE  NewsInv'
  <2> DEFINE edited(r) == [bgp[r] EXCEPT !.igp_cost = t.cost[r]]
  <2>0. t \in Topology
    BY ConfigAssumption
  <2>1. /\ Quiet /\ refresh = {}
        /\ bgp' = [r \in Routers |-> Update(edited(r), FALSE)]
        /\ chan' = [r \in Routers |-> [n \in Routers |->
                      chan[r][n] \o Events(edited(r), FALSE)[n]]]
    BY <1>5, <1>b DEF SetTopology
  <2>2. ASSUME NEW r \in Routers
        PROVE  /\ edited(r) \in Process
               /\ edited(r).sessions = bgp[r].sessions
               /\ edited(r).rib_in = bgp[r].rib_in
               /\ edited(r).rib_out = bgp[r].rib_out
    BY <1>0, <2>0, IgpEditFacts
  <2> HIDE DEF edited
  <2>3. ASSUME NEW r \in Routers
        PROVE  bgp'[r].sessions = bgp[r].sessions /\ bgp'[r].rib_in = bgp[r].rib_in
    <3> DEFINE p == edited(r)
    <3>1. bgp'[r] = Update(p, FALSE)
      BY <2>1
    <3>2. p \in Process /\ p.sessions = bgp[r].sessions /\ p.rib_in = bgp[r].rib_in
      BY <2>2
    <3> HIDE DEF p
    <3>3. Update(p, FALSE).sessions = p.sessions /\ Update(p, FALSE).rib_in = p.rib_in
      BY <3>2, UpdateFacts
    <3> QED
      BY <3>1, <3>2, <3>3
  <2>4. ASSUME NEW a \in Routers, NEW b \in Routers
        PROVE  \/ chan'[a][b] = chan[a][b] /\ bgp'[a].rib_out[b] = bgp[a].rib_out[b]
               \/ /\ chan'[a][b] = Append(chan[a][b], bgp'[a].rib_out[b])
                  /\ bgp'[a].rib_out[b] # bgp[a].rib_out[b]
                  /\ bgp[a].sessions[b] # None
    <3> DEFINE events == Events(edited(a), FALSE)[b]
               m      == Update(edited(a), FALSE).rib_out[b]
               s      == chan[a][b]
    <3>1. \/ events = << >> /\ m = bgp[a].rib_out[b]
          \/ events = <<m>> /\ m # bgp[a].rib_out[b] /\ bgp[a].sessions[b] # None
      <4> DEFINE p == edited(a)
      <4>1. p \in Process /\ p.sessions = bgp[a].sessions /\ p.rib_out = bgp[a].rib_out
        BY <2>2
      <4> HIDE DEF p
      <4>2. \/ Events(p, FALSE)[b] = << >> /\ Update(p, FALSE).rib_out[b] = p.rib_out[b]
            \/ /\ Events(p, FALSE)[b] = <<Update(p, FALSE).rib_out[b]>>
               /\ Update(p, FALSE).rib_out[b] # p.rib_out[b]
               /\ p.sessions[b] # None
        BY <4>1, EventsAreNews
      <4> QED
        BY <4>1, <4>2 DEF p
    <3>2. chan'[a][b] = s \o events /\ bgp'[a].rib_out[b] = m
      BY <2>1
    <3>3. s = << >>
      BY <2>1 DEF Quiet
    <3> HIDE DEF events, m, s
    <3>4. << >> \o << >> = << >> /\ << >> \o <<m>> = <<m>> /\ Append(<< >>, m) = <<m>>
      OBVIOUS
    <3> QED
      BY <3>1, <3>2, <3>3, <3>4 DEF s
  <2> QED
    BY <2>1, <2>3, <2>4, NewsAfterQuiet
<1>6. ASSUME NEW a \in Routers, NEW b \in Routers, RefreshSession(a, b)
      PROVE  NewsInv'
  <2> DEFINE type == Effective(bgp_sessions, topology, a, b)
             p == EditSession(bgp[a], b, type)
  <2>1. type \in SessionType \cup {None} /\ (type # None <=> Due(a, b))
    BY <1>0, EffectiveType DEF Due
  <2>2. RunFrom(chan, a, p, TRUE) /\ UNCHANGED <<bgp_sessions, topology>>
    BY <1>6 DEF RefreshSession, Run, RunFrom
  <2> HIDE DEF type
  <2>a. bgp[a] \in Process
    BY <1>0
  <2>3. p \in Process
    BY <2>a, <2>1, EditSessionType
  <2>4. /\ p.sessions = [bgp[a].sessions EXCEPT ![b] = type]
        /\ type = None => /\ p.rib_in = [bgp[a].rib_in EXCEPT ![b] = None]
                          /\ p.rib_out = [bgp[a].rib_out EXCEPT ![b] = None]
        /\ type # None => p.rib_in = bgp[a].rib_in /\ p.rib_out = bgp[a].rib_out
    BY <2>a, <2>1, EditSessionFacts
  <2>5. /\ p.sessions[b] = type
        /\ \A n \in Routers \ {b} : /\ p.sessions[n] = bgp[a].sessions[n]
                                    /\ p.rib_in[n] = bgp[a].rib_in[n]
                                    /\ p.rib_out[n] = bgp[a].rib_out[n]
        /\ p.rib_in[b] = IF type = None THEN None ELSE bgp[a].rib_in[b]
        /\ type # None => p.rib_out[b] = bgp[a].rib_out[b]
    BY <1>0, <2>4 DEF Process
  <2> HIDE DEF p
  <2>6. /\ bgp'[a].sessions = p.sessions /\ bgp'[a].rib_in = p.rib_in
        /\ \A x \in Routers \ {a} : bgp'[x] = bgp[x]
        /\ \A x \in Routers \ {a}, n \in Routers : chan'[x][n] = chan[x][n]
    BY <1>0, <2>2, <2>3, RunOthers
  <2>7. \A n \in Routers : Tells(chan, a, p, n)
    BY <1>0, <2>2, <2>3, RunSends
  <2>8. \A x, y \in Routers : Due(x, y)' <=> Due(x, y)
    BY <2>2 DEF Due
  <2>9. Due(a, b) <=> Due(b, a)
    <3>1. \A x, y \in Routers : ~Due(x, y) => ~Due(y, x)
      <4>1. /\ bgp_sessions \in SessionConfig
            /\ topology \in Topologies \cup {InitialTopology}
            /\ \A x, y \in Routers : bgp_sessions[x][y] = None => bgp_sessions[y][x] = None
        BY ONLY <1>0, SessionInv DEF SessionInv
      <4> QED
        BY ONLY <4>1, EffectiveSymmetric DEF Due
    <3> QED
      BY <3>1
  <2>10. /\ Running(a, b)' <=> Due(a, b)
         /\ \A x, y \in Routers : <<x, y>> # <<a, b>> => (Running(x, y)' <=> Running(x, y))
    <3>1. Running(a, b)' <=> Due(a, b)
      BY <2>1, <2>5, <2>6 DEF Running
    <3>2. ASSUME NEW x \in Routers, NEW y \in Routers, <<x, y>> # <<a, b>>
          PROVE  Running(x, y)' <=> Running(x, y)
      <4>1. CASE x = a
        BY <2>5, <2>6, <3>2, <4>1 DEF Running
      <4>2. CASE x # a
        BY <2>6, <4>2 DEF Running
      <4> QED
        BY <4>1, <4>2
    <3> QED
      BY <3>1, <3>2
  <2>11. ASSUME NEW x \in Routers, NEW y \in Routers
         PROVE  News(x, y)'
    <3>0. News(x, y) /\ (Due(x, y) \/ (Running(x, y) /\ Running(y, x)) => InStep(x, y))
      BY DEF NewsInv, CoherenceInv
    <3>1. CASE x # a
      <4>1. chan'[x][y] = chan[x][y] /\ bgp'[x] = bgp[x]
        BY <2>6, <3>1
      <4>2. bgp'[y].rib_in[x] \in {bgp[y].rib_in[x], None}
        BY <2>5, <2>6
      <4>3. Running(x, y)' <=> Running(x, y)
        BY <2>10, <3>1
      <4>4. Due(x, y)' \/ (Running(x, y)' /\ Running(y, x)')
              => Due(x, y) \/ (Running(x, y) /\ Running(y, x))
        BY <2>8, <2>9, <2>10, <3>1
      <4> QED
        BY <2>8, <3>0, <4>1, <4>2, <4>3, <4>4 DEF News
    <3>2. CASE x = a /\ y = a
      <4>1. ~Running(a, a)' /\ ~Due(a, a)'
        BY <1>c
      <4>2. p.sessions[a] = None
        BY <2>6, <4>1 DEF Running
      <4>3. chan'[a][a] = chan[a][a]
        BY <2>7, <4>2 DEF Tells
      <4> QED
        BY <3>0, <3>2, <4>1, <4>3 DEF News
    <3>3. CASE x = a /\ y = b /\ y # a /\ ~Due(a, b)
      <4>1. p.sessions[b] = None
        BY <2>1, <2>5, <3>3
      <4>2. chan'[a][b] = chan[a][b]
        BY <2>7, <4>1 DEF Tells
      <4> QED
        BY <2>8, <2>10, <3>0, <3>3, <4>2 DEF News
    <3>4. CASE x = a /\ y # a /\ (y # b \/ Due(a, b))
      <4>1. p.rib_out[y] = bgp[a].rib_out[y] /\ bgp'[y] = bgp[y]
        BY <2>1, <2>5, <2>6, <3>4
      <4>2. p.sessions[y] # None <=> Running(a, y)'
        BY <2>6 DEF Running
      <4>3. Running(y, a)' <=> Running(y, a)
        BY <2>10, <3>4
      <4>4. y # b => (Running(a, y)' <=> Running(a, y))
        BY <2>10
      <4>5. chan[a][y] # << >> /\ Running(a, y)' => Running(a, y)
        BY <3>0, <3>4, <4>4 DEF News
      <4>6. \/ chan'[a][y] = chan[a][y] /\ bgp'[a].rib_out[y] = bgp[a].rib_out[y]
            \/ /\ chan'[a][y] = Append(chan[a][y], bgp'[a].rib_out[y])
               /\ bgp'[a].rib_out[y] # bgp[a].rib_out[y]
               /\ Running(a, y)'
        BY <2>7, <4>1, <4>2 DEF Tells
      <4>7. chan'[a][y] # << >> /\ Due(a, y)' => Running(a, y)'
        <5>1. CASE y = b
          BY <2>10, <3>4, <5>1
        <5>2. CASE y # b
          BY <2>8, <3>0, <3>4, <4>4, <4>6, <5>2 DEF News
        <5> QED
          BY <5>1, <5>2
      <4>8. Due(a, y)' \/ (Running(a, y)' /\ Running(y, a)') =>
              /\ InStep(a, y)
              /\ chan[a][y] # << >> => Due(a, y) \/ (Running(a, y) /\ Running(y, a))
        BY <2>8, <3>0, <3>4, <4>3, <4>4
      <4> QED
        BY <3>0, <3>4, <4>1, <4>5, <4>6, <4>7, <4>8, NewsSent
    <3> QED
      BY <3>1, <3>2, <3>3, <3>4
  <2> QED
    BY <2>11 DEF NewsInv
<1>7. ASSUME NEW a \in Routers, NEW b \in Routers, HandleEvent(a, b)
      PROVE  NewsInv'
  <2> DEFINE popped == [chan EXCEPT ![a][b] = Tail(@)]
             m == Head(chan[a][b])
             p == Receive(bgp[b], a, m)
  <2>0. refresh = {} /\ UNCHANGED <<bgp_sessions, topology, refresh>>
    BY <1>7 DEF HandleEvent
  <2>1. chan[a][b] \in Seq(Msg) /\ chan[a][b] # << >>
    BY <1>0, <1>7 DEF HandleEvent, Channel
  <2>2. /\ m \in Msg /\ Tail(chan[a][b]) \in Seq(Msg)
        /\ Varied(Tail(chan[a][b]))
        /\ Tail(chan[a][b]) # << >> =>
             Head(Tail(chan[a][b])) # m /\ Last(Tail(chan[a][b])) = Last(chan[a][b])
    <3>1. Varied(chan[a][b])
      BY DEF NewsInv, News
    <3> QED
      BY <2>1, <3>1, LastOfTail, VariedTail
  <2>3. /\ popped \in Channel /\ popped[a][b] = Tail(chan[a][b])
        /\ \A x, y \in Routers : <<x, y>> # <<a, b>> => popped[x][y] = chan[x][y]
    <3>1. popped \in Channel
      BY <1>0, <2>2 DEF Channel
    <3>2. /\ popped[a][b] = Tail(chan[a][b])
          /\ \A x, y \in Routers : <<x, y>> # <<a, b>> => popped[x][y] = chan[x][y]
      BY <1>0 DEF Channel
    <3> QED
      BY <3>1, <3>2
  <2>4. \A x, y \in Routers :
          (Running(x, y) <=> Due(x, y)) /\ (Running(x, y) <=> Running(y, x))
    BY <1>0, <2>0, SessionsAreEffective
  <2>5. \A x, y \in Routers :
          (Running(x, y)' <=> Due(x, y)') /\ (Due(x, y)' <=> Due(x, y))
    BY <2>0 DEF SessionInv, Running, Due
  <2>6. CASE bgp[b].sessions[a] = None
    <3>1. chan' = popped /\ bgp' = bgp
      BY <1>7, <2>6 DEF HandleEvent
    <3>2. ~Running(a, b)' /\ ~Due(a, b)'
      BY <2>4, <2>5, <2>6 DEF Running
    <3> HIDE DEF popped
    <3>3. ASSUME NEW x \in Routers, NEW y \in Routers
          PROVE  News(x, y)'
      <4>1. CASE <<x, y>> = <<a, b>>
        BY <2>2, <2>3, <3>1, <3>2, <4>1 DEF News
      <4>2. CASE <<x, y>> # <<a, b>>
        BY <2>3, <2>4, <2>5, <3>1, <4>2 DEF NewsInv, News
      <4> QED
        BY <4>1, <4>2
    <3> QED
      BY <3>3 DEF NewsInv
  <2>7. CASE bgp[b].sessions[a] # None
    <3>1. RunFrom(popped, b, p, FALSE)
      BY <1>7, <2>7 DEF HandleEvent, RunFrom
    <3>2. p \in Process /\ a # b
      BY <1>0, <1>a, <2>2, <2>7, ReceiveType
    <3>a. bgp[b] \in Process
      BY <1>0
    <3>b. /\ p.sessions = bgp[b].sessions /\ p.rib_out = bgp[b].rib_out
          /\ \A n \in Routers \ {a} : p.rib_in[n] = bgp[b].rib_in[n]
      BY <3>a, ReceiveKeeps
    <3>c. p.rib_in[a] # None => p.rib_in[a].route = m
      <4>1. p.rib_in[a] = IF m = None \/ Refused(bgp[b].router_id, m) THEN None
                          ELSE [route |-> m, from_type |-> bgp[b].sessions[a]]
        BY <3>a, ReceiveBelieves
      <4> HIDE DEF p, m
      <4> QED
        BY <4>1
    <3>3. /\ p.sessions = bgp[b].sessions /\ p.rib_out = bgp[b].rib_out
          /\ \A n \in Routers \ {a} : p.rib_in[n] = bgp[b].rib_in[n]
          /\ p.rib_in[a] # None => p.rib_in[a].route = m
      BY <3>b, <3>c
    <3> HIDE DEF p, popped
    <3>4. /\ bgp'[b].sessions = p.sessions /\ bgp'[b].rib_in = p.rib_in
          /\ \A x \in Routers \ {b} : bgp'[x] = bgp[x]
          /\ \A x \in Routers \ {b}, n \in Routers : chan'[x][n] = popped[x][n]
      BY <1>0, <2>3, <3>1, <3>2, RunOthers
    <3>5. \A n \in Routers : Tells(popped, b, p, n)
      BY <1>0, <2>3, <3>1, <3>2, RunSends
    <3>6. ASSUME NEW x \in Routers, NEW y \in Routers
          PROVE  News(x, y)'
      <4>0. News(x, y) /\ (Due(x, y) => InStep(x, y))
        BY DEF NewsInv, CoherenceInv
      <4>1. CASE x = a /\ y = b
        <5>1. chan'[a][b] = Tail(chan[a][b]) /\ bgp'[a] = bgp[a]
          BY <2>3, <3>2, <3>4
        <5>2. bgp'[b].rib_in[a] # None => bgp'[b].rib_in[a].route = m
          BY <3>3, <3>4
        <5>3. (Running(a, b)' <=> Running(a, b)) /\ (Due(a, b)' => Running(a, b)')
          BY <2>4, <2>5
        <5> HIDE DEF m
        <5> QED
          BY <2>1, <2>2, <4>0, <4>1, <5>1, <5>2, <5>3 DEF News
      <4>2. CASE x # b /\ <<x, y>> # <<a, b>>
        <5>1. chan'[x][y] = chan[x][y] /\ bgp'[x] = bgp[x]
          BY <2>3, <3>4, <4>2
        <5>2. bgp'[y].rib_in[x] = bgp[y].rib_in[x]
          BY <3>3, <3>4, <4>2
        <5> QED
          BY <2>4, <2>5, <4>0, <5>1, <5>2 DEF News
      <4>3. CASE x = b /\ y = b
        <5>1. ~Running(b, b)' /\ ~Due(b, b)' /\ bgp[b].sessions[b] = None
          BY <1>a, <1>c
        <5>2. chan'[b][b] = chan[b][b]
          BY <2>3, <3>2, <3>3, <3>5, <5>1 DEF Tells
        <5> QED
          BY <4>0, <4>3, <5>1, <5>2 DEF News
      <4>4. CASE x = b /\ y # b
        <5>1. popped[b][y] = chan[b][y] /\ bgp'[y] = bgp[y]
          BY <2>3, <3>2, <3>4, <4>4
        <5>2. /\ Running(b, y)' <=> Running(b, y)
              /\ Due(b, y)' <=> Running(b, y)
              /\ Running(y, b)' <=> Running(b, y)
              /\ Running(b, y) => InStep(b, y) /\ Due(b, y)
          BY <2>4, <2>5, <4>0, <4>4
        <5>3. p.sessions[y] # None <=> Running(b, y)'
          BY <3>4 DEF Running
        <5>4. \/ chan'[b][y] = chan[b][y] /\ bgp'[b].rib_out[y] = bgp[b].rib_out[y]
              \/ /\ chan'[b][y] = Append(chan[b][y], bgp'[b].rib_out[y])
                 /\ bgp'[b].rib_out[y] # bgp[b].rib_out[y]
                 /\ Running(b, y)'
          BY <3>3, <3>5, <5>1, <5>3 DEF Tells
        <5> QED
          BY <4>0, <4>4, <5>1, <5>2, <5>4, NewsSent
      <4> QED
        BY <4>1, <4>2, <4>3, <4>4
    <3> QED
      BY <3>6 DEF NewsInv
  <2> QED
    BY <2>6, <2>7
<1>8. CASE UNCHANGED vars
  BY <1>8 DEF vars, NewsInv, News, Running, Due
<1> QED
  BY <1>1, <1>2, <1>3, <1>4, <1>5, <1>6, <1>7, <1>8 DEF Next, Simulate

(* A router tells its peer only what is news to it: no event repeats the   *)
(* one before it, and the next event to be handled is not what the peer    *)
(* holds already, also after withdrawals, refused routes and sessions that *)
(* were torn down and set up again.                                        *)
THEOREM EventsAreNotRedundant ==
  ASSUME Manual = FALSE
  PROVE  Spec => []NoRedundantEvents
<1>1. NewsInv => NoRedundantEvents
  <2> SUFFICES ASSUME NewsInv, NEW a \in Routers, NEW b \in Routers
               PROVE  /\ \A i \in 1 .. Len(chan[a][b]) - 1 : chan[a][b][i] # chan[a][b][i + 1]
                      /\ Running(a, b) /\ Running(b, a) /\ chan[a][b] # << >> =>
                           \/ ~Believes(b, a, Head(chan[a][b]))
                           \/ bgp[b].rib_in[a] = None
    BY DEF NoRedundantEvents
  <2>1. News(a, b)
    BY DEF NewsInv
  <2> QED
    BY <2>1 DEF News, Varied, Believes
<1> QED
  BY <1>1, TypeInit, TypeStep, SessionInit, SessionStep, CoherenceInit, CoherenceStep,
     NewsInit, NewsStep, PTL DEF Spec

(***************************************************************************)
(* In a converged network every selected route was propagated from a       *)
(* router that originates it (PropagationExplained).  The way a route took *)
(* is a recursive function of the tables; it ends because a route never    *)
(* gets simpler on its way.                                                *)
(***************************************************************************)
(* A set of numbers has a smallest one.                                    *)
LEMMA NatMinimum ==
  ASSUME NEW T, T \subseteq Nat, T # {}
  PROVE  \E x \in T : \A y \in T : x <= y
<1> DEFINE R == OpToRel(<, Nat)
<1>1. IsWellFoundedOn(R, Nat)
  BY NatLessThanWellFounded
<1> HIDE DEF R
<1>2. PICK x \in T : \A y \in T : ~ (<<y, x>> \in R)
  BY <1>1, WFMin
<1>3. \A i, j \in Nat : i < j => <<i, j>> \in R
  BY DEF R, OpToRel
<1>4. ASSUME NEW y \in T
      PROVE  x <= y
  <2>1. x \in Nat /\ y \in Nat
    OBVIOUS
  <2>2. ~(y < x)
    BY <1>2, <1>3, <2>1
  <2> QED
    BY <2>1, <2>2
<1> QED
  BY <1>4

(* Induction, for a set of numbers.                                        *)
LEMMA UpTo ==
  ASSUME NEW N \in Nat, NEW A, 0 \in A, \A k \in 0 .. N : k \in A /\ k < N => k + 1 \in A
  PROVE  \A k \in 0 .. N : k \in A
<1> DEFINE T == {k \in 0 .. N : k \notin A}
<1> SUFFICES ASSUME T # {} PROVE FALSE
  OBVIOUS
<1>1. PICK k \in T : \A l \in T : k <= l
  <2>1. T \subseteq Nat
    OBVIOUS
  <2> HIDE DEF T
  <2> QED
    BY <2>1, NatMinimum
<1>2. k \in 0 .. N /\ k # 0
  OBVIOUS
<1>3. k - 1 \in 0 .. N /\ k - 1 < N /\ k - 1 \notin T
  BY <1>1, <1>2
<1>4. k - 1 \in A
  BY <1>3
<1>5. k - 1 + 1 \in A
  BY <1>3, <1>4
<1> QED
  BY <1>2, <1>5

(* A function can be iterated as often as one wants. *)
Iterable(S, f, x, N) ==
  \E g \in [0 .. N -> S] : g[0] = x /\ \A k \in 1 .. N : g[k] = f[g[k - 1]]

LEMMA Iterates ==
  ASSUME NEW S, NEW f \in [S -> S], NEW x \in S, NEW N \in Nat
  PROVE  Iterable(S, f, x, N)
<1> DEFINE Good(n) == \E g \in [0 .. n -> S] :
                        g[0] = x /\ \A k \in 1 .. n : g[k] = f[g[k - 1]]
           A == {n \in Nat : Good(n)}
<1>1. 0 \in A
  <2> DEFINE g == [k \in 0 .. 0 |-> x]
  <2>1. g \in [0 .. 0 -> S] /\ g[0] = x /\ \A k \in 1 .. 0 : g[k] = f[g[k - 1]]
    OBVIOUS
  <2> QED
    BY <2>1
<1>2. ASSUME NEW n \in Nat, Good(n)
      PROVE  Good(n + 1)
  <2>1. PICK g \in [0 .. n -> S] : g[0] = x /\ \A k \in 1 .. n : g[k] = f[g[k - 1]]
    BY <1>2
  <2> DEFINE h == [k \in 0 .. n + 1 |-> IF k = n + 1 THEN f[g[n]] ELSE g[k]]
  <2>2. h \in [0 .. n + 1 -> S] /\ h[0] = x
    BY <2>1
  <2>3. \A k \in 1 .. n + 1 : h[k] = f[h[k - 1]]
    BY <2>1
  <2> HIDE DEF h
  <2> QED
    BY <2>2, <2>3
<1> HIDE DEF Good
<1>3. N \in A
  <2>1. \A n \in 0 .. N : n \in A /\ n < N => n + 1 \in A
    BY <1>2
  <2> HIDE DEF A
  <2> QED
    BY <1>1, <2>1, UpTo
<1> QED
  BY <1>3 DEF Good, Iterable
-----------------------------------------------------------------------------
(* The step that propagation_path takes                                    *)
LearnedFrom(r) == Node(r).learned_from

Back(r) == IF LearnedFrom(r) = None THEN r ELSE LearnedFrom(r)

LEMMA BackType ==
  ASSUME StableInv, NEW r \in Routers
  PROVE  /\ LearnedFrom(r) \in Routers \cup {None} /\ Back(r) \in Routers
         /\ ~Stops(r) => Back(r) = LearnedFrom(r) /\ Back(r) # r /\ bgp[r].rib # None
                         /\ bgp[r].rib.from_id = Back(r)
         /\ LearnedFrom(r) # None <=> bgp[r].rib # None
<1>1. CASE bgp[r].rib = None
  BY <1>1 DEF Stops, Back, LearnedFrom, Node
<1>2. CASE bgp[r].rib # None
  <2>1. bgp[r].rib.from_id \in Routers
    BY <1>2, SelectedNow
  <2>2. bgp[r].rib.from_id # None
    BY <2>1, NoneAssumption
  <2> QED
    BY <1>2, <2>1, <2>2 DEF Stops, Back, LearnedFrom, Node
<1> QED
  BY <1>1, <1>2

(* How long a route is: its AS path, and how far it came inside the AS     *)
Way(r) == Len(bgp[r].rib.route.as_path)

Depth(r) == 2 * Len(bgp[r].rib.route.cluster_list)
              + (IF bgp[r].rib.from_type = "EBgp" THEN 0 ELSE 1)

Longer(r, n) == Way(n) < Way(r) \/ (Way(n) = Way(r) /\ Depth(n) < Depth(r))

(* What router b learned from another one is what that one tells it, and   *)
(* selects; and it has become longer.                                      *)
LEMMA LearnedStep ==
  ASSUME StableInv, Converged, NEW b \in Routers, ~Stops(b)
  PROVE  LET n == Back(b)
         IN  /\ bgp[n].rib # None
             /\ Advertised(n, b) # None /\ ~Refused(b, Advertised(n, b))
             /\ Advertised(n, b).as_path = Node(b).selected.as_path
             /\ Way(b) \in Nat /\ Way(n) \in Nat /\ Depth(b) \in Nat /\ Depth(n) \in Nat
             /\ Longer(b, n)
<1> DEFINE p  == bgp[b]
           n  == Back(b)
           in == p.rib_in[n]
           q  == bgp[n]
           m  == Export(q, b)
<1>0. n \in Routers /\ n # b /\ p.rib # None /\ p.rib.from_id = n
  BY BackType
<1>1. /\ p \in Process /\ p.router_id = b /\ p.rib \in Entry
      /\ Selected(p) # None /\ SameEntry(Selected(p), p.rib)
      /\ in # None /\ Selected(p) = ProcessRibIn(p, n)
  BY <1>0, SelectedNow
<1>2. q \in Process /\ q.router_id = n
  BY <1>0 DEF StableInv, TypeOK, SessionInv
<1>4. p.rib.from_type \in Types(b, n)
  BY <1>0 DEF StableInv, TypedInv, LearnedAs
<1>6. /\ p.rib.route.as_path = in.route.as_path
      /\ p.rib.route.cluster_list = in.route.cluster_list
  <2>1. p.rib.route = Selected(p).route
    BY <1>1 DEF SameEntry
  <2>2. /\ ProcessRibIn(p, n).route.as_path = in.route.as_path
        /\ ProcessRibIn(p, n).route.cluster_list = in.route.cluster_list
    BY <1>0, <1>1, ProcessRibInFacts
  <2> QED
    BY <1>1, <2>1, <2>2
<1>7. Running(b, n)
  BY <1>0, <1>1 DEF StableInv, SessionInv
<1>8. /\ q.sessions[b] # None /\ m # None /\ in.route = m /\ ~Refused(b, m)
      /\ Advertised(n, b) = m
  <2>1. q.sessions[b] # None /\ Believes(b, n, m)
    BY <1>0, <1>7, LearnedFromPeer
  <2>2. q.rib_out[b] = m
    BY <1>0, <2>1 DEF StableInv, SettledInv, Told, Peers
  <2> HIDE DEF m
  <2> QED
    BY <1>1, <2>1, <2>2 DEF Believes, Advertised
<1>9. q.sessions[b] \in Types(n, b)
  BY <1>0, <1>8 DEF StableInv, TypedInv
<1>10. (p.rib.from_type = "EBgp" <=> AsOf[b] # AsOf[n])
       /\ (q.sessions[b] = "EBgp" <=> AsOf[b] # AsOf[n])
  <2>1. p.rib.from_type = "EBgp" <=> AsOf[b] # AsOf[n]
    BY <1>0, <1>4, TypesAs
  <2>2. q.sessions[b] = "EBgp" <=> AsOf[n] # AsOf[b]
    BY <1>0, <1>9, TypesAs
  <2> QED
    BY <2>1, <2>2
<1>11. q.rib # None /\ q.rib \in Entry /\ ExportOf(q, q.rib, b, m)
  <2>1. q.rib # None /\ q.rib \in Entry /\ m = ProcessRibOut(q, q.rib, b)
    BY <1>2, <1>8 DEF Export, Process
  <2> QED
    BY <1>2, <1>8, <2>1, ProcessRibOutFacts
<1> DEFINE ep == p.rib.route.as_path
           fp == q.rib.route.as_path
           ec == p.rib.route.cluster_list
           fc == q.rib.route.cluster_list
<1>12. ep \in Seq(Nat) /\ fp \in Seq(Nat) /\ ec \in Seq(Routers) /\ fc \in Seq(Routers)
  BY <1>1, <1>11 DEF Entry, Route
<1>a. /\ Len(ep) \in Nat /\ Len(fp) \in Nat /\ Len(ec) \in Nat /\ Len(fc) \in Nat
  <2>1. /\ \A s \in Seq(Nat) : Len(s) \in Nat
        /\ \A s \in Seq(Routers) : Len(s) \in Nat
    OBVIOUS
  <2> HIDE DEF ep, fp, ec, fc
  <2> QED
    BY ONLY <1>12, <2>1
<1>b. /\ Way(b) = Len(ep) /\ Way(n) = Len(fp)
      /\ Depth(b) = 2 * Len(ec) + (IF p.rib.from_type = "EBgp" THEN 0 ELSE 1)
      /\ Depth(n) = 2 * Len(fc) + (IF q.rib.from_type = "EBgp" THEN 0 ELSE 1)
  BY DEF Way, Depth
<1>13. ASSUME q.sessions[b] = "EBgp"
      PROVE  Longer(b, n)
  <2>1. ep = <<AsOf[n]>> \o fp
    BY <1>2, <1>6, <1>8, <1>11, <1>13 DEF ExportOf
  <2>2. AsOf[n] \in Nat
    BY <1>0, RoutersAssumption
  <2> HIDE DEF ep, fp, ec, fc, n
  <2>3. Len(ep) = Len(fp) + 1
    <3>1. \A x \in Nat, s \in Seq(Nat) : Len(<<x>> \o s) = Len(s) + 1
      OBVIOUS
    <3> QED
      BY ONLY <1>12, <2>1, <2>2, <3>1
  <2>4. Way(n) < Way(b)
    BY ONLY <1>a, <1>b, <2>3
  <2> QED
    BY ONLY <2>4 DEF Longer
<1>14. ASSUME q.sessions[b] # "EBgp" /\ q.rib.from_type = "EBgp"
      PROVE  Longer(b, n)
  <2>1. ep = fp /\ ec = fc
    BY <1>6, <1>8, <1>11, <1>14 DEF ExportOf
  <2>2. p.rib.from_type # "EBgp"
    BY <1>10, <1>14
  <2> HIDE DEF ep, fp, ec, fc, p, q, n
  <2>3. Way(n) = Way(b) /\ Depth(n) < Depth(b)
    BY ONLY <1>a, <1>b, <1>14, <2>1, <2>2
  <2> QED
    BY ONLY <2>3 DEF Longer
<1>15. ASSUME q.sessions[b] # "EBgp" /\ q.rib.from_type # "EBgp"
      PROVE  Longer(b, n)
  <2>1. ep = fp /\ ec = Append(fc, n)
    BY <1>2, <1>6, <1>8, <1>11, <1>15 DEF ExportOf
  <2>2. p.rib.from_type # "EBgp"
    BY <1>10, <1>15
  <2> HIDE DEF ep, fp, ec, fc, p, q, n
  <2>3. Len(ec) = Len(fc) + 1
    <3>1. \A x \in Routers, s \in Seq(Routers) : Len(Append(s, x)) = Len(s) + 1
      OBVIOUS
    <3> QED
      BY ONLY <1>0, <1>12, <2>1, <3>1
  <2>4. Way(n) = Way(b) /\ Depth(n) < Depth(b)
    BY ONLY <1>a, <1>b, <1>15, <2>1, <2>2, <2>3
  <2> QED
    BY ONLY <2>4 DEF Longer
<1>16. Longer(b, n)
  BY ONLY <1>13, <1>14, <1>15
<1>17. Way(b) \in Nat /\ Way(n) \in Nat /\ Depth(b) \in Nat /\ Depth(n) \in Nat
  <2> HIDE DEF ep, fp, ec, fc, p, q, n
  <2> QED
    BY ONLY <1>a, <1>b
<1>18. m.as_path = Node(b).selected.as_path
  BY <1>0, <1>6, <1>8 DEF Node
<1> HIDE DEF p, q, m, in, ep, fp, ec, fc
<1> QED
  BY <1>8, <1>11, <1>16, <1>17, <1>18 DEF q

(* No set of routers keeps a route alive that none of them originates.     *)
LEMMA NoCycle ==
  ASSUME StableInv, Converged, NEW C, C \subseteq Routers, C # {},
         \A c \in C : ~Stops(c) /\ Back(c) \in C
  PROVE  FALSE
<1>1. \A c \in C : /\ Way(c) \in Nat /\ Depth(c) \in Nat
                   /\ Back(c) \in C /\ Longer(c, Back(c))
  BY LearnedStep
<1> DEFINE Ways == {Way(c) : c \in C}
<1>2. PICK w \in Ways : \A v \in Ways : w <= v
  <2>1. Ways \subseteq Nat /\ Ways # {}
    BY <1>1
  <2> HIDE DEF Ways
  <2> QED
    BY <2>1, NatMinimum
<1> DEFINE D == {c \in C : Way(c) = w}
           Depths == {Depth(c) : c \in D}
<1>3. PICK i \in Depths : \A j \in Depths : i <= j
  <2>1. Depths \subseteq Nat /\ Depths # {}
    BY <1>1, <1>2
  <2> HIDE DEF Depths
  <2> QED
    BY <2>1, NatMinimum
<1>4. PICK c \in D : Depth(c) = i
  BY <1>3
<1> DEFINE n == Back(c)
<1>5. c \in C /\ n \in C /\ Longer(c, n) /\ Way(c) = w
  BY <1>1, <1>4
<1>6. w <= Way(n)
  BY <1>2, <1>5
<1>7. /\ Way(c) \in Nat /\ Way(n) \in Nat /\ Depth(c) \in Nat /\ Depth(n) \in Nat
  BY <1>1, <1>5
<1> HIDE DEF n
<1>8. Way(n) = w /\ Depth(n) < Depth(c)
  BY <1>5, <1>6, <1>7 DEF Longer
<1>9. i <= Depth(n)
  BY <1>3, <1>5, <1>8
<1> QED
  BY <1>4, <1>7, <1>8, <1>9
-----------------------------------------------------------------------------
Bound == Cardinality(Routers)

(* Upstream is the iteration of Back.                                      *)
LEMMA UpstreamSteps ==
  ASSUME StableInv, IsFiniteSet(Routers), NEW r \in Routers
  PROVE  /\ Bound \in Nat /\ Upstream(r) \in [0 .. Bound -> Routers]
         /\ Upstream(r)[0] = r
         /\ \A k \in 1 .. Bound : Upstream(r)[k] = Back(Upstream(r)[k - 1])
<1> DEFINE Q(up) == up = [k \in 0 .. Bound |->
                            IF k = 0 THEN r
                            ELSE IF Node(up[k - 1]).learned_from = None THEN up[k - 1]
                            ELSE Node(up[k - 1]).learned_from]
           f == [x \in Routers |-> Back(x)]
<1>1. Bound \in Nat
  BY FS_CardinalityType DEF Bound
<1>2. f \in [Routers -> Routers]
  BY BackType
<1>3. PICK g \in [0 .. Bound -> Routers] :
        g[0] = r /\ \A k \in 1 .. Bound : g[k] = f[g[k - 1]]
  <2> HIDE DEF f
  <2>2. Iterable(Routers, f, r, Bound)
    BY ONLY <1>1, <1>2, r \in Routers, Iterates
  <2> QED
    BY ONLY <2>2 DEF Iterable
<1>4. \A k \in 1 .. Bound : g[k - 1] \in Routers
  <2> HIDE DEF f
  <2> QED
    BY ONLY <1>1, <1>3
<1>5. g[0] = r /\ \A k \in 1 .. Bound : g[k] = Back(g[k - 1])
  BY <1>1, <1>3, <1>4
<1>6. Q(g)
  <2>1. g = [k \in 0 .. Bound |-> g[k]]
    BY <1>3
  <2>2. \A k \in 0 .. Bound :
          g[k] = IF k = 0 THEN r
                 ELSE IF Node(g[k - 1]).learned_from = None THEN g[k - 1]
                 ELSE Node(g[k - 1]).learned_from
    BY <1>1, <1>5 DEF Back, LearnedFrom
  <2> QED
    BY <2>1, <2>2
<1>7. Q(Upstream(r))
  BY <1>6 DEF Upstream, Bound
<1>8. Upstream(r) = g
  <2> DEFINE u == Upstream(r)
             A == {k \in 0 .. Bound : u[k] = g[k]}
  <2>1. u = [k \in 0 .. Bound |-> u[k]]
    BY <1>7
  <2>2. u[0] = r
    BY <1>1, <1>7
  <2>3. \A k \in 1 .. Bound : u[k] = Back(u[k - 1])
    BY <1>1, <1>7 DEF Back, LearnedFrom
  <2> HIDE DEF u, Q
  <2>4. \A k \in 0 .. Bound : k \in A
    <3>1. 0 \in A
      BY <1>1, <1>5, <2>2
    <3>2. \A k \in 0 .. Bound : k \in A /\ k < Bound => k + 1 \in A
      <4> SUFFICES ASSUME NEW k \in 0 .. Bound, k \in A, k < Bound
                   PROVE  k + 1 \in A
        OBVIOUS
      <4>1. k + 1 \in 1 .. Bound /\ k + 1 - 1 = k /\ k + 1 \in 0 .. Bound
        BY <1>1
      <4>2. u[k + 1] = Back(u[k]) /\ g[k + 1] = Back(g[k])
        BY <1>5, <2>3, <4>1
      <4> QED
        BY <4>1, <4>2
    <3> HIDE DEF A
    <3> QED
      BY ONLY <1>1, <3>1, <3>2, UpTo
  <2> QED
    BY <1>3, <2>1, <2>4 DEF u
<1> QED
  BY <1>1, <1>3, <1>5, <1>8

(* Reach is the iteration of Users.                                        *)
Widened(w, x) ==
  /\ w \in [0 .. Bound -> SUBSET Routers]
  /\ w[0] = {x}
  /\ \A k \in 1 .. Bound : w[k] = w[k - 1] \cup UNION {Users(n) : n \in w[k - 1]}

LEMMA ReachSteps ==
  ASSUME IsFiniteSet(Routers), NEW x \in Routers
  PROVE  \E w : Widened(w, x) /\ Reach(x) = w[Bound]
<1> DEFINE Q(w) == w = [k \in 0 .. Bound |->
                          IF k = 0 THEN {x}
                          ELSE w[k - 1] \cup UNION {Users(n) : n \in w[k - 1]}]
           f == [S \in SUBSET Routers |-> S \cup UNION {Users(n) : n \in S}]
<1>1. Bound \in Nat
  BY FS_CardinalityType DEF Bound
<1>2. f \in [SUBSET Routers -> SUBSET Routers]
  BY DEF Users, Node
<1>3. PICK g \in [0 .. Bound -> SUBSET Routers] :
        g[0] = {x} /\ \A k \in 1 .. Bound : g[k] = f[g[k - 1]]
  <2>1. {x} \in SUBSET Routers
    OBVIOUS
  <2> HIDE DEF f
  <2>2. Iterable(SUBSET Routers, f, {x}, Bound)
    BY ONLY <1>1, <1>2, <2>1, Iterates
  <2> QED
    BY ONLY <2>2 DEF Iterable
<1>4. \A k \in 1 .. Bound : g[k - 1] \in SUBSET Routers
  <2> HIDE DEF f
  <2> QED
    BY ONLY <1>1, <1>3
<1>5. Widened(g, x)
  BY <1>3, <1>4 DEF Widened
<1> HIDE DEF f
<1>6. Q(g)
  <2>1. g = [k \in 0 .. Bound |-> g[k]]
    BY <1>3
  <2>2. \A k \in 0 .. Bound :
          g[k] = IF k = 0 THEN {x}
                 ELSE g[k - 1] \cup UNION {Users(n) : n \in g[k - 1]}
    BY <1>1, <1>5 DEF Widened
  <2> QED
    BY <2>1, <2>2
<1> DEFINE c == CHOOSE w : Q(w)
<1>7. Q(c)
  BY <1>6
<1>8. Reach(x) = c[Bound]
  BY DEF Reach, Bound
<1> HIDE DEF c
<1>9. c = g
  <2> DEFINE A == {k \in 0 .. Bound : c[k] = g[k]}
  <2>1. c = [k \in 0 .. Bound |-> c[k]]
    BY <1>7
  <2>2. c[0] = {x}
    BY <1>1, <1>7
  <2>3. \A k \in 1 .. Bound : c[k] = c[k - 1] \cup UNION {Users(n) : n \in c[k - 1]}
    BY <1>1, <1>7
  <2> HIDE DEF Q
  <2>4. \A k \in 0 .. Bound : k \in A
    <3>1. 0 \in A
      <4>1. g[0] = {x} /\ 0 \in 0 .. Bound
        BY <1>1, <1>3
      <4> QED
        BY ONLY <2>2, <4>1
    <3>2. \A k \in 0 .. Bound : k \in A /\ k < Bound => k + 1 \in A
      <4> SUFFICES ASSUME NEW k \in 0 .. Bound, k \in A, k < Bound
                   PROVE  k + 1 \in A
        OBVIOUS
      <4>1. k + 1 \in 1 .. Bound /\ k + 1 - 1 = k /\ k + 1 \in 0 .. Bound
        BY <1>1
      <4>2. /\ c[k + 1] = c[k] \cup UNION {Users(n) : n \in c[k]}
            /\ g[k + 1] = g[k] \cup UNION {Users(n) : n \in g[k]}
        BY <1>5, <2>3, <4>1 DEF Widened
      <4> QED
        BY <4>1, <4>2
    <3> HIDE DEF A
    <3> QED
      BY ONLY <1>1, <3>1, <3>2, UpTo
  <2> QED
    BY <1>3, <2>1, <2>4
<1> QED
  BY <1>5, <1>8, <1>9
-----------------------------------------------------------------------------
(* The way back from r ends after n steps.                                 *)
First(r, n) ==
  /\ n \in 0 .. Bound /\ Stops(Upstream(r)[n])
  /\ \A j \in 0 .. n - 1 : ~Stops(Upstream(r)[j])

LEMMA Ends ==
  ASSUME StableInv, Converged, IsFiniteSet(Routers), NEW r \in Routers
  PROVE  \E n : First(r, n)
<1> DEFINE up == Upstream(r)
           T  == {k \in 0 .. Bound : Stops(up[k])}
<1>1. /\ Bound \in Nat /\ up \in [0 .. Bound -> Routers]
      /\ \A k \in 1 .. Bound : up[k] = Back(up[k - 1])
  BY UpstreamSteps
<1> HIDE DEF up
<1>2. T # {}
  <2> SUFFICES ASSUME \A k \in 0 .. Bound : ~Stops(up[k])
               PROVE  FALSE
    OBVIOUS
  <2>1. PICK i \in 0 .. Bound, j \in 0 .. Bound : i # j /\ up[i] = up[j]
    <3>1. IsFiniteSet(0 .. Bound) /\ Cardinality(0 .. Bound) = Bound + 1
      BY <1>1, FS_Interval
    <3>2. Cardinality(Routers) < Cardinality(0 .. Bound)
      BY <1>1, <3>1 DEF Bound
    <3> QED
      BY <1>1, <3>1, <3>2, FS_PigeonHole
  <2>2. PICK a \in 0 .. Bound, z \in 0 .. Bound : a < z /\ up[a] = up[z]
    BY <1>1, <2>1
  <2> DEFINE C == {up[k] : k \in a .. z - 1}
  <2>3. C \subseteq Routers /\ C # {}
    BY <1>1, <2>2
  <2>4. ASSUME NEW c \in C
        PROVE  ~Stops(c) /\ Back(c) \in C
    <3>1. PICK k \in a .. z - 1 : c = up[k]
      OBVIOUS
    <3>2. k \in 0 .. Bound /\ k + 1 \in 1 .. Bound /\ k + 1 - 1 = k
      BY <1>1, <2>2
    <3>3. Back(c) = up[k + 1]
      BY <1>1, <3>1, <3>2
    <3>4. up[k + 1] \in C
      <4>1. CASE k + 1 = z
        BY <1>1, <2>2, <4>1
      <4>2. CASE k + 1 # z
        <5>1. k + 1 \in a .. z - 1
          BY <1>1, <2>2, <4>2
        <5> QED
          BY <5>1
      <4> QED
        BY <4>1, <4>2
    <3> QED
      BY <3>1, <3>2, <3>3, <3>4
  <2> HIDE DEF C
  <2> QED
    BY <2>3, <2>4, NoCycle
<1>3. PICK n \in T : \A k \in T : n <= k
  <2>1. T \subseteq Nat
    OBVIOUS
  <2> HIDE DEF T
  <2> QED
    BY <1>2, <2>1, NatMinimum
<1>4. \A j \in 0 .. n - 1 : ~Stops(up[j])
  <2> SUFFICES ASSUME NEW j \in 0 .. n - 1, Stops(up[j])
               PROVE  FALSE
    OBVIOUS
  <2>1. j \in T /\ ~(n <= j)
    BY <1>1
  <2> HIDE DEF T
  <2> QED
    BY <1>3, <2>1
<1> QED
  BY <1>3, <1>4 DEF First, up

(* The path of r is the way back, reversed.                                *)
LEMMA PathSteps ==
  ASSUME StableInv, Converged, IsFiniteSet(Routers), NEW r \in Routers
  PROVE  /\ PathEnds(r)
         /\ \E n : /\ First(r, n)
                   /\ PropagationPath(r) = IF LearnedFrom(r) = None THEN << >>
                                            ELSE [i \in 1 .. n + 1 |-> Upstream(r)[n + 1 - i]]
<1>1. Bound \in Nat /\ DOMAIN Upstream(r) = 0 .. Bound
  BY UpstreamSteps
<1>2. \E n \in 0 .. Bound : First(r, n)
  BY Ends DEF First
<1> DEFINE n == CHOOSE k \in DOMAIN Upstream(r) :
                  Stops(Upstream(r)[k]) /\ \A j \in 0 .. k - 1 : ~Stops(Upstream(r)[j])
<1>3. First(r, n)
  BY <1>1, <1>2 DEF First
<1>4. PathEnds(r)
  BY <1>1, <1>3 DEF PathEnds, First
<1>5. PropagationPath(r) = IF LearnedFrom(r) = None THEN << >>
                           ELSE [i \in 1 .. n + 1 |-> Upstream(r)[n + 1 - i]]
  BY DEF PropagationPath, LearnedFrom
<1> HIDE DEF n
<1> QED
  BY <1>3, <1>4, <1>5

(* reach follows the same steps as the way back.                           *)
LEMMA ReachOnPath ==
  ASSUME StableInv, Converged, IsFiniteSet(Routers), NEW r \in Routers, NEW x \in Routers,
         NEW n, First(r, n)
  PROVE  r \in Reach(x) <=> \E j \in 0 .. n : Upstream(r)[j] = x
<1> DEFINE up == Upstream(r)
<1>1. /\ Bound \in Nat /\ up \in [0 .. Bound -> Routers] /\ up[0] = r
      /\ \A k \in 1 .. Bound : up[k] = Back(up[k - 1])
  BY UpstreamSteps
<1>2. /\ n \in 0 .. Bound /\ Stops(up[n])
      /\ \A j \in 0 .. n - 1 : ~Stops(up[j])
  BY DEF First
<1> HIDE DEF up
<1>3. PICK w : Widened(w, x) /\ Reach(x) = w[Bound]
  BY ReachSteps
<1>4. /\ w[0] = {x} /\ \A k \in 0 .. Bound : w[k] \subseteq Routers
      /\ \A k \in 0 .. Bound : k < Bound =>
           w[k + 1] = w[k] \cup UNION {Users(y) : y \in w[k]}
  <2>1. \A k \in 0 .. Bound : k < Bound => k + 1 \in 1 .. Bound /\ k + 1 - 1 = k
    BY <1>1
  <2> QED
    BY <1>1, <1>3, <2>1 DEF Widened
<1>5. ASSUME NEW j \in 0 .. n, j < n
      PROVE  /\ up[j] \in Routers /\ up[j + 1] \in Routers
             /\ Node(up[j]).learned_from = up[j + 1]
             /\ up[j] \in Users(up[j + 1])
  <2>1. j \in 0 .. Bound /\ j + 1 \in 1 .. Bound /\ j + 1 \in 0 .. Bound /\ j + 1 - 1 = j
        /\ j \in 0 .. n - 1
    BY <1>1, <1>2, <1>5
  <2>2. ~Stops(up[j]) /\ up[j] \in Routers /\ up[j + 1] \in Routers
        /\ Back(up[j]) = up[j + 1]
    BY <1>1, <1>2, <2>1
  <2>3. LearnedFrom(up[j]) = up[j + 1]
    BY <2>2, BackType
  <2>4. Advertised(up[j + 1], up[j]) # None
    BY <2>2, LearnedStep
  <2> QED
    BY <2>2, <2>3, <2>4 DEF Users, Node, Advertised, LearnedFrom
<1>6. ASSUME r \in Reach(x)
      PROVE  \E j \in 0 .. n : up[j] = x
  <2> DEFINE OnPath == \E j \in 0 .. n : up[j] = x
             A == {k \in 0 .. Bound : \A j \in 0 .. n : up[j] \in w[k] => OnPath}
  <2>1. 0 \in A
    BY <1>1, <1>4
  <2>2. ASSUME NEW k \in 0 .. Bound, k \in A, k < Bound
        PROVE  k + 1 \in A
    <3>1. k + 1 \in 0 .. Bound
      BY <1>1, <2>2
    <3>2. ASSUME NEW j \in 0 .. n, up[j] \in w[k + 1]
          PROVE  OnPath
      <4>1. CASE up[j] \in w[k]
        BY <2>2, <4>1
      <4>2. CASE up[j] \notin w[k]
        <5>1. PICK y \in w[k] : up[j] \in Users(y)
          BY <1>4, <2>2, <3>2, <4>2
        <5>2. y \in Routers /\ Node(up[j]).learned_from = y
          BY <1>4, <5>1 DEF Users
        <5>3. CASE j < n
          <6>1. up[j + 1] = y
            BY <1>5, <5>2, <5>3
          <6>2. j + 1 \in 0 .. n
            BY <1>1, <1>2, <5>3
          <6> QED
            BY <2>2, <5>1, <6>1, <6>2
        <5>4. CASE ~(j < n)
          <6>1. j = n
            BY <1>1, <1>2, <5>4
          <6>2. y # None
            BY <5>2, NoneAssumption
          <6>3. y = up[j]
            BY <1>2, <5>2, <6>1, <6>2 DEF Stops
          <6> QED
            BY <4>2, <5>1, <6>3
        <5> QED
          BY <5>3, <5>4
      <4> QED
        BY <4>1, <4>2
    <3> HIDE DEF OnPath
    <3> QED
      BY <3>1, <3>2
  <2> HIDE DEF A
  <2>3. \A k \in 0 .. Bound : k \in A
    BY ONLY <1>1, <2>1, <2>2, UpTo
  <2>4. Bound \in A
    BY <1>1, <2>3
  <2>5. up[0] \in w[Bound] /\ 0 \in 0 .. n
    BY <1>1, <1>2, <1>3, <1>6
  <2> QED
    BY <2>4, <2>5 DEF A
<1>7. ASSUME NEW j \in 0 .. n, up[j] = x
      PROVE  r \in Reach(x)
  <2> DEFINE A == {i \in 0 .. j : up[j - i] \in w[i]}
             M == {k \in 0 .. Bound : j <= k => r \in w[k]}
  <2>0. j \in Nat /\ j \in 0 .. Bound
    BY <1>1, <1>2
  <2>1. 0 \in A
    BY <1>4, <1>7, <2>0
  <2>2. ASSUME NEW i \in 0 .. j, i \in A, i < j
        PROVE  i + 1 \in A
    <3>1. /\ i \in 0 .. Bound /\ i < Bound /\ i + 1 \in 0 .. j
          /\ j - (i + 1) \in 0 .. n /\ j - (i + 1) < n /\ j - (i + 1) + 1 = j - i
      <4>1. n \in Nat /\ n <= Bound /\ i \in Nat /\ i < j /\ j <= n
        BY ONLY <1>1, <1>2, <2>0, <2>2, j \in 0 .. n
      <4> QED
        BY ONLY <1>1, <2>0, <4>1
    <3>2. up[j - (i + 1)] \in Users(up[j - i])
      BY <1>5, <3>1
    <3> QED
      BY <1>4, <2>2, <3>1, <3>2
  <2>3. j \in A
    <3> HIDE DEF A
    <3>1. \A i \in 0 .. j : i \in A
      BY ONLY <2>0, <2>1, <2>2, UpTo
    <3> QED
      BY <2>0, <3>1
  <2>4. r \in w[j]
    BY <1>1, <2>0, <2>3
  <2>5. 0 \in M
    <3>1. j <= 0 => j = 0
      BY <2>0
    <3> QED
      BY <1>1, <2>4, <3>1
  <2>6. ASSUME NEW k \in 0 .. Bound, k \in M, k < Bound
        PROVE  k + 1 \in M
    <3>1. k + 1 \in 0 .. Bound /\ (j <= k + 1 => j <= k \/ j = k + 1)
      BY <1>1, <2>0, <2>6
    <3> QED
      BY <1>4, <2>4, <2>6, <3>1
  <2>7. Bound \in M
    <3> HIDE DEF M
    <3>1. \A k \in 0 .. Bound : k \in M
      BY ONLY <1>1, <2>5, <2>6, UpTo
    <3> QED
      BY <1>1, <3>1
  <2>8. j <= Bound
    BY <1>1, <2>0
  <2> QED
    BY <1>3, <2>7, <2>8
<1> QED
  BY <1>6, <1>7 DEF up

(* Every hop of the path still tells the next one what that one selects.   *)
Explained(path, r) ==
  LET told(i) == Advertised(path[i - 1], path[i])
  IN  /\ path # << >> => bgp[path[1]].rib_in[path[1]] # None
      /\ \A i \in 2 .. Len(path) :
           /\ told(i) # None /\ ~Refused(path[i], told(i))
           /\ told(i).as_path = Node(path[i]).selected.as_path
      /\ \A x \in Routers \ {r} :
           r \in Reach(x) <=> \E i \in 1 .. Len(path) : path[i] = x

LEMMA NoPathExplained ==
  ASSUME StableInv, Converged, IsFiniteSet(Routers), NEW r \in Routers,
         LearnedFrom(r) = None
  PROVE  Explained(<< >>, r)
<1>1. Stops(r)
  BY DEF Stops, LearnedFrom
<1>2. Bound \in Nat /\ Upstream(r)[0] = r
  BY UpstreamSteps
<1>3. First(r, 0)
  BY <1>1, <1>2 DEF First
<1>4. ASSUME NEW x \in Routers \ {r}
      PROVE  r \notin Reach(x)
  <2>1. r \in Reach(x) <=> \E j \in 0 .. 0 : Upstream(r)[j] = x
    BY <1>3, ReachOnPath
  <2> QED
    BY <1>2, <2>1
<1> QED
  BY <1>4 DEF Explained

LEMMA PathExplained ==
  ASSUME StableInv, Converged, IsFiniteSet(Routers), NEW r \in Routers,
         LearnedFrom(r) # None, NEW n, First(r, n), NEW path,
         path = [i \in 1 .. n + 1 |-> Upstream(r)[n + 1 - i]]
  PROVE  Explained(path, r)
<1> DEFINE up == Upstream(r)
<1>1. /\ Bound \in Nat /\ up \in [0 .. Bound -> Routers] /\ up[0] = r
      /\ \A k \in 1 .. Bound : up[k] = Back(up[k - 1])
  BY UpstreamSteps
<1>2. /\ n \in 0 .. Bound /\ Stops(up[n])
      /\ \A j \in 0 .. n - 1 : ~Stops(up[j])
  BY DEF First
<1>3. path = [i \in 1 .. n + 1 |-> up[n + 1 - i]]
  OBVIOUS
<1> HIDE DEF up
<1>4. n \in Nat /\ n + 1 \in Nat /\ Len(path) = n + 1
  <2>1. n \in Nat /\ n + 1 \in Nat
    BY <1>1, <1>2
  <2>2. path \in [1 .. n + 1 -> Routers]
    BY <1>1, <1>2, <1>3
  <2> QED
    BY <2>1, <2>2
<1>5. bgp[path[1]].rib_in[path[1]] # None
  <2>1. 1 \in 1 .. n + 1 /\ n + 1 - 1 = n /\ n \in 0 .. Bound
    BY <1>2, <1>4
  <2>2. path[1] = up[n] /\ up[n] \in Routers
    BY <1>1, <1>3, <2>1
  <2>3. LearnedFrom(up[n]) # None
    <3>1. CASE n = 0
      BY <1>1, <3>1
    <3>2. CASE n # 0
      <4>1. n \in 1 .. Bound /\ n - 1 \in 0 .. n - 1 /\ n - 1 \in 0 .. Bound
        BY <1>1, <1>2, <1>4, <3>2
      <4>2. ~Stops(up[n - 1]) /\ up[n - 1] \in Routers /\ up[n] = Back(up[n - 1])
        BY <1>1, <1>2, <4>1
      <4>3. bgp[up[n]].rib # None
        BY <4>2, LearnedStep
      <4> QED
        BY <2>2, <4>3, BackType
    <3> QED
      BY <3>1, <3>2
  <2>4. bgp[up[n]].rib # None /\ bgp[up[n]].rib.from_id = up[n]
    BY <1>2, <2>2, <2>3, BackType DEF Stops, LearnedFrom, Node
  <2> QED
    BY <2>2, <2>4, SelectedNow
<1>6. ASSUME NEW i \in 2 .. Len(path)
      PROVE  /\ Advertised(path[i - 1], path[i]) # None
             /\ ~Refused(path[i], Advertised(path[i - 1], path[i]))
             /\ Advertised(path[i - 1], path[i]).as_path = Node(path[i]).selected.as_path
  <2>0. i \in Nat /\ 2 <= i /\ i <= n + 1 /\ n <= Bound
    BY <1>2, <1>4
  <2> DEFINE k == n + 1 - (i - 1)
  <2>1. /\ i \in 1 .. n + 1 /\ i - 1 \in 1 .. n + 1
        /\ k - 1 \in 0 .. n - 1 /\ k - 1 \in 0 .. Bound
        /\ k \in 1 .. Bound /\ k - 1 = n + 1 - i
    BY ONLY <1>1, <1>4, <2>0
  <2>2. path[i] = up[k - 1] /\ path[i - 1] = Back(path[i])
    <3>1. path[i] = up[n + 1 - i] /\ path[i - 1] = up[k]
      BY ONLY <1>3, <2>1
    <3> HIDE DEF k
    <3>2. up[k] = Back(up[k - 1])
      BY ONLY <1>1, <2>1
    <3> QED
      BY ONLY <2>1, <3>1, <3>2
  <2> HIDE DEF k
  <2>3. path[i] \in Routers /\ ~Stops(path[i])
    BY <1>1, <1>2, <2>1, <2>2
  <2> QED
    BY <2>2, <2>3, LearnedStep
<1>7. ASSUME NEW x \in Routers
      PROVE  r \in Reach(x) <=> \E i \in 1 .. Len(path) : path[i] = x
  <2>1. r \in Reach(x) <=> \E j \in 0 .. n : up[j] = x
    BY ReachOnPath DEF up
  <2>2. ASSUME NEW i \in 1 .. n + 1
        PROVE  n + 1 - i \in 0 .. n /\ path[i] = up[n + 1 - i]
    BY <1>3, <1>4
  <2>3. ASSUME NEW j \in 0 .. n
        PROVE  n + 1 - j \in 1 .. n + 1 /\ path[n + 1 - j] = up[j]
    <3>1. n + 1 - j \in 1 .. n + 1 /\ n + 1 - (n + 1 - j) = j
      BY <1>4
    <3> QED
      BY <2>2, <3>1
  <2>4. (\E j \in 0 .. n : up[j] = x) <=> \E i \in 1 .. n + 1 : path[i] = x
    BY ONLY <2>2, <2>3
  <2> QED
    BY ONLY <1>4, <2>1, <2>4
<1> QED
  BY <1>5, <1>6, <1>7 DEF Explained

(* In a converged network propagation_path ends at every router, with a    *)
(* router that originates the route; every router on it still tells the    *)
(* next one what that one selects, and reach finds the same routers.  No   *)
(* routers keep a withdrawn route alive among themselves: on its way a     *)
(* route's AS path never gets shorter, and inside an AS it counts its      *)
(* reflections, so that the way back cannot return to where it was.        *)
THEOREM RoutesAreExplained ==
  ASSUME Manual = FALSE, IsFiniteSet(Routers)
  PROVE  Spec => []PropagationExplained
<1>1. StableInv => PropagationExplained
  <2> SUFFICES ASSUME StableInv, Converged, NEW r \in Routers
               PROVE  PathEnds(r) /\ Explained(PropagationPath(r), r)
    BY DEF PropagationExplained, Explained
  <2>1. PathEnds(r)
    BY PathSteps
  <2>2. PICK n : /\ First(r, n)
                 /\ PropagationPath(r) = IF LearnedFrom(r) = None THEN << >>
                                          ELSE [i \in 1 .. n + 1 |-> Upstream(r)[n + 1 - i]]
    BY PathSteps
  <2>3. CASE LearnedFrom(r) = None
    BY <2>1, <2>2, <2>3, NoPathExplained
  <2>4. CASE LearnedFrom(r) # None
    <3>1. PropagationPath(r) = [i \in 1 .. n + 1 |-> Upstream(r)[n + 1 - i]]
      BY <2>2, <2>4
    <3> QED
      BY <2>1, <2>2, <2>4, <3>1, PathExplained
  <2> QED
    BY <2>3, <2>4
<1>2. Spec => []StableInv
  BY StableAlways
<1> QED
  BY <1>1, <1>2, PTL
-----------------------------------------------------------------------------
(* Where a route entered the AS.                                           *)
Path(r) == bgp[r].rib.route.as_path

NextHop(r) == bgp[r].rib.route.next_hop

FromOutside(r) == bgp[r].rib.from_type = "EBgp"

(* The next hop that r tells a peer in its AS, but for route maps          *)
Leaves(r) == IF FromOutside(r) THEN r ELSE NextHop(r)

(* What a step of the way does to AS path and next hop                     *)
LEMMA LearnedHow ==
  ASSUME StableInv, Converged, NEW b \in Routers, ~Stops(b)
  PROVE  LET n == Back(b)
         IN  /\ n \in Routers /\ bgp[n].rib # None
             /\ Path(n) \in Seq(Nat)
             /\ FromOutside(b) <=> AsOf[b] # AsOf[n]
             /\ Path(b) = IF FromOutside(b) THEN <<AsOf[n]>> \o Path(n) ELSE Path(n)
             /\ ~FromOutside(b) =>
                  NextHop(b) = IF SetHop(b) # None THEN SetHop(b) ELSE Leaves(n)
<1> DEFINE p  == bgp[b]
           n  == Back(b)
           in == p.rib_in[n]
           q  == bgp[n]
           m  == Export(q, b)
<1>0. n \in Routers /\ n # b /\ p.rib # None /\ p.rib.from_id = n
  BY BackType
<1>1. /\ p \in Process /\ p.router_id = b
      /\ Selected(p) # None /\ SameEntry(Selected(p), p.rib)
      /\ in # None /\ Selected(p) = ProcessRibIn(p, n)
  BY <1>0, SelectedNow
<1>2. q \in Process /\ q.router_id = n
  BY <1>0 DEF StableInv, TypeOK, SessionInv
<1>3. p.rib.from_type \in Types(b, n) /\ in.from_type \in Types(b, n)
  BY <1>0, <1>1 DEF StableInv, TypedInv, LearnedAs
<1>4. (p.rib.from_type = "EBgp" <=> AsOf[b] # AsOf[n])
      /\ (in.from_type = "EBgp" <=> AsOf[b] # AsOf[n])
  BY <1>0, <1>3, TypesAs
<1> DEFINE imap == p.route_maps_in[n].next_hop
           omap == q.route_maps_out[b].next_hop
<1>5. /\ p.rib.route.as_path = in.route.as_path
      /\ p.rib.route.next_hop =
           IF in.from_type = "EBgp" THEN n ELSE Overwrite(imap, in.route.next_hop)
  <2>1. p.rib.route = Selected(p).route
    BY <1>1 DEF SameEntry
  <2>2. /\ ProcessRibIn(p, n).route.as_path = in.route.as_path
        /\ ProcessRibIn(p, n).route.next_hop =
             IF in.from_type = "EBgp" THEN n ELSE Overwrite(imap, in.route.next_hop)
    BY <1>0, <1>1, ProcessRibInFacts
  <2> QED
    BY <1>1, <2>1, <2>2
<1>6. Running(b, n)
  BY <1>0, <1>1 DEF StableInv, SessionInv
<1>7. q.sessions[b] # None /\ m # None /\ in.route = m
  <2>1. q.sessions[b] # None /\ Believes(b, n, m)
    BY <1>0, <1>6, LearnedFromPeer
  <2> HIDE DEF m
  <2> QED
    BY <1>1, <2>1 DEF Believes
<1>8. q.sessions[b] = "EBgp" <=> AsOf[n] # AsOf[b]
  <2>1. q.sessions[b] \in Types(n, b)
    BY <1>0, <1>7 DEF StableInv, TypedInv
  <2> QED
    BY <1>0, <2>1, TypesAs
<1>9. q.rib # None /\ q.rib \in Entry /\ ExportOf(q, q.rib, b, m)
  <2>1. q.rib # None /\ q.rib \in Entry /\ m = ProcessRibOut(q, q.rib, b)
    BY <1>2, <1>7 DEF Export, Process
  <2> QED
    BY <1>2, <1>7, <2>1, ProcessRibOutFacts
<1>10. q.rib.route.as_path \in Seq(Nat)
  BY <1>9 DEF Entry, Route
<1> DEFINE hop == IF q.rib.from_type = "EBgp" THEN n ELSE q.rib.route.next_hop
<1>11. /\ m.as_path = IF p.rib.from_type = "EBgp" THEN <<AsOf[n]>> \o q.rib.route.as_path
                      ELSE q.rib.route.as_path
       /\ p.rib.from_type # "EBgp" => m.next_hop = Overwrite(omap, hop)
  BY <1>2, <1>4, <1>8, <1>9 DEF ExportOf
<1>12. /\ SetHop(b) = Overwrite(imap, omap) /\ hop = Leaves(n)
  BY <1>0 DEF SetHop, Leaves, FromOutside, NextHop
<1> HIDE DEF p, q, m, in, n, imap, omap, hop
<1>13. /\ p.rib.route.as_path = m.as_path
       /\ p.rib.from_type # "EBgp" => p.rib.route.next_hop = Overwrite(imap, m.next_hop)
  BY <1>4, <1>5, <1>7
<1>14. p.rib.from_type # "EBgp" =>
         p.rib.route.next_hop = IF SetHop(b) # None THEN SetHop(b) ELSE Leaves(n)
  BY <1>11, <1>12, <1>13 DEF Overwrite
<1> QED
  BY <1>0, <1>4, <1>9, <1>10, <1>11, <1>13, <1>14 DEF p, q, n, Path, NextHop, FromOutside

(* The way back from r ends where its route came from outside, or is its own. *)
LEMMA WayToOutside ==
  ASSUME StableInv, Converged, IsFiniteSet(Routers), NEW r \in Routers,
         bgp[r].rib # None, NEW n, First(r, n)
  PROVE  /\ \A j \in 0 .. n : bgp[Upstream(r)[j]].rib # None
         /\ FromOutside(Upstream(r)[n])
<1> DEFINE up == Upstream(r)
           A  == {j \in 0 .. n : bgp[up[j]].rib # None}
<1>1. /\ Bound \in Nat /\ up \in [0 .. Bound -> Routers] /\ up[0] = r
      /\ \A k \in 1 .. Bound : up[k] = Back(up[k - 1])
  BY UpstreamSteps
<1>2. n \in 0 .. Bound /\ Stops(up[n]) /\ \A j \in 0 .. n - 1 : ~Stops(up[j])
  BY DEF First
<1> HIDE DEF up
<1>3. 0 \in A
  BY <1>1, <1>2
<1>4. ASSUME NEW j \in 0 .. n, j \in A, j < n
      PROVE  j + 1 \in A
  <2>1. /\ j + 1 \in 1 .. Bound /\ j + 1 - 1 = j /\ j + 1 \in 0 .. n
        /\ j \in 0 .. Bound /\ j \in 0 .. n - 1
    BY <1>1, <1>2, <1>4
  <2>2. up[j] \in Routers /\ ~Stops(up[j]) /\ up[j + 1] = Back(up[j])
    BY <1>1, <1>2, <2>1
  <2>3. bgp[Back(up[j])].rib # None
    BY <2>2, LearnedHow
  <2> QED
    BY <2>1, <2>2, <2>3
<1> HIDE DEF A
<1>5. \A j \in 0 .. n : j \in A
  <2>1. n \in Nat
    BY <1>1, <1>2
  <2> QED
    BY ONLY <2>1, <1>3, <1>4, UpTo
<1>6. \A j \in 0 .. n : bgp[up[j]].rib # None
  BY <1>5 DEF A
<1>7. FromOutside(up[n])
  <2>1. up[n] \in Routers /\ bgp[up[n]].rib # None
    BY <1>1, <1>2, <1>6
  <2>2. LearnedFrom(up[n]) = up[n]
    BY <1>2, <2>1, BackType DEF Stops, LearnedFrom
  <2>3. bgp[up[n]].rib.from_id = up[n]
    BY <2>1, <2>2 DEF LearnedFrom, Node
  <2> QED
    BY <2>1, <2>3 DEF StableInv, TypedInv, LearnedAs, FromOutside
<1> QED
  BY <1>6, <1>7 DEF up

(* Where the next hop of router b comes from, as EgressSelects says it     *)
Origin(b, k) ==
  LET up  == Upstream(b)
      hop == bgp[b].rib.route.next_hop
  IN  /\ \A j \in 0 .. k :
           /\ AsOf[up[j]] = AsOf[b] /\ bgp[up[j]].rib # None
           /\ bgp[up[j]].rib.route.as_path = bgp[b].rib.route.as_path
      /\ \A j \in 0 .. k - 1 : Inside(up[j]) /\ SetHop(up[j]) = None
      /\ IF Inside(up[k]) THEN SetHop(up[k]) # None /\ hop = SetHop(up[k])
         ELSE hop = up[k]

(* The next hop of x is settled at x: by a route map, or by its own egress. *)
Settles(x) == FromOutside(x) \/ SetHop(x) # None

LEMMA HopUpstream ==
  ASSUME StableInv, Converged, IsFiniteSet(Routers), NEW b \in Routers, Inside(b)
  PROVE  \E k \in DOMAIN Upstream(b) : Origin(b, k)
<1> DEFINE up == Upstream(b)
<1>1. /\ Bound \in Nat /\ up \in [0 .. Bound -> Routers] /\ up[0] = b
      /\ \A k \in 1 .. Bound : up[k] = Back(up[k - 1])
  BY UpstreamSteps
<1>2. bgp[b].rib # None /\ ~FromOutside(b)
  BY DEF Inside, FromOutside
<1>3. PICK n : First(b, n)
  BY Ends
<1>4. n \in 0 .. Bound /\ \A j \in 0 .. n - 1 : ~Stops(up[j])
  BY <1>3 DEF First
<1>5. (\A j \in 0 .. n : bgp[up[j]].rib # None) /\ FromOutside(up[n])
  BY <1>2, <1>3, WayToOutside
<1> HIDE DEF up
<1> DEFINE T == {j \in 0 .. n : Settles(up[j])}
<1>6. PICK k \in T : \A j \in T : k <= j
  <2>1. T \subseteq Nat
    OBVIOUS
  <2>2. n \in T
    BY <1>1, <1>4, <1>5 DEF Settles
  <2> HIDE DEF T
  <2> QED
    BY <2>1, <2>2, NatMinimum
<1>7. k \in 0 .. n /\ k \in 0 .. Bound /\ Settles(up[k])
  BY <1>1, <1>4
<1>8. ASSUME NEW j \in 0 .. k - 1
      PROVE  /\ ~FromOutside(up[j]) /\ SetHop(up[j]) = None /\ ~Stops(up[j])
             /\ up[j] \in Routers /\ up[j + 1] = Back(up[j])
  <2>1. /\ j \in 0 .. n /\ j \in 0 .. n - 1 /\ ~(k <= j) /\ j \in 0 .. Bound
        /\ j + 1 \in 1 .. Bound /\ j + 1 - 1 = j
    BY <1>1, <1>4, <1>7
  <2>2. ~Settles(up[j])
    BY <1>6, <2>1
  <2> QED
    BY <1>1, <1>4, <2>1, <2>2 DEF Settles
<1> HIDE DEF T
<1> DEFINE A == {j \in 0 .. k : /\ AsOf[up[j]] = AsOf[b] /\ Path(up[j]) = Path(b)
                                /\ NextHop(b) = Leaves(up[j])}
<1>9. 0 \in A
  BY <1>1, <1>2, <1>7 DEF Leaves
<1>10. ASSUME NEW j \in 0 .. k, j \in A, j < k
       PROVE  j + 1 \in A
  <2>1. j \in 0 .. k - 1 /\ j + 1 \in 0 .. k
    BY <1>1, <1>7, <1>10
  <2> DEFINE x == up[j]
  <2>2. /\ ~FromOutside(x) /\ SetHop(x) = None /\ ~Stops(x) /\ x \in Routers
        /\ up[j + 1] = Back(x)
    BY <1>8, <2>1
  <2>3. AsOf[x] = AsOf[b] /\ Path(x) = Path(b) /\ NextHop(b) = Leaves(x)
    BY <1>10
  <2> HIDE DEF x
  <2>4. /\ AsOf[x] = AsOf[Back(x)] /\ Path(x) = Path(Back(x))
        /\ NextHop(x) = Leaves(Back(x))
    BY <2>2, LearnedHow
  <2>5. NextHop(b) = NextHop(x)
    BY <2>2, <2>3 DEF Leaves
  <2> QED
    BY <2>1, <2>2, <2>3, <2>4, <2>5
<1> HIDE DEF A
<1>11. \A j \in 0 .. k : j \in A
  <2>1. k \in Nat
    BY <1>1, <1>7
  <2> QED
    BY ONLY <2>1, <1>9, <1>10, UpTo
<1>12. \A j \in 0 .. k : /\ AsOf[up[j]] = AsOf[b] /\ Path(up[j]) = Path(b)
                          /\ NextHop(b) = Leaves(up[j]) /\ bgp[up[j]].rib # None
  <2>1. \A j \in 0 .. k : j \in 0 .. n
    BY <1>1, <1>4, <1>7
  <2> QED
    BY <1>5, <1>11, <2>1 DEF A
<1>13. \A j \in 0 .. k - 1 : Inside(up[j]) /\ SetHop(up[j]) = None
  <2>1. \A j \in 0 .. k - 1 : j \in 0 .. k
    BY <1>1, <1>7
  <2> QED
    BY <1>8, <1>12, <2>1 DEF Inside, FromOutside
<1>14. IF Inside(up[k]) THEN SetHop(up[k]) # None /\ NextHop(b) = SetHop(up[k])
       ELSE NextHop(b) = up[k]
  <2> DEFINE x == up[k]
  <2>0. k \in 0 .. k /\ x \in Routers
    BY <1>1, <1>7
  <2>1. bgp[x].rib # None /\ NextHop(b) = Leaves(x) /\ Settles(x)
    BY <1>7, <1>12, <2>0
  <2>2. Inside(x) <=> ~FromOutside(x)
    BY <2>1 DEF Inside, FromOutside
  <2>3. ASSUME ~FromOutside(x)
        PROVE  SetHop(x) # None /\ NextHop(x) = SetHop(x)
    <3>1. SetHop(x) # None
      BY <2>1, <2>3 DEF Settles
    <3>2. ~Stops(x)
      <4>1. k # n
        BY <1>5, <2>3
      <4>2. k \in 0 .. n - 1
        BY <1>1, <1>4, <1>7, <4>1
      <4> QED
        BY <1>4, <4>2
    <3> HIDE DEF x
    <3> QED
      BY <2>0, <2>3, <3>1, <3>2, LearnedHow
  <2> HIDE DEF x
  <2>4. IF Inside(x) THEN SetHop(x) # None /\ NextHop(b) = SetHop(x) ELSE NextHop(b) = x
    BY <2>1, <2>2, <2>3 DEF Leaves
  <2> QED
    BY <2>4 DEF x
<1>15. Origin(b, k)
  BY <1>12, <1>13, <1>14 DEF Origin, Path, NextHop, up
<1> QED
  BY <1>1, <1>7, <1>15 DEF up

(* When a simulation is done, the next hop of every route learned over     *)
(* iBGP is where the way back first meets a router whose route is its own  *)
(* or from outside, in the same AS and with the same AS path; or else what *)
(* the route maps set that the way back met before.  Reflectors change     *)
(* neither, however many of them the route went through.                   *)
THEOREM EgressIsExternal ==
  ASSUME Manual = FALSE, IsFiniteSet(Routers)
  PROVE  Spec => []EgressSelects
<1>1. StableInv => EgressSelects
  BY HopUpstream DEF EgressSelects, Origin
<1>2. Spec => []StableInv
  BY StableAlways
<1> QED
  BY <1>1, <1>2, PTL

(* AS a is in the AS path of router r.                                     *)
Through(a, r) == \E i \in DOMAIN Path(r) : Path(r)[i] = a

(* A route that router x has from outside its AS has come to router r:     *)
(* inside that AS all the way, and then x is the next hop, or through it.  *)
CameBy(x, r) ==
  \/ Through(AsOf[x], r)
  \/ AsOf[r] = AsOf[x] /\ Leaves(r) = x

LEMMA CameByStep ==
  ASSUME StableInv, Converged, NEW x \in Routers, NEW b \in Routers, ~Stops(b),
         SetHop(b) = None, CameBy(x, Back(b))
  PROVE  CameBy(x, b)
<1> DEFINE n == Back(b)
<1>1. /\ n \in Routers /\ bgp[n].rib # None /\ Path(n) \in Seq(Nat)
      /\ FromOutside(b) <=> AsOf[b] # AsOf[n]
      /\ Path(b) = IF FromOutside(b) THEN <<AsOf[n]>> \o Path(n) ELSE Path(n)
      /\ ~FromOutside(b) => NextHop(b) = Leaves(n)
  BY LearnedHow
<1>2. AsOf[n] \in Nat
  BY <1>1, RoutersAssumption
<1> DEFINE s == Path(n)
           a == AsOf[n]
<1> HIDE DEF n, s, a
<1>3. s \in Seq(Nat) /\ a \in Nat
  BY <1>1, <1>2 DEF s, a
<1>4. /\ \A i \in DOMAIN s : i + 1 \in DOMAIN (<<a>> \o s) /\ (<<a>> \o s)[i + 1] = s[i]
      /\ 1 \in DOMAIN (<<a>> \o s) /\ (<<a>> \o s)[1] = a
  BY ONLY <1>3
<1>5. CASE Through(AsOf[x], n)
  <2>1. PICK i \in DOMAIN s : s[i] = AsOf[x]
    BY <1>5 DEF Through, s
  <2>2. Through(AsOf[x], b)
    <3>1. CASE FromOutside(b)
      <4>1. Path(b) = <<a>> \o s
        BY <1>1, <3>1 DEF s, a
      <4> QED
        BY <1>4, <2>1, <4>1 DEF Through
    <3>2. CASE ~FromOutside(b)
      <4>1. Path(b) = s
        BY <1>1, <3>2 DEF s
      <4> QED
        BY <2>1, <4>1 DEF Through
    <3> QED
      BY <3>1, <3>2
  <2> QED
    BY <2>2 DEF CameBy
<1>6. CASE AsOf[n] = AsOf[x] /\ Leaves(n) = x
  <2>1. CASE FromOutside(b)
    <3>1. Path(b) = <<a>> \o s /\ a = AsOf[x]
      BY <1>1, <1>6, <2>1 DEF s, a
    <3>2. Through(AsOf[x], b)
      BY <1>4, <3>1 DEF Through
    <3> QED
      BY <3>2 DEF CameBy
  <2>2. CASE ~FromOutside(b)
    BY <1>1, <1>6, <2>2 DEF CameBy, Leaves
  <2> QED
    BY <2>1, <2>2
<1> QED
  BY <1>5, <1>6 DEF CameBy, n

(* When the network has converged, no router selects a route with its own  *)
(* AS in the AS path: the check for loops that the code does not make      *)
(* would have nothing to do.                                               *)
NoAsLoop ==
  Converged => \A b \in Routers : bgp[b].rib # None => ~Through(AsOf[b], b)

(* No route map sets the next hop after the route entered the AS.          *)
Unset(path) == \A i \in 3 .. Len(path) : SetHop(path[i]) = None

LEMMA IngressIsNextHop ==
  ASSUME StableInv, Converged, NoAsLoop, IsFiniteSet(Routers), NEW b \in Routers,
         bgp[b].rib # None, ~FromOutside(b),
         Unset(PropagationPath(b)),
         LET ingress == IngressSession(b)
         IN  AsOf[ingress[1]] # AsOf[b] /\ AsOf[ingress[2]] = AsOf[b]
  PROVE  IngressSession(b)[2] = NextHop(b)
<1> DEFINE up == Upstream(b)
<1>1. /\ Bound \in Nat /\ up \in [0 .. Bound -> Routers] /\ up[0] = b
      /\ \A k \in 1 .. Bound : up[k] = Back(up[k - 1])
  BY UpstreamSteps
<1>2. LearnedFrom(b) # None
  BY BackType
<1>3. PICK n : /\ First(b, n)
               /\ PropagationPath(b) = [i \in 1 .. n + 1 |-> up[n + 1 - i]]
  BY <1>2, PathSteps
<1>4. n \in 0 .. Bound /\ \A j \in 0 .. n - 1 : ~Stops(up[j])
  BY <1>3 DEF First
<1> HIDE DEF up
<1>5. n # 0
  <2> SUFFICES ASSUME n = 0
               PROVE  FALSE
    OBVIOUS
  <2>1. up[0] = b /\ Stops(b)
    BY <1>1, <1>3 DEF First, up
  <2>2. LearnedFrom(b) = b
    BY <1>2, <2>1 DEF Stops, LearnedFrom
  <2>3. bgp[b].rib.from_id = b
    BY <2>2 DEF LearnedFrom, Node
  <2>4. bgp[b].rib.from_type = "EBgp"
    BY <2>3 DEF StableInv, TypedInv, LearnedAs
  <2> QED
    BY <2>4 DEF FromOutside
<1>6. /\ IngressSession(b) = <<up[n], up[n - 1]>>
      /\ \A i \in 0 .. n - 2 : SetHop(up[i]) = None
  <2> DEFINE path == PropagationPath(b)
  <2>1. path \in [1 .. n + 1 -> Routers] /\ path[1] = up[n] /\ path[2] = up[n - 1]
    BY <1>1, <1>3, <1>4, <1>5
  <2>a. \A i \in 0 .. n - 2 : n + 1 - i \in 3 .. n + 1 /\ path[n + 1 - i] = up[i]
    <3>1. \A i \in 0 .. n - 2 : /\ n + 1 - i \in 3 .. n + 1 /\ n + 1 - i \in 1 .. n + 1
                                /\ n + 1 - (n + 1 - i) = i
      BY <1>1, <1>4
    <3> QED
      BY <1>3, <3>1
  <2> HIDE DEF path
  <2>2. Len(path) = n + 1 /\ n + 1 > 1
    BY <1>1, <1>4, <1>5, <2>1
  <2>3. \A i \in 3 .. n + 1 : SetHop(path[i]) = None
    BY <2>2 DEF Unset, path
  <2> QED
    BY <2>1, <2>2, <2>3, <2>a DEF IngressSession, path
<1> DEFINE x == up[n - 1]
<1>7. /\ x \in Routers /\ ~Stops(x) /\ Back(x) = up[n]
      /\ AsOf[up[n]] # AsOf[b] /\ AsOf[x] = AsOf[b]
  <2>1. n \in 1 .. Bound /\ n - 1 \in 0 .. Bound /\ n - 1 \in 0 .. n - 1
    BY <1>1, <1>4, <1>5
  <2> QED
    BY <1>1, <1>4, <1>6, <2>1
<1>8. FromOutside(x)
  BY <1>7, LearnedHow
<1> HIDE DEF x
<1>9. CameBy(x, b)
  <2> DEFINE A == {j \in 0 .. n - 1 : CameBy(x, up[n - 1 - j])}
  <2>0. n - 1 \in Nat /\ n - 1 <= Bound
    BY <1>1, <1>4, <1>5
  <2>1. 0 \in A
    <3>1. n - 1 - 0 = n - 1 /\ 0 \in 0 .. n - 1
      BY <2>0
    <3>2. CameBy(x, up[n - 1])
      BY <1>8 DEF CameBy, x, Leaves
    <3> QED
      BY <3>1, <3>2
  <2>2. ASSUME NEW j \in 0 .. n - 1, j \in A, j < n - 1
        PROVE  j + 1 \in A
    <3> DEFINE i == n - 1 - (j + 1)
    <3>1. /\ j + 1 \in 0 .. n - 1 /\ i \in 0 .. n - 1 /\ i \in 0 .. Bound
          /\ i + 1 \in 1 .. Bound /\ i + 1 = n - 1 - j /\ i + 1 - 1 = i
          /\ i \in 0 .. n - 2
      BY ONLY <1>1, <1>4, <2>0, <2>2
    <3> HIDE DEF i
    <3>2. /\ up[i] \in Routers /\ ~Stops(up[i]) /\ Back(up[i]) = up[i + 1]
          /\ SetHop(up[i]) = None
      BY <1>1, <1>4, <1>6, <3>1
    <3>3. CameBy(x, up[i + 1])
      BY <2>2, <3>1
    <3>4. CameBy(x, up[i])
      BY <1>7, <3>2, <3>3, CameByStep
    <3> QED
      BY <3>1, <3>4 DEF i
  <2> HIDE DEF A
  <2>3. n - 1 \in A
    <3>1. \A j \in 0 .. n - 1 : j \in A
      BY ONLY <2>0, <2>1, <2>2, UpTo
    <3> QED
      BY <2>0, <3>1
  <2>4. n - 1 - (n - 1) = 0
    BY <2>0
  <2> QED
    BY <1>1, <2>3, <2>4 DEF A
<1>10. ~Through(AsOf[x], b)
  BY <1>7 DEF NoAsLoop
<1>11. NextHop(b) = x
  BY <1>9, <1>10 DEF CameBy, Leaves
<1> QED
  BY <1>6, <1>11 DEF x

(* As long as no router selects a route with its own AS in the AS path,    *)
(* the next hop of a route learned over iBGP is, in a converged network    *)
(* and unless a route map has set another one inside the AS, also the      *)
(* router where ingress_session has the route enter the AS.  The           *)
(* walk back cannot leave the AS and come into it again: the AS would be   *)
(* in the path.  The code has no check that ensures the hypothesis; it     *)
(* holds for instance where the ASes form a tree with a session per edge.  *)
THEOREM EgressWithoutLoops ==
  ASSUME Manual = FALSE, IsFiniteSet(Routers)
  PROVE  Spec /\ []NoAsLoop => []EgressConsistent
<1>1. StableInv /\ NoAsLoop => EgressIsIngress
  <2> SUFFICES ASSUME StableInv, NoAsLoop, Converged, NEW b \in Routers, Inside(b),
                      LET ingress == IngressSession(b)
                      IN  AsOf[ingress[1]] # AsOf[b] /\ AsOf[ingress[2]] = AsOf[b],
                      Unset(PropagationPath(b))
               PROVE  IngressSession(b)[2] = bgp[b].rib.route.next_hop
    BY DEF EgressIsIngress, Unset
  <2>1. bgp[b].rib # None /\ ~FromOutside(b)
    BY DEF Inside, FromOutside
  <2> QED
    BY <2>1, IngressIsNextHop DEF NextHop
<1>2. Spec => []StableInv
  BY StableAlways
<1>3. Spec => []EgressSelects
  BY EgressIsExternal
<1> QED
  BY <1>1, <1>2, <1>3, PTL DEF EgressConsistent
=============================================================================
