---------------------------- MODULE BgpProperties ----------------------------
(***************************************************************************)
(* What the BGP side of the network promises, stated over BgpNetwork.      *)
(***************************************************************************)
EXTENDS BgpStateView

TypeOK ==
  /\ bgp \in [Routers -> Process]
  /\ chan \in [Routers -> [Routers -> Seq(Route \cup {None})]]
  /\ bgp_sessions \in SessionConfig
  /\ topology \in Topology
  /\ refresh \in SUBSET (Routers \X Routers)
  /\ ops \in 0 .. MaxOps

Running(a, b) == bgp[a].sessions[b] # None

Last(s) == s[Len(s)]

(* Router b's RIB_IN says that a announced m, where None is "nothing". *)
Believes(b, a, m) ==
  IF m = None \/ Refused(b, m)
  THEN bgp[b].rib_in[a] = None
  ELSE bgp[b].rib_in[a] # None /\ bgp[b].rib_in[a].route = m

(* The last event under way from a to b, or else b's RIB_IN, agrees with   *)
(* what a's RIB_OUT holds for b.                                           *)
InStep(a, b) ==
  IF chan[a][b] = << >>
  THEN Believes(b, a, bgp[a].rib_out[b])
  ELSE Last(chan[a][b]) = bgp[a].rib_out[b]

(* Dissemination and handle_event keep the two tables of a session in      *)
(* step, however the events interleave.                                    *)
ChannelCoherent ==
  \A a, b \in Routers : Running(a, b) /\ Running(b, a) => InStep(a, b)

(* Both ends of every session agree that it runs, and a router without a   *)
(* session to a peer keeps nothing of it, unless a refresh is under way.   *)
SessionsPaired ==
  refresh = {} =>
    \A a, b \in Routers :
      /\ Running(a, b) <=> Running(b, a)
      /\ ~Running(a, b) /\ a # b =>
           bgp[a].rib_in[b] = None /\ bgp[a].rib_out[b] = None

(* No two successive events of a session carry the same route: a peer is   *)
(* told only what is news to it, also the first time after a withdrawal.   *)
NoRedundantEvents ==
  \A a, b \in Routers :
    /\ \A i \in 1 .. Len(chan[a][b]) - 1 : chan[a][b][i] # chan[a][b][i + 1]
    /\ Running(a, b) /\ Running(b, a) /\ chan[a][b] # << >> =>
         \/ ~Believes(b, a, Head(chan[a][b]))
         \/ bgp[b].rib_in[a] = None

(* A router has nothing left to do by itself: the decision process and a   *)
(* forced dissemination would change nothing.  This is what makes the      *)
(* forced update_tables of refresh_bgp_sessions harmless for the sessions  *)
(* that did not change.                                                    *)
LocallySettled ==
  \A r \in Routers : ~Changed(bgp[r]) /\ Disseminate(bgp[r]) = bgp[r]

(* Strengthenings that every step preserves.  A session that is not due    *)
(* for a refresh is what the configuration and OSPF make it, and a router  *)
(* keeps nothing of a session that it does not run.                        *)
SessionInv ==
  /\ \A r \in Routers : bgp[r].router_id = r
  /\ \A a \in Routers : bgp_sessions[a][a] = None
  /\ \A a, b \in Routers : bgp_sessions[a][b] = None => bgp_sessions[b][a] = None
  /\ topology \in Topologies \cup {InitialTopology}
  /\ \A a, b \in Routers :
       <<a, b>> \notin refresh =>
         bgp[a].sessions[b] = Effective(bgp_sessions, topology, a, b)
  /\ \A a \in Routers : bgp[a].sessions[a] = None
  /\ \A a, b \in Routers :
       a # b /\ ~Running(a, b) =>
         bgp[a].rib_in[b] = None /\ bgp[a].rib_out[b] = None

Due(a, b) == Effective(bgp_sessions, topology, a, b) # None

(* While sessions are refreshed, also those are in step that one router or *)
(* none runs yet; nothing is said of those that one router runs no more.   *)
CoherenceInv ==
  \A a, b \in Routers : Due(a, b) \/ (Running(a, b) /\ Running(b, a)) => InStep(a, b)

(* Whoever would win the tie-break against the route a router selects is   *)
(* excluded by a lower MED of the same neighboring AS; routes of different *)
(* ASes never exclude each other by MED, nor does a route that is worse by *)
(* WEIGHT, LOCAL_PREF or the length of its AS path.                        *)
MedDecides ==
  \A r \in Routers :
    LET best == bgp[r].rib
        S    == Candidates(bgp[r])
        ties == {e \in S : PreMedKey(e) = PreMedKey(best)}
    IN  best # None =>
          /\ \A e \in S : ~Precedes(PreMedKey(e), PreMedKey(best))
          /\ \A e \in ties : FirstAs(e) = FirstAs(best) => best.route.med <= e.route.med
          /\ \A e \in ties : Precedes(PostMedKey(e), PostMedKey(best)) =>
               \E f \in ties : FirstAs(f) = FirstAs(e) /\ f.route.med < e.route.med
-----------------------------------------------------------------------------
(* Properties of the converged network.                                    *)

Converged == Quiet /\ refresh = {}

(* The RIB_IN router b would have if all its peers told it anew.           *)
FreshRibIn(b) ==
  [a \in Routers |->
     IF a = b THEN bgp[b].rib_in[b]
     ELSE IF Running(a, b) /\ Running(b, a)
     THEN Receive(bgp[b], a, Export(bgp[a], b)).rib_in[a]
     ELSE None]

(* When the queue is empty the network is a stable state of the routing    *)
(* protocol: every router selects the best of what its peers export now, by *)
(* the IGP costs of now.                                                   *)
ConvergedIsStable ==
  Converged =>
    \A b \in Routers :
      bgp[b].rib = Selected([bgp[b] EXCEPT !.rib_in = FreshRibIn(b),
                                          !.igp_cost = topology.cost[b]])

(* When the queue is empty every selected route was propagated: its path   *)
(* leads back to a router that originates it, over routers that each still *)
(* tell the next one what that one selects, and reach is the same relation *)
(* read forwards.  Routers do not keep a route alive among themselves.     *)
PropagationExplained ==
  Converged =>
    /\ \A r \in Routers : PathEnds(r)
    /\ \A r \in Routers :
         LET path == PropagationPath(r)
             told(i) == Advertised(path[i - 1], path[i])
         IN  /\ path # << >> => bgp[path[1]].rib_in[path[1]] # None
             /\ \A i \in 2 .. Len(path) :
                  /\ told(i) # None /\ ~Refused(path[i], told(i))
                  /\ told(i).as_path = Node(path[i]).selected.as_path
             /\ \A x \in Routers \ {r} :
                  r \in Reach(x) <=> \E i \in 1 .. Len(path) : path[i] = x

Inside(r) == bgp[r].rib # None /\ bgp[r].rib.from_type # "EBgp"

(* The next hop that route maps gave the route of r when it was learned:   *)
(* the incoming one of r, or else the outgoing one of its peer.            *)
SetHop(r) ==
  LET n == bgp[r].rib.from_id
  IN  Overwrite(bgp[r].route_maps_in[n].next_hop, bgp[n].route_maps_out[r].next_hop)

(* When the queue is empty, the next hop of a route learned over iBGP is   *)
(* the nearest router upstream, in the same AS, that selects an external   *)
(* route (or its own) with the same AS path, unless route maps set another *)
(* one on the way: then it is the one they set last.  Reflectors change    *)
(* neither, whatever reflectors the route went through.                    *)
EgressSelects ==
  Converged =>
    \A b \in Routers : Inside(b) =>
      LET up  == Upstream(b)
          hop == bgp[b].rib.route.next_hop
      IN  \E k \in DOMAIN up :
            /\ \A j \in 0 .. k :
                 /\ AsOf[up[j]] = AsOf[b] /\ bgp[up[j]].rib # None
                 /\ bgp[up[j]].rib.route.as_path = bgp[b].rib.route.as_path
            /\ \A j \in 0 .. k - 1 : Inside(up[j]) /\ SetHop(up[j]) = None
            /\ IF Inside(up[k]) THEN SetHop(up[k]) # None /\ hop = SetHop(up[k])
               ELSE hop = up[k]

(* ... and without such a route map it is the router where ingress_session *)
(* says the route entered.                                                 *)
EgressIsIngress ==
  Converged =>
    \A b \in Routers : Inside(b) =>
      LET path    == PropagationPath(b)
          ingress == IngressSession(b)
      IN  /\ AsOf[ingress[1]] # AsOf[b] /\ AsOf[ingress[2]] = AsOf[b]
          /\ \A i \in 3 .. Len(path) : SetHop(path[i]) = None
          => ingress[2] = bgp[b].rib.route.next_hop

EgressConsistent == EgressSelects /\ EgressIsIngress

(* A route never comes back to a router that reflected it: no CLUSTER_LIST *)
(* in a table or in flight repeats a router or holds its ORIGINATOR_ID.    *)
InUse ==
  {m \in UNION {{bgp[a].rib_out[b]} \cup {chan[a][b][i] : i \in DOMAIN chan[a][b]}
                : a, b \in Routers} : m # None}

NoReflectionLoop ==
  \A m \in InUse :
    /\ \A i, j \in DOMAIN m.cluster_list :
         m.cluster_list[i] = m.cluster_list[j] => i = j
    /\ \A i \in DOMAIN m.cluster_list : m.cluster_list[i] # m.originator_id

(* Once the user stops, the network converges: simulate() terminates. *)
EventuallyConverged == <>[]Converged
=============================================================================
