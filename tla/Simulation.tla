----------------------------- MODULE Simulation -----------------------------
(***************************************************************************)
(* What a Network does around its routers (network.rs, interactive.rs):    *)
(* an operation changes the configuration, refreshes the BGP sessions and  *)
(* simulates, unless the user steps by hand; set_asn and remove_router are *)
(* several such operations in a row, under a mode and a limit of their own.*)
(* An error in one of them is returned at once.                            *)
(*                                                                         *)
(* Routers are black boxes here: what they send is left open, except to    *)
(* whom (see BgpNetwork and LocalOspf for what they do).  The queue hands  *)
(* out its events in any order, and equal events count as one.             *)
(***************************************************************************)
EXTENDS Integers, Sequences, FiniteSets

CONSTANTS
  Routers,
  Asns,             \* AS numbers
  Local,            \* does OSPF pass messages (LocalOspf) or not (GlobalOspf)?
  InitialAs,        \* the routers of the network in the beginning, with their AS
  InitialLinks,     \* sets of two routers
  InitialSessions,  \* the same
  Unlimited,        \* stop_after = None
  Limits,           \* the limits a user may set
  SetAsnLimit,      \* the limit of set_asn, 10_000_000 in the code
  MaxQueue,         \* bound on the events in the queue
  MaxOps            \* bound on the number of operations

ASSUME InitialAssumption ==
  /\ DOMAIN InitialAs \subseteq Routers
  /\ \A l \in InitialLinks : l \subseteq DOMAIN InitialAs

VARIABLES
  asn,         \* the AS of every router there is
  links,       \* as OSPF knows them
  routed,      \* the pairs of an AS whose tables have each other
  sessions,    \* bgp_sessions, the pairs that are configured
  running,     \* the pairs with a session
  queue,       \* a set of [kind, src, dst]
  skip_queue,
  stop_after,
  todo,        \* the steps that are left of the operation
  remaining,   \* remaining_iter, in simulate
  saved,       \* what set_asn and remove_router remember
  asked,       \* history: mode, limit and sessions that the user asked for
  failed,      \* history: has an operation returned an error?
  ops          \* number of operations

vars == <<asn, links, routed, sessions, running, queue, skip_queue, stop_after,
          todo, remaining, saved, asked, failed, ops>>
network == <<asn, links, routed, sessions>>
mode == <<skip_queue, stop_after>>

Present == DOMAIN asn
Pairs == {{p[1], p[2]} : p \in {x \in Routers \X Routers : x[1] # x[2]}}
SameAs(p) == \A a, b \in p : asn[a] = asn[b]

(* What routed is once OSPF has converged: the pairs of routers that are   *)
(* connected, as no set of routers that has no link of an AS to the others *)
(* has only one of the two.                                                *)
Undivided(p, S) == p \subseteq S \/ p \cap S = {}
Closed(S) == \A l \in links : Undivided(l, S) \/ ~SameAs(l)
Converged ==
  {p \in Pairs : p \subseteq Present /\ \A S \in SUBSET Present : Closed(S) => Undivided(p, S)}

(* OspfNetwork::is_reachable; routers of two ASes have to be linked. *)
Reachable(p) ==
  p \subseteq Present /\ IF SameAs(p) THEN p \in routed ELSE p \in links

(* The sessions that refresh_bgp_sessions leaves running *)
Effective == {p \in sessions : Reachable(p)}

(* What the routers S may send, to the peers and neighbors they have *)
BgpEvents(S, peers) ==
  {[kind |-> "bgp", src |-> p[1], dst |-> p[2]] :
     p \in {x \in S \X Routers : {x[1], x[2]} \in peers}}
OspfEvents ==
  {[kind |-> "ospf", src |-> p[1], dst |-> p[2]] :
     p \in {x \in Present \X Present : Local /\ {x[1], x[2]} \in links /\ SameAs({x[1], x[2]})}}

Init ==
  /\ asn = InitialAs
  /\ links = InitialLinks
  /\ sessions = InitialSessions
  /\ routed = Converged
  /\ running = Effective
  /\ queue = {}
  /\ skip_queue \in BOOLEAN
  /\ stop_after \in Limits
  /\ todo = << >>
  /\ remaining = Unlimited
  /\ saved = << >>
  /\ asked = [skip |-> skip_queue, stop |-> stop_after, sessions |-> sessions]
  /\ failed = FALSE
  /\ ops = 0
-----------------------------------------------------------------------------
(* enqueue_events, of at most one of the events that routers may send *)
Enqueue(kept, events) ==
  \E new \in {{}} \cup {{e} : e \in events} :
    /\ queue' = kept \cup new
    /\ Cardinality(queue') <= MaxQueue

(* OSPF has computed new tables, and has converged if none of its events   *)
(* is under way.  Then refresh_bgp_sessions, except in set_asn.            *)
Reroute(kept, before, refresh) ==
  /\ routed' \in {before, Converged'}
  /\ running' = IF refresh THEN Effective' ELSE running
  /\ Enqueue(kept, BgpEvents(Present, running \cup running') \cup OspfEvents')
  /\ (\E e \in queue' : e.kind = "ospf") \/ routed' = Converged'

(* _set_bgp_session and refresh_bgp_sessions *)
SetSessions(configured) ==
  /\ sessions' = configured
  /\ UNCHANGED <<asn, links, routed>>
  /\ running' = Effective'
  /\ Enqueue(queue, BgpEvents(Present, running \cup running'))

(* The next step of the operation, or none if it is done. *)
Doing(step) == todo # << >> /\ Head(todo) = step
Done == todo' = Tail(todo) /\ UNCHANGED <<asked, failed, ops>>

(* The ? operator: what is left of the operation is not done. *)
Fail ==
  /\ todo' = << >>
  /\ failed' = TRUE
  /\ remaining' = Unlimited
  /\ saved' = << >>
  /\ UNCHANGED <<asked, ops, mode>>
-----------------------------------------------------------------------------
(* The user calls the next operation. *)
Call(steps) ==
  /\ todo = << >>
  /\ ops < MaxOps
  /\ ops' = ops + 1
  /\ todo' = steps
  /\ UNCHANGED <<remaining, failed>>

(* auto_simulation, manual_simulation, set_msg_limit *)
SetMode ==
  /\ Call(<< >>)
  /\ skip_queue' \in BOOLEAN
  /\ stop_after' \in Limits
  /\ asked' = [asked EXCEPT !.skip = skip_queue', !.stop = stop_after']
  /\ UNCHANGED <<network, running, queue, saved>>

(* simulate, in either mode *)
Simulate ==
  /\ Call(<<"simulate">>)
  /\ UNCHANGED <<network, running, queue, saved, mode, asked>>

(* add_router *)
AddRouter ==
  /\ Call(<< >>)
  /\ \E r \in Routers \ Present, a \in Asns :
       asn' = [x \in Present \cup {r} |-> IF x = r THEN a ELSE asn[x]]
  /\ UNCHANGED <<links, routed, sessions, running, queue, saved, mode, asked>>

(* add_link, remove_link *)
SetLink ==
  /\ Call(<<"queue">>)
  /\ \E p \in Pairs : p \subseteq Present /\ links' = (links \cup {p}) \ (links \cap {p})
  /\ UNCHANGED <<asn, sessions, saved, mode, asked>>
  /\ Reroute(queue, routed, TRUE)

(* set_bgp_session *)
SetBgpSession ==
  /\ Call(<<"queue">>)
  /\ \E p \in Pairs :
       p \subseteq Present /\ SetSessions((sessions \cup {p}) \ (sessions \cap {p}))
  /\ asked' = [asked EXCEPT !.sessions = sessions']
  /\ UNCHANGED <<saved, mode>>

(* advertise_route, withdraw_route, set_bgp_route_map *)
UpdateRoutes ==
  /\ Call(<<"queue">>)
  /\ UNCHANGED <<network, running, saved, mode, asked>>
  /\ \E r \in Present : Enqueue(queue, BgpEvents({r}, running))
-----------------------------------------------------------------------------
(* set_asn and remove_router start with a mode of their own. *)
Begin(args, limit, steps) ==
  /\ Call(steps)
  /\ saved' = [args |-> args, mode |-> mode, sessions |-> {}]
  /\ skip_queue' = FALSE
  /\ stop_after' = limit
  /\ UNCHANGED <<network, running, queue>>

SetAsn ==
  /\ \E r \in Routers, a \in Asns :
       Begin(<<r, a>>, SetAsnLimit,
             <<"queue", "close", "queue", "move", "queue", "open", "queue", "reset">>)
  /\ UNCHANGED asked

RemoveRouter ==
  \E r \in Routers :
    /\ Begin(<<r>>, Unlimited, <<"queue", "leave", "remove", "queue", "reset">>)
    /\ asked' = [asked EXCEPT !.sessions = {p \in sessions : r \notin p}]

Target == saved.args[1]

(* Faulty: all sessions of the router are removed, though only those that  *)
(* run are added again.                                                    *)
Faulty_Removed(r) == {p \in sessions : r \in p}

(* set_asn removes the sessions of the router that run. *)
Removed(r) == {p \in running : r \in p}

Close ==
  LET r == Target
  IN  /\ Doing("close")
      /\ \/ r \notin Present /\ Fail /\ UNCHANGED <<network, running, queue>>
         \/ /\ r \in Present /\ Done
            /\ saved' = [saved EXCEPT !.sessions = {p \in running : r \in p}]
            /\ SetSessions(sessions \ Removed(r))
            /\ UNCHANGED <<remaining, mode>>

(* The router leaves OSPF, and joins it in its new AS with its old links.  *)
(* The events that this causes are ignored, only those of the reset that   *)
(* follows are put into the queue.  The sessions are not refreshed.        *)
Move ==
  /\ Doing("move") /\ Done
  /\ asn' = [asn EXCEPT ![Target] = saved.args[2]]
  /\ UNCHANGED <<links, sessions, saved, mode, remaining>>
  /\ Reroute(queue, {}, FALSE)

Open ==
  /\ Doing("open") /\ Done
  /\ SetSessions(sessions \cup saved.sessions)
  /\ UNCHANGED <<saved, mode, remaining>>

Leave ==
  LET r == Target
  IN  /\ Doing("leave") /\ Done
      /\ links' = {p \in links : r \notin p}
      /\ UNCHANGED <<asn, sessions, saved, mode, remaining>>
      /\ Reroute(queue, {p \in routed : r \notin p}, TRUE)

(* Faulty: the sessions are removed in one go. *)
Faulty_AfterDrop == todo

(* remove_router removes the sessions one by one, and then the router. *)
AfterDrop == <<"queue">> \o todo

Drop ==
  /\ Doing("remove")
  /\ \E p \in sessions : Target \in p /\ SetSessions(sessions \ {p})
  /\ todo' = AfterDrop
  /\ UNCHANGED <<saved, mode, remaining, asked, failed, ops>>

Remove ==
  /\ Doing("remove") /\ Done
  /\ \A p \in sessions : Target \notin p
  /\ asn' = [r \in Present \ {Target} |-> asn[r]]
  /\ UNCHANGED <<links, routed, sessions, running, queue, saved, mode, remaining>>

Reset ==
  /\ Doing("reset") /\ Done
  /\ skip_queue' = saved.mode[1] /\ stop_after' = saved.mode[2]
  /\ saved' = << >>
  /\ UNCHANGED <<network, running, queue, remaining>>
-----------------------------------------------------------------------------
(* do_queue_maybe_skip *)
DoQueueMaybeSkip ==
  /\ Doing("queue")
  /\ todo' = (IF skip_queue THEN << >> ELSE <<"simulate">>) \o Tail(todo)
  /\ UNCHANGED <<network, running, queue, saved, mode, remaining, asked, failed, ops>>

(* simulate: its loop starts with the limit *)
Start ==
  /\ Doing("simulate")
  /\ todo' = <<"loop">> \o Tail(todo)
  /\ remaining' = stop_after
  /\ UNCHANGED <<network, running, queue, saved, mode, asked, failed, ops>>

(* Another event is taken from the queue, as long as the limit permits. *)
Spend ==
  /\ remaining # 0
  /\ remaining' = IF remaining = Unlimited THEN Unlimited ELSE remaining - 1
  /\ UNCHANGED <<todo, saved, mode, asked, failed, ops>>

(* simulate_step; the event of a session that does not run is ignored, and *)
(* the sessions are refreshed after an event of OSPF.                      *)
HandleEvent(e) ==
  /\ Spend
  /\ \/ /\ e.kind = "bgp"
        /\ UNCHANGED <<network, running>>
        /\ Enqueue(queue \ {e},
                   IF {e.src, e.dst} \in running THEN BgpEvents({e.dst}, running) ELSE {})
     \/ /\ e.kind = "ospf"
        /\ UNCHANGED <<asn, links, sessions>>
        /\ Reroute(queue \ {e}, routed, TRUE)

(* simulate_step: the router is not found, and the event is gone. *)
LoseEvent(e) ==
  /\ remaining # 0
  /\ queue' = queue \ {e}
  /\ Fail
  /\ UNCHANGED <<network, running>>

(* NoConvergence *)
GiveUp ==
  /\ Doing("loop") /\ queue # {} /\ remaining = 0
  /\ Fail
  /\ UNCHANGED <<network, running, queue>>

Step ==
  /\ Doing("loop")
  /\ \E e \in queue : IF e.dst \in Present THEN HandleEvent(e) ELSE LoseEvent(e)

(* trigger_timeout: a router has OSPF events to repeat. *)
TriggerTimeout ==
  /\ Doing("loop") /\ queue = {}
  /\ UNCHANGED <<network, running, saved, mode, todo, remaining, asked, failed, ops>>
  /\ Enqueue({}, OspfEvents)
  /\ queue' # {}

Return ==
  /\ Doing("loop") /\ queue = {} /\ Done
  /\ remaining' = Unlimited
  /\ UNCHANGED <<network, running, queue, saved, mode>>

Next ==
  \/ SetMode \/ Simulate \/ AddRouter \/ SetLink \/ SetBgpSession \/ UpdateRoutes
  \/ SetAsn \/ RemoveRouter
  \/ Close \/ Move \/ Open \/ Leave \/ Drop \/ Remove \/ Reset
  \/ DoQueueMaybeSkip \/ Start \/ Step \/ GiveUp \/ TriggerTimeout \/ Return

Spec == Init /\ [][Next]_vars
-----------------------------------------------------------------------------
(* Whatever the user did, in either mode: no event is under way to a router*)
(* that is not in the network (any more), so that simulate never fails for *)
(* this reason, and a router that is added with the same identifier later  *)
(* gets no events of the former one.                                       *)
EventsAddressed == \A e \in queue : e.src \in Present /\ e.dst \in Present

(* Between operations, as long as none failed: mode, limit and sessions    *)
(* are what the user asked for, also after set_asn and remove_router, and  *)
(* in a network without events those sessions run whose routers reach each *)
(* other.                                                                  *)
OperationsComplete ==
  todo = << >> /\ ~failed =>
    /\ asked = [skip |-> skip_queue, stop |-> stop_after, sessions |-> sessions]
    /\ queue = {} => running = {p \in sessions : p \subseteq Present /\
                               IF SameAs(p) THEN p \in Converged ELSE p \in links}
=============================================================================
