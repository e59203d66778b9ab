----------------------------- MODULE EventQueues -----------------------------
(***************************************************************************)
(* The two queues without a notion of time (event/queue.rs), fed with the  *)
(* same events: BasicEventQueue, one FIFO, and PerRouterQueue, a FIFO per  *)
(* destination in a BTreeMap with a counter of its own.  The queues do not *)
(* influence each other; each is drained on its own.                       *)
(***************************************************************************)
EXTENDS Integers, SequencesExt, FiniteSets

CONSTANTS
  Routers,    \* numbers, in the order of the keys of PerRouterQueue
  Events,     \* the events that may be pushed: [src, dst, e]
  MaxPending  \* bound on the number of events in a queue

VARIABLES
  basic,      \* BasicEventQueue
  events,     \* PerRouterQueue::events; its domain are the keys of the map
  num_events  \* PerRouterQueue::num_events

vars == <<basic, events, num_events>>

Keys == DOMAIN events

(* The deque of r, a default one if the map has no entry. *)
Deque(r) == IF r \in Keys THEN events[r] ELSE << >>

(* The map with the deque of r replaced. *)
With(r, deque) == [k \in Keys \cup {r} |-> IF k = r THEN deque ELSE events[k]]

Without(r) == [k \in Keys \ {r} |-> events[k]]

Init ==
  /\ basic = << >>
  /\ events = [k \in {} |-> << >>]
  /\ num_events = 0

Push(ev) ==
  /\ Len(basic) < MaxPending /\ num_events < MaxPending
  /\ basic' = Append(basic, ev)
  /\ events' = With(ev.dst, Append(Deque(ev.dst), ev))
  /\ num_events' = num_events + 1

(* Faulty: the queue is a stack. *)
Faulty_BasicPop ==
  /\ basic # << >>
  /\ basic' = Front(basic)
  /\ UNCHANGED <<events, num_events>>

BasicPop ==
  /\ basic # << >>
  /\ basic' = Tail(basic)
  /\ UNCHANGED <<events, num_events>>

(* Faulty: the deque stays in the map when it runs empty. *)
Faulty_PerRouterPop ==
  /\ Keys # {}
  /\ LET first == CHOOSE k \in Keys : \A l \in Keys : k <= l
     IN  events[first] # << >> /\ events' = With(first, Tail(events[first]))
  /\ num_events' = num_events - 1
  /\ UNCHANGED basic

(* pop unwraps the front of the first deque: it must not be empty. *)
PerRouterPop ==
  /\ Keys # {}
  /\ LET first == CHOOSE k \in Keys : \A l \in Keys : k <= l
         rest  == Tail(events[first])
     IN  events' = IF rest = << >> THEN Without(first) ELSE With(first, rest)
  /\ num_events' = num_events - 1
  /\ UNCHANGED basic

PopEventsFor(r) ==
  /\ r \in Keys
  /\ events' = Without(r)
  /\ num_events' = num_events - Len(events[r])
  /\ UNCHANGED basic

Clear ==
  /\ basic' = << >>
  /\ events' = [k \in {} |-> << >>]
  /\ num_events' = 0

Next ==
  \/ \E ev \in Events : Push(ev)
  \/ BasicPop
  \/ PerRouterPop
  \/ \E r \in Routers : PopEventsFor(r)
  \/ Clear

Spec == Init /\ [][Next]_vars
-----------------------------------------------------------------------------
(* The places in the deques of the map, which len has to count *)
Places == UNION {{k} \X DOMAIN events[k] : k \in Keys}

(* is_empty (num_events = 0) and peek (the first deque) tell the same, len *)
(* is exact, and no deque in the map is empty: pop and peek unwrap its     *)
(* front.                                                                  *)
CountersExact ==
  /\ num_events = Cardinality(Places)
  /\ \A k \in Keys : events[k] # << >> /\ \A i \in DOMAIN events[k] : events[k][i].dst = k

(* The events from a to b in a queue, one event of the queue at a time *)
Picked(picked, ev, a, b) == IF ev.src = a /\ ev.dst = b THEN Append(picked, ev) ELSE picked

Of(queue, a, b) ==
  LET upto[i \in 0 .. Len(queue)] ==
        IF i = 0 THEN << >> ELSE Picked(upto[i - 1], queue[i], a, b)
  IN  upto[Len(queue)]

Basic == INSTANCE EventChannels WITH
  pending <- [a \in Routers |-> [b \in Routers |-> Of(basic, a, b)]]

PerRouter == INSTANCE EventChannels WITH
  pending <- [a \in Routers |-> [b \in Routers |-> Of(Deque(b), a, b)]]

BasicImplementsChannels == Basic!QueueSpec

PerRouterImplementsChannels == PerRouter!QueueSpec

(* Both queues keep the events of every pair of routers in order, lose     *)
(* none and hand out none twice: each implements EventChannels.            *)
QueuesAreChannels == BasicImplementsChannels /\ PerRouterImplementsChannels
=============================================================================
