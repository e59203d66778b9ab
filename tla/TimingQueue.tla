---------------------------- MODULE TimingQueue ----------------------------
(***************************************************************************)
(* SimpleTimingModel (event/rand_queue.rs): a priority queue of events by  *)
(* their arrival time.  GeoTimingModel orders the events of a session in   *)
(* the same way.  Time is discrete; the sampled delay is a choice.         *)
(*                                                                         *)
(* The priority queue (an external crate) holds equal elements once and    *)
(* hands out any of several elements with the same priority.               *)
(***************************************************************************)
EXTENDS Integers, SequencesExt, FiniteSets

CONSTANTS
  Pairs,      \* the keys (src, dst) of the table of sessions
  Payloads,   \* contents of events
  Delays,     \* outcomes of ModelParams::sample
  Collision,  \* ModelParams::collision
  Ties,       \* can a sampled time hit the last one of the session exactly?
  MaxSent,    \* bound on the BGP events sent per pair of routers
  MaxOspf,    \* bound on the OSPF events in the queue
  MaxTime     \* bound on the current time when an event is pushed

VARIABLES
  q,         \* SimpleTimingModel::q, a set of [key, kind, e, p]
  messages,  \* per pair: the number of queued BGP events and their last time;
             \* no entry is the same as the number 0
  now,       \* current_time
  sent,      \* history: the BGP events pushed for every pair since clear
  received   \* history: the BGP events popped for every pair since clear

timing_vars == <<q, messages, now, sent, received>>

TimingInit ==
  /\ q = {}
  /\ messages = [k \in Pairs |-> [num |-> 0, time |-> 0]]
  /\ now = 0
  /\ sent = [k \in Pairs |-> << >>]
  /\ received = [k \in Pairs |-> << >>]

(* The arrival time of a BGP event with a sampled time, given the entry of *)
(* its session.                                                            *)
Faulty_InOrder(m, time) == time

InOrder(m, time) ==
  IF m.num > 0 /\ m.time > time THEN m.time + Collision ELSE time

PushBgp(k, e, delay) ==
  LET m    == messages[k]
      time == InOrder(m, now + delay)
  IN  /\ now <= MaxTime
      /\ Len(sent[k]) < MaxSent
      /\ (m.num > 0 /\ now + delay = m.time) => Ties
      /\ messages' = [messages EXCEPT ![k] = [num |-> m.num + 1, time |-> time]]
      /\ q' = q \cup {[key |-> k, kind |-> "bgp", e |-> e, p |-> time]}
      /\ sent' = [sent EXCEPT ![k] = Append(@, e)]
      /\ UNCHANGED <<now, received>>

PushOspf(k, e, delay) ==
  /\ now <= MaxTime
  /\ Cardinality({ev \in q : ev.kind = "ospf"}) < MaxOspf
  /\ q' = q \cup {[key |-> k, kind |-> "ospf", e |-> e, p |-> now + delay]}
  /\ UNCHANGED <<messages, now, sent, received>>

Pop(ev) ==
  LET k == ev.key
  IN  /\ \A other \in q : ev.p <= other.p
      /\ q' = q \ {ev}
      /\ now' = ev.p
      /\ IF ev.kind = "bgp"
         THEN /\ messages' = [messages EXCEPT ![k].num = @ - 1]
              /\ received' = [received EXCEPT ![k] = Append(@, ev.e)]
         ELSE UNCHANGED <<messages, received>>
      /\ UNCHANGED sent

TimingClear ==
  /\ q' = {}
  /\ messages' = [k \in Pairs |-> [num |-> 0, time |-> 0]]
  /\ now' = 0
  /\ sent' = [k \in Pairs |-> << >>]
  /\ received' = [k \in Pairs |-> << >>]

TimingNext ==
  \/ \E k \in Pairs, e \in Payloads, d \in Delays : PushBgp(k, e, d) \/ PushOspf(k, e, d)
  \/ \E ev \in q : Pop(ev)
  \/ TimingClear

TimingSpec == TimingInit /\ [][TimingNext]_timing_vars
-----------------------------------------------------------------------------
(* "We also need to ensure TCP ordering": the BGP events of a session are  *)
(* handed out in the order in which they were sent, whatever the delays.   *)
TcpOrdering == \A k \in Pairs : IsPrefix(received[k], sent[k])

Queued(k) == {ev \in q : ev.kind = "bgp" /\ ev.key = k}

(* The counter of a session is the number of its events in the queue, and  *)
(* none of the events sent was dropped: a session without events in the    *)
(* queue has delivered them all, and a later event does not wait for it.   *)
SessionCountExact ==
  \A k \in Pairs :
    /\ Cardinality(Queued(k)) = messages[k].num
    /\ Cardinality(Queued(k)) = Len(sent[k]) - Len(received[k])

(* Both together: what a session promises, and what the table of sessions  *)
(* has to know for it.                                                     *)
SessionsExact == TcpOrdering /\ SessionCountExact
=============================================================================
