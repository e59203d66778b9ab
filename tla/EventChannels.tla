--------------------------- MODULE EventChannels ---------------------------
(***************************************************************************)
(* What the simulator expects of an event queue (event/queue.rs): the      *)
(* events from one router to another are handled in the order in which     *)
(* they were sent, each exactly once.  Nothing is said about the order of  *)
(* events of different pairs.                                              *)
(*                                                                         *)
(* The module is only ever instantiated: `pending' is what a queue maps to.*)
(***************************************************************************)
EXTENDS Integers, SequencesExt

CONSTANT Routers
VARIABLE pending  \* pending[a][b]: the events from a to b, oldest first

Empty == [a \in Routers |-> [b \in Routers |-> << >>]]

Init == pending = Empty

(* Every channel of p is a prefix of the same channel of q. *)
Grown(p, q) == \A a, b \in Routers : IsPrefix(p[a][b], q[a][b])

(* push and push_many. *)
Send == Grown(pending, pending')

(* Router b takes the oldest event from a, and only b sends others. *)
Handle(a, b) ==
  /\ pending[a][b] # << >>
  /\ LET rest == [pending EXCEPT ![a][b] = Tail(@)]
     IN  /\ Grown(rest, pending')
         /\ \A c \in Routers \ {b} : pending'[c] = rest[c]

Next == Send \/ \E a, b \in Routers : Handle(a, b)

Spec == Init /\ [][Next]_pending
-----------------------------------------------------------------------------
(* The whole interface of a queue: pop_events_for(b) takes all events of b *)
(* at once, clear drops everything.                                        *)
Batch(b) ==
  pending' = [a \in Routers |-> [pending[a] EXCEPT ![b] = << >>]]

Clear == pending' = Empty

QueueSpec ==
  Init /\ [][Next \/ Clear \/ \E b \in Routers : Batch(b)]_pending
=============================================================================
