------------------------------- MODULE MCQueues -------------------------------
(***************************************************************************)
(* The queues for TLC: a network has one of them (its type parameter Q),   *)
(* one with time (TimingQueue) or one without (EventQueues, two at once).  *)
(***************************************************************************)
EXTENDS TimingQueue, EventQueues

VARIABLE timed

(* With time: one session; a later event may be sampled an earlier time.   *)
McPairs == {<<1, 3>>}
McPayloads == {"update", "withdraw"}
McDelays == {1, 2, 4}

(* Without: two senders and one pair of events of the same session towards *)
(* router 3, and an event to a router with a smaller key.                  *)
McRouters == 1 .. 3
McEvents ==
  {[src |-> 1, dst |-> 3, e |-> "update"], [src |-> 1, dst |-> 3, e |-> "withdraw"],
   [src |-> 2, dst |-> 3, e |-> "update"], [src |-> 3, dst |-> 1, e |-> "update"]}

McInit ==
  /\ timed \in BOOLEAN
  /\ TimingInit
  /\ Init

McNext ==
  /\ UNCHANGED timed
  /\ \/ timed /\ TimingNext /\ UNCHANGED vars
     \/ ~timed /\ Next /\ UNCHANGED timing_vars

McSpec == McInit /\ [][McNext]_<<timed, timing_vars, vars>>
=============================================================================
