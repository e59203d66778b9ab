------------------------------ MODULE LocalOspf ------------------------------
(***************************************************************************)
(* A domain running local OSPF: the processes of its routers, the messages *)
(* between them, and the operations that change links (OspfDomain in       *)
(* ospf/mod.rs, LocalOspfCoordinator in ospf/local/mod.rs, the loop of     *)
(* simulate() in interactive.rs).                                          *)
(*                                                                         *)
(* As in BgpNetwork, messages are kept per ordered pair of routers.  With  *)
(* Reorder they may overtake each other, as in the timing queues.          *)
(***************************************************************************)
EXTENDS OspfProcess, OspfDomain

CONSTANTS
  Scenarios, \* records [links, external, script]: the links to start with, and
             \* for every step the operations [op, hasty] of which one comes next
  Reorder    \* TRUE: messages of a pair of routers may overtake each other

IsScenario(t) ==
  /\ IsDomain(t.links, t.external)
  /\ t.script \in Seq(SUBSET [op : Seq(Changes), hasty : BOOLEAN])

ASSUME ScenarioAssumption == \A t \in Scenarios : IsScenario(t)

VARIABLES
  procs,     \* the OSPF process of every router
  chan,      \* chan[a][b]: the messages from a to b, oldest first
  links,     \* OspfDomain::links, see OspfDomain
  external,  \* OspfDomain::external_links
  script,    \* the rest of the script
  settled    \* simulate() has returned since the last operation

vars == <<procs, chan, links, external, script, settled>>

Quiet == \A a, b \in Routers : chan[a][b] = << >>
Waiting == {r \in Routers : \E n \in Neighbors(procs[r]) : IsWaitingForTimeout(procs[r].nbrs[n])}

(* Nothing is left to do for simulate(). *)
Converged == Quiet /\ Waiting = {}

-----------------------------------------------------------------------------
(* Router r sends the messages sent[n] to n. *)
Send(cs, r, sent) == [cs EXCEPT ![r] = [n \in Routers |-> cs[r][n] \o sent[n]]]

(* The routers in DOMAIN results have handled what they were told. *)
Handled(ps, cs, results) ==
  [procs |-> [r \in Routers |-> IF r \in DOMAIN results THEN results[r].p ELSE ps[r]],
   chan |-> [r \in Routers |->
               IF r \in DOMAIN results THEN Send(cs, r, results[r].sent)[r] ELSE cs[r]]]

(* LocalOspfCoordinator::update: all routers handle what they are told of  *)
(* the changes in op before any message is handled.                        *)
Told(ps, cs, op) ==
  LET changes(r) == [i \in DOMAIN op |-> LocalChange(op[i], r)]
      concerned == {r \in Routers : \E i \in DOMAIN op : changes(r)[i] # NoChange}
  IN  Handled(ps, cs, [r \in concerned |-> HandleChange(ps[r], changes(r))])

(* The domain right after OspfDomain::reset. *)
Init ==
  \E t \in Scenarios :
    LET fresh == [r \in Routers |-> NewProcess(r)]
        empty == [a \in Routers |-> [b \in Routers |-> << >>]]
    IN  /\ \E told \in {Told(fresh, empty, ResetBatch(t.links, t.external))} :
             procs = told.procs /\ chan = told.chan
        /\ links = t.links
        /\ external = t.external
        /\ script = t.script
        /\ settled = FALSE

(* An operation of the user, who may be in automatic simulation mode and   *)
(* wait for simulate() to return, or in manual mode and be hasty.          *)
Operate(op, hasty) ==
  /\ settled \/ hasty
  /\ AllPossible(links, external, op)
  /\ links' = LinksAfter(links, op)[Len(op)]
  /\ external' = ExternalAfter(external, op)[Len(op)]
  /\ \E told \in {Told(procs, chan, op)} : procs' = told.procs /\ chan' = told.chan
  /\ script' = Tail(script)
  /\ settled' = FALSE

(* simulate_step: router b handles a message of a. *)
Deliver(a, b) ==
  \E i \in 1 .. (IF Reorder THEN Len(chan[a][b]) ELSE IF chan[a][b] = << >> THEN 0 ELSE 1) :
    \E result \in {HandleEvent(procs[b], a, chan[a][b][i])} :
      /\ procs' = [procs EXCEPT ![b] = result.p]
      /\ chan' = Send([chan EXCEPT ![a][b] = RemoveAt(@, i)], b, result.sent)
      /\ UNCHANGED <<links, external, script, settled>>

(* trigger_timeout: when no event is left, some router that waits for a    *)
(* neighbor repeats its last message to it.                                *)
TimeOut(r, n) ==
  /\ Quiet
  /\ n \in Neighbors(procs[r])
  /\ IsWaitingForTimeout(procs[r].nbrs[n])
  /\ \E result \in {TriggerTimeout(procs[r], n)} :
       /\ procs' = [procs EXCEPT ![r] = result.p]
       /\ chan' = Send(chan, r, result.sent)
  /\ UNCHANGED <<links, external, script, settled>>

(* The end of simulate(): LSAs of unreachable routers are forgotten. *)
Settle ==
  /\ Converged
  /\ ~settled
  /\ procs' = [r \in Routers |-> RemoveUnreachable(procs[r])]
  /\ settled' = TRUE
  /\ UNCHANGED <<chan, links, external, script>>

Simulate ==
  \/ \E a, b \in Routers : Deliver(a, b)
  \/ \E r, n \in Routers : TimeOut(r, n)
  \/ Settle

Next ==
  \/ script # << >> /\ \E o \in Head(script) : Operate(o.op, o.hasty)
  \/ Simulate

Spec == Init /\ [][Next]_vars

(* simulate() goes on until it is done, whatever message or timeout comes  *)
(* next.  This is WF_vars(Simulate), with the condition that enables it    *)
(* written out, and its steps told by that they leave script alone.        *)
Fairness == []<>(Converged /\ settled) \/ []<><<script' = script>>_vars

FairSpec == Spec /\ Fairness
=============================================================================
