------------------------- MODULE ParallelSimulation -------------------------
(***************************************************************************)
(* simulate_parallel (interactive.rs): the main thread takes all routers   *)
(* out of the network, hands each router that has events to a pool of      *)
(* worker threads as a job (the router and its batch of events), and puts  *)
(* the router and the events it generated back when the job is done.       *)
(*                                                                         *)
(* What a router does with an event is left open: it generates at most one *)
(* event for every other router, or fails.  Events of a pair of routers    *)
(* are numbered in the order in which they are generated.                  *)
(***************************************************************************)
EXTENDS Integers, SequencesExt, FiniteSets

CONSTANTS
  Routers,
  Threads,      \* num_threads, at least 1 and at most the number of routers
  Limits,       \* the values of stop_after looked at, or Unlimited
  Unlimited,
  MayFail,      \* can handle_event return an error?
  InitialPairs, \* the pairs with one event in the queue at the start
  MaxEvents     \* bound on the number of events ever generated

ASSUME ParallelAssumption ==
  /\ IsFiniteSet(Routers)
  /\ Threads \in 1 .. Cardinality(Routers)
  /\ Limits \subseteq Nat \cup {Unlimited}
  /\ Unlimited \notin Nat
  /\ MayFail \in BOOLEAN
  /\ InitialPairs \subseteq {k \in Routers \X Routers : k[1] # k[2]}
  /\ MaxEvents \in Nat

VARIABLES
  stop_after, \* the field of the simulator, never changed here
  pc,        \* main thread: "head" and "scan" of the loop, "recv", "drain", "done"
  idle,      \* the vector of the routers that are not in a job
  i,         \* index of the scan
  remaining, \* remaining_iter
  queue,     \* PerRouterQueue: the events to every router
  tasks,     \* the channel of jobs, oldest first
  working,   \* the jobs of the worker threads
  results,   \* the channel of results, oldest first
  result,    \* "ok", "NoConvergence" or "DeviceError"
  sent,      \* history: number of events generated for every pair
  handled    \* history: number of events handled for every pair

main == <<stop_after, pc, idle, i, remaining, queue, result>>
vars == <<stop_after, pc, idle, i, remaining, queue, tasks, working, results, result, sent, handled>>

NumRouters == Cardinality(Routers)

Event == [src : Routers, dst : Routers, n : Nat]

(* A router, its events, and what it generated: out_events by destination, *)
(* as only the order of the events for the same router has an effect.      *)
Job == [router : Routers, batch : Seq(Event), out : [Routers -> Seq(Event)], ok : BOOLEAN]

NewJob(r, events) ==
  [router |-> r, batch |-> events, out |-> [d \in Routers |-> << >>], ok |-> TRUE]

QueueEmpty == \A r \in Routers : queue[r] = << >>

(* push_many *)
PushMany(out) == [r \in Routers |-> queue[r] \o out[r]]

Count(k) == IF k \in InitialPairs THEN 1 ELSE 0

FirstEvents(r) ==
  {[src |-> k[1], dst |-> r, n |-> 1] : k \in {p \in InitialPairs : p[2] = r}}

Init ==
  /\ pc = "head"
  /\ idle \in SetToSeqs(Routers)
  /\ i = 1
  /\ stop_after \in Limits
  /\ remaining = stop_after
  /\ queue \in [Routers -> UNION {SetToSeqs(FirstEvents(r)) : r \in Routers}]
  /\ \A r \in Routers : queue[r] \in SetToSeqs(FirstEvents(r))
  /\ tasks = << >>
  /\ working = {}
  /\ results = << >>
  /\ result = "ok"
  /\ sent = [k \in Routers \X Routers |-> Count(k)]
  /\ handled = [k \in Routers \X Routers |-> 0]
-----------------------------------------------------------------------------
(* The exit condition of 'main, and the start of the scan. *)
LoopHead ==
  /\ pc = "head"
  /\ IF QueueEmpty /\ Len(idle) = NumRouters
     THEN pc' = "drain" /\ i' = i
     ELSE pc' = "scan" /\ i' = 1
  /\ UNCHANGED <<idle, remaining, queue, tasks, working, results, result, sent, handled, stop_after>>

(* Faulty: the last router of the vector is never looked at. *)
Faulty_ScanGoesOn ==
  /\ i < Len(idle)
  /\ NumRouters - Len(idle) < Threads
  /\ ~QueueEmpty

ScanGoesOn ==
  /\ i <= Len(idle)
  /\ NumRouters - Len(idle) < Threads
  /\ ~QueueEmpty

ScanEnds ==
  /\ pc = "scan"
  /\ ~ScanGoesOn
  /\ pc' = "recv"
  /\ UNCHANGED <<idle, i, remaining, queue, tasks, working, results, result, sent, handled, stop_after>>

SkipRouter ==
  /\ pc = "scan"
  /\ ScanGoesOn
  /\ queue[idle[i]] = << >>
  /\ i' = i + 1
  /\ UNCHANGED <<pc, idle, remaining, queue, tasks, working, results, result, sent, handled, stop_after>>

TooMany(events) == remaining # Unlimited /\ remaining < Len(events)

(* No convergence.  The events were popped already. *)
GiveUp ==
  /\ pc = "scan"
  /\ ScanGoesOn
  /\ queue[idle[i]] # << >>
  /\ TooMany(queue[idle[i]])
  /\ queue' = [queue EXCEPT ![idle[i]] = << >>]
  /\ result' = "NoConvergence"
  /\ pc' = "drain"
  /\ UNCHANGED <<idle, i, remaining, tasks, working, results, sent, handled, stop_after>>

(* Faulty: a job counts as one event. *)
Faulty_Spend(events) == IF remaining = Unlimited THEN remaining ELSE remaining - 1

Spend(events) == IF remaining = Unlimited THEN remaining ELSE remaining - Len(events)

(* Faulty: the router stays in the vector. *)
Faulty_SwapRemove(s, k) == s

(* Vec::swap_remove: the last element takes the place of the removed one. *)
SwapRemove(s, k) == [j \in 1 .. Len(s) - 1 |-> IF j = k THEN Last(s) ELSE s[j]]

Dispatch ==
  /\ pc = "scan"
  /\ ScanGoesOn
  /\ LET r == idle[i]
     IN  /\ queue[r] # << >>
         /\ ~TooMany(queue[r])
         /\ remaining' = Spend(queue[r])
         /\ tasks' = Append(tasks, NewJob(r, queue[r]))
         /\ queue' = [queue EXCEPT ![r] = << >>]
  /\ idle' = SwapRemove(idle, i)
  /\ i' = i + 1
  /\ UNCHANGED <<pc, working, results, result, sent, handled, stop_after>>

(* A result is taken: the router and its events go back. *)
TakeResult ==
  LET job == Head(results)
  IN  /\ results' = Tail(results)
      /\ idle' = Append(idle, job.router)
      /\ queue' = PushMany(job.out)
      /\ result' = IF result = "ok" /\ ~job.ok THEN "DeviceError" ELSE result
      /\ UNCHANGED <<i, remaining, tasks, working, sent, handled, stop_after>>

Receive ==
  /\ pc = "recv"
  /\ results # << >>
  /\ TakeResult
  /\ pc' = IF result' = "ok" THEN "head" ELSE "drain"

(* The task channel is dropped, the workers finish the jobs in it and are  *)
(* joined; then the results are collected until the channel disconnects.   *)
Drain ==
  /\ pc = "drain"
  /\ tasks = << >> /\ working = {}
  /\ IF results # << >>
     THEN TakeResult /\ pc' = pc
     ELSE pc' = "done" /\ UNCHANGED <<idle, i, remaining, queue, tasks, working,
                                      results, result, sent, handled, stop_after>>
-----------------------------------------------------------------------------
(* The worker threads: which one has a job does not matter.                *)
StartJob ==
  /\ tasks # << >>
  /\ Cardinality(working) < Threads
  /\ working' = working \cup {Head(tasks)}
  /\ tasks' = Tail(tasks)
  /\ UNCHANGED <<main, results, sent, handled>>

Total == FoldFunction(LAMBDA n, sum : n + sum, 0, sent)

(* handle_event of the job's router: an event for each router of `to'.     *)
HandleEvent(job, to) ==
  LET ev     == Head(job.batch)
      new(d) == [src |-> job.router, dst |-> d, n |-> sent[<<job.router, d>>] + 1]
  IN  /\ job.ok /\ job.batch # << >>
      /\ Total + Cardinality(to) <= MaxEvents
      /\ working' = (working \ {job}) \cup
           {[job EXCEPT !.batch = Tail(@),
                        !.out = [d \in Routers |->
                           IF d \in to THEN Append(@[d], new(d)) ELSE @[d]]]}
      /\ sent' = [k \in Routers \X Routers |->
           IF k[1] = job.router /\ k[2] \in to THEN sent[k] + 1 ELSE sent[k]]
      /\ handled' = [handled EXCEPT ![<<ev.src, ev.dst>>] = @ + 1]
      /\ UNCHANGED <<main, tasks, results>>

(* handle_event fails: the job ends, the rest of its batch is dropped. *)
FailEvent(job) ==
  /\ MayFail
  /\ job.ok /\ job.batch # << >>
  /\ working' = (working \ {job}) \cup {[job EXCEPT !.batch = << >>, !.ok = FALSE]}
  /\ UNCHANGED <<main, tasks, results, sent, handled>>

(* Faulty: of the events for the same router the oldest one is lost. *)
Faulty_FinishJob(job) ==
  /\ job.batch = << >>
  /\ working' = working \ {job}
  /\ results' = Append(results, [job EXCEPT !.out = [d \in Routers |->
                 IF Len(@[d]) > 1 THEN Tail(@[d]) ELSE @[d]]])
  /\ UNCHANGED <<main, tasks, sent, handled>>

FinishJob(job) ==
  /\ job.batch = << >>
  /\ working' = working \ {job}
  /\ results' = Append(results, job)
  /\ UNCHANGED <<main, tasks, sent, handled>>

Main == LoopHead \/ ScanEnds \/ SkipRouter \/ GiveUp \/ Dispatch \/ Receive \/ Drain

Worker(job) ==
  \/ \E to \in SUBSET (Routers \ {job.router}) : HandleEvent(job, to)
  \/ FailEvent(job)
  \/ FinishJob(job)

Workers == StartJob \/ \E job \in working : Worker(job)

Next == Main \/ Workers

Spec == Init /\ [][Next]_vars

(* The operating system runs every thread that can run.  Workers take jobs *)
(* in a loop of their own.                                                 *)
FairSpec == Spec /\ WF_vars(Main) /\ WF_vars(Workers)
-----------------------------------------------------------------------------
Jobs == Range(tasks) \cup working \cup Range(results)

TypeOK ==
  /\ pc \in {"head", "scan", "recv", "drain", "done"}
  /\ idle \in Seq(Routers)
  /\ i \in 1 .. NumRouters + 1
  /\ remaining \in Nat \cup {Unlimited}
  /\ queue \in [Routers -> Seq(Event)]
  /\ \A job \in Jobs : job \in Job
  /\ Cardinality(working) <= Threads
  /\ result \in {"ok", "NoConvergence", "DeviceError"}
  /\ {sent, handled} \subseteq [Routers \X Routers -> Nat]

(* Every router is in the vector or in exactly one job: no two threads     *)
(* ever have the same router, and all of them are put back in the end.     *)
RoutersConserved ==
  /\ Len(idle) + Len(tasks) + Cardinality(working) + Len(results) = NumRouters
  /\ Range(idle) \cup {job.router : job \in Jobs} = Routers
  /\ pc = "done" => Len(idle) = NumRouters

(* The job of router r; routers that are not in a job have an empty one.   *)
JobOf(r) ==
  IF \E job \in Jobs : job.router = r
  THEN CHOOSE job \in Jobs : job.router = r
  ELSE NewJob(r, << >>)

(* The events from a to b, oldest first, and those from others among them: *)
(* what b's job has not come to, the queue, what a's job holds back.       *)
Pending(a, b) == JobOf(b).batch \o queue[b] \o JobOf(a).out[b]

From(evs, a) == {k \in DOMAIN evs : evs[k].src = a}

Increasing(evs, a) == \A k, l \in From(evs, a) : k < l => evs[k].n < evs[l].n

(* Between the threads no event is lost, handled twice or overtaken by a   *)
(* later one of the same pair: those pending are the ones after the last   *)
(* one that was handled, in order.                                         *)
NothingLost ==
  \A a, b \in Routers :
    LET evs == Pending(a, b)
    IN  /\ {evs[k].n : k \in From(evs, a)} = handled[<<a, b>>] + 1 .. sent[<<a, b>>]
        /\ Increasing(evs, a)

(* That holds as long as the simulation does not give up and no router     *)
(* fails: then nothing gets lost between the scan, the jobs, the results   *)
(* and the events that are put back, whatever the workers' order.  And     *)
(* simulate_parallel returns Ok only if there is nothing left to do.       *)
NothingLostOnSuccess ==
  result = "ok" =>
    /\ (\A job \in Jobs : job.ok) => NothingLost
    /\ pc = "done" => handled = sent

(* One element for every event that was handled. *)
Handled == UNION {{k} \X (1 .. handled[k]) : k \in Routers \X Routers}

(* At most stop_after events are handled, whatever the batches are.        *)
LimitRespected == stop_after # Unlimited => Cardinality(Handled) <= stop_after

(* simulate_parallel returns: recv never blocks for a result that no job   *)
(* will bring, and the main loop ends.                                     *)
Returns == <>(pc = "done")
=============================================================================
