--------------------------- MODULE ParallelProofs ---------------------------
(***************************************************************************)
(* Theorems about simulate_parallel, for any number of routers and threads,*)
(* any events and any message limit.                                       *)
(***************************************************************************)
EXTENDS ParallelSimulation, FiniteSetTheorems, SequenceTheorems, TLAPS

(***************************************************************************)
(* Sequences: what the channels and the vector of routers are built with.  *)
(***************************************************************************)

LEMMA InRange ==
  \A f : \A x : x \in Range(f) <=> \E k \in DOMAIN f : x = f[k]
  BY DEF Range

(* Append, on a channel or the vector. *)
LEMMA AppendFacts ==
  ASSUME NEW s, s \in Seq(Range(s)), NEW x
  PROVE  /\ Append(s, x) \in Seq(Range(Append(s, x)))
         /\ Len(Append(s, x)) = Len(s) + 1
         /\ DOMAIN s = 1 .. Len(s) /\ DOMAIN Append(s, x) = 1 .. Len(s) + 1
         /\ \A k \in 1 .. Len(s) : Append(s, x)[k] = s[k]
         /\ Append(s, x)[Len(s) + 1] = x
         /\ Range(Append(s, x)) = Range(s) \cup {x}
<1> DEFINE T == Range(s) \cup {x}
<1>1. s \in Seq(T)
  <2>1. /\ Len(s) \in Nat /\ s \in [1 .. Len(s) -> Range(s)]
    OBVIOUS
  <2>2. s \in [1 .. Len(s) -> T]
    BY <2>1
  <2> QED
    BY <2>1, <2>2
<1>2. x \in T
  OBVIOUS
<1> HIDE DEF T
<1>3. /\ Append(s, x) \in Seq(T)
      /\ Len(Append(s, x)) = Len(s) + 1
      /\ DOMAIN s = 1 .. Len(s) /\ DOMAIN Append(s, x) = 1 .. Len(s) + 1
      /\ \A k \in 1 .. Len(s) : Append(s, x)[k] = s[k]
      /\ Append(s, x)[Len(s) + 1] = x
      /\ Len(s) \in Nat
  BY <1>1, <1>2
<1>4. Append(s, x) \in Seq(Range(Append(s, x)))
  BY <1>3, SeqOfRange
<1>5. Range(Append(s, x)) = Range(s) \cup {x}
  <2>1. \A k \in 1 .. Len(s) + 1 : k \in 1 .. Len(s) \/ k = Len(s) + 1
    BY <1>3
  <2>2. \A k \in 1 .. Len(s) : k \in 1 .. Len(s) + 1
    BY <1>3
  <2>3. Len(s) + 1 \in 1 .. Len(s) + 1
    BY <1>3
  <2> QED
    BY <1>3, <2>1, <2>2, <2>3 DEF Range
<1> QED
  BY <1>3, <1>4, <1>5

(* The oldest element of a channel is taken. *)
LEMMA TailFacts ==
  ASSUME NEW s, s \in Seq(Range(s)), s # << >>
  PROVE  /\ Tail(s) \in Seq(Range(Tail(s)))
         /\ Len(Tail(s)) = Len(s) - 1 /\ Len(s) \in Nat \ {0}
         /\ DOMAIN s = 1 .. Len(s) /\ DOMAIN Tail(s) = 1 .. Len(s) - 1
         /\ \A k \in 1 .. Len(s) - 1 : Tail(s)[k] = s[k + 1]
         /\ Head(s) = s[1]
         /\ Range(s) = Range(Tail(s)) \cup {Head(s)}
<1> DEFINE T == Range(s)
<1> HIDE DEF T
<1>0. s \in Seq(T)
  BY DEF T
<1>1. /\ Tail(s) \in Seq(T)
      /\ Len(Tail(s)) = Len(s) - 1 /\ Len(s) \in Nat \ {0}
      /\ DOMAIN s = 1 .. Len(s) /\ DOMAIN Tail(s) = 1 .. Len(s) - 1
      /\ \A k \in 1 .. Len(s) - 1 : Tail(s)[k] = s[k + 1]
      /\ Head(s) = s[1]
  BY <1>0
<1>2. Tail(s) \in Seq(Range(Tail(s)))
  BY <1>1, SeqOfRange
<1>3. Range(s) = Range(Tail(s)) \cup {Head(s)}
  <2> DEFINE n == Len(s)
             t == Tail(s)
             h == Head(s)
  <2>1. /\ n \in Nat /\ n > 0
        /\ DOMAIN s = 1 .. n /\ DOMAIN t = 1 .. n - 1
        /\ \A k \in 1 .. n - 1 : t[k] = s[k + 1]
        /\ h = s[1]
    BY <1>1
  <2> HIDE DEF n, t, h
  <2>2. ASSUME NEW x \in Range(s)
        PROVE  x \in Range(t) \cup {h}
    <3>1. PICK k \in 1 .. n : x = s[k]
      BY <2>1, InRange
    <3>2. CASE k = 1
      BY <2>1, <3>1, <3>2
    <3>3. CASE k # 1
      <4>1. k - 1 \in 1 .. n - 1 /\ (k - 1) + 1 = k
        BY <2>1, <3>3
      <4>2. x = t[k - 1]
        BY <2>1, <3>1, <4>1
      <4> QED
        BY <2>1, <4>1, <4>2, InRange
    <3> QED
      BY <3>2, <3>3
  <2>3. ASSUME NEW x \in Range(t)
        PROVE  x \in Range(s)
    <3>1. PICK k \in 1 .. n - 1 : x = t[k]
      BY <2>1, InRange
    <3>2. k + 1 \in 1 .. n
      BY <2>1
    <3> QED
      BY <2>1, <3>1, <3>2, InRange
  <2>4. h \in Range(s)
    <3>1. 1 \in 1 .. n
      BY <2>1
    <3> QED
      BY <2>1, <3>1, InRange
  <2> QED
    BY <2>2, <2>3, <2>4 DEF t, h
<1> QED
  BY <1>1, <1>2, <1>3

(* Vec::swap_remove removes the element at an index, and no other one. *)
LEMMA SwapRemoveFacts ==
  ASSUME NEW S, NEW s \in Seq(S), NEW k \in 1 .. Len(s), IsInjective(s)
  PROVE  /\ SwapRemove(s, k) \in Seq(S)
         /\ Len(SwapRemove(s, k)) = Len(s) - 1
         /\ IsInjective(SwapRemove(s, k))
         /\ Range(SwapRemove(s, k)) = Range(s) \ {s[k]}
<1> DEFINE n == Len(s)
           t == SwapRemove(s, k)
           source(j) == IF j = k THEN n ELSE j
<1>0. n \in Nat /\ n > 0 /\ k \in 1 .. n
  OBVIOUS
<1>1. DOMAIN s = 1 .. n /\ \A j \in 1 .. n : s[j] \in S
  OBVIOUS
<1>2. Last(s) = s[n]
  BY DEF Last
<1>3. t = [j \in 1 .. n - 1 |-> s[source(j)]]
  BY <1>2 DEF SwapRemove
<1> HIDE DEF n, t
<1>4. \A j \in 1 .. n - 1 : t[j] = s[source(j)]
  BY <1>3
<1>5. \A j \in 1 .. n - 1 : source(j) \in 1 .. n /\ source(j) # k
  <2> TAKE j \in 1 .. n - 1
  <2>1. j \in 1 .. n /\ j # n /\ n \in 1 .. n
    BY <1>0
  <2> QED
    BY <2>1
<1>6. \A a, b \in 1 .. n - 1 : source(a) = source(b) => a = b
  <2> TAKE a, b \in 1 .. n - 1
  <2>1. a # n /\ b # n
    BY <1>0
  <2> QED
    BY <2>1
<1>7. \A l \in 1 .. n : l # k => \E j \in 1 .. n - 1 : source(j) = l
  <2> SUFFICES ASSUME NEW l \in 1 .. n, l # k
               PROVE  \E j \in 1 .. n - 1 : source(j) = l
    OBVIOUS
  <2>1. CASE l = n
    <3>1. k \in 1 .. n - 1 /\ source(k) = l
      BY <1>0, <2>1
    <3> QED
      BY <3>1
  <2>2. CASE l # n
    <3>1. l \in 1 .. n - 1 /\ source(l) = l
      BY <1>0, <2>2
    <3> QED
      BY <3>1
  <2> QED
    BY <2>1, <2>2
<1>8. /\ t \in Seq(S) /\ Len(t) = n - 1 /\ DOMAIN t = 1 .. n - 1
  <2>1. t \in [1 .. n - 1 -> S] /\ n - 1 \in Nat
    BY <1>0, <1>1, <1>3, <1>5
  <2> QED
    BY <2>1
<1> HIDE DEF source
<1>9. \A a, b \in 1 .. n : s[a] = s[b] => a = b
  BY <1>1 DEF IsInjective
<1>10. IsInjective(t)
  <2> SUFFICES ASSUME NEW a \in 1 .. n - 1, NEW b \in 1 .. n - 1, t[a] = t[b]
               PROVE  a = b
    BY <1>8 DEF IsInjective
  <2>1. s[source(a)] = s[source(b)]
    BY <1>4
  <2>2. source(a) = source(b)
    BY <1>5, <1>9, <2>1
  <2> QED
    BY <1>6, <2>2
<1>11. ASSUME NEW x
       PROVE  x \in Range(t) <=> x \in Range(s) \ {s[k]}
  <2>1. x \in Range(t) <=> \E j \in 1 .. n - 1 : x = t[j]
    BY <1>8, InRange
  <2>2. x \in Range(s) <=> \E j \in 1 .. n : x = s[j]
    BY <1>1, InRange
  <2>3. ASSUME NEW j \in 1 .. n - 1, x = t[j]
        PROVE  x \in Range(s) \ {s[k]}
    <3>1. x = s[source(j)] /\ source(j) \in 1 .. n /\ source(j) # k
      BY <1>4, <1>5, <2>3
    <3>2. x # s[k]
      BY <1>0, <1>9, <3>1
    <3> QED
      BY <2>2, <3>1, <3>2
  <2>4. ASSUME NEW l \in 1 .. n, x = s[l], x # s[k]
        PROVE  x \in Range(t)
    <3>1. PICK j \in 1 .. n - 1 : source(j) = l
      BY <1>7, <2>4
    <3>2. x = t[j]
      BY <1>4, <2>4, <3>1
    <3> QED
      BY <2>1, <3>2
  <2> QED
    BY <2>1, <2>2, <2>3, <2>4
<1> QED
  BY <1>8, <1>10, <1>11 DEF n, t

(***************************************************************************)
(* No router is lost.  RoutersConserved is not inductive: that a router is *)
(* put back only makes the vector longer if it was not in there.  So the   *)
(* invariant has the routers in jobs, in channels and in the vector apart  *)
(* from each other, besides their number and their union.                  *)
(***************************************************************************)

(* A job is a record, whatever its events are. *)
IsJob(job) ==
  /\ job = [router |-> job.router, batch |-> job.batch, out |-> job.out, ok |-> job.ok]
  /\ job.router \in Routers

Shape ==
  /\ pc \in {"head", "scan", "recv", "drain", "done"}
  /\ idle \in Seq(Routers)
  /\ tasks \in Seq(Range(tasks))
  /\ results \in Seq(Range(results))
  /\ IsFiniteSet(working)
  /\ i \in Nat \ {0}
  /\ \A job \in Jobs : IsJob(job)

(* A channel holds no router twice. *)
Single(channel) ==
  \A a, b \in DOMAIN channel : channel[a].router = channel[b].router => a = b

Disjoint(J, K) == \A a \in J, b \in K : a.router # b.router

Apart ==
  /\ IsInjective(idle)
  /\ Single(tasks) /\ Single(results)
  /\ \A a, b \in working : a.router = b.router => a = b
  /\ Disjoint(Range(tasks), working)
  /\ Disjoint(Range(tasks), Range(results))
  /\ Disjoint(working, Range(results))
  /\ \A job \in Jobs : job.router \notin Range(idle)

Counted == Len(idle) + Len(tasks) + Cardinality(working) + Len(results) = NumRouters

Covered == Range(idle) \cup {job.router : job \in Jobs} = Routers

Finished == pc = "done" => tasks = << >> /\ working = {} /\ results = << >>

ConservationInv == Shape /\ Apart /\ Counted /\ Covered /\ Finished

LEMMA EmptyChannel ==
  /\ << >> \in Seq(Range(<< >>)) /\ Range(<< >>) = {} /\ Len(<< >>) = 0
  /\ Single(<< >>)
<1>1. DOMAIN << >> = {}
  OBVIOUS
<1>2. Range(<< >>) = {}
  BY <1>1 DEF Range
<1> QED
  BY <1>1, <1>2 DEF Single

LEMMA ConservationInit == Init => ConservationInv
<1> SUFFICES ASSUME Init PROVE ConservationInv
  OBVIOUS
<1>1. /\ pc = "head" /\ i = 1 /\ tasks = << >> /\ working = {} /\ results = << >>
      /\ idle \in SetToSeqs(Routers)
  BY DEF Init
<1>2. /\ IsFiniteSet(Routers) /\ NumRouters \in Nat
  BY ParallelAssumption, FS_CardinalityType DEF NumRouters
<1>3. /\ idle \in [1 .. NumRouters -> Routers]
      /\ \A a, b \in 1 .. NumRouters : idle[a] = idle[b] => a = b
  BY <1>1 DEF SetToSeqs, NumRouters
<1>4. /\ idle \in Seq(Routers) /\ Len(idle) = NumRouters /\ DOMAIN idle = 1 .. NumRouters
      /\ IsInjective(idle)
  BY <1>2, <1>3 DEF IsInjective
<1>5. Jobs = {}
  BY <1>1, EmptyChannel DEF Jobs
<1>6. Range(idle) = Routers
  <2>1. IsFiniteSet(1 .. NumRouters) /\ Cardinality(1 .. NumRouters) = Cardinality(Routers)
    BY <1>2, FS_Interval DEF NumRouters
  <2>2. idle \in Injection(1 .. NumRouters, Routers)
    BY <1>3, <1>4 DEF Injection
  <2>3. idle \in Surjection(1 .. NumRouters, Routers)
    BY <1>2, <2>1, <2>2, FS_Injection
  <2> QED
    BY <1>3, <2>3 DEF Surjection, Range
<1>7. Counted
  BY <1>1, <1>2, <1>4, EmptyChannel, FS_EmptySet DEF Counted
<1> QED
  BY <1>1, <1>4, <1>5, <1>6, <1>7, EmptyChannel, FS_EmptySet
     DEF ConservationInv, Shape, Apart, Covered, Finished, Disjoint

LEMMA SingleAppend ==
  ASSUME NEW s, s \in Seq(Range(s)), Single(s), NEW x,
         \A y \in Range(s) : y.router # x.router
  PROVE  Single(Append(s, x))
<1> DEFINE t == Append(s, x)
           n == Len(s)
<1>1. /\ DOMAIN s = 1 .. n /\ DOMAIN t = 1 .. n + 1 /\ n \in Nat
      /\ \A k \in 1 .. n : t[k] = s[k]
      /\ t[n + 1] = x
  BY AppendFacts, LenProperties
<1> HIDE DEF t, n
<1>2. \A k \in 1 .. n : s[k] \in Range(s)
  BY <1>1, InRange
<1>3. \A a, b \in 1 .. n : s[a].router = s[b].router => a = b
  BY <1>1 DEF Single
<1> SUFFICES ASSUME NEW a \in 1 .. n + 1, NEW b \in 1 .. n + 1, t[a].router = t[b].router
             PROVE  a = b
  BY <1>1 DEF Single, t
<1>4. (a \in 1 .. n \/ a = n + 1) /\ (b \in 1 .. n \/ b = n + 1)
  BY <1>1
<1>5. CASE a \in 1 .. n /\ b \in 1 .. n
  BY <1>1, <1>3, <1>5
<1>6. CASE a \in 1 .. n /\ b = n + 1
  BY <1>1, <1>2, <1>6
<1>7. CASE a = n + 1 /\ b \in 1 .. n
  BY <1>1, <1>2, <1>7
<1> QED
  BY <1>4, <1>5, <1>6, <1>7

LEMMA SingleTail ==
  ASSUME NEW s, s \in Seq(Range(s)), s # << >>, Single(s)
  PROVE  /\ Single(Tail(s))
         /\ \A y \in Range(Tail(s)) : y.router # Head(s).router
<1> DEFINE t == Tail(s)
           n == Len(s)
           h == Head(s)
<1>1. /\ DOMAIN s = 1 .. n /\ DOMAIN t = 1 .. n - 1 /\ n \in Nat /\ n > 0
      /\ \A k \in 1 .. n - 1 : t[k] = s[k + 1]
      /\ h = s[1]
  BY TailFacts
<1> HIDE DEF t, n, h
<1>2. \A a, b \in 1 .. n : s[a].router = s[b].router => a = b
  BY <1>1 DEF Single
<1>3. \A k \in 1 .. n - 1 : k + 1 \in 1 .. n /\ 1 \in 1 .. n /\ k + 1 # 1
  BY <1>1
<1>4. Single(t)
  <2> SUFFICES ASSUME NEW a \in 1 .. n - 1, NEW b \in 1 .. n - 1, t[a].router = t[b].router
               PROVE  a = b
    BY <1>1 DEF Single
  <2>1. a + 1 = b + 1
    BY <1>1, <1>2, <1>3
  <2> QED
    BY <1>1, <2>1
<1>5. \A y \in Range(t) : y.router # h.router
  <2> TAKE y \in Range(t)
  <2>1. PICK k \in 1 .. n - 1 : y = t[k]
    BY <1>1, InRange
  <2> QED
    BY <1>1, <1>2, <1>3, <2>1
<1> QED
  BY <1>4, <1>5 DEF t, h

(* The main thread does not touch routers or channels. *)
LEMMA KeptInPlace ==
  ASSUME ConservationInv, UNCHANGED <<idle, tasks, working, results>>,
         pc' \in {"head", "scan", "recv", "drain", "done"},
         i' \in Nat \ {0},
         pc' = "done" => tasks = << >> /\ working = {} /\ results = << >>
  PROVE  ConservationInv'
<1>1. Jobs' = Jobs
  BY DEF Jobs
<1> QED
  BY <1>1 DEF ConservationInv, Shape, Apart, Counted, Covered, Finished, Single, Disjoint,
              NumRouters

(* A router leaves the vector for a new job. *)
LEMMA DispatchConserves == ConservationInv /\ Dispatch => ConservationInv'
<1> SUFFICES ASSUME ConservationInv, Dispatch PROVE ConservationInv'
  OBVIOUS
<1> USE DEF ConservationInv
<1> DEFINE r == idle[i]
           job == NewJob(r, queue[r])
<1>1. /\ pc = "scan" /\ i <= Len(idle)
      /\ tasks' = Append(tasks, job)
      /\ idle' = SwapRemove(idle, i)
      /\ i' = i + 1
      /\ UNCHANGED <<pc, working, results>>
  BY DEF Dispatch, ScanGoesOn
<1>2. idle \in Seq(Routers) /\ IsInjective(idle) /\ i \in Nat \ {0}
  BY DEF Shape, Apart
<1>3. i \in 1 .. Len(idle) /\ i + 1 \in Nat \ {0}
  BY <1>1, <1>2
<1>4. r \in Routers /\ r \in Range(idle)
  <2>1. DOMAIN idle = 1 .. Len(idle)
    BY <1>2
  <2> QED
    BY <1>2, <1>3, <2>1, InRange
<1>5. /\ job.router = r /\ IsJob(job)
  BY <1>4 DEF IsJob, NewJob
<1> HIDE DEF job
<1>6. /\ idle' \in Seq(Routers) /\ Len(idle') = Len(idle) - 1
      /\ IsInjective(idle') /\ Range(idle') = Range(idle) \ {r}
  BY <1>1, <1>2, <1>3, SwapRemoveFacts
<1>7. tasks \in Seq(Range(tasks)) /\ Single(tasks)
  BY DEF Shape, Apart
<1>8. \A other \in Jobs : other.router # r
  BY <1>4 DEF Apart
<1>9. /\ tasks' \in Seq(Range(tasks')) /\ Len(tasks') = Len(tasks) + 1
      /\ Range(tasks') = Range(tasks) \cup {job}
  BY <1>1, <1>7, AppendFacts
<1>10. Single(tasks')
  BY <1>1, <1>5, <1>7, <1>8, SingleAppend DEF Jobs
<1>11. Jobs' = Jobs \cup {job}
  BY <1>1, <1>9 DEF Jobs
<1>12. Shape'
  BY <1>1, <1>3, <1>5, <1>6, <1>9, <1>11 DEF Shape
<1>13. Apart'
  <2>1. IsInjective(idle)' /\ Single(tasks)' /\ Single(results)'
    BY <1>1, <1>6, <1>10 DEF Apart, Single
  <2>2. \A a, b \in working' : a.router = b.router => a = b
    BY <1>1 DEF Apart
  <2>3. Disjoint(Range(tasks), working)' /\ Disjoint(Range(tasks), Range(results))'
    BY <1>1, <1>5, <1>8, <1>9 DEF Apart, Disjoint, Jobs
  <2>4. Disjoint(working, Range(results))'
    BY <1>1 DEF Apart, Disjoint
  <2>5. \A other \in Jobs' : other.router \notin Range(idle')
    BY <1>5, <1>6, <1>8, <1>11 DEF Apart
  <2> QED
    BY <2>1, <2>2, <2>3, <2>4, <2>5 DEF Apart
<1>14. Counted'
  <2>1. Len(idle) \in Nat /\ Len(tasks) \in Nat
    BY <1>2, <1>7, LenProperties
  <2>2. Cardinality(working) \in Nat /\ Len(results) \in Nat
    BY FS_CardinalityType, LenProperties DEF Shape
  <2> QED
    BY <1>1, <1>6, <1>9, <2>1, <2>2 DEF Counted, NumRouters
<1>15. Covered'
  BY <1>4, <1>5, <1>6, <1>11 DEF Covered
<1>16. Finished'
  BY <1>1 DEF Finished
<1> QED
  BY <1>12, <1>13, <1>14, <1>15, <1>16

LEMMA InjectiveAppend ==
  ASSUME NEW s, s \in Seq(Range(s)), IsInjective(s), NEW x, x \notin Range(s)
  PROVE  IsInjective(Append(s, x))
<1> DEFINE t == Append(s, x)
           n == Len(s)
<1>1. /\ DOMAIN s = 1 .. n /\ DOMAIN t = 1 .. n + 1 /\ n \in Nat
      /\ \A k \in 1 .. n : t[k] = s[k]
      /\ t[n + 1] = x
  BY AppendFacts, LenProperties
<1> HIDE DEF t, n
<1>2. \A k \in 1 .. n : s[k] # x
  BY <1>1, InRange
<1>3. \A a, b \in 1 .. n : s[a] = s[b] => a = b
  BY <1>1 DEF IsInjective
<1> SUFFICES ASSUME NEW a \in 1 .. n + 1, NEW b \in 1 .. n + 1, t[a] = t[b]
             PROVE  a = b
  BY <1>1 DEF IsInjective, t
<1>4. (a \in 1 .. n \/ a = n + 1) /\ (b \in 1 .. n \/ b = n + 1)
  BY <1>1
<1>5. CASE a \in 1 .. n /\ b \in 1 .. n
  BY <1>1, <1>3, <1>5
<1>6. CASE a \in 1 .. n /\ b = n + 1
  BY <1>1, <1>2, <1>6
<1>7. CASE a = n + 1 /\ b \in 1 .. n
  BY <1>1, <1>2, <1>7
<1> QED
  BY <1>4, <1>5, <1>6, <1>7

(* The router of a finished job is put back into the vector. *)
LEMMA TakeResultConserves ==
  ASSUME ConservationInv, results # << >>, TakeResult,
         pc' \in {"head", "drain"}
  PROVE  ConservationInv'
<1> USE DEF ConservationInv
<1> DEFINE job == Head(results)
<1>1. /\ results' = Tail(results)
      /\ idle' = Append(idle, job.router)
      /\ UNCHANGED <<i, tasks, working>>
  BY DEF TakeResult
<1> HIDE DEF job
<1>2. /\ idle \in Seq(Routers) /\ idle \in Seq(Range(idle)) /\ IsInjective(idle)
      /\ results \in Seq(Range(results)) /\ Single(results)
  BY SeqOfRange DEF Shape, Apart
<1>3. /\ results' \in Seq(Range(results')) /\ Len(results') = Len(results) - 1
      /\ Range(results) = Range(results') \cup {job}
      /\ Single(results')
      /\ \A y \in Range(results') : y.router # job.router
  BY <1>1, <1>2, TailFacts, SingleTail DEF job
<1>4. job \in Jobs /\ job.router \in Routers /\ job.router \notin Range(idle)
  BY <1>3 DEF Jobs, Shape, Apart, IsJob
<1>5. /\ idle' \in Seq(Routers) /\ Len(idle') = Len(idle) + 1
      /\ IsInjective(idle') /\ Range(idle') = Range(idle) \cup {job.router}
  BY <1>1, <1>2, <1>4, AppendFacts, InjectiveAppend, AppendProperties
<1>6. Jobs = Jobs' \cup {job}
  BY <1>1, <1>3 DEF Jobs
<1>7. \A other \in Jobs' : other.router # job.router
  BY <1>1, <1>3 DEF Jobs, Apart, Disjoint
<1>8. Shape'
  BY <1>1, <1>3, <1>5, <1>6 DEF Shape
<1>9. Apart'
  <2>1. IsInjective(idle)' /\ Single(tasks)' /\ Single(results)'
    BY <1>1, <1>3, <1>5 DEF Apart, Single
  <2>2. \A a, b \in working' : a.router = b.router => a = b
    BY <1>1 DEF Apart
  <2>3. /\ Disjoint(Range(tasks), working)' /\ Disjoint(Range(tasks), Range(results))'
        /\ Disjoint(working, Range(results))'
    BY <1>1, <1>3 DEF Apart, Disjoint
  <2>4. \A other \in Jobs' : other.router \notin Range(idle')
    BY <1>5, <1>6, <1>7 DEF Apart
  <2> QED
    BY <2>1, <2>2, <2>3, <2>4 DEF Apart
<1>10. Counted'
  <2>1. Len(idle) \in Nat /\ Len(results) \in Nat
    BY <1>2, LenProperties
  <2>2. Cardinality(working) \in Nat /\ Len(tasks) \in Nat
    BY FS_CardinalityType, LenProperties DEF Shape
  <2> QED
    BY <1>1, <1>3, <1>5, <2>1, <2>2 DEF Counted, NumRouters
<1>11. Covered'
  BY <1>5, <1>6 DEF Covered
<1>12. Finished'
  BY DEF Finished
<1> QED
  BY <1>8, <1>9, <1>10, <1>11, <1>12

LEMMA MainConserves == ConservationInv /\ Main => ConservationInv'
<1> SUFFICES ASSUME ConservationInv, Main PROVE ConservationInv'
  OBVIOUS
<1>0. i \in Nat \ {0} /\ i + 1 \in Nat \ {0} /\ 1 \in Nat \ {0}
  BY DEF ConservationInv, Shape
<1>1. CASE LoopHead
  BY <1>0, <1>1, KeptInPlace DEF LoopHead
<1>2. CASE ScanEnds
  BY <1>0, <1>2, KeptInPlace DEF ScanEnds
<1>3. CASE SkipRouter
  BY <1>0, <1>3, KeptInPlace DEF SkipRouter
<1>4. CASE GiveUp
  BY <1>0, <1>4, KeptInPlace DEF GiveUp
<1>5. CASE Dispatch
  BY <1>5, DispatchConserves
<1>6. CASE Receive
  BY <1>6, TakeResultConserves DEF Receive
<1>7. CASE Drain
  <2>1. CASE results # << >>
    BY <1>7, <2>1, TakeResultConserves DEF Drain
  <2>2. CASE results = << >>
    BY <1>0, <1>7, <2>2, KeptInPlace DEF Drain
  <2> QED
    BY <2>1, <2>2
<1> QED
  BY <1>1, <1>2, <1>3, <1>4, <1>5, <1>6, <1>7 DEF Main

(* A worker takes the oldest job. *)
LEMMA StartConserves == ConservationInv /\ StartJob => ConservationInv'
<1> SUFFICES ASSUME ConservationInv, StartJob PROVE ConservationInv'
  OBVIOUS
<1> USE DEF ConservationInv
<1> DEFINE job == Head(tasks)
<1>1. /\ tasks # << >>
      /\ tasks' = Tail(tasks)
      /\ working' = working \cup {job}
      /\ UNCHANGED <<pc, i, idle, results>>
  BY DEF StartJob, main
<1> HIDE DEF job
<1>2. tasks \in Seq(Range(tasks)) /\ Single(tasks)
  BY DEF Shape, Apart
<1>3. /\ tasks' \in Seq(Range(tasks')) /\ Len(tasks') = Len(tasks) - 1
      /\ Range(tasks) = Range(tasks') \cup {job}
      /\ Single(tasks')
      /\ \A y \in Range(tasks') : y.router # job.router
  BY <1>1, <1>2, TailFacts, SingleTail DEF job
<1>4. \A other \in working \cup Range(results) : other.router # job.router
  BY <1>3 DEF Apart, Disjoint
<1>5. Jobs' = Jobs
  BY <1>1, <1>3 DEF Jobs
<1>6. IsFiniteSet(working') /\ Cardinality(working') = Cardinality(working) + 1
  BY <1>1, <1>4, FS_AddElement DEF Shape
<1>7. Shape'
  BY <1>1, <1>3, <1>5, <1>6 DEF Shape
<1>8. Apart'
  <2>1. IsInjective(idle)' /\ Single(tasks)' /\ Single(results)'
    BY <1>1, <1>3 DEF Apart, Single
  <2>2. \A a, b \in working' : a.router = b.router => a = b
    BY <1>1, <1>4 DEF Apart
  <2>3. /\ Disjoint(Range(tasks), working)' /\ Disjoint(Range(tasks), Range(results))'
        /\ Disjoint(working, Range(results))'
    BY <1>1, <1>3, <1>4 DEF Apart, Disjoint
  <2>4. \A other \in Jobs' : other.router \notin Range(idle')
    BY <1>1, <1>5 DEF Apart
  <2> QED
    BY <2>1, <2>2, <2>3, <2>4 DEF Apart
<1>9. Counted'
  <2>1. Len(idle) \in Nat /\ Len(results) \in Nat /\ Len(tasks) \in Nat
    BY LenProperties DEF Shape
  <2>2. Cardinality(working) \in Nat
    BY FS_CardinalityType DEF Shape
  <2> QED
    BY <1>1, <1>3, <1>6, <2>1, <2>2 DEF Counted, NumRouters
<1>10. Covered' /\ Finished'
  BY <1>1, <1>5 DEF Covered, Finished
<1> QED
  BY <1>7, <1>8, <1>9, <1>10

(* A worker goes on with its job: the router stays the same. *)
LEMMA ProgressConserves ==
  ASSUME ConservationInv, NEW job \in working, NEW new,
         IsJob(new), new.router = job.router,
         working' = (working \ {job}) \cup {new},
         UNCHANGED <<pc, i, idle, tasks, results>>
  PROVE  ConservationInv'
<1> USE DEF ConservationInv
<1>1. \A other \in working \ {job} : other.router # new.router
  BY DEF Apart
<1>2. Jobs' \subseteq Jobs \cup {new} /\ Jobs \subseteq Jobs' \cup {job} /\ new \in Jobs'
  BY DEF Jobs
<1>3. job \in Jobs
  BY DEF Jobs
<1>4. IsFiniteSet(working') /\ Cardinality(working') = Cardinality(working)
  <2> DEFINE rest == working \ {job}
  <2>1. IsFiniteSet(rest) /\ Cardinality(rest) = Cardinality(working) - 1
    BY FS_RemoveElement DEF Shape
  <2>2. new \notin rest
    BY <1>1
  <2>3. IsFiniteSet(working') /\ Cardinality(working') = Cardinality(rest) + 1
    BY <2>1, <2>2, FS_AddElement
  <2>4. Cardinality(working) \in Nat
    BY FS_CardinalityType DEF Shape
  <2> HIDE DEF rest
  <2> QED
    BY <2>1, <2>3, <2>4
<1>5. Shape'
  BY <1>2, <1>4 DEF Shape
<1>6. Apart'
  <2>1. IsInjective(idle)' /\ Single(tasks)' /\ Single(results)'
    BY DEF Apart, Single
  <2>2. \A a, b \in working' : a.router = b.router => a = b
    BY <1>1 DEF Apart
  <2>3. /\ Disjoint(Range(tasks), working)' /\ Disjoint(Range(tasks), Range(results))'
        /\ Disjoint(working, Range(results))'
    BY DEF Apart, Disjoint
  <2>4. \A other \in Jobs' : other.router \notin Range(idle')
    BY <1>2, <1>3 DEF Apart
  <2> QED
    BY <2>1, <2>2, <2>3, <2>4 DEF Apart
<1>7. Counted'
  BY <1>4 DEF Counted, NumRouters
<1>8. Covered'
  BY <1>2, <1>3 DEF Covered
<1>9. Finished'
  BY DEF Finished
<1> QED
  BY <1>5, <1>6, <1>7, <1>8, <1>9

(* A job is done: its result goes to the main thread. *)
LEMMA FinishConserves ==
  ASSUME ConservationInv, NEW job \in working, FinishJob(job)
  PROVE  ConservationInv'
<1> USE DEF ConservationInv
<1>1. /\ working' = working \ {job}
      /\ results' = Append(results, job)
      /\ UNCHANGED <<pc, i, idle, tasks>>
  BY DEF FinishJob, main
<1>2. results \in Seq(Range(results)) /\ Single(results)
  BY DEF Shape, Apart
<1>3. \A other \in Range(results) : other.router # job.router
  BY DEF Apart, Disjoint
<1>4. /\ results' \in Seq(Range(results')) /\ Len(results') = Len(results) + 1
      /\ Range(results') = Range(results) \cup {job}
      /\ Single(results')
  BY <1>1, <1>2, <1>3, AppendFacts, SingleAppend
<1>5. Jobs' = Jobs
  BY <1>1, <1>4 DEF Jobs
<1>6. IsFiniteSet(working') /\ Cardinality(working') = Cardinality(working) - 1
  BY <1>1, FS_RemoveElement DEF Shape
<1>7. Shape'
  BY <1>1, <1>4, <1>5, <1>6 DEF Shape
<1>8. Apart'
  <2>1. IsInjective(idle)' /\ Single(tasks)' /\ Single(results)'
    BY <1>1, <1>4 DEF Apart, Single
  <2>2. \A a, b \in working' : a.router = b.router => a = b
    BY <1>1 DEF Apart
  <2>3. /\ Disjoint(Range(tasks), working)' /\ Disjoint(Range(tasks), Range(results))'
        /\ Disjoint(working, Range(results))'
    BY <1>1, <1>4 DEF Apart, Disjoint
  <2>4. \A other \in Jobs' : other.router \notin Range(idle')
    BY <1>1, <1>5 DEF Apart
  <2> QED
    BY <2>1, <2>2, <2>3, <2>4 DEF Apart
<1>9. Counted'
  <2>1. Len(idle) \in Nat /\ Len(results) \in Nat /\ Len(tasks) \in Nat
    BY LenProperties DEF Shape
  <2>2. Cardinality(working) \in Nat
    BY FS_CardinalityType DEF Shape
  <2> QED
    BY <1>1, <1>4, <1>6, <2>1, <2>2 DEF Counted, NumRouters
<1>10. Covered' /\ Finished'
  BY <1>1, <1>5 DEF Covered, Finished
<1> QED
  BY <1>7, <1>8, <1>9, <1>10

(* A job stays a job of the same router, whatever becomes of its fields. *)
LEMMA JobExcept ==
  ASSUME NEW job, IsJob(job), NEW x
  PROVE  /\ [job EXCEPT !.batch = x] =
              [router |-> job.router, batch |-> x, out |-> job.out, ok |-> job.ok]
         /\ [job EXCEPT !.out = x] =
              [router |-> job.router, batch |-> job.batch, out |-> x, ok |-> job.ok]
         /\ [job EXCEPT !.ok = x] =
              [router |-> job.router, batch |-> job.batch, out |-> job.out, ok |-> x]
<1>1. job \in [router : {job.router}, batch : {job.batch}, out : {job.out}, ok : {job.ok}]
  BY DEF IsJob
<1> QED
  BY <1>1

LEMMA JobStays ==
  ASSUME NEW job, IsJob(job), NEW x
  PROVE  LET b == [job EXCEPT !.batch = x]
             o == [job EXCEPT !.out = x]
             k == [job EXCEPT !.ok = x]
         IN  /\ IsJob(b) /\ b.router = job.router
             /\ IsJob(o) /\ o.router = job.router
             /\ IsJob(k) /\ k.router = job.router
  BY JobExcept DEF IsJob

LEMMA JobStaysTwice ==
  ASSUME NEW job, IsJob(job), NEW x, NEW y
  PROVE  LET o == [job EXCEPT !.batch = x, !.out = y]
             k == [job EXCEPT !.batch = x, !.ok = y]
         IN  /\ IsJob(o) /\ o.router = job.router
             /\ IsJob(k) /\ k.router = job.router
<1> DEFINE mid == [job EXCEPT !.batch = x]
           o == [mid EXCEPT !.out = y]
           k == [mid EXCEPT !.ok = y]
<1>1. IsJob(mid) /\ mid.router = job.router
  BY JobStays
<1> HIDE DEF mid
<1>2. /\ IsJob(o) /\ o.router = job.router
      /\ IsJob(k) /\ k.router = job.router
  BY <1>1, JobStays
<1>3. /\ [job EXCEPT !.batch = x, !.out = y] = o
      /\ [job EXCEPT !.batch = x, !.ok = y] = k
  BY DEF mid
<1> HIDE DEF o, k
<1> QED
  BY <1>2, <1>3

LEMMA WorkersConserve == ConservationInv /\ Workers => ConservationInv'
<1> SUFFICES ASSUME ConservationInv, Workers PROVE ConservationInv'
  OBVIOUS
<1>1. CASE StartJob
  BY <1>1, StartConserves
<1>2. ASSUME NEW job \in working, Worker(job)
      PROVE  ConservationInv'
  <2>0. IsJob(job)
    BY DEF ConservationInv, Shape, Jobs
  <2>1. ASSUME NEW to \in SUBSET (Routers \ {job.router}), HandleEvent(job, to)
        PROVE  ConservationInv'
    <3>1. PICK out : working' = (working \ {job}) \cup
                       {[job EXCEPT !.batch = Tail(@), !.out = out]}
      BY <2>1 DEF HandleEvent
    <3> DEFINE new == [job EXCEPT !.batch = Tail(@), !.out = out]
    <3>2. IsJob(new) /\ new.router = job.router
      BY <2>0, JobStaysTwice
    <3>3. UNCHANGED <<pc, i, idle, tasks, results>>
      BY <2>1 DEF HandleEvent, main
    <3> QED
      BY <3>1, <3>2, <3>3, ProgressConserves
  <2>2. CASE FailEvent(job)
    <3> DEFINE new == [job EXCEPT !.batch = << >>, !.ok = FALSE]
    <3>1. IsJob(new) /\ new.router = job.router
      BY <2>0, JobStaysTwice
    <3>2. /\ working' = (working \ {job}) \cup {new}
          /\ UNCHANGED <<pc, i, idle, tasks, results>>
      BY <2>2 DEF FailEvent, main
    <3> QED
      BY <3>1, <3>2, ProgressConserves
  <2>3. CASE FinishJob(job)
    BY <2>3, FinishConserves
  <2> QED
    BY <1>2, <2>1, <2>2, <2>3 DEF Worker
<1> QED
  BY <1>1, <1>2 DEF Workers

LEMMA ConservationImplies == ConservationInv => RoutersConserved
<1> SUFFICES ASSUME ConservationInv PROVE RoutersConserved
  OBVIOUS
<1>1. pc = "done" => Len(idle) = NumRouters
  <2> SUFFICES ASSUME pc = "done" PROVE Len(idle) = NumRouters
    OBVIOUS
  <2>1. /\ Len(tasks) = 0 /\ Len(results) = 0 /\ Cardinality(working) = 0
    BY FS_EmptySet, EmptyChannel DEF ConservationInv, Finished
  <2>2. Len(idle) \in Nat
    BY LenProperties DEF ConservationInv, Shape
  <2> QED
    BY <2>1, <2>2 DEF ConservationInv, Counted
<1> QED
  BY <1>1 DEF RoutersConserved, ConservationInv, Counted, Covered

(* Whatever the threads do and in whatever order, every router is in the   *)
(* vector or in exactly one job, and when simulate_parallel returns, also  *)
(* with an error, all of them are back in the network.                     *)
THEOREM NoRouterLost == Spec => []RoutersConserved
<1>1. ConservationInv /\ [Next]_vars => ConservationInv'
  <2> SUFFICES ASSUME ConservationInv, [Next]_vars PROVE ConservationInv'
    OBVIOUS
  <2>1. CASE Main
    BY <2>1, MainConserves
  <2>2. CASE Workers
    BY <2>2, WorkersConserve
  <2>3. CASE UNCHANGED vars
    <3>1. /\ UNCHANGED <<idle, tasks, working, results>>
          /\ pc' = pc /\ i' = i
      BY <2>3 DEF vars
    <3> QED
      BY <3>1, KeptInPlace DEF ConservationInv, Shape, Finished
  <2> QED
    BY <2>1, <2>2, <2>3 DEF Next
<1> QED
  BY <1>1, ConservationInit, ConservationImplies, PTL DEF Spec

(***************************************************************************)
(* The events: none is lost, handled twice or overtaken while the          *)
(* simulation goes well, Ok is returned only if all were handled, and not  *)
(* more than stop_after are handled.                                       *)
(***************************************************************************)


EventsTo(r) == [src : Routers, dst : {r}, n : Nat]

(* The events of a job are for its router, those it generated for the      *)
(* router under which they are kept.                                       *)
JobTyped(job) ==
  /\ job.batch \in Seq(EventsTo(job.router))
  /\ job.out = [d \in Routers |-> job.out[d]]
  /\ \A d \in Routers : job.out[d] \in Seq(EventsTo(d))
  /\ job.ok \in BOOLEAN

Typed ==
  /\ queue = [r \in Routers |-> queue[r]]
  /\ \A r \in Routers : queue[r] \in Seq(EventsTo(r))
  /\ \A job \in Jobs : JobTyped(job)
  /\ \A job \in Range(results) : job.batch = << >>
  /\ sent \in [Routers \X Routers -> Nat]
  /\ handled \in [Routers \X Routers -> Nat]
  /\ result \in {"ok", "NoConvergence", "DeviceError"}

(* The events of a in evs are those numbered first to last, in order. *)
Numbered(evs, a, first, last) ==
  /\ {evs[k].n : k \in From(evs, a)} = first .. last
  /\ Increasing(evs, a)

(* The events from a to b: h of s are handled, the last ones are held back *)
(* by the job of a, those between are waiting for b.                       *)
LineOf(waiting, held, a, b, h, s) ==
  /\ h <= s - Len(held)
  /\ Numbered(waiting, a, h + 1, s - Len(held))
  /\ \A k \in 1 .. Len(held) :
       held[k] = [src |-> a, dst |-> b, n |-> s - Len(held) + k]

Line(a, b) == LineOf(JobOf(b).batch \o queue[b], JobOf(a).out[b], a, b,
                     handled[<<a, b>>], sent[<<a, b>>])

(* Nothing went wrong so far, and no worker will report an error. *)
AllWell == result = "ok" /\ \A job \in Jobs : job.ok

InOrder == AllWell => \A a, b \in Routers : Line(a, b)

(* Without an error the main thread leaves the loop when all is done. *)
NothingLeft == result = "ok" /\ pc \in {"drain", "done"} => QueueEmpty /\ Jobs = {}

(* Inductive together with ConservationInv. *)
DeliveryCore == Typed /\ InOrder /\ NothingLeft

(***************************************************************************)
(* What the steps do to the events of one pair of routers.                 *)
(***************************************************************************)
LEMMA EventFields ==
  ASSUME NEW b, NEW ev \in EventsTo(b)
  PROVE  ev.src \in Routers /\ ev.dst = b /\ ev.n \in Nat
  BY DEF EventsTo

LEMMA Positions ==
  ASSUME NEW b, NEW evs \in Seq(EventsTo(b)), NEW a
  PROVE  /\ Len(evs) \in Nat /\ DOMAIN evs = 1 .. Len(evs)
         /\ \A k \in 1 .. Len(evs) : evs[k].n \in Nat /\ evs[k].src \in Routers
         /\ \A k : k \in From(evs, a) <=> k \in 1 .. Len(evs) /\ evs[k].src = a
<1>1. Len(evs) \in Nat /\ DOMAIN evs = 1 .. Len(evs)
  BY LenProperties
<1>2. \A k \in 1 .. Len(evs) : evs[k] \in EventsTo(b)
  BY ElementOfSeq
<1>3. \A k \in 1 .. Len(evs) : evs[k].n \in Nat /\ evs[k].src \in Routers
  BY <1>2, EventFields
<1> QED
  BY <1>1, <1>3 DEF From

(* Numbered, without sets. *)
LEMMA NumberedFacts ==
  ASSUME NEW evs, NEW a, NEW first, NEW last
  PROVE  Numbered(evs, a, first, last) <=>
           /\ \A k \in From(evs, a) : evs[k].n \in first .. last
           /\ \A m \in first .. last : \E k \in From(evs, a) : evs[k].n = m
           /\ \A k, l \in From(evs, a) : k < l => evs[k].n < evs[l].n
  BY DEF Numbered, Increasing

(* The events that a's job held back are put into the queue. *)
LEMMA LinePut ==
  ASSUME NEW b, NEW w \in Seq(EventsTo(b)), NEW held \in Seq(EventsTo(b)),
         NEW a, NEW h \in Nat, NEW s \in Nat, LineOf(w, held, a, b, h, s)
  PROVE  LineOf(w \o held, << >>, a, b, h, s)
<1> DEFINE c == w \o held
           m == s - Len(held)
<1>1. /\ c \in Seq(EventsTo(b)) /\ Len(c) = Len(w) + Len(held)
      /\ \A k \in 1 .. Len(w) : c[k] = w[k]
      /\ \A k \in 1 .. Len(held) : c[Len(w) + k] = held[k]
      /\ Len(w) \in Nat /\ Len(held) \in Nat
  <2>1. Len(w) \in Nat /\ Len(held) \in Nat
    BY LenProperties
  <2> QED
    BY <2>1, ConcatProperties
<1>2. \A k : k \in From(w, a) <=> k \in 1 .. Len(w) /\ w[k].src = a
  BY Positions
<1>3. \A k : k \in From(c, a) <=> k \in 1 .. Len(c) /\ c[k].src = a
  <2> HIDE DEF c
  <2>1. c \in Seq(EventsTo(b))
    BY <1>1
  <2> QED
    BY <2>1, Positions
<1>4. \A k \in 1 .. Len(w) : w[k].n \in Nat
  BY Positions
<1>5. /\ h <= m
      /\ \A k \in 1 .. Len(held) : held[k].src = a /\ held[k].n = m + k
  <2>1. h <= m /\ \A k \in 1 .. Len(held) : held[k] = [src |-> a, dst |-> b, n |-> m + k]
    BY DEF LineOf
  <2> HIDE DEF m
  <2>2. ASSUME NEW ev, NEW n, ev = [src |-> a, dst |-> b, n |-> n]
        PROVE  ev.src = a /\ ev.n = n
    BY <2>2
  <2> QED
    BY ONLY <2>1, <2>2
<1>6. /\ \A k \in From(w, a) : w[k].n \in h + 1 .. m
      /\ \A j \in h + 1 .. m : \E k \in From(w, a) : w[k].n = j
      /\ \A k, l \in From(w, a) : k < l => w[k].n < w[l].n
  BY NumberedFacts DEF LineOf
<1> DEFINE x == Len(w)
           y == Len(held)
<1>7. x \in Nat /\ y \in Nat /\ m \in Int /\ s = m + y /\ Len(c) = x + y
  BY <1>1
<1> HIDE DEF c, m, x, y
(* Every event from a in c is in w, or it was held back. *)
<1>8. \A k : k \in From(c, a) <=>
         \/ k \in From(w, a)
         \/ \E j \in 1 .. y : k = x + j
  <2> TAKE k
  <2>1. ASSUME k \in From(c, a), k \in 1 .. x
        PROVE  k \in From(w, a)
    BY <1>1, <1>2, <1>3, <2>1 DEF x
  <2>2. ASSUME k \in From(c, a), k \notin 1 .. x
        PROVE  \E j \in 1 .. y : k = x + j
    <3>1. k - x \in 1 .. y /\ k = x + (k - x)
      BY <1>3, <1>7, <2>2
    <3> QED
      BY <3>1
  <2>3. ASSUME k \in From(w, a)
        PROVE  k \in From(c, a)
    BY <1>1, <1>2, <1>3, <1>7, <2>3 DEF x
  <2>4. ASSUME NEW j \in 1 .. y, k = x + j
        PROVE  k \in From(c, a)
    <3>1. c[k] = held[j] /\ held[j].src = a
      BY <1>1, <1>5, <2>4 DEF x, y
    <3>2. k \in 1 .. Len(c)
      BY <1>7, <2>4
    <3> QED
      BY <1>3, <3>1, <3>2
  <2> QED
    BY <2>1, <2>2, <2>3, <2>4
<1>9. /\ \A k \in From(w, a) : c[k].n = w[k].n /\ w[k].n \in Nat /\ k \in 1 .. x
      /\ \A j \in 1 .. y : c[x + j].n = m + j
  BY <1>1, <1>2, <1>4, <1>5 DEF x, y
<1>10. \A k \in From(c, a) : c[k].n \in h + 1 .. s
  <2> TAKE k \in From(c, a)
  <2>1. CASE k \in From(w, a)
    BY <1>6, <1>7, <1>9, <2>1
  <2>2. ASSUME NEW j \in 1 .. y, k = x + j
        PROVE  c[k].n \in h + 1 .. s
    <3>1. c[k].n = m + j
      BY ONLY <1>9, <2>2
    <3>2. h \in Int /\ m \in Int /\ y \in Nat /\ h <= m /\ s = m + y
      BY <1>5, <1>7
    <3>3. m + j \in h + 1 .. m + y
      BY ONLY <3>2, j \in 1 .. y
    <3> QED
      BY ONLY <3>1, <3>2, <3>3
  <2> QED
    BY <1>8, <2>1, <2>2
<1>11. \A n \in h + 1 .. s : \E k \in From(c, a) : c[k].n = n
  <2> TAKE n \in h + 1 .. s
  <2>1. CASE n <= m
    <3>1. PICK k \in From(w, a) : w[k].n = n
      BY <1>6, <1>7, <2>1
    <3> QED
      BY <1>8, <1>9, <3>1
  <2>2. CASE ~(n <= m)
    <3>1. n - m \in 1 .. y /\ m + (n - m) = n
      BY <1>7, <2>2
    <3>2. c[x + (n - m)].n = n /\ x + (n - m) \in From(c, a)
      BY <1>8, <1>9, <3>1
    <3> QED
      BY <3>2
  <2> QED
    BY <2>1, <2>2
<1>12. \A k, l \in From(c, a) : k < l => c[k].n < c[l].n
  <2> SUFFICES ASSUME NEW k \in From(c, a), NEW l \in From(c, a), k < l
               PROVE  c[k].n < c[l].n
    OBVIOUS
  <2>1. CASE k \in From(w, a) /\ l \in From(w, a)
    BY <1>6, <1>9, <2>1
  <2>2. ASSUME NEW j \in 1 .. y, l = x + j, k \in From(w, a)
        PROVE  c[k].n < c[l].n
    <3>1. c[k].n \in h + 1 .. m /\ c[l].n = m + j
      BY <1>6, <1>9, <2>2
    <3> QED
      BY <1>7, <3>1
  <2>3. ASSUME NEW j \in 1 .. y, k = x + j, l \in From(w, a)
        PROVE  FALSE
    BY <1>7, <1>9, <2>3
  <2>4. ASSUME NEW i1 \in 1 .. y, NEW j \in 1 .. y, k = x + i1, l = x + j
        PROVE  c[k].n < c[l].n
    <3>1. c[k].n = m + i1 /\ c[l].n = m + j
      BY ONLY <1>9, <2>4
    <3>2. i1 < j
      BY ONLY <1>7, <2>4, k < l, i1 \in 1 .. y, j \in 1 .. y
    <3> QED
      BY ONLY <1>7, <3>1, <3>2, i1 \in 1 .. y, j \in 1 .. y
  <2> QED
    BY <1>8, <2>1, <2>2, <2>3, <2>4
<1>13. Numbered(c, a, h + 1, s)
  BY <1>10, <1>11, <1>12, NumberedFacts
<1>14. h <= s
  BY <1>5, <1>7
<1>15. Len(<< >>) = 0 /\ s - 0 = s
  OBVIOUS
<1> QED
  BY <1>13, <1>14, <1>15 DEF LineOf, c

(* Events from another router are put into the queue. *)
LEMMA LinePass ==
  ASSUME NEW b, NEW w \in Seq(EventsTo(b)), NEW run \in Seq(EventsTo(b)), NEW held,
         NEW a, NEW h, NEW s, LineOf(w, held, a, b, h, s),
         \A k \in 1 .. Len(run) : run[k].src # a
  PROVE  LineOf(w \o run, held, a, b, h, s)
<1> DEFINE c == w \o run
           x == Len(w)
           y == Len(run)
<1>1. /\ c \in Seq(EventsTo(b)) /\ Len(c) = x + y
      /\ \A k \in 1 .. x : c[k] = w[k]
      /\ \A k \in 1 .. y : c[x + k] = run[k]
      /\ x \in Nat /\ y \in Nat
  <2>1. Len(w) \in Nat /\ Len(run) \in Nat
    BY LenProperties
  <2> QED
    BY <2>1, ConcatProperties
<1>2. \A k : k \in From(w, a) <=> k \in 1 .. x /\ w[k].src = a
  BY Positions
<1> HIDE DEF c, x
<1>0. c \in Seq(EventsTo(b))
  BY <1>1
<1>3. \A k : k \in From(c, a) <=> k \in 1 .. Len(c) /\ c[k].src = a
  BY <1>0, Positions
<1>4. \A k : k \in From(c, a) <=> k \in From(w, a)
  <2> TAKE k
  <2>1. ASSUME k \in From(c, a), k \notin 1 .. x
        PROVE  FALSE
    <3>1. k - x \in 1 .. y /\ k = x + (k - x)
      BY <1>1, <1>3, <2>1
    <3>2. c[k] = run[k - x]
      BY <1>1, <3>1
    <3> QED
      BY <1>3, <2>1, <3>1, <3>2
  <2> QED
    BY <1>1, <1>2, <1>3, <2>1
<1>5. \A k \in From(w, a) : c[k].n = w[k].n
  BY <1>1, <1>2
<1>6. Numbered(w, a, h + 1, s - Len(held))
  BY DEF LineOf
<1>7. Numbered(c, a, h + 1, s - Len(held))
  BY <1>4, <1>5, <1>6, NumberedFacts
<1> QED
  BY <1>7 DEF LineOf, c

(* The job of b comes to its next event, one from a. *)
LEMMA LineTake ==
  ASSUME NEW b, NEW w \in Seq(EventsTo(b)), w # << >>, NEW held,
         NEW h \in Nat, NEW s \in Nat, Len(held) \in Nat,
         LineOf(w, held, Head(w).src, b, h, s)
  PROVE  LineOf(Tail(w), held, Head(w).src, b, h + 1, s)
<1> DEFINE t == Tail(w)
           x == Len(w)
           a == Head(w).src
           m == s - Len(held)
<1>1. /\ t \in Seq(EventsTo(b)) /\ Len(t) = x - 1 /\ x \in Nat /\ x > 0
      /\ \A k \in 1 .. x - 1 : t[k] = w[k + 1]
      /\ Head(w) = w[1]
  <2>1. Len(w) \in Nat \ {0} /\ Head(w) = w[1]
    BY EmptySeq
  <2> QED
    BY <2>1, HeadTailProperties
<1>2. \A k : k \in From(w, a) <=> k \in 1 .. x /\ w[k].src = a
  BY Positions
<1>3. \A k : k \in From(t, a) <=> k \in 1 .. Len(t) /\ t[k].src = a
  <2> HIDE DEF t, a
  <2>1. t \in Seq(EventsTo(b))
    BY <1>1
  <2> QED
    BY <2>1, Positions
<1>4. \A k \in 1 .. x : w[k].n \in Nat
  BY Positions
<1>5. /\ h <= m /\ m \in Int
      /\ \A k \in From(w, a) : w[k].n \in h + 1 .. m
      /\ \A j \in h + 1 .. m : \E k \in From(w, a) : w[k].n = j
      /\ \A k, l \in From(w, a) : k < l => w[k].n < w[l].n
  BY NumberedFacts DEF LineOf
<1>6. w[1].src = a /\ 1 \in From(w, a)
  BY <1>1, <1>2
<1> HIDE DEF t, x, a, m
<1>7. w[1].n = h + 1 /\ h + 1 <= m
  <2>1. w[1].n \in h + 1 .. m
    BY <1>5, <1>6
  <2>2. PICK k \in From(w, a) : w[k].n = h + 1
    BY <1>5, <2>1
  <2>3. k = 1 \/ 1 < k
    BY <1>2
  <2>4. CASE 1 < k
    BY <1>5, <1>6, <2>1, <2>2, <2>4
  <2> QED
    BY <2>1, <2>2, <2>3, <2>4
<1>8. \A k \in From(t, a) : k + 1 \in From(w, a) /\ t[k].n = w[k + 1].n
  <2> TAKE k \in From(t, a)
  <2>1. k \in 1 .. x - 1 /\ k + 1 \in 1 .. x /\ t[k].src = a
    BY <1>1, <1>3
  <2>2. t[k] = w[k + 1]
    BY <1>1, <2>1
  <2> QED
    BY <1>2, <2>1, <2>2
<1>9. \A k \in From(w, a) : k # 1 => k - 1 \in From(t, a) /\ t[k - 1].n = w[k].n
  <2> SUFFICES ASSUME NEW k \in From(w, a), k # 1
               PROVE  k - 1 \in From(t, a) /\ t[k - 1].n = w[k].n
    OBVIOUS
  <2>1. k - 1 \in 1 .. x - 1 /\ (k - 1) + 1 = k
    <3>1. k \in 1 .. x
      BY ONLY <1>2, k \in From(w, a)
    <3> QED
      BY ONLY <1>1, <3>1, k # 1
  <2>2. t[k - 1] = w[k]
    BY <1>1, <2>1
  <2> QED
    BY <1>1, <1>2, <1>3, <2>1, <2>2
<1>10. \A k \in From(t, a) : t[k].n \in (h + 1) + 1 .. m
  <2> TAKE k \in From(t, a)
  <2>1. k + 1 \in From(w, a) /\ t[k].n = w[k + 1].n /\ 1 < k + 1
    BY <1>3, <1>8
  <2>2. w[1].n < w[k + 1].n /\ w[k + 1].n \in h + 1 .. m
    BY <1>5, <1>6, <2>1
  <2> QED
    BY <1>5, <1>7, <2>1, <2>2
<1>11. \A j \in (h + 1) + 1 .. m : \E k \in From(t, a) : t[k].n = j
  <2> TAKE j \in (h + 1) + 1 .. m
  <2>1. PICK k \in From(w, a) : w[k].n = j
    BY <1>5
  <2>2. k # 1
    BY <1>5, <1>7, <2>1
  <2> QED
    BY <1>9, <2>1, <2>2
<1>12. \A k, l \in From(t, a) : k < l => t[k].n < t[l].n
  <2> SUFFICES ASSUME NEW k \in From(t, a), NEW l \in From(t, a), k < l
               PROVE  t[k].n < t[l].n
    OBVIOUS
  <2>1. k + 1 < l + 1
    BY <1>3
  <2> QED
    BY <1>5, <1>8, <2>1
<1>13. Numbered(t, a, (h + 1) + 1, m)
  BY <1>10, <1>11, <1>12, NumberedFacts
<1> QED
  BY <1>5, <1>7, <1>13 DEF LineOf, t, m, a

(* The job of b comes to its next event, one that is not from a. *)
LEMMA LineSkip ==
  ASSUME NEW b, NEW w \in Seq(EventsTo(b)), w # << >>, NEW held,
         NEW a, NEW h, NEW s, LineOf(w, held, a, b, h, s), Head(w).src # a
  PROVE  LineOf(Tail(w), held, a, b, h, s)
<1> DEFINE t == Tail(w)
           x == Len(w)
<1>1. /\ t \in Seq(EventsTo(b)) /\ Len(t) = x - 1 /\ x \in Nat /\ x > 0
      /\ \A k \in 1 .. x - 1 : t[k] = w[k + 1]
      /\ Head(w) = w[1]
  <2>1. Len(w) \in Nat \ {0} /\ Head(w) = w[1]
    BY EmptySeq
  <2> QED
    BY <2>1, HeadTailProperties
<1>2. \A k : k \in From(w, a) <=> k \in 1 .. x /\ w[k].src = a
  BY Positions
<1>3. \A k : k \in From(t, a) <=> k \in 1 .. Len(t) /\ t[k].src = a
  <2> HIDE DEF t
  <2>1. t \in Seq(EventsTo(b))
    BY <1>1
  <2> QED
    BY <2>1, Positions
<1>4. 1 \notin From(w, a)
  BY <1>1, <1>2
<1> HIDE DEF t, x
<1>5. \A k \in From(t, a) : k + 1 \in From(w, a) /\ t[k].n = w[k + 1].n
  <2> TAKE k \in From(t, a)
  <2>1. k \in 1 .. x - 1 /\ k + 1 \in 1 .. x /\ t[k].src = a
    BY <1>1, <1>3
  <2>2. t[k] = w[k + 1]
    BY <1>1, <2>1
  <2> QED
    BY <1>2, <2>1, <2>2
<1>6. \A k \in From(w, a) : k - 1 \in From(t, a) /\ t[k - 1].n = w[k].n
  <2> TAKE k \in From(w, a)
  <2>1. k - 1 \in 1 .. x - 1 /\ (k - 1) + 1 = k
    BY <1>1, <1>2, <1>4
  <2>2. t[k - 1] = w[k]
    BY <1>1, <2>1
  <2> QED
    BY <1>1, <1>2, <1>3, <2>1, <2>2
<1>7. /\ \A k \in From(w, a) : w[k].n \in h + 1 .. s - Len(held)
      /\ \A j \in h + 1 .. s - Len(held) : \E k \in From(w, a) : w[k].n = j
      /\ \A k, l \in From(w, a) : k < l => w[k].n < w[l].n
  BY NumberedFacts DEF LineOf
<1>8. \A k, l \in From(t, a) : k < l => t[k].n < t[l].n
  <2> SUFFICES ASSUME NEW k \in From(t, a), NEW l \in From(t, a), k < l
               PROVE  t[k].n < t[l].n
    OBVIOUS
  <2>1. k + 1 < l + 1
    BY <1>3
  <2> QED
    BY <1>5, <1>7, <2>1
<1>9. Numbered(t, a, h + 1, s - Len(held))
  BY <1>5, <1>6, <1>7, <1>8, NumberedFacts
<1> QED
  BY <1>9 DEF LineOf, t

(* The job of a generates an event for b and holds it back. *)
LEMMA LineSend ==
  ASSUME NEW b, NEW w, NEW held \in Seq(EventsTo(b)), NEW a \in Routers,
         NEW h, NEW s \in Nat, LineOf(w, held, a, b, h, s)
  PROVE  LineOf(w, Append(held, [src |-> a, dst |-> b, n |-> s + 1]), a, b, h, s + 1)
<1> DEFINE ev == [src |-> a, dst |-> b, n |-> s + 1]
           new == Append(held, ev)
           y == Len(held)
<1>1. ev \in EventsTo(b)
  BY DEF EventsTo
<1>2. /\ y \in Nat /\ Len(new) = y + 1 /\ new[y + 1] = ev
      /\ \A k \in 1 .. y : new[k] = held[k]
  BY <1>1, AppendProperties, LenProperties
<1> HIDE DEF new
<1>3. (s + 1) - Len(new) = s - y
  BY <1>2
<1>4. \A k \in 1 .. Len(new) : new[k] = [src |-> a, dst |-> b, n |-> (s - y) + k]
  <2> TAKE k \in 1 .. Len(new)
  <2>1. CASE k = y + 1
    <3>1. (s - y) + (y + 1) = s + 1
      BY <1>2
    <3> QED
      BY <1>2, <2>1, <3>1
  <2>2. CASE k # y + 1
    <3>1. k \in 1 .. y
      BY <1>2, <2>2
    <3> QED
      BY <1>2, <3>1 DEF LineOf
  <2> QED
    BY <2>1, <2>2
<1> QED
  BY <1>3, <1>4 DEF LineOf, new

(***************************************************************************)
(* The job of a router.                                                    *)
(***************************************************************************)

(* JobOf, for any set of jobs. *)
JobIn(J, r) ==
  IF \E job \in J : job.router = r
  THEN CHOOSE job \in J : job.router = r
  ELSE NewJob(r, << >>)

OneEach(J) == \A a, b \in J : a.router = b.router => a = b

LEMMA NewJobFields ==
  \A r, events : /\ NewJob(r, events).router = r
                 /\ NewJob(r, events).batch = events
                 /\ NewJob(r, events).out = [d \in Routers |-> << >>]
                 /\ NewJob(r, events).ok = TRUE
  BY DEF NewJob

LEMMA JobInMember ==
  ASSUME NEW J, OneEach(J), NEW job \in J
  PROVE  JobIn(J, job.router) = job
<1> DEFINE chosen == CHOOSE other \in J : other.router = job.router
<1>1. chosen \in J /\ chosen.router = job.router
  OBVIOUS
<1>2. chosen = job
  BY <1>1 DEF OneEach
<1> QED
  BY <1>2 DEF JobIn

LEMMA JobInNone ==
  ASSUME NEW J, NEW r, \A job \in J : job.router # r
  PROVE  JobIn(J, r) = NewJob(r, << >>)
  BY DEF JobIn

(* Jobs of other routers do not matter. *)
LEMMA JobInSame ==
  ASSUME NEW J, NEW K, OneEach(J), OneEach(K), NEW r,
         \A job : job.router = r => (job \in J <=> job \in K)
  PROVE  JobIn(J, r) = JobIn(K, r)
<1>1. CASE \E job \in J : job.router = r
  <2>1. PICK job \in J : job.router = r
    BY <1>1
  <2>2. job \in K
    BY <2>1
  <2> QED
    BY <2>1, <2>2, JobInMember
<1>2. CASE \A job \in J : job.router # r
  <2>1. \A job \in K : job.router # r
    BY <1>2
  <2> QED
    BY <1>2, <2>1, JobInNone
<1> QED
  BY <1>1, <1>2

(* The jobs K are J and one more, and what that means for those found.     *)
Grows(J, K, job) ==
  /\ OneEach(J) /\ K = J \cup {job}
  /\ \A other \in J : other.router # job.router

Grown(J, K, job) ==
  /\ OneEach(K)
  /\ JobIn(J, job.router) = NewJob(job.router, << >>)
  /\ JobIn(K, job.router) = job
  /\ \A r : r # job.router => JobIn(K, r) = JobIn(J, r)

LEMMA JobInAdd ==
  ASSUME NEW J, NEW K, NEW job, Grows(J, K, job)
  PROVE  Grown(J, K, job)
<1> USE DEF Grows, Grown
<1>1. OneEach(K)
  BY DEF OneEach
<1>2. JobIn(J, job.router) = NewJob(job.router, << >>)
  BY JobInNone
<1>3. JobIn(K, job.router) = job
  BY <1>1, JobInMember
<1>4. ASSUME NEW r, r # job.router
      PROVE  JobIn(K, r) = JobIn(J, r)
  <2>1. \A other : other.router = r => (other \in K <=> other \in J)
    BY <1>4
  <2> QED
    BY <1>1, <2>1, JobInSame
<1> QED
  BY <1>1, <1>2, <1>3, <1>4

(* No two jobs are for the same router. *)
LEMMA JobsUnique == ConservationInv => OneEach(Jobs)
<1> SUFFICES ASSUME ConservationInv, NEW a \in Jobs, NEW b \in Jobs, a.router = b.router
             PROVE  a = b
  BY DEF OneEach
<1>1. Apart
  BY DEF ConservationInv
<1>2. ASSUME NEW c, Single(c), a \in Range(c), b \in Range(c)
      PROVE  a = b
  BY <1>2 DEF Single, Range
<1>3. CASE a \in Range(tasks) /\ b \in Range(tasks)
  BY <1>1, <1>2, <1>3 DEF Apart
<1>4. CASE a \in Range(results) /\ b \in Range(results)
  BY <1>1, <1>2, <1>4 DEF Apart
<1>5. CASE a \in working /\ b \in working
  BY <1>1, <1>5 DEF Apart
<1> QED
  BY <1>1, <1>3, <1>4, <1>5 DEF Apart, Jobs, Disjoint

(* The lines of events, in terms of the set of jobs. *)
LEMMA LineIs ==
  ASSUME NEW a, NEW b
  PROVE  /\ Line(a, b) <=>
              LineOf(JobIn(Jobs, b).batch \o queue[b], JobIn(Jobs, a).out[b], a, b,
                     handled[<<a, b>>], sent[<<a, b>>])
         /\ Line(a, b)' <=>
              LineOf(JobIn(Jobs', b).batch \o queue'[b], JobIn(Jobs', a).out[b], a, b,
                     handled'[<<a, b>>], sent'[<<a, b>>])
  BY DEF Line, JobOf, JobIn, LineOf, Numbered, From, Increasing

(* How the jobs change. *)
LEMMA DispatchJobs ==
  ASSUME ConservationInv, Dispatch
  PROVE  LET r   == idle[i]
             job == NewJob(r, queue[r])
         IN  /\ r \in Routers
             /\ Jobs' = Jobs \cup {job}
             /\ \A other \in Jobs : other.router # r
<1> DEFINE r == idle[i]
           job == NewJob(r, queue[r])
<1>1. i <= Len(idle) /\ tasks' = Append(tasks, job) /\ UNCHANGED <<working, results>>
  BY DEF Dispatch, ScanGoesOn
<1>2. /\ idle \in Seq(Routers) /\ i \in Nat \ {0} /\ tasks \in Seq(Range(tasks))
      /\ \A other \in Jobs : other.router \notin Range(idle)
  BY DEF ConservationInv, Shape, Apart
<1>3. i \in 1 .. Len(idle) /\ DOMAIN idle = 1 .. Len(idle)
  BY <1>1, <1>2
<1>4. r \in Routers /\ r \in Range(idle)
  BY <1>2, <1>3, InRange
<1> HIDE DEF job
<1>5. Range(tasks') = Range(tasks) \cup {job}
  BY <1>1, <1>2, AppendFacts
<1>6. Jobs' = Jobs \cup {job}
  BY <1>1, <1>5 DEF Jobs
<1> QED
  BY <1>2, <1>4, <1>6 DEF job

LEMMA TakeResultJobs ==
  ASSUME ConservationInv, results # << >>, TakeResult
  PROVE  /\ Head(results) \in Range(results)
         /\ Head(results) \in Jobs
         /\ Jobs' = Jobs \ {Head(results)}
         /\ Range(results') \subseteq Range(results)
<1> DEFINE job == Head(results)
<1>1. results' = Tail(results) /\ UNCHANGED <<tasks, working>>
  BY DEF TakeResult
<1>2. results \in Seq(Range(results)) /\ Single(results)
  BY DEF ConservationInv, Shape, Apart
<1>3. /\ Range(results) = Range(results') \cup {job}
      /\ \A y \in Range(results') : y.router # job.router
  BY <1>1, <1>2, TailFacts, SingleTail
<1>4. \A other \in Range(tasks) \cup working : other.router # job.router
  BY <1>3 DEF ConservationInv, Apart, Disjoint
<1> QED
  BY <1>1, <1>3, <1>4 DEF Jobs

LEMMA StartJobs ==
  ASSUME ConservationInv, StartJob
  PROVE  Jobs' = Jobs /\ Jobs # {}
<1>1. /\ tasks # << >> /\ tasks' = Tail(tasks) /\ working' = working \cup {Head(tasks)}
      /\ results' = results
  BY DEF StartJob
<1>2. tasks \in Seq(Range(tasks))
  BY DEF ConservationInv, Shape
<1>3. Range(tasks) = Range(tasks') \cup {Head(tasks)}
  BY <1>1, <1>2, TailFacts
<1> QED
  BY <1>1, <1>3 DEF Jobs

LEMMA ProgressJobs ==
  ASSUME ConservationInv, NEW job \in working, NEW new,
         working' = (working \ {job}) \cup {new}, UNCHANGED <<tasks, results>>
  PROVE  Jobs' = (Jobs \ {job}) \cup {new}
<1>1. \A other \in Range(tasks) \cup Range(results) : other.router # job.router
  BY DEF ConservationInv, Apart, Disjoint
<1> QED
  BY <1>1 DEF Jobs

LEMMA FinishJobs ==
  ASSUME ConservationInv, NEW job \in working, FinishJob(job)
  PROVE  Jobs' = Jobs /\ Range(results') = Range(results) \cup {job}
<1>1. /\ working' = working \ {job} /\ results' = Append(results, job)
      /\ tasks' = tasks
  BY DEF FinishJob
<1>2. results \in Seq(Range(results))
  BY DEF ConservationInv, Shape
<1>3. Range(results') = Range(results) \cup {job}
  BY <1>1, <1>2, AppendFacts
<1> QED
  BY <1>1, <1>3 DEF Jobs

(***************************************************************************)
(* Every step keeps DeliveryCore.                                          *)
(***************************************************************************)
LEMMA EmptyTyped ==
  ASSUME NEW r
  PROVE  /\ << >> \in Seq(EventsTo(r))
         /\ \A s \in Seq(EventsTo(r)) : << >> \o s = s /\ s \o << >> = s
  BY EmptySeq, ConcatEmptySeq

LEMMA NewJobTyped ==
  ASSUME NEW r, NEW events \in Seq(EventsTo(r))
  PROVE  JobTyped(NewJob(r, events))
<1>1. /\ NewJob(r, events).router = r /\ NewJob(r, events).batch = events
      /\ NewJob(r, events).out = [d \in Routers |-> << >>]
      /\ NewJob(r, events).ok = TRUE
  BY NewJobFields
<1>2. \A d \in Routers : NewJob(r, events).out[d] \in Seq(EventsTo(d))
  BY <1>1, EmptyTyped
<1> QED
  BY <1>1, <1>2 DEF JobTyped

(* Jobs of routers that have none are typed as well. *)
LEMMA JobInTyped ==
  ASSUME Typed, OneEach(Jobs), NEW r
  PROVE  JobTyped(JobIn(Jobs, r)) /\ JobIn(Jobs, r).router = r
<1>1. CASE \E job \in Jobs : job.router = r
  BY <1>1, JobInMember DEF Typed
<1>2. CASE \A job \in Jobs : job.router # r
  <2>1. JobIn(Jobs, r) = NewJob(r, << >>)
    BY <1>2, JobInNone
  <2>2. JobTyped(NewJob(r, << >>)) /\ NewJob(r, << >>).router = r
    BY EmptyTyped, NewJobTyped, NewJobFields
  <2> QED
    BY <2>1, <2>2
<1> QED
  BY <1>1, <1>2

(* Steps that move neither events nor jobs. *)
LEMMA NothingMoves ==
  ASSUME DeliveryCore, Jobs' = Jobs, UNCHANGED <<queue, sent, handled, result>>,
         \A job \in Range(results') : job \in Range(results) \/ job.batch = << >>,
         pc' \in {"drain", "done"} => pc \in {"drain", "done"} \/ (QueueEmpty /\ Jobs = {})
  PROVE  DeliveryCore'
<1>1. Typed'
  BY DEF DeliveryCore, Typed
<1>2. InOrder'
  <2>1. \A a, b \in Routers : Line(a, b) => Line(a, b)'
    BY LineIs
  <2> QED
    BY <2>1 DEF DeliveryCore, InOrder, AllWell
<1>3. NothingLeft'
  BY DEF DeliveryCore, NothingLeft, QueueEmpty
<1> QED
  BY <1>1, <1>2, <1>3 DEF DeliveryCore

LEMMA LoopHeadDelivers == ConservationInv /\ DeliveryCore /\ LoopHead => DeliveryCore'
<1> SUFFICES ASSUME ConservationInv, DeliveryCore, LoopHead PROVE DeliveryCore'
  OBVIOUS
<1>1. /\ UNCHANGED <<queue, sent, handled, result, tasks, working, results>>
      /\ pc' = "scan" \/ (pc' = "drain" /\ QueueEmpty /\ Len(idle) = NumRouters)
  BY DEF LoopHead
<1>2. Jobs' = Jobs
  BY <1>1 DEF Jobs
<1>3. ASSUME Len(idle) = NumRouters
      PROVE  Jobs = {}
  <2>1. /\ idle \in Seq(Routers) /\ tasks \in Seq(Range(tasks)) /\ results \in Seq(Range(results))
        /\ IsFiniteSet(working)
    BY DEF ConservationInv, Shape
  <2>2. Len(idle) + Len(tasks) + Cardinality(working) + Len(results) = Len(idle)
    BY <1>3 DEF ConservationInv, Counted
  <2>3. /\ Len(idle) \in Nat /\ Len(tasks) \in Nat /\ Len(results) \in Nat
        /\ Cardinality(working) \in Nat
    BY <2>1, FS_CardinalityType, LenProperties
  <2>4. Len(tasks) = 0 /\ Len(results) = 0 /\ Cardinality(working) = 0
    BY <2>2, <2>3
  <2>5. working = {}
    BY <2>1, <2>4, FS_EmptySet
  <2>6. Range(tasks) = {} /\ Range(results) = {}
    BY <2>1, <2>4, EmptySeq, EmptyChannel
  <2> QED
    BY <2>5, <2>6 DEF Jobs
<1> QED
  BY <1>1, <1>2, <1>3, NothingMoves

LEMMA GiveUpDelivers == DeliveryCore /\ GiveUp => DeliveryCore'
<1> SUFFICES ASSUME DeliveryCore, GiveUp PROVE DeliveryCore'
  OBVIOUS
<1>1. /\ queue' = [queue EXCEPT ![idle[i]] = << >>]
      /\ result' = "NoConvergence"
      /\ UNCHANGED <<sent, handled, tasks, working, results>>
  BY DEF GiveUp
<1>2. Jobs' = Jobs
  BY <1>1 DEF Jobs
<1>3. \A r \in Routers : queue'[r] \in Seq(EventsTo(r))
  BY <1>1, EmptyTyped DEF DeliveryCore, Typed
<1>4. Typed'
  BY <1>1, <1>2, <1>3 DEF DeliveryCore, Typed
<1> QED
  BY <1>1, <1>4 DEF DeliveryCore, InOrder, NothingLeft, AllWell

(* A batch is taken from the queue for a new job. *)
LEMMA DispatchDelivers == ConservationInv /\ DeliveryCore /\ Dispatch => DeliveryCore'
<1> SUFFICES ASSUME ConservationInv, DeliveryCore, Dispatch PROVE DeliveryCore'
  OBVIOUS
<1> DEFINE r == idle[i]
           job == NewJob(r, queue[r])
<1>1. /\ pc = "scan"
      /\ queue' = [queue EXCEPT ![r] = << >>]
      /\ UNCHANGED <<pc, result, results, sent, handled>>
  BY DEF Dispatch
<1>2. /\ r \in Routers
      /\ Jobs' = Jobs \cup {job}
      /\ \A other \in Jobs : other.router # r
  BY DispatchJobs
<1>3. OneEach(Jobs)
  BY JobsUnique
<1>4. /\ job.router = r /\ job.batch = queue[r] /\ job.out = [d \in Routers |-> << >>]
      /\ job.ok = TRUE
      /\ NewJob(r, << >>).batch = << >> /\ NewJob(r, << >>).out = [d \in Routers |-> << >>]
  BY NewJobFields
<1>5. queue[r] \in Seq(EventsTo(r)) /\ DOMAIN queue = Routers
  BY <1>2 DEF DeliveryCore, Typed
<1>6. JobTyped(job)
  BY <1>5, NewJobTyped
<1> HIDE DEF r, job
<1>7. queue'[r] = << >> /\ \A d \in Routers : d # r => queue'[d] = queue[d]
  BY <1>1, <1>2, <1>5
<1>8. /\ JobIn(Jobs, r) = NewJob(r, << >>) /\ JobIn(Jobs', r) = job
      /\ \A d : d # r => JobIn(Jobs', d) = JobIn(Jobs, d)
  <2>1. job.router = r /\ OneEach(Jobs) /\ Jobs' = Jobs \cup {job}
    BY ONLY <1>2, <1>3, <1>4
  <2>2. \A other \in Jobs : other.router # job.router
    BY ONLY <1>2, <2>1
  <2>3. /\ JobIn(Jobs, job.router) = NewJob(job.router, << >>)
        /\ JobIn(Jobs', job.router) = job
        /\ \A d : d # job.router => JobIn(Jobs', d) = JobIn(Jobs, d)
    <3>1. Grows(Jobs, Jobs', job)
      BY ONLY <2>1, <2>2 DEF Grows
    <3>2. Grown(Jobs, Jobs', job)
      BY ONLY <3>1, JobInAdd
    <3> QED
      BY ONLY <3>2 DEF Grown
  <2> QED
    BY ONLY <2>1, <2>3
<1>9. Typed'
  <2>1. \A d \in Routers : queue'[d] \in Seq(EventsTo(d))
    BY <1>7, EmptyTyped DEF DeliveryCore, Typed
  <2>2. \A other \in Jobs' : JobTyped(other)
    BY <1>2, <1>6 DEF DeliveryCore, Typed
  <2> QED
    BY <1>1, <2>1, <2>2 DEF DeliveryCore, Typed
<1>10. InOrder'
  <2> SUFFICES ASSUME AllWell', NEW a \in Routers, NEW b \in Routers PROVE Line(a, b)'
    BY DEF InOrder
  <2>1. AllWell
    BY <1>1, <1>2 DEF AllWell
  <2>2. Line(a, b)
    BY <2>1 DEF DeliveryCore, InOrder
  <2>3. JobIn(Jobs', b).batch \o queue'[b] = JobIn(Jobs, b).batch \o queue[b]
    <3>1. CASE b = r
      <4>1. queue[r] \o << >> = << >> \o queue[r]
        BY <1>5, EmptyTyped
      <4> QED
        BY <1>4, <1>7, <1>8, <3>1, <4>1
    <3>2. CASE b # r
      BY <1>7, <1>8, <3>2
    <3> QED
      BY <3>1, <3>2
  <2>4. JobIn(Jobs', a).out[b] = JobIn(Jobs, a).out[b]
    BY <1>4, <1>8
  <2> QED
    BY <1>1, <2>2, <2>3, <2>4, LineIs
<1>11. NothingLeft'
  BY <1>1 DEF NothingLeft
<1> QED
  BY <1>9, <1>10, <1>11 DEF DeliveryCore

(* What a job held back goes to the end of the queue. *)
LEMMA TakeResultDelivers ==
  ASSUME ConservationInv, DeliveryCore, results # << >>, TakeResult,
         pc' \in {"drain", "done"} => pc \in {"drain", "done"} \/ result' # "ok"
  PROVE  DeliveryCore'
<1> DEFINE job == Head(results)
           r == job.router
<1>1. /\ queue' = [d \in Routers |-> queue[d] \o job.out[d]]
      /\ result' = IF result = "ok" /\ ~job.ok THEN "DeviceError" ELSE result
      /\ UNCHANGED <<sent, handled>>
  BY DEF TakeResult, PushMany
<1>2. job \in Range(results) /\ job \in Jobs /\ Jobs' = Jobs \ {job}
      /\ Range(results') \subseteq Range(results)
  BY TakeResultJobs
<1>3. OneEach(Jobs)
  BY JobsUnique
<1>4. /\ r \in Routers /\ JobTyped(job) /\ job.batch = << >>
  BY <1>2 DEF DeliveryCore, Typed, ConservationInv, Shape, IsJob
<1>5. /\ JobIn(Jobs, r) = job /\ JobIn(Jobs', r) = NewJob(r, << >>)
      /\ \A d : d # r => JobIn(Jobs', d) = JobIn(Jobs, d)
  <2>1. JobIn(Jobs, r) = job
    BY <1>2, <1>3, JobInMember
  <2>2. OneEach(Jobs') /\ \A other \in Jobs' : other.router # r
    BY <1>2, <1>3 DEF OneEach
  <2>3. JobIn(Jobs', r) = NewJob(r, << >>)
    BY <2>2, JobInNone
  <2>4. ASSUME NEW d, d # r
        PROVE  JobIn(Jobs', d) = JobIn(Jobs, d)
    <3>1. \A other : other.router = d => (other \in Jobs' <=> other \in Jobs)
      BY <1>2, <2>4
    <3> QED
      BY <1>3, <2>2, <3>1, JobInSame
  <2> QED
    BY <2>1, <2>3, <2>4
<1>6. NewJob(r, << >>).batch = << >> /\ NewJob(r, << >>).out = [d \in Routers |-> << >>]
  BY NewJobFields
<1> HIDE DEF job
<1>7. \A d \in Routers : /\ queue[d] \in Seq(EventsTo(d)) /\ job.out[d] \in Seq(EventsTo(d))
                         /\ queue'[d] = queue[d] \o job.out[d]
  BY <1>1, <1>4 DEF DeliveryCore, Typed, JobTyped
<1>8. \A d \in Routers : queue'[d] \in Seq(EventsTo(d))
  BY <1>7, ConcatProperties
<1>9. Typed'
  BY <1>1, <1>2, <1>8 DEF DeliveryCore, Typed
<1>10. InOrder'
  <2> SUFFICES ASSUME AllWell', NEW a \in Routers, NEW b \in Routers PROVE Line(a, b)'
    BY DEF InOrder
  <2>1. AllWell
    BY <1>1, <1>2 DEF AllWell
  <2>2. \A d \in Routers : Line(d, b)
    BY <2>1 DEF DeliveryCore, InOrder
  <2> DEFINE w == JobIn(Jobs, b).batch \o queue[b]
             run == job.out[b]
             h == handled[<<a, b>>]
             s == sent[<<a, b>>]
  <2>3. /\ h \in Nat /\ s \in Nat
    BY DEF DeliveryCore, Typed
  <2>4. JobIn(Jobs, b).batch \in Seq(EventsTo(b)) /\ queue[b] \in Seq(EventsTo(b))
        /\ run \in Seq(EventsTo(b))
    BY <1>3, <1>7, JobInTyped DEF DeliveryCore, JobTyped
  <2>5. w \in Seq(EventsTo(b))
    BY <2>4, ConcatProperties
  <2>6. JobIn(Jobs', b).batch = JobIn(Jobs, b).batch
    BY <1>4, <1>5, <1>6
  <2>7. JobIn(Jobs', b).batch \o queue'[b] = w \o run
    <3>1. (JobIn(Jobs, b).batch \o queue[b]) \o run = JobIn(Jobs, b).batch \o (queue[b] \o run)
      <4> DEFINE x == JobIn(Jobs, b).batch
                 q == queue[b]
      <4>1. x \in Seq(EventsTo(b)) /\ q \in Seq(EventsTo(b)) /\ run \in Seq(EventsTo(b))
        BY <2>4
      <4> HIDE DEF x, q, run
      <4>2. (x \o q) \o run = x \o (q \o run)
        BY ONLY <4>1, ConcatAssociative
      <4> QED
        BY <4>2 DEF x, q
    <3>2. queue'[b] = queue[b] \o run
      BY <1>7
    <3> QED
      BY <2>6, <3>1, <3>2
  <2>8. CASE a = r
    <3>1. LineOf(w, run, a, b, h, s)
      BY <1>5, <2>2, <2>8, LineIs
    <3>2. JobIn(Jobs', a).out[b] = << >>
      BY <1>5, <1>6, <2>8
    <3> HIDE DEF w, run, h, s
    <3>3. LineOf(w \o run, << >>, a, b, h, s)
      BY <2>3, <2>4, <2>5, <3>1, LinePut
    <3> QED
      BY <1>1, <2>7, <3>2, <3>3, LineIs DEF h, s
  <2>9. CASE a # r
    <3> DEFINE held == JobIn(Jobs, a).out[b]
    <3>1. LineOf(w, held, a, b, h, s)
      BY <2>2, LineIs
    <3>2. \A k \in 1 .. Len(run) : run[k].src # a
      <4>1. LineOf(JobIn(Jobs, b).batch \o queue[b], run, r, b,
                   handled[<<r, b>>], sent[<<r, b>>])
        BY <1>4, <1>5, <2>2, LineIs
      <4>2. \A k \in 1 .. Len(run) :
              run[k] = [src |-> r, dst |-> b, n |-> sent[<<r, b>>] - Len(run) + k]
        BY <4>1 DEF LineOf
      <4> HIDE DEF run, r
      <4>3. ASSUME NEW k \in 1 .. Len(run)
            PROVE  run[k].src = r
        <5>1. PICK n : run[k] = [src |-> r, dst |-> b, n |-> n]
          BY <4>2
        <5> QED
          BY <5>1
      <4> QED
        BY <2>9, <4>3
    <3>3. JobIn(Jobs', a).out[b] = held
      BY <1>5, <2>9
    <3> HIDE DEF w, run, h, s, held
    <3>4. LineOf(w \o run, held, a, b, h, s)
      BY <2>4, <2>5, <3>1, <3>2, LinePass
    <3> QED
      BY <1>1, <2>7, <3>3, <3>4, LineIs DEF h, s
  <2> QED
    BY <2>8, <2>9
<1>11. NothingLeft'
  <2> SUFFICES ASSUME result' = "ok", pc' \in {"drain", "done"} PROVE FALSE
    BY DEF NothingLeft
  <2>1. result = "ok" /\ pc \in {"drain", "done"}
    BY <1>1
  <2> QED
    BY <1>2, <2>1 DEF DeliveryCore, NothingLeft
<1> QED
  BY <1>9, <1>10, <1>11 DEF DeliveryCore

LEMMA MainDelivers == ConservationInv /\ DeliveryCore /\ Main => DeliveryCore'
<1> SUFFICES ASSUME ConservationInv, DeliveryCore, Main PROVE DeliveryCore'
  OBVIOUS
<1>1. CASE LoopHead
  BY <1>1, LoopHeadDelivers
<1>2. CASE ScanEnds
  <2>1. /\ pc' = "recv"
        /\ UNCHANGED <<queue, sent, handled, result, tasks, working, results>>
    BY <1>2 DEF ScanEnds
  <2>2. Jobs' = Jobs
    BY <2>1 DEF Jobs
  <2> QED
    BY <2>1, <2>2, NothingMoves
<1>3. CASE SkipRouter
  <2>1. UNCHANGED <<pc, queue, sent, handled, result, tasks, working, results>>
    BY <1>3 DEF SkipRouter
  <2>2. Jobs' = Jobs
    BY <2>1 DEF Jobs
  <2> QED
    BY <2>1, <2>2, NothingMoves
<1>4. CASE GiveUp
  BY <1>4, GiveUpDelivers
<1>5. CASE Dispatch
  BY <1>5, DispatchDelivers
<1>6. CASE Receive
  <2>1. pc' \in {"drain", "done"} => result' # "ok"
    BY <1>6 DEF Receive
  <2> QED
    BY <1>6, <2>1, TakeResultDelivers DEF Receive
<1>7. CASE Drain
  <2>1. CASE results # << >>
    BY <1>7, <2>1, TakeResultDelivers DEF Drain
  <2>2. CASE results = << >>
    <3>1. /\ pc = "drain"
          /\ UNCHANGED <<queue, sent, handled, result, tasks, working, results>>
      BY <1>7, <2>2 DEF Drain
    <3>2. Jobs' = Jobs
      BY <3>1 DEF Jobs
    <3> QED
      BY <3>1, <3>2, NothingMoves
  <2> QED
    BY <2>1, <2>2
<1> QED
  BY <1>1, <1>2, <1>3, <1>4, <1>5, <1>6, <1>7 DEF Main

(* The fields of a job that went on. *)
LEMMA JobUpdate ==
  ASSUME NEW job, IsJob(job), NEW x, NEW y
  PROVE  /\ [job EXCEPT !.batch = x, !.out = y] =
              [router |-> job.router, batch |-> x, out |-> y, ok |-> job.ok]
         /\ [job EXCEPT !.batch = x, !.ok = y] =
              [router |-> job.router, batch |-> x, out |-> job.out, ok |-> y]
<1> DEFINE mid == [job EXCEPT !.batch = x]
<1>1. mid = [router |-> job.router, batch |-> x, out |-> job.out, ok |-> job.ok]
  BY JobExcept
<1>2. /\ mid.router = job.router /\ mid.batch = x /\ mid.out = job.out /\ mid.ok = job.ok
      /\ IsJob(mid)
  BY <1>1, JobStays
<1> HIDE DEF mid
<1>3. /\ [mid EXCEPT !.out = y] = [router |-> job.router, batch |-> x, out |-> y, ok |-> job.ok]
      /\ [mid EXCEPT !.ok = y] = [router |-> job.router, batch |-> x, out |-> job.out, ok |-> y]
  <2>1. /\ [mid EXCEPT !.out = y] =
             [router |-> mid.router, batch |-> mid.batch, out |-> y, ok |-> mid.ok]
        /\ [mid EXCEPT !.ok = y] =
             [router |-> mid.router, batch |-> mid.batch, out |-> mid.out, ok |-> y]
    BY <1>2, JobExcept
  <2> QED
    BY <1>2, <2>1
<1> QED
  BY <1>3 DEF mid

(* The job's router handles the first event of its batch, and holds back   *)
(* an event for every router of `to'.                                      *)
LEMMA HandleEventDelivers ==
  ASSUME ConservationInv, DeliveryCore, NEW job \in working,
         NEW to \in SUBSET (Routers \ {job.router}), HandleEvent(job, to)
  PROVE  DeliveryCore'
<1> DEFINE r == job.router
           ev == Head(job.batch)
           send(d) == [src |-> r, dst |-> d, n |-> sent[<<r, d>>] + 1]
           out == [d \in Routers |-> IF d \in to THEN Append(job.out[d], send(d)) ELSE job.out[d]]
           new == [router |-> r, batch |-> Tail(job.batch), out |-> out, ok |-> job.ok]
<1>1. job \in Jobs /\ IsJob(job) /\ r \in Routers
  BY DEF Jobs, ConservationInv, Shape, IsJob
<1>2. /\ job.ok /\ job.batch # << >>
      /\ working' = (working \ {job}) \cup {new}
      /\ sent' = [k \in Routers \X Routers |->
           IF k[1] = r /\ k[2] \in to THEN sent[k] + 1 ELSE sent[k]]
      /\ handled' = [handled EXCEPT ![<<ev.src, ev.dst>>] = @ + 1]
      /\ UNCHANGED <<pc, queue, result, tasks, results>>
  BY <1>1, JobUpdate DEF HandleEvent, main
<1>3. OneEach(Jobs)
  BY JobsUnique
<1>4. /\ new.router = r /\ new.batch = Tail(job.batch) /\ new.out = out /\ new.ok = job.ok
  OBVIOUS
<1>5. JobTyped(job)
  BY <1>1 DEF DeliveryCore, Typed
<1>6. /\ job.batch \in Seq(EventsTo(r)) /\ Tail(job.batch) \in Seq(EventsTo(r))
      /\ ev \in EventsTo(r) /\ ev.src \in Routers /\ ev.dst = r
  BY <1>2, <1>5, HeadTailProperties, EventFields DEF JobTyped
<1>7. /\ sent \in [Routers \X Routers -> Nat] /\ handled \in [Routers \X Routers -> Nat]
      /\ \A d \in Routers : job.out[d] \in Seq(EventsTo(d))
      /\ \A d \in Routers : queue[d] \in Seq(EventsTo(d))
  BY <1>5 DEF DeliveryCore, Typed, JobTyped
<1>8. \A d \in Routers : send(d) \in EventsTo(d)
  <2> TAKE d \in Routers
  <2>1. <<r, d>> \in Routers \X Routers
    BY <1>1
  <2>2. sent[<<r, d>>] + 1 \in Nat
    BY <1>7, <2>1
  <2> QED
    BY <1>1, <2>2 DEF EventsTo
<1>9. JobTyped(new)
  <2>1. \A d \in Routers : out[d] \in Seq(EventsTo(d))
    <3> TAKE d \in Routers
    <3>1. out[d] = IF d \in to THEN Append(job.out[d], send(d)) ELSE job.out[d]
      OBVIOUS
    <3> HIDE DEF out, send
    <3> QED
      BY <1>7, <1>8, <3>1, AppendProperties
  <2>2. out = [d \in Routers |-> out[d]] /\ job.ok \in BOOLEAN
    BY <1>5 DEF JobTyped
  <2> HIDE DEF out, new
  <2> QED
    BY <1>4, <1>6, <2>1, <2>2 DEF JobTyped
<1>10. Jobs' = (Jobs \ {job}) \cup {new}
  <2> HIDE DEF new
  <2> QED
    BY <1>2, ProgressJobs
<1> HIDE DEF new
<1>11. /\ JobIn(Jobs, r) = job /\ JobIn(Jobs', r) = new
       /\ \A d : d # r => JobIn(Jobs', d) = JobIn(Jobs, d)
  <2>1. JobIn(Jobs, r) = job
    BY <1>1, <1>3, JobInMember
  <2>2. new \in Jobs' /\ OneEach(Jobs')
    BY <1>1, <1>3, <1>4, <1>10 DEF OneEach
  <2>3. JobIn(Jobs', r) = new
    BY <1>4, <2>2, JobInMember
  <2>4. ASSUME NEW d, d # r
        PROVE  JobIn(Jobs', d) = JobIn(Jobs, d)
    <3>1. \A other : other.router = d => (other \in Jobs' <=> other \in Jobs)
      BY <1>4, <1>10, <2>4
    <3> QED
      BY <1>3, <2>2, <3>1, JobInSame
  <2> QED
    BY <2>1, <2>3, <2>4
<1>12. \A a, b \in Routers :
         /\ sent'[<<a, b>>] = IF a = r /\ b \in to THEN sent[<<a, b>>] + 1 ELSE sent[<<a, b>>]
         /\ handled'[<<a, b>>] = IF b = r /\ a = ev.src
                                 THEN handled[<<a, b>>] + 1 ELSE handled[<<a, b>>]
  <2> TAKE a, b \in Routers
  <2>1. <<a, b>> \in Routers \X Routers
    OBVIOUS
  <2>2. sent'[<<a, b>>] = IF a = r /\ b \in to THEN sent[<<a, b>>] + 1 ELSE sent[<<a, b>>]
    BY <1>2, <2>1
  <2>3. <<a, b>> = <<ev.src, ev.dst>> <=> b = r /\ a = ev.src
    BY <1>6
  <2> HIDE DEF ev
  <2>4. handled'[<<a, b>>] = IF <<a, b>> = <<ev.src, ev.dst>>
                             THEN handled[<<a, b>>] + 1 ELSE handled[<<a, b>>]
    BY <1>2, <1>7, <2>1
  <2> QED
    BY <2>2, <2>3, <2>4
<1>13. /\ sent' \in [Routers \X Routers -> Nat]
       /\ handled' \in [Routers \X Routers -> Nat]
  <2>1. sent' \in [Routers \X Routers -> Nat]
    BY <1>2, <1>7
  <2>2. handled' \in [Routers \X Routers -> Nat]
    <3> DEFINE p == <<ev.src, ev.dst>>
    <3>1. p \in Routers \X Routers
      BY <1>1, <1>6
    <3>2. handled' = [handled EXCEPT ![p] = @ + 1]
      BY <1>2
    <3> HIDE DEF p
    <3> QED
      BY <1>7, <3>1, <3>2
  <2> QED
    BY <2>1, <2>2
<1>14. Typed'
  <2>1. \A other \in Jobs' : JobTyped(other)
    BY <1>9, <1>10 DEF DeliveryCore, Typed
  <2> QED
    BY <1>2, <1>13, <2>1 DEF DeliveryCore, Typed
<1>15. InOrder'
  <2> SUFFICES ASSUME AllWell', NEW a \in Routers, NEW b \in Routers PROVE Line(a, b)'
    BY DEF InOrder
  <2>1. AllWell
    BY <1>2, <1>10 DEF AllWell
  <2> DEFINE w == JobIn(Jobs, b).batch \o queue[b]
             w1 == JobIn(Jobs', b).batch \o queue'[b]
             held == JobIn(Jobs, a).out[b]
             held1 == JobIn(Jobs', a).out[b]
             h == handled[<<a, b>>]
             s == sent[<<a, b>>]
  <2>2. LineOf(w, held, a, b, h, s)
    BY <2>1, LineIs DEF DeliveryCore, InOrder
  <2>3. h \in Nat /\ s \in Nat
    BY <1>7
  <2>4. JobIn(Jobs, b).batch \in Seq(EventsTo(b)) /\ held \in Seq(EventsTo(b))
    BY <1>3, JobInTyped DEF DeliveryCore, JobTyped
  <2>5. w \in Seq(EventsTo(b)) /\ Len(held) \in Nat
    BY <1>7, <2>4, ConcatProperties, LenProperties
  <2>6. b = r => w # << >> /\ Head(w) = ev /\ w1 = Tail(w)
    <3> SUFFICES ASSUME b = r PROVE w # << >> /\ Head(w) = ev /\ w1 = Tail(w)
      OBVIOUS
    <3> DEFINE x == job.batch
               q == queue[r]
    <3>1. w = x \o q /\ w1 = Tail(x) \o q
      BY <1>2, <1>4, <1>11
    <3>2. x \in Seq(EventsTo(r)) /\ q \in Seq(EventsTo(r)) /\ x # << >> /\ ev = Head(x)
      BY <1>2, <1>6, <1>7
    <3> HIDE DEF x, q, ev, w, w1
    <3>3. x \o q # << >> /\ Head(x \o q) = Head(x) /\ Tail(x \o q) = Tail(x) \o q
      BY ONLY <3>2
    <3> QED
      BY <3>1, <3>2, <3>3
  <2>7. b # r => w1 = w
    BY <1>2, <1>11
  <2>8. held1 = IF a = r /\ b \in to THEN Append(held, send(b)) ELSE held
    <3>1. CASE a = r
      <4>1. JobIn(Jobs', a) = new /\ JobIn(Jobs, a) = job
        BY <1>11, <3>1
      <4>2. new.out = [d \in Routers |-> IF d \in to THEN Append(job.out[d], send(d)) ELSE job.out[d]]
        BY <1>4
      <4>3. new.out[b] = IF b \in to THEN Append(job.out[b], send(b)) ELSE job.out[b]
        BY <4>2
      <4> QED
        BY <3>1, <4>1, <4>3
    <3>2. CASE a # r
      BY <1>11, <3>2
    <3> QED
      BY <3>1, <3>2
  <2> HIDE DEF w, w1, held, held1
  <2>9. LineOf(w1, held, a, b, handled'[<<a, b>>], s)
    <3>1. CASE b = r /\ a = ev.src
      <4>1. LineOf(Tail(w), held, a, b, h + 1, s)
        <5> HIDE DEF h, s, ev
        <5> QED
          BY <2>2, <2>3, <2>5, <2>6, <3>1, LineTake
      <4> QED
        BY <1>12, <2>6, <3>1, <4>1
    <3>2. CASE b = r /\ a # ev.src
      <4>1. LineOf(Tail(w), held, a, b, h, s)
        <5> HIDE DEF h, s, ev
        <5> QED
          BY <2>2, <2>5, <2>6, <3>2, LineSkip
      <4> QED
        BY <1>12, <2>6, <3>2, <4>1
    <3>3. CASE b # r
      BY <1>12, <2>2, <2>7, <3>3
    <3> QED
      BY <3>1, <3>2, <3>3
  <2>10. LineOf(w1, held1, a, b, handled'[<<a, b>>], sent'[<<a, b>>])
    <3>1. CASE a = r /\ b \in to
      <4>1. held1 = Append(held, [src |-> a, dst |-> b, n |-> s + 1])
        BY <2>8, <3>1
      <4>2. sent'[<<a, b>>] = s + 1
        BY <1>12, <3>1
      <4> HIDE DEF s
      <4> QED
        BY <2>3, <2>4, <2>9, <4>1, <4>2, LineSend
    <3>2. CASE ~(a = r /\ b \in to)
      BY <1>12, <2>8, <2>9, <3>2
    <3> QED
      BY <3>1, <3>2
  <2> QED
    BY <2>10, LineIs DEF w1, held1
<1>16. NothingLeft'
  BY <1>1, <1>2 DEF DeliveryCore, NothingLeft
<1> QED
  BY <1>14, <1>15, <1>16 DEF DeliveryCore

LEMMA FailEventDelivers ==
  ASSUME ConservationInv, DeliveryCore, NEW job \in working, FailEvent(job)
  PROVE  DeliveryCore'
<1> DEFINE new == [router |-> job.router, batch |-> << >>, out |-> job.out, ok |-> FALSE]
<1>1. job \in Jobs /\ IsJob(job)
  BY DEF Jobs, ConservationInv, Shape
<1>2. /\ working' = (working \ {job}) \cup {new}
      /\ UNCHANGED <<pc, queue, result, sent, handled, tasks, results>>
  BY <1>1, JobUpdate DEF FailEvent, main
<1>3. JobTyped(job)
  BY <1>1 DEF DeliveryCore, Typed
<1>4. /\ new.router = job.router /\ new.batch = << >> /\ new.out = job.out
      /\ new.ok = FALSE
  OBVIOUS
<1> HIDE DEF new
<1>5. JobTyped(new)
  BY <1>3, <1>4, EmptyTyped DEF JobTyped
<1>6. Jobs' = (Jobs \ {job}) \cup {new}
  BY <1>2, ProgressJobs
<1>7. Typed'
  BY <1>2, <1>5, <1>6 DEF DeliveryCore, Typed
<1>8. InOrder'
  <2>1. ~AllWell'
    BY <1>4, <1>6 DEF AllWell
  <2> QED
    BY <2>1 DEF InOrder
<1>9. NothingLeft'
  BY <1>1, <1>2 DEF DeliveryCore, NothingLeft
<1> QED
  BY <1>7, <1>8, <1>9 DEF DeliveryCore

LEMMA WorkersDeliver == ConservationInv /\ DeliveryCore /\ Workers => DeliveryCore'
<1> SUFFICES ASSUME ConservationInv, DeliveryCore, Workers PROVE DeliveryCore'
  OBVIOUS
<1>1. CASE StartJob
  <2>1. UNCHANGED <<pc, queue, sent, handled, result, results>>
    BY <1>1 DEF StartJob, main
  <2> QED
    BY <1>1, <2>1, StartJobs, NothingMoves
<1>2. ASSUME NEW job \in working, Worker(job)
      PROVE  DeliveryCore'
  <2>1. ASSUME NEW to \in SUBSET (Routers \ {job.router}), HandleEvent(job, to)
        PROVE  DeliveryCore'
    BY <2>1, HandleEventDelivers
  <2>2. CASE FailEvent(job)
    BY <2>2, FailEventDelivers
  <2>3. CASE FinishJob(job)
    <3>1. job.batch = << >> /\ UNCHANGED <<pc, queue, sent, handled, result>>
      BY <2>3 DEF FinishJob, main
    <3> QED
      BY <2>3, <3>1, FinishJobs, NothingMoves
  <2> QED
    BY <1>2, <2>1, <2>2, <2>3 DEF Worker
<1> QED
  BY <1>1, <1>2 DEF Workers

(***************************************************************************)
(* Initially an event of every pair of InitialPairs is in the queue.       *)
(***************************************************************************)
LEMMA FirstEventsFacts ==
  ASSUME NEW r \in Routers
  PROVE  /\ IsFiniteSet(FirstEvents(r))
         /\ FirstEvents(r) \subseteq EventsTo(r)
         /\ \A ev \in FirstEvents(r) : ev.n = 1 /\ <<ev.src, r>> \in InitialPairs
                                      /\ ev = [src |-> ev.src, dst |-> r, n |-> 1]
         /\ \A a : <<a, r>> \in InitialPairs => [src |-> a, dst |-> r, n |-> 1] \in FirstEvents(r)
<1> DEFINE P == {k \in InitialPairs : k[2] = r}
           f == [k \in P |-> [src |-> k[1], dst |-> r, n |-> 1]]
<1>1. /\ IsFiniteSet(Routers)
      /\ InitialPairs \subseteq Routers \X Routers
  BY ParallelAssumption
<1>2. IsFiniteSet(P)
  <2>1. IsFiniteSet(Routers \X Routers)
    BY <1>1, FS_Product
  <2>2. P \in SUBSET (Routers \X Routers)
    BY <1>1
  <2> QED
    BY <2>1, <2>2, FS_Subset
<1>3. \A k \in P : k = <<k[1], r>> /\ k[1] \in Routers
  BY <1>1
<1>4. FirstEvents(r) = {[src |-> k[1], dst |-> r, n |-> 1] : k \in P}
  BY DEF FirstEvents
<1>5. IsFiniteSet(FirstEvents(r))
  <2>1. f \in Surjection(P, FirstEvents(r))
    BY <1>4 DEF Surjection
  <2> HIDE DEF P, f
  <2> QED
    BY <1>2, <2>1, FS_Surjection
<1>6. FirstEvents(r) \subseteq EventsTo(r)
  BY <1>3, <1>4 DEF EventsTo
<1>7. ASSUME NEW ev \in FirstEvents(r)
      PROVE  /\ ev.n = 1 /\ <<ev.src, r>> \in InitialPairs
             /\ ev = [src |-> ev.src, dst |-> r, n |-> 1]
  <2>1. PICK k \in P : ev = [src |-> k[1], dst |-> r, n |-> 1]
    BY <1>4
  <2>2. ev.src = k[1] /\ ev.n = 1
    BY <2>1
  <2>3. k = <<k[1], r>> /\ k \in InitialPairs
    BY <1>3
  <2> QED
    BY <2>1, <2>2, <2>3
<1>8. ASSUME NEW a, <<a, r>> \in InitialPairs
      PROVE  [src |-> a, dst |-> r, n |-> 1] \in FirstEvents(r)
  <2>1. <<a, r>> \in P /\ <<a, r>>[1] = a
    BY <1>8
  <2> QED
    BY <1>4, <2>1
<1> QED
  BY <1>5, <1>6, <1>7, <1>8

LEMMA FirstLine ==
  ASSUME NEW a \in Routers, NEW b \in Routers, NEW w \in SetToSeqs(FirstEvents(b))
  PROVE  w \in Seq(EventsTo(b)) /\ LineOf(w, << >>, a, b, 0, Count(<<a, b>>))
<1> DEFINE S == FirstEvents(b)
           n == Cardinality(S)
<1>1. IsFiniteSet(S) /\ n \in Nat /\ S \subseteq EventsTo(b)
  BY FirstEventsFacts, FS_CardinalityType
<1>2. w \in [1 .. n -> S] /\ \A k, l \in 1 .. n : w[k] = w[l] => k = l
  BY DEF SetToSeqs
<1>3. w \in Seq(EventsTo(b)) /\ Len(w) = n /\ DOMAIN w = 1 .. n
  BY <1>1, <1>2
<1>4. \A k, l \in 1 .. n : w[k] = w[l] => k = l
  BY <1>2
<1>5. \A ev \in S : \E k \in 1 .. n : w[k] = ev
  <2> HIDE DEF n
  <2>0. n \in Nat /\ n \in Int
    BY <1>1
  <2>1. IsFiniteSet(1 .. n) /\ Cardinality(1 .. n) = n
    BY ONLY <2>0, FS_Interval
  <2>2. w \in Injection(1 .. n, S)
    <3>1. IsInjective(w)
      BY <1>3, <1>4 DEF IsInjective
    <3> QED
      BY <1>2, <3>1 DEF Injection
  <2>3. w \in Surjection(1 .. n, S)
    BY <1>1, <2>1, <2>2, FS_Injection DEF n
  <2> QED
    BY <2>3 DEF Surjection
<1>6. \A k \in 1 .. n : /\ w[k].n = 1 /\ <<w[k].src, b>> \in InitialPairs
                        /\ w[k] = [src |-> w[k].src, dst |-> b, n |-> 1]
  BY <1>2, FirstEventsFacts
<1>7. <<a, b>> \in InitialPairs => \E k \in 1 .. n : w[k].src = a
  <2> SUFFICES ASSUME <<a, b>> \in InitialPairs PROVE \E k \in 1 .. n : w[k].src = a
    OBVIOUS
  <2>1. [src |-> a, dst |-> b, n |-> 1] \in S
    BY FirstEventsFacts
  <2>2. PICK k \in 1 .. n : w[k] = [src |-> a, dst |-> b, n |-> 1]
    BY <1>5, <2>1
  <2> QED
    BY <2>2
<1> HIDE DEF S, n
<1>8. \A k : k \in From(w, a) <=> k \in 1 .. n /\ w[k].src = a
  BY <1>3, Positions
<1>9. \A k, l \in From(w, a) : ~(k < l)
  <2> SUFFICES ASSUME NEW k \in From(w, a), NEW l \in From(w, a), k < l PROVE FALSE
    OBVIOUS
  <2>1. w[k] = w[l]
    BY <1>6, <1>8
  <2>2. k = l /\ k \in Nat
    BY <1>1, <1>4, <1>8, <2>1
  <2> QED
    BY <2>2
<1>10. Numbered(w, a, 0 + 1, Count(<<a, b>>))
  <2>1. CASE <<a, b>> \in InitialPairs
    <3>1. Count(<<a, b>>) = 1
      BY <2>1 DEF Count
    <3>2. 0 + 1 .. 1 = {1}
      OBVIOUS
    <3>3. \A k \in From(w, a) : w[k].n = 1
      BY <1>6, <1>8
    <3>4. \E k \in From(w, a) : w[k].n = 1
      BY <1>6, <1>7, <1>8, <2>1
    <3> QED
      BY <1>9, <3>1, <3>2, <3>3, <3>4, NumberedFacts
  <2>2. CASE <<a, b>> \notin InitialPairs
    <3>1. Count(<<a, b>>) = 0
      BY <2>2 DEF Count
    <3>2. \A k : k \notin From(w, a)
      BY <1>6, <1>8, <2>2
    <3> QED
      BY <3>1, <3>2, NumberedFacts
  <2> QED
    BY <2>1, <2>2
<1>11. Len(<< >>) = 0 /\ Count(<<a, b>>) \in {0, 1}
  BY DEF Count
<1>12. Count(<<a, b>>) - 0 = Count(<<a, b>>) /\ 0 <= Count(<<a, b>>)
  BY <1>11
<1> QED
  BY <1>3, <1>10, <1>11, <1>12 DEF LineOf

LEMMA DeliveryInit == Init => DeliveryCore
<1> SUFFICES ASSUME Init PROVE DeliveryCore
  OBVIOUS
<1>1. /\ pc = "head" /\ tasks = << >> /\ working = {} /\ results = << >> /\ result = "ok"
      /\ queue \in [Routers -> UNION {SetToSeqs(FirstEvents(r)) : r \in Routers}]
      /\ \A r \in Routers : queue[r] \in SetToSeqs(FirstEvents(r))
      /\ sent = [k \in Routers \X Routers |-> Count(k)]
      /\ handled = [k \in Routers \X Routers |-> 0]
  BY DEF Init
<1>2. Jobs = {} /\ Range(results) = {}
  BY <1>1, EmptyChannel DEF Jobs
<1>3. Typed
  <2>1. \A k : Count(k) \in Nat
    BY DEF Count
  <2> QED
    BY <1>1, <1>2, <2>1, FirstLine DEF Typed
<1>4. ASSUME NEW a \in Routers, NEW b \in Routers
      PROVE  Line(a, b)
  <2>1. JobIn(Jobs, b).batch = << >> /\ JobIn(Jobs, a).out[b] = << >>
    BY <1>2, JobInNone, NewJobFields
  <2>2. << >> \o queue[b] = queue[b]
    BY <1>3, EmptyTyped DEF Typed
  <2>3. LineOf(queue[b], << >>, a, b, 0, Count(<<a, b>>))
    BY <1>1, FirstLine
  <2>4. handled[<<a, b>>] = 0 /\ sent[<<a, b>>] = Count(<<a, b>>)
    <3>1. <<a, b>> \in Routers \X Routers
      OBVIOUS
    <3> QED
      BY <1>1, <3>1
  <2> QED
    BY <2>1, <2>2, <2>3, <2>4, LineIs
<1> QED
  BY <1>1, <1>3, <1>4 DEF DeliveryCore, InOrder, NothingLeft

LEMMA DeliveryImplies == ConservationInv /\ DeliveryCore => NothingLostOnSuccess
<1> SUFFICES ASSUME ConservationInv, DeliveryCore, result = "ok"
             PROVE  /\ (\A job \in Jobs : job.ok) => NothingLost
                    /\ pc = "done" => handled = sent
  BY DEF NothingLostOnSuccess
<1>1. OneEach(Jobs)
  BY JobsUnique
<1>2. ASSUME \A job \in Jobs : job.ok, NEW a \in Routers, NEW b \in Routers
      PROVE  Numbered(Pending(a, b), a, handled[<<a, b>>] + 1, sent[<<a, b>>])
  <2> DEFINE w == JobIn(Jobs, b).batch \o queue[b]
             held == JobIn(Jobs, a).out[b]
             h == handled[<<a, b>>]
             s == sent[<<a, b>>]
  <2>1. LineOf(w, held, a, b, h, s)
    BY <1>2, LineIs DEF DeliveryCore, InOrder, AllWell
  <2>2. h \in Nat /\ s \in Nat
    BY DEF DeliveryCore, Typed
  <2>3. JobIn(Jobs, b).batch \in Seq(EventsTo(b)) /\ held \in Seq(EventsTo(b))
        /\ queue[b] \in Seq(EventsTo(b))
    BY <1>1, JobInTyped DEF DeliveryCore, Typed, JobTyped
  <2>4. w \in Seq(EventsTo(b))
    BY <2>3, ConcatProperties
  <2>5. Pending(a, b) = w \o held
    BY DEF Pending, JobOf, JobIn
  <2> HIDE DEF w, held, h, s
  <2>6. LineOf(w \o held, << >>, a, b, h, s)
    BY <2>1, <2>2, <2>3, <2>4, LinePut
  <2>7. s - Len(<< >>) = s
    BY <2>2
  <2> QED
    BY <2>5, <2>6, <2>7 DEF LineOf, h, s
<1>3. (\A job \in Jobs : job.ok) => NothingLost
  BY <1>2 DEF NothingLost, Numbered
<1>4. pc = "done" => handled = sent
  <2> SUFFICES ASSUME pc = "done" PROVE handled = sent
    OBVIOUS
  <2>1. QueueEmpty /\ Jobs = {}
    BY DEF DeliveryCore, NothingLeft
  <2>2. ASSUME NEW a \in Routers, NEW b \in Routers
        PROVE  handled[<<a, b>>] = sent[<<a, b>>]
    <3> DEFINE h == handled[<<a, b>>]
               s == sent[<<a, b>>]
    <3>1. JobIn(Jobs, b).batch = << >> /\ JobIn(Jobs, a).out[b] = << >>
      BY <2>1, JobInNone, NewJobFields
    <3>2. queue[b] = << >> /\ << >> \o << >> = << >>
      BY <2>1, EmptyTyped DEF QueueEmpty
    <3>3. LineOf(<< >>, << >>, a, b, h, s)
      BY <2>1, <3>1, <3>2, LineIs DEF DeliveryCore, InOrder, AllWell
    <3>4. h \in Nat /\ s \in Nat /\ Len(<< >>) = 0
      BY DEF DeliveryCore, Typed
    <3>5. From(<< >>, a) = {}
      BY DEF From
    <3> HIDE DEF h, s
    <3>6. h <= s /\ \A m \in h + 1 .. s : FALSE
      <4>1. s - 0 = s
        BY <3>4
      <4> QED
        BY <3>3, <3>4, <3>5, <4>1, NumberedFacts DEF LineOf
    <3>7. h = s
      <4>1. CASE h < s
        <5>1. s \in h + 1 .. s
          BY <3>4, <4>1
        <5> QED
          BY <3>6, <5>1
      <4> QED
        BY <3>4, <3>6, <4>1
    <3> QED
      BY <3>7 DEF h, s
  <2>3. /\ handled \in [Routers \X Routers -> Nat] /\ sent \in [Routers \X Routers -> Nat]
    BY DEF DeliveryCore, Typed
  <2>4. \A k \in Routers \X Routers : handled[k] = sent[k]
    <3> TAKE k \in Routers \X Routers
    <3>1. PICK a \in Routers, b \in Routers : k = <<a, b>>
      OBVIOUS
    <3> QED
      BY <2>2, <3>1
  <2> QED
    BY <2>3, <2>4
<1> QED
  BY <1>3, <1>4

(* DeliveryCore is inductive. *)
LEMMA DeliveryStep ==
  ConservationInv /\ DeliveryCore /\ [Next]_vars => ConservationInv' /\ DeliveryCore'
<1> SUFFICES ASSUME ConservationInv, DeliveryCore, [Next]_vars
             PROVE  ConservationInv' /\ DeliveryCore'
  OBVIOUS
<1>1. CASE Main
  BY <1>1, MainConserves, MainDelivers
<1>2. CASE Workers
  BY <1>2, WorkersConserve, WorkersDeliver
<1>3. CASE UNCHANGED vars
  <2>1. /\ UNCHANGED <<pc, i, idle, queue, tasks, working, results, result, sent, handled>>
    BY <1>3 DEF vars
  <2>2. Jobs' = Jobs
    BY <2>1 DEF Jobs
  <2>3. DeliveryCore'
    BY <2>1, <2>2, NothingMoves
  <2>4. ConservationInv'
    BY <2>1, KeptInPlace DEF ConservationInv, Shape, Finished
  <2> QED
    BY <2>3, <2>4
<1> QED
  BY <1>1, <1>2, <1>3 DEF Next

(* As long as no router fails and the simulation does not give up, the     *)
(* events of a pair of routers that are in the queue, in jobs and held     *)
(* back by workers are exactly those after the last one that was handled,  *)
(* in order; and if simulate_parallel returns Ok then all were handled.    *)
THEOREM NothingIsLost == Spec => []NothingLostOnSuccess
  BY ConservationInit, DeliveryInit, DeliveryStep, DeliveryImplies, PTL DEF Spec

(***************************************************************************)
(* The message limit.  The events of the batches count from when the job   *)
(* is sent on, so the invariant adds up the events that were handled,      *)
(* those of the batches and what is left of the limit.                     *)
(***************************************************************************)

(* One element for every event of a batch. *)
Assigned == UNION {{job.router} \X (1 .. Len(job.batch)) : job \in Jobs}

BudgetCore ==
  /\ IsFiniteSet(Handled) /\ IsFiniteSet(Assigned)
  /\ IF stop_after = Unlimited
     THEN remaining = Unlimited
     ELSE /\ stop_after \in Nat /\ remaining \in Nat
          /\ Cardinality(Handled) + Cardinality(Assigned) + remaining <= stop_after

LEMMA InAssigned ==
  ASSUME NEW x
  PROVE  /\ x \in Assigned <=>
              \E job \in Jobs : \E k \in 1 .. Len(job.batch) : x = <<job.router, k>>
         /\ x \in Assigned' <=>
              \E job \in Jobs' : \E k \in 1 .. Len(job.batch) : x = <<job.router, k>>
  BY DEF Assigned

(* Steps that handle nothing and do not spend anything. *)
LEMMA NothingSpent ==
  ASSUME BudgetCore, Assigned' \subseteq Assigned, UNCHANGED <<stop_after, remaining, handled>>
  PROVE  BudgetCore'
<1>1. Handled' = Handled
  BY DEF Handled
<1>2. /\ IsFiniteSet(Assigned') /\ Cardinality(Assigned') <= Cardinality(Assigned)
      /\ Cardinality(Assigned') \in Nat /\ Cardinality(Assigned) \in Nat
      /\ Cardinality(Handled) \in Nat
  BY FS_Subset, FS_CardinalityType DEF BudgetCore
<1>3. CASE stop_after = Unlimited
  BY <1>1, <1>2, <1>3 DEF BudgetCore
<1>4. CASE stop_after # Unlimited
  <2>1. /\ stop_after \in Nat /\ remaining \in Nat
        /\ Cardinality(Handled) + Cardinality(Assigned) + remaining <= stop_after
    BY <1>4 DEF BudgetCore
  <2>2. Cardinality(Handled) + Cardinality(Assigned') + remaining <= stop_after
    BY <1>2, <2>1
  <2> QED
    BY <1>1, <1>2, <1>4, <2>1, <2>2 DEF BudgetCore
<1> QED
  BY <1>3, <1>4

LEMMA SameJobsSpendNothing ==
  ASSUME BudgetCore, Jobs' = Jobs, UNCHANGED <<stop_after, remaining, handled>>
  PROVE  BudgetCore'
<1>1. Assigned' = Assigned
  BY DEF Assigned
<1> QED
  BY <1>1, NothingSpent

LEMMA BudgetInit == Init => BudgetCore
<1> SUFFICES ASSUME Init PROVE BudgetCore
  OBVIOUS
<1>1. /\ tasks = << >> /\ working = {} /\ results = << >>
      /\ handled = [k \in Routers \X Routers |-> 0]
      /\ stop_after \in Limits /\ remaining = stop_after
  BY DEF Init
<1>2. Jobs = {}
  BY <1>1, EmptyChannel DEF Jobs
<1>3. Assigned = {}
  BY <1>2 DEF Assigned
<1>4. Handled = {}
  BY <1>1 DEF Handled
<1>5. stop_after \in Nat \/ stop_after = Unlimited
  BY <1>1, ParallelAssumption
<1>6. stop_after \in Nat => 0 + 0 + stop_after <= stop_after
  OBVIOUS
<1> QED
  BY <1>1, <1>3, <1>4, <1>5, <1>6, FS_EmptySet DEF BudgetCore

(* The events of the batch are paid for when the job is sent on. *)
LEMMA DispatchSpends ==
  ASSUME ConservationInv, DeliveryCore, BudgetCore, Dispatch
  PROVE  BudgetCore'
<1> DEFINE r == idle[i]
           job == NewJob(r, queue[r])
           n == Len(queue[r])
           B == {r} \X (1 .. n)
<1>1. /\ ~TooMany(queue[r])
      /\ remaining' = Spend(queue[r])
      /\ UNCHANGED <<stop_after, handled>>
  BY DEF Dispatch
<1>2. r \in Routers /\ Jobs' = Jobs \cup {job}
  BY DispatchJobs
<1>3. job.router = r /\ job.batch = queue[r]
  BY NewJobFields
<1>4. n \in Nat
  BY <1>2, LenProperties DEF DeliveryCore, Typed
<1> HIDE DEF r, job
<1>5. Assigned' = Assigned \cup B
  <2>1. ASSUME NEW x
        PROVE  x \in Assigned' <=> x \in Assigned \/ x \in B
    <3>1. x \in B <=> \E k \in 1 .. Len(job.batch) : x = <<job.router, k>>
      BY <1>3
    <3> QED
      BY <1>2, <3>1, InAssigned
  <2> QED
    BY <2>1
<1> HIDE DEF n
<1>6. IsFiniteSet(B) /\ Cardinality(B) = n
  <2>1. IsFiniteSet({r}) /\ Cardinality({r}) = 1
    BY FS_Singleton
  <2>2. n \in Int
    BY <1>4
  <2>3. IsFiniteSet(1 .. n) /\ Cardinality(1 .. n) = IF 1 > n THEN 0 ELSE n - 1 + 1
    BY ONLY <2>2, FS_Interval
  <2>4. Cardinality(1 .. n) = n
    BY <1>4, <2>3
  <2>5. IsFiniteSet(B) /\ Cardinality(B) = Cardinality({r}) * Cardinality(1 .. n)
    BY <2>1, <2>3, FS_Product
  <2> QED
    BY <1>4, <2>1, <2>4, <2>5
<1>7. /\ IsFiniteSet(Assigned)
      /\ IsFiniteSet(Handled) /\ Cardinality(Handled) \in Nat
      /\ Handled' = Handled
  BY <1>1, FS_CardinalityType DEF BudgetCore, Handled
<1> HIDE DEF B
<1>8. /\ IsFiniteSet(Assigned')
      /\ Cardinality(Assigned') = Cardinality(Assigned) + Cardinality(B) - Cardinality(Assigned \cap B)
      /\ IsFiniteSet(Assigned \cap B)
  BY <1>5, <1>6, <1>7, FS_Union, FS_Intersection
<1>9. Cardinality(Assigned \cap B) \in Nat /\ Cardinality(Assigned) \in Nat
      /\ Cardinality(Assigned') \in Nat
  BY <1>7, <1>8, FS_CardinalityType
<1>10. Cardinality(Assigned') <= Cardinality(Assigned) + n
  BY <1>4, <1>6, <1>8, <1>9
<1>11. CASE stop_after = Unlimited
  BY <1>1, <1>7, <1>8, <1>11 DEF BudgetCore, Spend
<1>12. CASE stop_after # Unlimited
  <2>1. /\ stop_after \in Nat /\ remaining \in Nat
        /\ Cardinality(Handled) + Cardinality(Assigned) + remaining <= stop_after
    BY <1>12 DEF BudgetCore
  <2>2. remaining # Unlimited
    BY <2>1, ParallelAssumption
  <2>3. remaining' = remaining - n /\ ~(remaining < n)
    BY <1>1, <2>2 DEF Spend, TooMany, n
  <2>4. remaining' \in Nat
    BY <1>4, <2>1, <2>3
  <2>5. Cardinality(Handled) + Cardinality(Assigned') + remaining' <= stop_after
    BY <1>4, <1>7, <1>9, <1>10, <2>1, <2>3
  <2> QED
    BY <1>1, <1>7, <1>8, <1>12, <2>1, <2>4, <2>5 DEF BudgetCore
<1> QED
  BY <1>11, <1>12

(* An event of the batch is handled: one more there, one less here. *)
LEMMA HandleEventSpends ==
  ASSUME ConservationInv, DeliveryCore, BudgetCore, NEW job \in working,
         NEW to \in SUBSET (Routers \ {job.router}), HandleEvent(job, to)
  PROVE  BudgetCore'
<1> DEFINE r == job.router
           ev == Head(job.batch)
           p == <<ev.src, ev.dst>>
           n == Len(job.batch)
           h == <<p, handled[p] + 1>>
<1>1. job \in Jobs /\ IsJob(job) /\ r \in Routers
  BY DEF Jobs, ConservationInv, Shape, IsJob
<1>2. PICK new : /\ new.router = r /\ new.batch = Tail(job.batch)
                 /\ working' = (working \ {job}) \cup {new}
  <2> DEFINE out == [d \in Routers |-> IF d \in to
                THEN Append(job.out[d], [src |-> r, dst |-> d, n |-> sent[<<r, d>>] + 1])
                ELSE job.out[d]]
             new == [router |-> r, batch |-> Tail(job.batch), out |-> out, ok |-> job.ok]
  <2>1. working' = (working \ {job}) \cup {new}
    BY <1>1, JobUpdate DEF HandleEvent
  <2>2. new.router = r /\ new.batch = Tail(job.batch)
    OBVIOUS
  <2> HIDE DEF new
  <2> QED
    BY <2>1, <2>2
<1>3. /\ job.batch # << >>
      /\ handled' = [handled EXCEPT ![p] = @ + 1]
      /\ UNCHANGED <<stop_after, remaining, tasks, results>>
  BY DEF HandleEvent, main
<1>4. job.batch \in Seq(EventsTo(r)) /\ handled \in [Routers \X Routers -> Nat]
  BY <1>1 DEF DeliveryCore, Typed, JobTyped
<1>5. /\ n \in Nat /\ n > 0 /\ Len(Tail(job.batch)) = n - 1
      /\ ev \in EventsTo(r) /\ p \in Routers \X Routers
  <2>1. n \in Nat /\ n > 0
    BY <1>3, <1>4, EmptySeq
  <2>2. Len(Tail(job.batch)) = n - 1 /\ ev \in EventsTo(r)
    BY <1>3, <1>4, HeadTailProperties
  <2>3. ev.src \in Routers /\ ev.dst = r
    BY <2>2, EventFields
  <2> QED
    BY <1>1, <2>1, <2>2, <2>3
<1>6. Jobs' = (Jobs \ {job}) \cup {new}
  BY <1>2, <1>3, ProgressJobs
<1>7. \A other \in Jobs : other.router = r => other = job
  BY <1>1, JobsUnique DEF OneEach
<1> HIDE DEF p, ev
<1>8. Handled' = Handled \cup {h}
  <2>1. ASSUME NEW k \in Routers \X Routers
        PROVE  ({k} \X (1 .. handled'[k])) =
               ({k} \X (1 .. handled[k])) \cup (IF k = p THEN {h} ELSE {})
    <3>1. CASE k = p
      <4>1. handled'[k] = handled[k] + 1 /\ handled[k] \in Nat
        BY <1>3, <1>4, <1>5, <3>1
      <4>2. 1 .. handled[k] + 1 = (1 .. handled[k]) \cup {handled[k] + 1}
        BY <4>1
      <4> QED
        BY <3>1, <4>1, <4>2
    <3>2. CASE k # p
      BY <1>3, <1>4, <3>2
    <3> QED
      BY <3>1, <3>2
  <2> HIDE DEF h
  <2>2. ASSUME NEW x
        PROVE  x \in Handled' <=> x \in Handled \/ x = h
    <3>1. x \in Handled' <=> \E k \in Routers \X Routers : x \in {k} \X (1 .. handled'[k])
      BY DEF Handled
    <3>2. x \in Handled <=> \E k \in Routers \X Routers : x \in {k} \X (1 .. handled[k])
      BY DEF Handled
    <3> QED
      BY <1>5, <2>1, <3>1, <3>2
  <2> QED
    BY <2>2
<1> HIDE DEF h
<1>9. <<r, n>> \in Assigned /\ Assigned' \subseteq Assigned \ {<<r, n>>}
  <2>1. <<r, n>> \in Assigned
    <3>1. n \in 1 .. n
      BY <1>5
    <3> QED
      BY <1>1, <3>1, InAssigned
  <2>2. ASSUME NEW x \in Assigned'
        PROVE  x \in Assigned /\ x # <<r, n>>
    <3>0. PICK other \in Jobs' : \E k \in 1 .. Len(other.batch) : x = <<other.router, k>>
      BY <2>2, InAssigned
    <3>1. PICK k \in 1 .. Len(other.batch) : x = <<other.router, k>>
      BY <3>0
    <3>2. CASE other = new
      <4>0. Len(other.batch) = n - 1 /\ other.router = r
        BY <1>2, <1>5, <3>2
      <4> HIDE DEF n, r
      <4>1. k \in 1 .. n /\ k # n /\ x = <<r, k>>
        BY <1>5, <3>1, <4>0
      <4> QED
        BY <1>1, <4>1, InAssigned DEF n, r
    <3>3. CASE other # new
      <4>1. other \in Jobs /\ other.router # r
        BY <1>6, <1>7, <3>3
      <4> QED
        BY <3>1, <4>1, InAssigned
    <3> QED
      BY <3>2, <3>3
  <2> QED
    BY <2>1, <2>2
<1>10. /\ IsFiniteSet(Handled') /\ Cardinality(Handled') <= Cardinality(Handled) + 1
       /\ Cardinality(Handled') \in Nat
  <2>1. IsFiniteSet(Handled)
    BY DEF BudgetCore
  <2>2. /\ IsFiniteSet(Handled')
        /\ Cardinality(Handled') = IF h \in Handled THEN Cardinality(Handled)
                                   ELSE Cardinality(Handled) + 1
    BY <1>8, <2>1, FS_AddElement
  <2>3. Cardinality(Handled) \in Nat
    BY <2>1, FS_CardinalityType
  <2> DEFINE before == Cardinality(Handled)
             after == Cardinality(Handled')
  <2>4. before \in Nat /\ (after = before \/ after = before + 1)
    BY ONLY <2>2, <2>3
  <2> HIDE DEF before, after
  <2>5. after <= before + 1 /\ after \in Nat
    BY ONLY <2>4
  <2> QED
    BY ONLY <2>2, <2>5 DEF before, after
<1>11. /\ IsFiniteSet(Assigned') /\ Cardinality(Assigned') <= Cardinality(Assigned) - 1
       /\ Cardinality(Assigned') \in Nat
  <2> DEFINE R == Assigned \ {<<r, n>>}
  <2>1. IsFiniteSet(Assigned)
    BY DEF BudgetCore
  <2>2. IsFiniteSet(R) /\ Cardinality(R) = Cardinality(Assigned) - 1
    <3> DEFINE k == <<r, n>>
               S == Assigned
    <3>1. IsFiniteSet(S) /\ k \in S
      BY <1>9, <2>1
    <3> HIDE DEF k, S
    <3>2. IsFiniteSet(S \ {k}) /\ Cardinality(S \ {k}) = Cardinality(S) - 1
      BY ONLY <3>1, FS_RemoveElement
    <3> QED
      BY ONLY <3>2 DEF R, k, S
  <2>3. Assigned' \in SUBSET R
    BY <1>9
  <2> HIDE DEF R
  <2>4. IsFiniteSet(Assigned') /\ Cardinality(Assigned') <= Cardinality(R)
    BY <2>2, <2>3, FS_Subset
  <2> QED
    BY <2>2, <2>4, FS_CardinalityType
<1>12. Cardinality(Handled) \in Nat /\ Cardinality(Assigned) \in Nat
  BY FS_CardinalityType DEF BudgetCore
<1>13. CASE stop_after = Unlimited
  BY <1>3, <1>10, <1>11, <1>13 DEF BudgetCore
<1>14. CASE stop_after # Unlimited
  <2>1. /\ stop_after \in Nat /\ remaining \in Nat
        /\ Cardinality(Handled) + Cardinality(Assigned) + remaining <= stop_after
    BY <1>14 DEF BudgetCore
  <2>2. Cardinality(Handled') + Cardinality(Assigned') + remaining <= stop_after
    BY <1>10, <1>11, <1>12, <2>1
  <2> QED
    BY <1>3, <1>10, <1>11, <1>14, <2>1, <2>2 DEF BudgetCore
<1> QED
  BY <1>13, <1>14

LEMMA MainSpends ==
  ConservationInv /\ DeliveryCore /\ BudgetCore /\ Main => BudgetCore'
<1> SUFFICES ASSUME ConservationInv, DeliveryCore, BudgetCore, Main PROVE BudgetCore'
  OBVIOUS
<1>1. CASE LoopHead \/ ScanEnds \/ SkipRouter \/ GiveUp
  <2>1. UNCHANGED <<tasks, working, results, stop_after, remaining, handled>>
    BY <1>1 DEF LoopHead, ScanEnds, SkipRouter, GiveUp
  <2>2. Jobs' = Jobs
    BY <2>1 DEF Jobs
  <2> QED
    BY <2>1, <2>2, SameJobsSpendNothing
<1>2. CASE Dispatch
  BY <1>2, DispatchSpends
<1>3. ASSUME results # << >>, TakeResult
      PROVE  BudgetCore'
  <2>1. Jobs' \subseteq Jobs
    BY <1>3, TakeResultJobs
  <2>2. Assigned' \subseteq Assigned
    BY <2>1, InAssigned
  <2> QED
    BY <1>3, <2>2, NothingSpent DEF TakeResult
<1>4. CASE Receive
  BY <1>3, <1>4 DEF Receive
<1>5. CASE Drain
  <2>1. CASE results # << >>
    BY <1>3, <1>5, <2>1 DEF Drain
  <2>2. CASE results = << >>
    <3>1. UNCHANGED <<tasks, working, results, stop_after, remaining, handled>>
      BY <1>5, <2>2 DEF Drain
    <3>2. Jobs' = Jobs
      BY <3>1 DEF Jobs
    <3> QED
      BY <3>1, <3>2, SameJobsSpendNothing
  <2> QED
    BY <2>1, <2>2
<1> QED
  BY <1>1, <1>2, <1>4, <1>5 DEF Main

LEMMA WorkersSpend ==
  ConservationInv /\ DeliveryCore /\ BudgetCore /\ Workers => BudgetCore'
<1> SUFFICES ASSUME ConservationInv, DeliveryCore, BudgetCore, Workers PROVE BudgetCore'
  OBVIOUS
<1>1. CASE StartJob
  <2>1. UNCHANGED <<stop_after, remaining, handled>>
    BY <1>1 DEF StartJob, main
  <2> QED
    BY <1>1, <2>1, StartJobs, SameJobsSpendNothing
<1>2. ASSUME NEW job \in working, Worker(job)
      PROVE  BudgetCore'
  <2>1. ASSUME NEW to \in SUBSET (Routers \ {job.router}), HandleEvent(job, to)
        PROVE  BudgetCore'
    BY <2>1, HandleEventSpends
  <2>2. CASE FailEvent(job)
    <3> DEFINE new == [router |-> job.router, batch |-> << >>, out |-> job.out, ok |-> FALSE]
    <3>1. IsJob(job)
      BY DEF Jobs, ConservationInv, Shape
    <3>2. /\ working' = (working \ {job}) \cup {new}
          /\ UNCHANGED <<stop_after, remaining, handled, tasks, results>>
      BY <2>2, <3>1, JobUpdate DEF FailEvent, main
    <3>3. new.batch = << >> /\ Len(<< >>) = 0
      OBVIOUS
    <3> HIDE DEF new
    <3>4. Jobs' \subseteq Jobs \cup {new}
      BY <3>2, ProgressJobs
    <3>5. \A k \in 1 .. Len(new.batch) : FALSE
      BY <3>3
    <3>6. Assigned' \subseteq Assigned
      BY <3>4, <3>5, InAssigned
    <3> QED
      BY <3>2, <3>6, NothingSpent
  <2>3. CASE FinishJob(job)
    <3>1. UNCHANGED <<stop_after, remaining, handled>>
      BY <2>3 DEF FinishJob, main
    <3> QED
      BY <2>3, <3>1, FinishJobs, SameJobsSpendNothing
  <2> QED
    BY <1>2, <2>1, <2>2, <2>3 DEF Worker
<1> QED
  BY <1>1, <1>2 DEF Workers

(* The workers never handle more than stop_after events, however large the *)
(* batches are and however the threads are scheduled.                      *)
THEOREM LimitKept == Spec => []LimitRespected
<1>1. BudgetCore => LimitRespected
  <2> SUFFICES ASSUME BudgetCore, stop_after # Unlimited
               PROVE  Cardinality(Handled) <= stop_after
    BY DEF LimitRespected
  <2>1. /\ Cardinality(Handled) \in Nat /\ Cardinality(Assigned) \in Nat
    BY FS_CardinalityType DEF BudgetCore
  <2>2. /\ stop_after \in Nat /\ remaining \in Nat
        /\ Cardinality(Handled) + Cardinality(Assigned) + remaining <= stop_after
    BY DEF BudgetCore
  <2> QED
    BY <2>1, <2>2
<1>2. ConservationInv /\ DeliveryCore /\ BudgetCore /\ [Next]_vars => BudgetCore'
  <2> SUFFICES ASSUME ConservationInv, DeliveryCore, BudgetCore, [Next]_vars
               PROVE  BudgetCore'
    OBVIOUS
  <2>1. CASE Main
    BY <2>1, MainSpends
  <2>2. CASE Workers
    BY <2>2, WorkersSpend
  <2>3. CASE UNCHANGED vars
    <3>1. UNCHANGED <<tasks, working, results, stop_after, remaining, handled>>
      BY <2>3 DEF vars
    <3>2. Jobs' = Jobs
      BY <3>1 DEF Jobs
    <3> QED
      BY <3>1, <3>2, SameJobsSpendNothing
  <2> QED
    BY <2>1, <2>2, <2>3 DEF Next
<1> QED
  BY <1>1, <1>2, ConservationInit, DeliveryInit, BudgetInit, DeliveryStep, PTL DEF Spec

(***************************************************************************)
(* Types.  That the index of the scan stays in the vector needs Counted,   *)
(* that remaining_iter does not underflow needs BudgetCore.                *)
(***************************************************************************)
InBounds == i \in 1 .. NumRouters + 1 /\ Cardinality(working) <= Threads

LEMMA JobsOfType ==
  ASSUME NEW job, IsJob(job), JobTyped(job)
  PROVE  job \in Job
<1>1. \A d \in Routers : EventsTo(d) \subseteq Event
  BY DEF EventsTo, Event
<1>2. job.batch \in Seq(Event)
  <2>1. job.batch \in Seq(EventsTo(job.router)) /\ EventsTo(job.router) \subseteq Event
    BY <1>1 DEF JobTyped, IsJob
  <2> QED
    BY ONLY <2>1, SeqMonotonic
<1>3. \A d \in Routers : job.out[d] \in Seq(Event)
  <2> TAKE d \in Routers
  <2>1. job.out[d] \in Seq(EventsTo(d)) /\ EventsTo(d) \subseteq Event
    BY <1>1 DEF JobTyped
  <2> QED
    BY ONLY <2>1, SeqMonotonic
<1>4. job.out \in [Routers -> Seq(Event)]
  BY <1>3 DEF JobTyped
<1>5. job.router \in Routers /\ job.ok \in BOOLEAN
  BY DEF JobTyped, IsJob
<1>6. job = [router |-> job.router, batch |-> job.batch, out |-> job.out, ok |-> job.ok]
  BY DEF IsJob
<1> QED
  BY <1>2, <1>4, <1>5, <1>6 DEF Job

LEMMA WorkingBounded ==
  ASSUME ConservationInv, InBounds, Workers
  PROVE  Cardinality(working') <= Threads
<1>1. IsFiniteSet(working) /\ Cardinality(working) \in Nat /\ Threads \in Int
  BY ParallelAssumption, FS_CardinalityType DEF ConservationInv, Shape
<1>2. CASE StartJob
  <2>1. working' = working \cup {Head(tasks)} /\ Cardinality(working) < Threads
    BY <1>2 DEF StartJob
  <2> DEFINE job == Head(tasks)
             new == working \cup {job}
  <2> HIDE DEF job
  <2>2. /\ IsFiniteSet(new)
        /\ Cardinality(new) = IF job \in working THEN Cardinality(working)
                              ELSE Cardinality(working) + 1
    BY <1>1, FS_AddElement
  <2>3. Cardinality(new) <= Cardinality(working) + 1
    BY <1>1, <2>2
  <2>4. Cardinality(new) \in Nat
    BY <2>2, FS_CardinalityType
  <2>5. working' = new
    BY <2>1 DEF job
  <2> HIDE DEF new
  <2> QED
    BY <1>1, <2>1, <2>3, <2>4, <2>5
<1>3. ASSUME NEW job \in working, NEW new, working' = (working \ {job}) \cup {new}
      PROVE  Cardinality(working') <= Threads
  <2> DEFINE rest == working \ {job}
  <2>1. IsFiniteSet(rest) /\ Cardinality(rest) = Cardinality(working) - 1
    BY <1>1, FS_RemoveElement
  <2>2. Cardinality(rest) \in Nat
    BY <2>1, FS_CardinalityType
  <2> HIDE DEF rest
  <2>3. /\ IsFiniteSet(rest \cup {new})
        /\ Cardinality(rest \cup {new}) = IF new \in rest THEN Cardinality(rest)
                                          ELSE Cardinality(rest) + 1
    BY <2>1, FS_AddElement
  <2>4. Cardinality(rest \cup {new}) <= Cardinality(working)
    BY <1>1, <2>1, <2>2, <2>3
  <2>5. Cardinality(rest \cup {new}) \in Nat
    BY <2>3, FS_CardinalityType
  <2> QED
    BY <1>1, <1>3, <2>4, <2>5 DEF InBounds, rest
<1>4. ASSUME NEW job \in working, Worker(job)
      PROVE  Cardinality(working') <= Threads
  <2>1. ASSUME NEW to \in SUBSET (Routers \ {job.router}), HandleEvent(job, to)
        PROVE  Cardinality(working') <= Threads
    <3>1. PICK new : working' = (working \ {job}) \cup {new}
      BY <2>1 DEF HandleEvent
    <3> QED
      BY <1>3, <3>1
  <2>2. CASE FailEvent(job)
    <3>1. PICK new : working' = (working \ {job}) \cup {new}
      BY <2>2 DEF FailEvent
    <3> QED
      BY <1>3, <3>1
  <2>3. CASE FinishJob(job)
    <3>1. working' = working \ {job}
      BY <2>3 DEF FinishJob
    <3>2. IsFiniteSet(working') /\ Cardinality(working') = Cardinality(working) - 1
      BY <1>1, <3>1, FS_RemoveElement
    <3> QED
      BY <1>1, <3>2 DEF InBounds
  <2> QED
    BY <1>4, <2>1, <2>2, <2>3 DEF Worker
<1> QED
  BY <1>2, <1>4 DEF Workers

LEMMA ScanBounded ==
  ASSUME ConservationInv, InBounds, Main
  PROVE  i' \in 1 .. NumRouters + 1
<1>1. /\ Len(idle) \in Nat /\ Len(tasks) \in Nat /\ Len(results) \in Nat
      /\ Cardinality(working) \in Nat
      /\ Len(idle) + Len(tasks) + Cardinality(working) + Len(results) = NumRouters
  BY FS_CardinalityType, LenProperties DEF ConservationInv, Shape, Counted
<1>2. NumRouters \in Nat
  BY ParallelAssumption, FS_CardinalityType DEF NumRouters
<1>3. Len(idle) <= NumRouters
  BY <1>1
<1>4. \/ i' = i
      \/ i' = 1
      \/ i' = i + 1 /\ i <= Len(idle)
  BY DEF Main, LoopHead, ScanEnds, SkipRouter, GiveUp, Dispatch, Receive, Drain, TakeResult,
         ScanGoesOn
<1> HIDE DEF NumRouters
<1> QED
  BY <1>1, <1>2, <1>3, <1>4 DEF InBounds

(* Type correctness: among other things the index of the scan stays within *)
(* the vector it shrinks, and remaining_iter never gets negative.          *)
THEOREM TypesCorrect == Spec => []TypeOK
<1>1. Init => InBounds
  <2> SUFFICES ASSUME Init PROVE InBounds
    OBVIOUS
  <2>1. i = 1 /\ working = {} /\ Cardinality({}) = 0
    BY FS_EmptySet DEF Init
  <2>2. NumRouters \in Nat /\ Threads \in Nat
    BY ParallelAssumption, FS_CardinalityType DEF NumRouters
  <2> HIDE DEF NumRouters
  <2> QED
    BY <2>1, <2>2 DEF InBounds
<1>2. ConservationInv /\ InBounds /\ [Next]_vars => InBounds'
  <2> SUFFICES ASSUME ConservationInv, InBounds, [Next]_vars PROVE InBounds'
    OBVIOUS
  <2>1. CASE Main
    <3>1. working' = working
      BY <2>1 DEF Main, LoopHead, ScanEnds, SkipRouter, GiveUp, Dispatch, Receive, Drain,
                  TakeResult
    <3> QED
      BY <2>1, <3>1, ScanBounded DEF InBounds, NumRouters
  <2>2. CASE Workers
    <3>1. i' = i
      BY <2>2 DEF Workers, StartJob, Worker, HandleEvent, FailEvent, FinishJob, main
    <3> QED
      BY <2>2, <3>1, WorkingBounded DEF InBounds, NumRouters
  <2>3. CASE UNCHANGED vars
    BY <2>3 DEF vars, InBounds, NumRouters
  <2> QED
    BY <2>1, <2>2, <2>3 DEF Next
<1>3. ConservationInv /\ DeliveryCore /\ BudgetCore /\ [Next]_vars => BudgetCore'
  <2> SUFFICES ASSUME ConservationInv, DeliveryCore, BudgetCore, [Next]_vars
               PROVE  BudgetCore'
    OBVIOUS
  <2>1. CASE UNCHANGED vars
    <3>1. UNCHANGED <<tasks, working, results, stop_after, remaining, handled>>
      BY <2>1 DEF vars
    <3>2. Jobs' = Jobs
      BY <3>1 DEF Jobs
    <3> QED
      BY <3>1, <3>2, SameJobsSpendNothing
  <2> QED
    BY <2>1, MainSpends, WorkersSpend DEF Next
<1>4. ConservationInv /\ DeliveryCore /\ BudgetCore /\ InBounds => TypeOK
  <2> SUFFICES ASSUME ConservationInv, DeliveryCore, BudgetCore, InBounds PROVE TypeOK
    OBVIOUS
  <2>1. queue \in [Routers -> Seq(Event)]
    <3>1. queue = [r \in Routers |-> queue[r]]
      BY DEF DeliveryCore, Typed
    <3>2. \A r \in Routers : queue[r] \in Seq(Event)
      <4> TAKE r \in Routers
      <4>1. queue[r] \in Seq(EventsTo(r)) /\ EventsTo(r) \subseteq Event
        BY DEF DeliveryCore, Typed, EventsTo, Event
      <4> QED
        BY ONLY <4>1, SeqMonotonic
    <3> QED
      BY <3>1, <3>2
  <2>2. \A job \in Jobs : job \in Job
    BY JobsOfType DEF ConservationInv, Shape, DeliveryCore, Typed
  <2>3. remaining \in Nat \cup {Unlimited}
    BY DEF BudgetCore
  <2> QED
    BY <2>1, <2>2, <2>3 DEF TypeOK, ConservationInv, Shape, DeliveryCore, Typed, InBounds
<1> QED
  BY <1>1, <1>2, <1>3, <1>4, ConservationInit, DeliveryInit, BudgetInit, DeliveryStep, PTL
     DEF Spec
=============================================================================
