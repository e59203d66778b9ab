----------------------------- MODULE QueueProofs -----------------------------
(***************************************************************************)
(* Theorems about the queues, with and without time.                       *)
(***************************************************************************)
EXTENDS TimingQueue, EventQueues,
        FiniteSetTheorems, SequenceTheorems, NaturalsInduction, WellFoundedInduction, TLAPS

(***************************************************************************)
(* The queues without time, for any routers and events: the counter is     *)
(* exact, and both queues implement EventChannels.                         *)
(***************************************************************************)
(* What the types of the code say: RouterIds are numbers, and every event  *)
(* is one between two routers.                                             *)
Addressed ==
  /\ Routers \subseteq Nat
  /\ \A ev \in Events : ev.src \in Routers /\ ev.dst \in Routers

(* CountersExact is not inductive; it is with the types, and with what     *)
(* makes the places a set that can be counted.                             *)
QueuesInv ==
  /\ basic \in Seq(Events)
  /\ Keys \subseteq Routers
  /\ \A k \in Keys : events[k] \in Seq(Events)
  /\ IsFiniteSet(Places)
  /\ CountersExact
-----------------------------------------------------------------------------
(* The places of the map without those of the deque of r, and the latter.  *)
PlacesBut(r) == UNION {{k} \X DOMAIN events[k] : k \in Keys \ {r}}

PlacesOf(r, d) == {r} \X DOMAIN d

LEMMA WithPlaces ==
  ASSUME NEW r, NEW d, events' = With(r, d)
  PROVE  Places' = PlacesBut(r) \cup PlacesOf(r, d)
BY DEF With, Places, PlacesBut, PlacesOf, Keys

LEMMA WithoutPlaces ==
  ASSUME NEW r, events' = Without(r)
  PROVE  Places' = PlacesBut(r)
BY DEF Without, Places, PlacesBut, Keys

LEMMA NowPlaces ==
  ASSUME NEW r
  PROVE  /\ r \in Keys => Places = PlacesBut(r) \cup PlacesOf(r, events[r])
         /\ r \notin Keys => Places = PlacesBut(r)
BY DEF Places, PlacesBut, PlacesOf, Keys

LEMMA Counting ==
  ASSUME QueuesInv, NEW r
  PROVE  /\ Deque(r) \in Seq(Events)
         /\ IsFiniteSet(PlacesBut(r)) /\ Cardinality(PlacesBut(r)) \in Nat
         /\ num_events = Cardinality(PlacesBut(r)) + Len(Deque(r))
         /\ \A d \in Seq(Events) :
              LET places == PlacesBut(r) \cup PlacesOf(r, d)
              IN  /\ IsFiniteSet(places)
                  /\ Cardinality(places) = Cardinality(PlacesBut(r)) + Len(d)
<1>1. IsFiniteSet(PlacesBut(r)) /\ Cardinality(PlacesBut(r)) \in Nat
  <2>1. PlacesBut(r) \subseteq Places
    BY DEF PlacesBut, Places
  <2>2. IsFiniteSet(PlacesBut(r))
    BY <2>1, FS_Subset DEF QueuesInv
  <2> QED
    BY <2>2, FS_CardinalityType
<1>2. ASSUME NEW d \in Seq(Events)
      PROVE  LET places == PlacesBut(r) \cup PlacesOf(r, d)
             IN  /\ IsFiniteSet(places)
                 /\ Cardinality(places) = Cardinality(PlacesBut(r)) + Len(d)
  <2>1. Len(d) \in Nat /\ DOMAIN d = 1 .. Len(d)
    OBVIOUS
  <2>2. IsFiniteSet({r}) /\ Cardinality({r}) = 1
    BY FS_Singleton
  <2>3. IsFiniteSet(1 .. Len(d)) /\ Cardinality(1 .. Len(d)) = Len(d)
    <3> DEFINE n == Len(d)
    <3>1. n \in Nat /\ n \in Int /\ 1 \in Int
      BY <2>1
    <3> HIDE DEF n
    <3>2. IsFiniteSet(1 .. n) /\ Cardinality(1 .. n) = IF 1 > n THEN 0 ELSE n - 1 + 1
      BY ONLY <3>1, FS_Interval
    <3>3. IsFiniteSet(1 .. n) /\ Cardinality(1 .. n) = n
      BY ONLY <3>1, <3>2
    <3> QED
      BY ONLY <3>3 DEF n
  <2>4. IsFiniteSet(PlacesOf(r, d)) /\ Cardinality(PlacesOf(r, d)) = Len(d)
    <3>1. /\ IsFiniteSet({r} \X (1 .. Len(d)))
          /\ Cardinality({r} \X (1 .. Len(d))) = Cardinality({r}) * Cardinality(1 .. Len(d))
      BY <2>2, <2>3, FS_Product
    <3>2. Cardinality({r}) * Cardinality(1 .. Len(d)) = Len(d)
      BY <2>1, <2>2, <2>3
    <3>3. PlacesOf(r, d) = {r} \X (1 .. Len(d))
      BY <2>1 DEF PlacesOf
    <3> QED
      BY <3>1, <3>2, <3>3
  <2>5. PlacesBut(r) \cap PlacesOf(r, d) = {}
    BY DEF PlacesBut, PlacesOf
  <2>6. Cardinality(PlacesBut(r) \cap PlacesOf(r, d)) = 0
    BY <2>5, FS_EmptySet
  <2>7. /\ IsFiniteSet(PlacesBut(r) \cup PlacesOf(r, d))
        /\ Cardinality(PlacesBut(r) \cup PlacesOf(r, d)) =
             Cardinality(PlacesBut(r)) + Cardinality(PlacesOf(r, d))
               - Cardinality(PlacesBut(r) \cap PlacesOf(r, d))
    BY <1>1, <2>4, FS_Union
  <2> QED
    BY <1>1, <2>1, <2>4, <2>6, <2>7
<1>3. Deque(r) \in Seq(Events)
  BY DEF QueuesInv, Deque
<1>4. num_events = Cardinality(PlacesBut(r)) + Len(Deque(r))
  <2>1. CASE r \in Keys
    BY <1>2, <1>3, <2>1, NowPlaces DEF QueuesInv, CountersExact, Deque
  <2>2. CASE r \notin Keys
    <3>1. num_events = Cardinality(PlacesBut(r)) /\ Len(Deque(r)) = 0
      BY <2>2, NowPlaces DEF QueuesInv, CountersExact, Deque
    <3> QED
      BY <1>1, <3>1
  <2> QED
    BY <2>1, <2>2
<1> QED
  BY <1>1, <1>2, <1>3, <1>4

LEMMA WithStep ==
  ASSUME QueuesInv, NEW r \in Routers, NEW d \in Seq(Events), d # << >>,
         \A i \in DOMAIN d : d[i].dst = r, events' = With(r, d),
         basic' \in Seq(Events), num_events' = num_events + Len(d) - Len(Deque(r))
  PROVE  QueuesInv'
<1>1. Places' = PlacesBut(r) \cup PlacesOf(r, d)
  BY WithPlaces
<1>2. /\ Keys' = Keys \cup {r} /\ events'[r] = d
      /\ \A k \in Keys \ {r} : events'[k] = events[k]
  BY DEF With, Keys
<1>3. IsFiniteSet(Places') /\ num_events' = Cardinality(Places')
  <2>1. /\ Cardinality(PlacesBut(r)) \in Nat /\ Len(Deque(r)) \in Nat /\ Len(d) \in Nat
        /\ num_events = Cardinality(PlacesBut(r)) + Len(Deque(r))
    BY Counting
  <2>2. IsFiniteSet(Places') /\ Cardinality(Places') = Cardinality(PlacesBut(r)) + Len(d)
    BY <1>1, Counting
  <2> QED
    BY <2>1, <2>2
<1>4. Keys' \subseteq Routers /\ \A k \in Keys' : events'[k] \in Seq(Events)
  BY <1>2 DEF QueuesInv
<1>5. \A k \in Keys' : events'[k] # << >> /\ \A i \in DOMAIN events'[k] : events'[k][i].dst = k
  <2>1. \A k \in Keys : events[k] # << >> /\ \A i \in DOMAIN events[k] : events[k][i].dst = k
    BY DEF QueuesInv, CountersExact
  <2>2. \A k \in Keys' : k = r \/ k \in Keys \ {r}
    BY <1>2
  <2> QED
    BY <1>2, <2>1, <2>2
<1> QED
  BY <1>3, <1>4, <1>5 DEF QueuesInv, CountersExact

LEMMA WithoutStep ==
  ASSUME QueuesInv, NEW r, events' = Without(r),
         basic' \in Seq(Events), num_events' = num_events - Len(Deque(r))
  PROVE  QueuesInv'
<1>1. Places' = PlacesBut(r)
  BY WithoutPlaces
<1>2. Keys' = Keys \ {r} /\ \A k \in Keys \ {r} : events'[k] = events[k]
  BY DEF Without, Keys
<1>3. IsFiniteSet(Places') /\ num_events' = Cardinality(Places')
  <2>1. /\ Cardinality(PlacesBut(r)) \in Nat /\ Len(Deque(r)) \in Nat
        /\ num_events = Cardinality(PlacesBut(r)) + Len(Deque(r))
    BY Counting
  <2>2. IsFiniteSet(Places')
    BY <1>1, Counting
  <2> QED
    BY <1>1, <2>1, <2>2
<1>4. Keys' \subseteq Routers /\ \A k \in Keys' : events'[k] \in Seq(Events)
  BY <1>2 DEF QueuesInv
<1>5. \A k \in Keys' : events'[k] # << >> /\ \A i \in DOMAIN events'[k] : events'[k][i].dst = k
  BY <1>2 DEF QueuesInv, CountersExact
<1> QED
  BY <1>3, <1>4, <1>5 DEF QueuesInv, CountersExact

LEMMA EmptyQueues == Init => QueuesInv
<1> SUFFICES ASSUME Init
             PROVE  QueuesInv
  OBVIOUS
<1>0. basic = << >> /\ events = [k \in {} |-> << >>] /\ num_events = 0
  BY DEF Init
<1>1. Keys = {} /\ Places = {}
  BY <1>0 DEF Keys, Places
<1>2. IsFiniteSet(Places) /\ Cardinality(Places) = 0
  BY <1>1, FS_EmptySet
<1> QED
  BY <1>0, <1>1, <1>2 DEF QueuesInv, CountersExact

(* A set of numbers has a smallest one.                                    *)
LEMMA NatMinimum ==
  ASSUME NEW T, T \subseteq Nat, T # {}
  PROVE  \E x \in T : \A y \in T : x <= y
<1> DEFINE R == OpToRel(<, Nat)
<1>1. IsWellFoundedOn(R, Nat)
  BY NatLessThanWellFounded
<1> HIDE DEF R
<1>2. PICK x \in T : \A y \in T : ~ (<<y, x>> \in R)
  BY <1>1, WFMin
<1>3. \A i, j \in Nat : i < j => <<i, j>> \in R
  BY DEF R, OpToRel
<1>4. ASSUME NEW y \in T
      PROVE  x <= y
  <2>1. x \in Nat /\ y \in Nat
    OBVIOUS
  <2>2. ~(y < x)
    BY <1>2, <1>3, <2>1
  <2> QED
    BY <2>1, <2>2
<1> QED
  BY <1>4

(* The key of the deque that PerRouterPop takes from                       *)
FirstKey == CHOOSE k \in Keys : \A l \in Keys : k <= l

LEMMA FirstExists ==
  ASSUME Addressed, QueuesInv, Keys # {}
  PROVE  FirstKey \in Keys /\ \A l \in Keys : FirstKey <= l
<1>1. Keys \subseteq Nat
  BY DEF Addressed, QueuesInv
<1>2. \E x \in Keys : \A y \in Keys : x <= y
  BY <1>1, NatMinimum
<1> QED
  BY <1>2 DEF FirstKey

(* What PerRouterPop does to the map: the deque of the first key loses its *)
(* front.                                                                  *)
LEMMA PopStep ==
  ASSUME Addressed, QueuesInv, PerRouterPop
  PROVE  LET first == FirstKey
             rest  == Tail(events[FirstKey])
         IN  /\ first \in Keys /\ first \in Routers
             /\ events[first] \in Seq(Events) /\ events[first] # << >>
             /\ rest \in Seq(Events) /\ Len(rest) = Len(events[first]) - 1
             /\ \A i \in DOMAIN rest : rest[i] = events[first][i + 1]
             /\ \A i \in DOMAIN events[first] : events[first][i].dst = first
             /\ rest = << >> => events' = Without(first)
             /\ rest # << >> => events' = With(first, rest)
<1>1. Keys # {}
  BY DEF PerRouterPop
<1>2. FirstKey \in Keys
  BY <1>1, FirstExists
<1> DEFINE first == FirstKey
           rest  == Tail(events[FirstKey])
<1>3. /\ first \in Routers /\ events[first] \in Seq(Events) /\ events[first] # << >>
      /\ \A i \in DOMAIN events[first] : events[first][i].dst = first
  BY <1>2 DEF QueuesInv, CountersExact
<1>4. /\ rest \in Seq(Events) /\ Len(rest) = Len(events[first]) - 1
      /\ \A i \in DOMAIN rest : rest[i] = events[first][i + 1]
  <2> HIDE DEF first
  <2>1. \A s \in Seq(Events) : s # << >> =>
          /\ Tail(s) \in Seq(Events) /\ Len(Tail(s)) = Len(s) - 1
          /\ \A i \in DOMAIN Tail(s) : Tail(s)[i] = s[i + 1]
    OBVIOUS
  <2> QED
    BY <1>3, <2>1 DEF first
<1>5. events' = IF rest = << >> THEN Without(first) ELSE With(first, rest)
  BY DEF PerRouterPop, FirstKey
<1> QED
  BY <1>2, <1>3, <1>4, <1>5

LEMMA QueuesInductive == Addressed /\ QueuesInv /\ [Next]_vars => QueuesInv'
<1> SUFFICES ASSUME Addressed, QueuesInv, [Next]_vars
             PROVE  QueuesInv'
  OBVIOUS
<1>1. ASSUME NEW ev \in Events, Push(ev)
      PROVE  QueuesInv'
  <2> DEFINE r == ev.dst
             d == Append(Deque(r), ev)
  <2>1. r \in Routers
    BY DEF Addressed
  <2>2. Deque(r) \in Seq(Events) /\ \A i \in DOMAIN Deque(r) : Deque(r)[i].dst = r
    BY DEF QueuesInv, CountersExact, Deque
  <2>3. /\ d \in Seq(Events) /\ d # << >> /\ Len(d) = Len(Deque(r)) + 1
        /\ \A i \in DOMAIN d : d[i].dst = r
    BY <2>2
  <2>4. events' = With(r, d) /\ basic' \in Seq(Events)
    BY <1>1 DEF Push, QueuesInv
  <2>5. num_events' = num_events + Len(d) - Len(Deque(r))
    <3>1. num_events \in Int /\ Len(Deque(r)) \in Nat /\ num_events' = num_events + 1
      BY <1>1, <2>2, Counting DEF Push
    <3> QED
      BY <2>3, <3>1
  <2> HIDE DEF d, r
  <2> QED
    BY <2>1, <2>3, <2>4, <2>5, WithStep
<1>2. CASE BasicPop
  <2>1. basic' \in Seq(Events) /\ events' = events /\ num_events' = num_events
    BY <1>2 DEF BasicPop, QueuesInv
  <2> QED
    BY <2>1 DEF QueuesInv, CountersExact, Places, Keys
<1>3. CASE PerRouterPop
  <2> DEFINE first == FirstKey
             rest  == Tail(events[FirstKey])
  <2>1. /\ first \in Keys /\ first \in Routers
        /\ events[first] \in Seq(Events) /\ events[first] # << >>
        /\ rest \in Seq(Events) /\ Len(rest) = Len(events[first]) - 1
        /\ \A i \in DOMAIN rest : rest[i] = events[first][i + 1]
        /\ \A i \in DOMAIN events[first] : events[first][i].dst = first
        /\ rest = << >> => events' = Without(first)
        /\ rest # << >> => events' = With(first, rest)
    BY <1>3, PopStep
  <2>2. basic' \in Seq(Events) /\ num_events' = num_events - 1
    BY <1>3 DEF PerRouterPop, QueuesInv
  <2>3. num_events \in Int /\ Len(Deque(first)) \in Nat /\ Deque(first) = events[first]
    BY <2>1, Counting DEF Deque
  <2> HIDE DEF first, rest
  <2>4. CASE rest = << >>
    <3>1. num_events' = num_events - Len(Deque(first))
      BY <2>1, <2>2, <2>3, <2>4
    <3> QED
      BY <2>1, <2>2, <2>4, <3>1, WithoutStep
  <2>5. CASE rest # << >>
    <3>1. num_events' = num_events + Len(rest) - Len(Deque(first))
      BY <2>1, <2>2, <2>3
    <3>2. \A i \in DOMAIN rest : rest[i].dst = first
      BY <2>1
    <3> QED
      BY <2>1, <2>2, <2>5, <3>1, <3>2, WithStep
  <2> QED
    BY <2>4, <2>5
<1>4. ASSUME NEW r \in Routers, PopEventsFor(r)
      PROVE  QueuesInv'
  <2>1. events' = Without(r) /\ basic' \in Seq(Events)
        /\ num_events' = num_events - Len(Deque(r))
    BY <1>4 DEF PopEventsFor, QueuesInv, Deque
  <2> QED
    BY <2>1, WithoutStep
<1>5. CASE Clear
  <2>1. Init'
    BY <1>5 DEF Clear, Init
  <2> QED
    BY <2>1, EmptyQueues, PTL
<1>6. CASE UNCHANGED vars
  BY <1>6 DEF vars, QueuesInv, CountersExact, Places, Keys
<1> QED
  BY <1>1, <1>2, <1>3, <1>4, <1>5, <1>6 DEF Next

LEMMA QueuesAlways ==
  ASSUME Addressed
  PROVE  Spec => []QueuesInv
<1>1. Init => QueuesInv
  BY EmptyQueues
<1>2. QueuesInv /\ [Next]_vars => QueuesInv'
  BY QueuesInductive
<1> QED
  BY <1>1, <1>2, PTL DEF Spec

(* The counter of PerRouterQueue is the number of the events in its deques *)
(* and no deque in the map is empty, whatever was pushed and taken.        *)
THEOREM CountIsExact ==
  ASSUME Addressed
  PROVE  Spec => []CountersExact
<1>1. QueuesInv => CountersExact
  BY DEF QueuesInv
<1> QED
  BY <1>1, QueuesAlways, PTL
-----------------------------------------------------------------------------
(* Induction, for a set of numbers.                                        *)
LEMMA UpTo ==
  ASSUME NEW N \in Nat, NEW A, 0 \in A, \A k \in 0 .. N : k \in A /\ k < N => k + 1 \in A
  PROVE  \A k \in 0 .. N : k \in A
<1> DEFINE T == {k \in 0 .. N : k \notin A}
<1> SUFFICES ASSUME T # {} PROVE FALSE
  OBVIOUS
<1>1. PICK k \in T : \A l \in T : k <= l
  <2>1. T \subseteq Nat
    OBVIOUS
  <2> HIDE DEF T
  <2> QED
    BY <2>1, NatMinimum
<1>2. k \in 0 .. N /\ k # 0
  OBVIOUS
<1>3. k - 1 \in 0 .. N /\ k - 1 < N /\ k - 1 \notin T
  BY <1>1, <1>2
<1>4. k - 1 \in A
  BY <1>3
<1>5. k - 1 + 1 \in A
  BY <1>3, <1>4
<1> QED
  BY <1>2, <1>5

(* What Of goes through                                                    *)
Selects(u, es, a, b) ==
  /\ u \in [0 .. Len(es) -> Seq(Events)] /\ u[0] = << >>
  /\ \A i \in 1 .. Len(es) : u[i] = Picked(u[i - 1], es[i], a, b)

LEMMA OfIs ==
  ASSUME NEW es \in Seq(Events), NEW a, NEW b, NEW u, Selects(u, es, a, b)
  PROVE  Of(es, a, b) = u[Len(es)] /\ Of(es, a, b) \in Seq(Events)
<1> DEFINE N == Len(es)
           Q(w) == w = [i \in 0 .. N |->
                          IF i = 0 THEN << >> ELSE Picked(w[i - 1], es[i], a, b)]
           c == CHOOSE w : Q(w)
<1>1. N \in Nat
  OBVIOUS
<1>2. Of(es, a, b) = c[N]
  BY DEF Of
<1>3. /\ u \in [0 .. N -> Seq(Events)] /\ u[0] = << >>
      /\ \A i \in 1 .. N : u[i] = Picked(u[i - 1], es[i], a, b)
  BY DEF Selects
<1> HIDE DEF N
<1>4. Q(u)
  <2>1. u = [i \in 0 .. N |-> u[i]]
    BY <1>3
  <2>2. \A i \in 0 .. N :
          u[i] = IF i = 0 THEN << >> ELSE Picked(u[i - 1], es[i], a, b)
    <3>1. \A i \in 0 .. N : i # 0 => i \in 1 .. N
      BY <1>1
    <3> QED
      BY ONLY <1>3, <3>1
  <2> QED
    BY <2>1, <2>2
<1>5. Q(c)
  BY <1>4
<1> HIDE DEF c
<1>6. c[0] = << >> /\ \A i \in 1 .. N : c[i] = Picked(c[i - 1], es[i], a, b)
  <2>1. 0 \in 0 .. N /\ \A i \in 1 .. N : i \in 0 .. N /\ i # 0
    BY <1>1
  <2> QED
    BY <1>5, <2>1
<1> HIDE DEF Q
<1>7. \A i \in 0 .. N : c[i] = u[i]
  <2> DEFINE A == {i \in 0 .. N : c[i] = u[i]}
  <2>1. 0 \in A
    BY <1>1, <1>3, <1>6
  <2>2. \A i \in 0 .. N : i \in A /\ i < N => i + 1 \in A
    <3> SUFFICES ASSUME NEW i \in 0 .. N, i \in A, i < N
                 PROVE  i + 1 \in A
      OBVIOUS
    <3>1. i + 1 \in 1 .. N /\ i + 1 - 1 = i /\ i + 1 \in 0 .. N
      BY <1>1
    <3> QED
      BY <1>3, <1>6, <3>1
  <2> HIDE DEF A
  <2>3. \A i \in 0 .. N : i \in A
    BY ONLY <1>1, <2>1, <2>2, UpTo
  <2> QED
    BY <2>3 DEF A
<1>8. N \in 0 .. N
  BY <1>1
<1> QED
  BY <1>2, <1>3, <1>7, <1>8 DEF N

LEMMA OfSelects ==
  ASSUME NEW es \in Seq(Events), NEW a, NEW b
  PROVE  \E u : Selects(u, es, a, b)
<1> DEFINE N == Len(es)
           Good(n) == \E u \in [0 .. n -> Seq(Events)] :
                        u[0] = << >> /\ \A i \in 1 .. n : u[i] = Picked(u[i - 1], es[i], a, b)
           A == {n \in 0 .. N : Good(n)}
<1>1. N \in Nat /\ \A i \in 1 .. N : es[i] \in Events
  OBVIOUS
<1>0. N = Len(es)
  OBVIOUS
<1> HIDE DEF N
<1>2. 0 \in A
  <2> DEFINE u == [i \in 0 .. 0 |-> << >>]
  <2>1. u \in [0 .. 0 -> Seq(Events)] /\ u[0] = << >>
        /\ \A i \in 1 .. 0 : u[i] = Picked(u[i - 1], es[i], a, b)
    OBVIOUS
  <2>2. Good(0)
    BY <2>1
  <2> HIDE DEF Good
  <2> QED
    BY <1>1, <2>2
<1>3. ASSUME NEW n \in 0 .. N, n \in A, n < N
      PROVE  n + 1 \in A
  <2>1. PICK u \in [0 .. n -> Seq(Events)] :
          u[0] = << >> /\ \A i \in 1 .. n : u[i] = Picked(u[i - 1], es[i], a, b)
    BY <1>3
  <2> DEFINE w == [i \in 0 .. n + 1 |-> IF i = n + 1 THEN Picked(u[n], es[n + 1], a, b) ELSE u[i]]
  <2>2. n + 1 \in 0 .. N /\ n + 1 \in 1 .. N /\ n \in Nat
    BY <1>1, <1>3
  <2>3. es[n + 1] \in Events /\ u[n] \in Seq(Events)
    BY <1>1, <2>1, <2>2
  <2>4. Picked(u[n], es[n + 1], a, b) \in Seq(Events)
    BY <2>3 DEF Picked
  <2>5. w \in [0 .. n + 1 -> Seq(Events)] /\ w[0] = << >>
    BY <2>1, <2>2, <2>4
  <2>6. ASSUME NEW i \in 1 .. n + 1
        PROVE  w[i] = Picked(w[i - 1], es[i], a, b)
    <3>1. /\ i \in 0 .. n + 1 /\ i - 1 \in 0 .. n + 1 /\ i - 1 # n + 1
          /\ i # n + 1 => i \in 1 .. n
          /\ i = n + 1 => i - 1 = n
      BY <2>2
    <3>2. w[i - 1] = u[i - 1] /\ w[i] = IF i = n + 1 THEN Picked(u[n], es[n + 1], a, b) ELSE u[i]
      BY <3>1
    <3> HIDE DEF w
    <3> QED
      BY <2>1, <3>1, <3>2
  <2> HIDE DEF w
  <2>7. Good(n + 1)
    BY <2>5, <2>6
  <2> HIDE DEF Good
  <2> QED
    BY <2>2, <2>7
<1> HIDE DEF A
<1>4. \A n \in 0 .. N : n \in A
  BY ONLY <1>1, <1>2, <1>3, UpTo
<1>5. Good(N)
  <2>1. N \in A
    BY <1>1, <1>4
  <2> HIDE DEF Good
  <2> QED
    BY ONLY <2>1 DEF A
<1> QED
  BY <1>0, <1>5 DEF Selects

LEMMA OfEmpty ==
  ASSUME NEW a, NEW b
  PROVE  Of(<< >>, a, b) = << >>
<1>1. << >> \in Seq(Events)
  OBVIOUS
<1>2. PICK u : Selects(u, << >>, a, b)
  BY <1>1, OfSelects
<1>3. u[Len(<< >>)] = << >>
  BY <1>2 DEF Selects
<1>4. Of(<< >>, a, b) = u[Len(<< >>)]
  BY ONLY <1>1, <1>2, OfIs
<1> QED
  BY ONLY <1>3, <1>4

LEMMA OfType ==
  ASSUME NEW es \in Seq(Events), NEW a, NEW b
  PROVE  Of(es, a, b) \in Seq(Events)
BY OfIs, OfSelects

LEMMA OfAppend ==
  ASSUME NEW es \in Seq(Events), NEW ev \in Events, NEW a, NEW b
  PROVE  Of(Append(es, ev), a, b) = Picked(Of(es, a, b), ev, a, b)
<1>1. PICK u : Selects(u, es, a, b)
  BY OfSelects
<1> DEFINE N == Len(es)
           r == Append(es, ev)
           w == [i \in 0 .. N + 1 |-> IF i = N + 1 THEN Picked(u[N], ev, a, b) ELSE u[i]]
<1>2. N \in Nat /\ r \in Seq(Events) /\ Len(r) = N + 1 /\ r[N + 1] = ev
      /\ \A i \in 1 .. N : r[i] = es[i]
  OBVIOUS
<1>3. /\ u \in [0 .. N -> Seq(Events)] /\ u[0] = << >>
      /\ \A i \in 1 .. N : u[i] = Picked(u[i - 1], es[i], a, b)
  BY <1>1 DEF Selects
<1> HIDE DEF N, r
<1>4. Picked(u[N], ev, a, b) \in Seq(Events)
  BY <1>2, <1>3 DEF Picked
<1>5. w \in [0 .. N + 1 -> Seq(Events)] /\ w[0] = << >>
  BY <1>2, <1>3, <1>4
<1>6. ASSUME NEW i \in 1 .. N + 1
      PROVE  w[i] = Picked(w[i - 1], r[i], a, b)
  <2>1. /\ i \in 0 .. N + 1 /\ i - 1 \in 0 .. N + 1 /\ i - 1 # N + 1
        /\ i # N + 1 => i \in 1 .. N
        /\ i = N + 1 => i - 1 = N
    BY <1>2
  <2>2. w[i - 1] = u[i - 1] /\ w[i] = IF i = N + 1 THEN Picked(u[N], ev, a, b) ELSE u[i]
    BY <2>1
  <2>3. i # N + 1 => r[i] = es[i] /\ u[i] = Picked(u[i - 1], es[i], a, b)
    BY <1>2, <1>3, <2>1
  <2> HIDE DEF w
  <2> QED
    BY <1>2, <2>1, <2>2, <2>3
<1>7. w[N + 1] = Picked(u[N], ev, a, b)
  BY <1>2
<1> HIDE DEF w
<1>8. Selects(w, r, a, b)
  BY <1>2, <1>5, <1>6 DEF Selects
<1>9. Of(r, a, b) = w[N + 1] /\ Of(es, a, b) = u[N]
  BY <1>1, <1>2, <1>8, OfIs DEF N
<1> QED
  BY <1>7, <1>9 DEF r

LEMMA OfTail ==
  ASSUME NEW es \in Seq(Events), es # << >>, NEW a, NEW b
  PROVE  IF es[1].src = a /\ es[1].dst = b
         THEN Of(es, a, b) # << >> /\ Tail(Of(es, a, b)) = Of(Tail(es), a, b)
         ELSE Of(es, a, b) = Of(Tail(es), a, b)
<1> DEFINE r == Tail(es)
           N == Len(es)
           first == Picked(<< >>, es[1], a, b)
<1>1. N \in Nat /\ N >= 1 /\ r \in Seq(Events) /\ Len(r) = N - 1 /\ es[1] \in Events
      /\ (\A i \in 1 .. N - 1 : r[i] = es[i + 1]) /\ (\A i \in 1 .. N : es[i] \in Events)
  OBVIOUS
<1>2. PICK u : Selects(u, r, a, b)
  BY <1>1, OfSelects
<1>3. /\ u \in [0 .. N - 1 -> Seq(Events)] /\ u[0] = << >>
      /\ \A i \in 1 .. N - 1 : u[i] = Picked(u[i - 1], r[i], a, b)
  BY <1>1, <1>2 DEF Selects
<1>4. first \in Seq(Events)
  BY <1>1 DEF Picked
<1> DEFINE w == [i \in 0 .. N |-> IF i = 0 THEN << >> ELSE first \o u[i - 1]]
<1>5. w \in [0 .. N -> Seq(Events)] /\ w[0] = << >>
  <2> HIDE DEF first, N, r
  <2>1. \A i \in 0 .. N : i # 0 => u[i - 1] \in Seq(Events)
    BY <1>1, <1>3
  <2>2. \A s, t \in Seq(Events) : s \o t \in Seq(Events)
    OBVIOUS
  <2>3. << >> \in Seq(Events)
    OBVIOUS
  <2> QED
    BY <1>1, <1>4, <2>1, <2>2, <2>3
<1>6. ASSUME NEW i \in 1 .. N
      PROVE  w[i] = Picked(w[i - 1], es[i], a, b)
  <2>1. CASE i = 1
    <3>0. 1 \in 0 .. N /\ 0 \in 0 .. N /\ 1 - 1 = 0
      BY <1>1
    <3> HIDE DEF N, r
    <3>1. w[1] = first \o << >> /\ w[0] = << >>
      <4> HIDE DEF first
      <4>1. w[1] = first \o u[1 - 1] /\ w[0] = << >>
        BY ONLY <3>0
      <4> HIDE DEF w
      <4> QED
        BY ONLY <1>3, <3>0, <4>1
    <3>2. first \o << >> = first
      <4> HIDE DEF first
      <4> QED
        BY ONLY <1>4
    <3>3. w[1] = Picked(w[0], es[1], a, b)
      <4> HIDE DEF w
      <4> QED
        BY ONLY <3>1, <3>2 DEF first
    <3> HIDE DEF w
    <3> QED
      BY <2>1, <3>0, <3>3
  <2>2. CASE i # 1
    <3> HIDE DEF first, N, r
    <3>1. /\ i - 1 \in 1 .. N - 1 /\ i - 1 \in 0 .. N - 1 /\ i - 1 \in 0 .. N /\ i - 1 # 0
          /\ i - 1 - 1 \in 0 .. N - 1 /\ i - 1 + 1 = i /\ i \in 0 .. N /\ i # 0
      BY <1>1, <2>2
    <3>2. /\ w[i] = first \o u[i - 1] /\ w[i - 1] = first \o u[i - 1 - 1]
      BY <3>1
    <3>3. u[i - 1] = Picked(u[i - 1 - 1], es[i], a, b) /\ u[i - 1 - 1] \in Seq(Events)
          /\ es[i] \in Events
      BY <1>1, <1>3, <3>1
    <3>4. \A s, t \in Seq(Events), ev \in Events :
            first \in Seq(Events) => first \o Append(t, ev) = Append(first \o t, ev)
      OBVIOUS
    <3> HIDE DEF w
    <3>5. CASE es[i].src = a /\ es[i].dst = b
      <4>1. u[i - 1] = Append(u[i - 1 - 1], es[i])
        BY <3>3, <3>5 DEF Picked
      <4>2. w[i] = Append(w[i - 1], es[i])
        BY <1>4, <3>2, <3>3, <3>4, <4>1
      <4> QED
        BY <3>5, <4>2 DEF Picked
    <3>6. CASE ~(es[i].src = a /\ es[i].dst = b)
      BY <3>2, <3>3, <3>6 DEF Picked
    <3> QED
      BY <3>5, <3>6
  <2> QED
    BY <2>1, <2>2
<1>7. w[N] = first \o u[N - 1]
  BY <1>1
<1> HIDE DEF w
<1>8. Selects(w, es, a, b)
  BY <1>5, <1>6 DEF Selects
<1>9. Of(es, a, b) = first \o Of(r, a, b) /\ Of(r, a, b) \in Seq(Events)
  <2>1. Of(es, a, b) = w[N]
    BY <1>8, OfIs
  <2>2. Of(r, a, b) = u[N - 1] /\ Of(r, a, b) \in Seq(Events)
    BY <1>1, <1>2, OfIs
  <2> QED
    BY <1>7, <2>1, <2>2
<1>10. CASE es[1].src = a /\ es[1].dst = b
  <2>1. first = << es[1] >>
    BY <1>10 DEF Picked
  <2> HIDE DEF first, r
  <2>2. \A s \in Seq(Events), ev \in Events : <<ev>> \o s # << >> /\ Tail(<<ev>> \o s) = s
    OBVIOUS
  <2>3. Of(es, a, b) # << >> /\ Tail(Of(es, a, b)) = Of(r, a, b)
    BY <1>1, <1>9, <2>1, <2>2
  <2> QED
    BY <1>10, <2>3 DEF r
<1>11. CASE ~(es[1].src = a /\ es[1].dst = b)
  <2>1. first = << >>
    BY <1>11 DEF Picked
  <2> HIDE DEF first, r
  <2>2. \A s \in Seq(Events) : << >> \o s = s
    OBVIOUS
  <2>3. Of(es, a, b) = Of(r, a, b)
    BY <1>9, <2>1, <2>2
  <2> QED
    BY <1>11, <2>3 DEF r
<1> QED
  BY <1>10, <1>11
-----------------------------------------------------------------------------
(* What the queues map to, and an extension of a sequence.                 *)
BasicPending == [a \in Routers |-> [b \in Routers |-> Of(basic, a, b)]]

PerRouterPending == [a \in Routers |-> [b \in Routers |-> Of(Deque(b), a, b)]]

LEMMA GrownByPicking ==
  ASSUME NEW s \in Seq(Events), NEW ev \in Events, NEW a, NEW b
  PROVE  Basic!IsPrefix(s, s) /\ Basic!IsPrefix(s, Picked(s, ev, a, b))
<1>1. \A t \in Seq(Events) : Len(t) \in Nat /\ SubSeq(t, 1, Len(t)) = SubSeq(t, 1, Len(t))
  OBVIOUS
<1>2. Basic!IsPrefix(s, s)
  BY <1>1 DEF Basic!IsPrefix
<1>3. Len(s) <= Len(Append(s, ev)) /\ SubSeq(s, 1, Len(s)) = SubSeq(Append(s, ev), 1, Len(s))
  OBVIOUS
<1>4. Basic!IsPrefix(s, Append(s, ev))
  BY <1>3 DEF Basic!IsPrefix
<1> QED
  BY <1>2, <1>4 DEF Picked

(* Push is a Send for BasicEventQueue ...                                  *)
LEMMA BasicPush ==
  ASSUME Addressed, QueuesInv, NEW ev \in Events, Push(ev)
  PROVE  Basic!Send
<1>1. basic \in Seq(Events) /\ basic' = Append(basic, ev)
  BY DEF QueuesInv, Push
<1>2. ASSUME NEW a \in Routers, NEW b \in Routers
      PROVE  Basic!IsPrefix(BasicPending[a][b], BasicPending'[a][b])
  <2>1. BasicPending[a][b] = Of(basic, a, b) /\ BasicPending'[a][b] = Of(basic', a, b)
    BY DEF BasicPending
  <2>2. Of(basic', a, b) = Picked(Of(basic, a, b), ev, a, b)
    BY <1>1, OfAppend
  <2>3. Of(basic, a, b) \in Seq(Events)
    BY <1>1, OfType
  <2> QED
    BY <2>1, <2>2, <2>3, GrownByPicking
<1> QED
  BY <1>2 DEF BasicPending, Basic!Send, Basic!Grown

(* ... a pop the handling of an event ...                                  *)
Pendings == [Routers -> [Routers -> Seq(Events)]]

LEMMA PendingType ==
  QueuesInv => BasicPending \in Pendings /\ PerRouterPending \in Pendings
<1> SUFFICES ASSUME QueuesInv
             PROVE  BasicPending \in Pendings /\ PerRouterPending \in Pendings
  OBVIOUS
<1>1. basic \in Seq(Events) /\ \A b \in Routers : Deque(b) \in Seq(Events)
  BY DEF QueuesInv, Deque
<1> QED
  BY <1>1, OfType DEF BasicPending, PerRouterPending, Pendings

(* One event less in the channel from a to b of p is a step of a queue.    *)
Taken(p, p2, a, b) ==
  \A x, y \in Routers : p2[x][y] = IF x = a /\ y = b THEN Tail(p[a][b]) ELSE p[x][y]

Handled(p, p2, a, b) ==
  LET rest == [p EXCEPT ![a][b] = Tail(@)]
  IN  /\ Basic!Grown(rest, p2)
      /\ \A c \in Routers \ {b} : p2[c] = rest[c]

LEMMA TakenOnce ==
  ASSUME NEW p \in Pendings, NEW a \in Routers, NEW b \in Routers, NEW p2 \in Pendings,
         Taken(p, p2, a, b)
  PROVE  Handled(p, p2, a, b)
<1> DEFINE rest == [p EXCEPT ![a][b] = Tail(@)]
<1>1. \A x, y \in Routers : rest[x][y] = p2[x][y]
  <2> SUFFICES ASSUME NEW x \in Routers, NEW y \in Routers
               PROVE  rest[x][y] = p2[x][y]
    OBVIOUS
  <2>1. p2[x][y] = IF x = a /\ y = b THEN Tail(p[a][b]) ELSE p[x][y]
    BY DEF Taken
  <2>2. rest[x][y] = IF x = a /\ y = b THEN Tail(p[a][b]) ELSE p[x][y]
    <3>1. CASE x = a
      BY <3>1 DEF Pendings
    <3>2. CASE x # a
      BY <3>2 DEF Pendings
    <3> QED
      BY <3>1, <3>2
  <2> QED
    BY <2>1, <2>2
<1>2. \A x \in Routers : rest[x] = p2[x]
  <2> SUFFICES ASSUME NEW x \in Routers
               PROVE  rest[x] = p2[x]
    OBVIOUS
  <2>1. rest[x] = [y \in Routers |-> rest[x][y]] /\ p2[x] = [y \in Routers |-> p2[x][y]]
    BY DEF Pendings
  <2> QED
    BY <1>1, <2>1
<1> HIDE DEF rest
<1>3. \A x, y \in Routers : Basic!IsPrefix(rest[x][y], p2[x][y])
  <2> SUFFICES ASSUME NEW x \in Routers, NEW y \in Routers
               PROVE  Basic!IsPrefix(rest[x][y], p2[x][y])
    OBVIOUS
  <2>1. p2[x][y] \in Seq(Events)
    BY DEF Pendings
  <2>2. Len(p2[x][y]) <= Len(p2[x][y])
    BY <2>1
  <2> QED
    BY <1>1, <2>2 DEF Basic!IsPrefix
<1> QED
  BY <1>2, <1>3 DEF Handled, rest, Basic!Grown

LEMMA BasicHandles ==
  ASSUME Addressed, QueuesInv, QueuesInv', BasicPop
  PROVE  \E a, b \in Routers : Basic!Handle(a, b)
<1> DEFINE ev == basic[1]
           a == ev.src
           b == ev.dst
<1>1. /\ basic \in Seq(Events) /\ basic # << >> /\ basic' = Tail(basic)
      /\ ev \in Events
  <2>1. basic \in Seq(Events) /\ basic # << >> /\ basic' = Tail(basic)
    BY DEF QueuesInv, BasicPop
  <2> QED
    BY <2>1
<1>2. a \in Routers /\ b \in Routers
  BY <1>1 DEF Addressed
<1>3. BasicPending \in Pendings /\ BasicPending' \in Pendings
  <2>1. BasicPending \in Pendings /\ (BasicPending \in Pendings)'
    BY QueuesInv, QueuesInv', PendingType, PTL
  <2> QED
    BY <2>1 DEF Pendings
<1> DEFINE p  == BasicPending
           p2 == BasicPending'
<1> HIDE DEF a, b
<1>4. \A x, y \in Routers :
        /\ p[x][y] = Of(basic, x, y) /\ p2[x][y] = Of(basic', x, y)
        /\ IF x = a /\ y = b
           THEN Of(basic, x, y) # << >> /\ Tail(Of(basic, x, y)) = Of(basic', x, y)
           ELSE Of(basic, x, y) = Of(basic', x, y)
  BY <1>1, OfTail DEF BasicPending, a, b
<1>5. p \in Pendings /\ p2 \in Pendings
  BY <1>3
<1> HIDE DEF p, p2
<1>6. Taken(p, p2, a, b) /\ p[a][b] # << >>
  <2>1. ASSUME NEW x \in Routers, NEW y \in Routers
        PROVE  p2[x][y] = IF x = a /\ y = b THEN Tail(p[a][b]) ELSE p[x][y]
    <3>1. /\ p[x][y] = Of(basic, x, y) /\ p2[x][y] = Of(basic', x, y)
          /\ IF x = a /\ y = b
             THEN Of(basic, x, y) # << >> /\ Tail(Of(basic, x, y)) = Of(basic', x, y)
             ELSE Of(basic, x, y) = Of(basic', x, y)
      BY ONLY <1>4, x \in Routers, y \in Routers
    <3> QED
      BY ONLY <3>1
  <2>2. p[a][b] # << >>
    BY ONLY <1>2, <1>4
  <2> QED
    BY ONLY <2>1, <2>2 DEF Taken
<1>7. Handled(p, p2, a, b)
  BY ONLY <1>2, <1>5, <1>6, TakenOnce
<1>8. Basic!Handle(a, b)
  BY <1>6, <1>7 DEF Handled, p, p2, BasicPending, Basic!Handle
<1> QED
  BY <1>2, <1>8

LEMMA BasicStep ==
  ASSUME Addressed
  PROVE  QueuesInv /\ QueuesInv' /\ [Next]_vars
           => [Basic!Next \/ Basic!Clear \/ \E b \in Routers : Basic!Batch(b)]_BasicPending
<1> SUFFICES ASSUME QueuesInv, QueuesInv', [Next]_vars
             PROVE  \/ Basic!Next
                    \/ Basic!Clear
                    \/ BasicPending' = BasicPending
  OBVIOUS
<1>1. ASSUME NEW ev \in Events, Push(ev)
      PROVE  Basic!Next
  BY <1>1, BasicPush DEF Basic!Next
<1>2. CASE BasicPop
  BY <1>2, BasicHandles DEF Basic!Next
<1>3. CASE PerRouterPop \/ (\E r \in Routers : PopEventsFor(r)) \/ UNCHANGED vars
  <2>1. basic' = basic
    BY <1>3 DEF PerRouterPop, PopEventsFor, vars
  <2> QED
    BY <2>1 DEF BasicPending
<1>4. CASE Clear
  <2>1. basic' = << >>
    BY <1>4 DEF Clear
  <2>2. BasicPending' = [a \in Routers |-> [b \in Routers |-> << >>]]
    BY <2>1, OfEmpty DEF BasicPending
  <2> QED
    BY <2>2 DEF BasicPending, Basic!Clear, Basic!Empty
<1> QED
  BY <1>1, <1>2, <1>3, <1>4 DEF Next
-----------------------------------------------------------------------------
(* The same for PerRouterQueue; only the deque of one router changes.      *)
LEMMA DequesAfter ==
  ASSUME NEW r, NEW d, events' = With(r, d) \/ (events' = Without(r) /\ d = << >>)
  PROVE  \A b : Deque(b)' = IF b = r THEN d ELSE Deque(b)
<1>1. CASE events' = With(r, d)
  BY <1>1 DEF With, Deque, Keys
<1>2. CASE events' = Without(r) /\ d = << >>
  BY <1>2 DEF Without, Deque, Keys
<1> QED
  BY <1>1, <1>2

LEMMA PerRouterPush ==
  ASSUME Addressed, QueuesInv, NEW ev \in Events, Push(ev)
  PROVE  PerRouter!Send
<1> DEFINE r == ev.dst
<1>1. \A b \in Routers : Deque(b) \in Seq(Events)
  BY DEF QueuesInv, Deque
<1>2. \A b \in Routers : Deque(b)' = IF b = r THEN Append(Deque(r), ev) ELSE Deque(b)
  BY DequesAfter DEF Push
<1> HIDE DEF r
<1>3. ASSUME NEW a \in Routers, NEW b \in Routers
      PROVE  Basic!IsPrefix(PerRouterPending[a][b], PerRouterPending'[a][b])
  <2>1. /\ PerRouterPending[a][b] = Of(Deque(b), a, b)
        /\ PerRouterPending'[a][b] = Of(Deque(b)', a, b)
    BY DEF PerRouterPending
  <2>2. Of(Deque(b), a, b) \in Seq(Events)
    BY <1>1, OfType
  <2>3. CASE b = r
    <3>1. Of(Deque(b)', a, b) = Picked(Of(Deque(b), a, b), ev, a, b)
      <4>1. Deque(b)' = Append(Deque(b), ev) /\ Deque(b) \in Seq(Events)
        BY <1>1, <1>2, <2>3
      <4>2. Of(Append(Deque(b), ev), a, b) = Picked(Of(Deque(b), a, b), ev, a, b)
        BY ONLY <4>1, ev \in Events, OfAppend
      <4> QED
        BY ONLY <4>1, <4>2
    <3> QED
      BY <2>1, <2>2, <3>1, GrownByPicking
  <2>4. CASE b # r
    <3>1. Deque(b)' = Deque(b)
      BY <1>2, <2>4
    <3> QED
      BY <2>1, <2>2, <3>1, GrownByPicking
  <2> QED
    BY <2>3, <2>4
<1> QED
  BY <1>3 DEF PerRouterPending, PerRouter!Send, PerRouter!Grown,
              Basic!IsPrefix, PerRouter!IsPrefix

LEMMA PerRouterHandles ==
  ASSUME Addressed, QueuesInv, QueuesInv', PerRouterPop
  PROVE  \E a, b \in Routers : PerRouter!Handle(a, b)
<1> DEFINE b == FirstKey
           es == Deque(b)
           a == es[1].src
<1>1. /\ b \in Routers /\ es \in Seq(Events) /\ es # << >>
      /\ \A i \in DOMAIN es : es[i].dst = b
      /\ \A y \in Routers : Deque(y)' = IF y = b THEN Tail(es) ELSE Deque(y)
  <2>1. /\ b \in Keys /\ b \in Routers
        /\ events[b] \in Seq(Events) /\ events[b] # << >>
        /\ \A i \in DOMAIN events[b] : events[b][i].dst = b
        /\ Tail(events[b]) = << >> => events' = Without(b)
        /\ Tail(events[b]) # << >> => events' = With(b, Tail(events[b]))
    BY PopStep
  <2>2. es = events[b]
    BY <2>1 DEF Deque
  <2> HIDE DEF b, es
  <2> DEFINE d == Tail(es)
  <2>3. events' = With(b, d) \/ (events' = Without(b) /\ d = << >>)
    BY <2>1, <2>2
  <2> HIDE DEF d
  <2>4. \A y : Deque(y)' = IF y = b THEN d ELSE Deque(y)
    BY <2>3, DequesAfter
  <2> QED
    BY <2>1, <2>2, <2>4 DEF d
<1> HIDE DEF b, es
<1>2. es[1] \in Events /\ a \in Routers /\ es[1].dst = b
  <2>1. 1 \in DOMAIN es /\ es[1] \in Events
    BY <1>1
  <2> QED
    BY <1>1, <2>1 DEF Addressed
<1>3. PerRouterPending \in Pendings /\ PerRouterPending' \in Pendings
  <2>1. PerRouterPending \in Pendings /\ (PerRouterPending \in Pendings)'
    BY QueuesInv, QueuesInv', PendingType, PTL
  <2> QED
    BY <2>1 DEF Pendings
<1> DEFINE p  == PerRouterPending
           p2 == PerRouterPending'
<1>4. \A x, y \in Routers : p[x][y] = Of(Deque(y), x, y) /\ p2[x][y] = Of(Deque(y)', x, y)
  BY DEF PerRouterPending
<1>5. \A x \in Routers :
        IF x = a THEN Of(es, x, b) # << >> /\ Tail(Of(es, x, b)) = Of(Tail(es), x, b)
        ELSE Of(es, x, b) = Of(Tail(es), x, b)
  BY <1>1, <1>2, OfTail
<1>6. p \in Pendings /\ p2 \in Pendings
  BY <1>3
<1> HIDE DEF p, p2, a
<1>7. Taken(p, p2, a, b) /\ p[a][b] # << >>
  <2>0. es = Deque(b)
    BY DEF es
  <2>1. ASSUME NEW x \in Routers, NEW y \in Routers
        PROVE  p2[x][y] = IF x = a /\ y = b THEN Tail(p[a][b]) ELSE p[x][y]
    <3>1. p[x][y] = Of(Deque(y), x, y) /\ p2[x][y] = Of(Deque(y)', x, y)
      BY ONLY <1>4, x \in Routers, y \in Routers
    <3>2. Deque(y)' = IF y = b THEN Tail(es) ELSE Deque(y)
      BY ONLY <1>1, y \in Routers
    <3>3. CASE y = b
      <4>1. IF x = a THEN Tail(Of(es, x, b)) = Of(Tail(es), x, b)
            ELSE Of(es, x, b) = Of(Tail(es), x, b)
        BY ONLY <1>5, x \in Routers
      <4> QED
        BY ONLY <2>0, <3>1, <3>2, <3>3, <4>1
    <3>4. CASE y # b
      BY ONLY <3>1, <3>2, <3>4
    <3> QED
      BY <3>3, <3>4
  <2>2. p[a][b] # << >>
    BY ONLY <1>1, <1>2, <1>4, <1>5, <2>0
  <2> QED
    BY ONLY <2>1, <2>2 DEF Taken
<1>8. Handled(p, p2, a, b)
  BY ONLY <1>1, <1>2, <1>6, <1>7, TakenOnce
<1>9. PerRouter!Handle(a, b)
  BY <1>7, <1>8 DEF Handled, p, p2, PerRouterPending, PerRouter!Handle, Basic!Grown,
                    PerRouter!Grown, Basic!IsPrefix, PerRouter!IsPrefix
<1> QED
  BY <1>1, <1>2, <1>9

LEMMA PerRouterBatch ==
  ASSUME QueuesInv, NEW r \in Routers, PopEventsFor(r)
  PROVE  PerRouter!Batch(r)
<1>1. \A b : Deque(b)' = IF b = r THEN << >> ELSE Deque(b)
  BY DequesAfter DEF PopEventsFor
<1>2. \A a, b \in Routers :
        PerRouterPending'[a][b] = IF b = r THEN << >> ELSE PerRouterPending[a][b]
  BY <1>1, OfEmpty DEF PerRouterPending
<1>3. PerRouterPending' = [a \in Routers |-> [PerRouterPending[a] EXCEPT ![r] = << >>]]
  BY <1>2 DEF PerRouterPending
<1> QED
  BY <1>3 DEF PerRouterPending, PerRouter!Batch

LEMMA PerRouterStep ==
  ASSUME Addressed
  PROVE  QueuesInv /\ QueuesInv' /\ [Next]_vars
           => [PerRouter!Next \/ PerRouter!Clear
                 \/ \E b \in Routers : PerRouter!Batch(b)]_PerRouterPending
<1> SUFFICES ASSUME QueuesInv, QueuesInv', [Next]_vars
             PROVE  \/ PerRouter!Next
                    \/ PerRouter!Clear
                    \/ \E b \in Routers : PerRouter!Batch(b)
                    \/ PerRouterPending' = PerRouterPending
  OBVIOUS
<1>1. ASSUME NEW ev \in Events, Push(ev)
      PROVE  PerRouter!Next
  BY <1>1, PerRouterPush DEF PerRouter!Next
<1>2. CASE PerRouterPop
  BY <1>2, PerRouterHandles DEF PerRouter!Next
<1>3. CASE BasicPop \/ UNCHANGED vars
  <2>1. events' = events
    BY <1>3 DEF BasicPop, vars
  <2> QED
    BY <2>1 DEF PerRouterPending, Deque, Keys
<1>4. ASSUME NEW r \in Routers, PopEventsFor(r)
      PROVE  PerRouter!Batch(r)
  BY <1>4, PerRouterBatch
<1>5. CASE Clear
  <2>1. \A b : Deque(b)' = << >>
    BY <1>5 DEF Clear, Deque, Keys
  <2>2. PerRouterPending' = [a \in Routers |-> [b \in Routers |-> << >>]]
    BY <2>1, OfEmpty DEF PerRouterPending
  <2> QED
    BY <2>2 DEF PerRouterPending, PerRouter!Clear, PerRouter!Empty
<1> QED
  BY <1>1, <1>2, <1>3, <1>4, <1>5 DEF Next

(* Both queues are event queues: the events from one router to another are *)
(* handed out in the order in which they were pushed, each once, and only  *)
(* pop_events_for and clear take more than one event away.                 *)
THEOREM QueuesKeepOrder ==
  ASSUME Addressed
  PROVE  Spec => QueuesAreChannels
<1>1. Spec => []QueuesInv
  BY QueuesAlways
<1>2. Init => Basic!Init
  BY OfEmpty DEF Init, Basic!Init, Basic!Empty
<1>3. Init => PerRouter!Init
  BY OfEmpty DEF Init, PerRouter!Init, PerRouter!Empty, Deque, Keys
<1>4. QueuesInv /\ QueuesInv' /\ [Next]_vars
        => [Basic!Next \/ Basic!Clear \/ \E b \in Routers : Basic!Batch(b)]_BasicPending
  BY BasicStep
<1>5. QueuesInv /\ QueuesInv' /\ [Next]_vars
        => [PerRouter!Next \/ PerRouter!Clear
              \/ \E b \in Routers : PerRouter!Batch(b)]_PerRouterPending
  BY PerRouterStep
<1>6. Spec => Basic!QueueSpec
  BY <1>1, <1>2, <1>4, PTL DEF Spec, Basic!QueueSpec, BasicPending
<1>7. Spec => PerRouter!QueueSpec
  BY <1>1, <1>3, <1>5, PTL DEF Spec, PerRouter!QueueSpec, PerRouterPending
<1> QED
  BY <1>6, <1>7 DEF QueuesAreChannels, BasicImplementsChannels, PerRouterImplementsChannels

(***************************************************************************)
(* SimpleTimingModel, for any pairs, payloads and bounds, and any delays,  *)
(* as long as no two events of a session arrive at the same time.          *)
(***************************************************************************)
(* Two events of a session do not arrive at the same time: the collision   *)
(* offset is positive, and no sampled time is that of the last event.      *)
NoTies == Delays \subseteq Int /\ Collision \in Int /\ Collision > 0 /\ ~Ties

Msg(k, e, time) == [key |-> k, kind |-> "bgp", e |-> e, p |-> time]

(* The session k with the queued events evs, the entry m, and the events s *)
(* that were sent and r that were received: those queued are the ones sent *)
(* after the last one received, at times at that get later and later.      *)
InSession(k, evs, m, s, r) ==
  /\ s \in Seq(Payloads) /\ r \in Seq(Payloads)
  /\ Len(r) <= Len(s)
  /\ \A j \in 1 .. Len(r) : r[j] = s[j]
  /\ m.num = Len(s) - Len(r)
  /\ m.time \in Int
  /\ \E at \in [Len(r) + 1 .. Len(s) -> Int] :
       /\ \A i, j \in Len(r) + 1 .. Len(s) : i < j => at[i] < at[j]
       /\ evs = {Msg(k, s[j], at[j]) : j \in Len(r) + 1 .. Len(s)}
       /\ m.num > 0 => at[Len(s)] = m.time

(* TcpOrdering is not inductive; that every session is in order is. *)
OrderInv ==
  /\ now \in Int
  /\ messages \in [Pairs -> [num : Int, time : Int]]
  /\ sent \in [Pairs -> Seq(Payloads)]
  /\ received \in [Pairs -> Seq(Payloads)]
  /\ \A ev \in q : ev.kind = "bgp" => ev.key \in Pairs
  /\ \A ev \in q : ev.p \in Int
  /\ \A k \in Pairs : InSession(k, Queued(k), messages[k], sent[k], received[k])

(* A session without any event. *)
LEMMA EmptySession ==
  ASSUME NEW k, NEW m, m.num = 0, m.time = 0,
         NEW s, s \in Seq(Payloads), Len(s) = 0
  PROVE  InSession(k, {}, m, s, s)
<1> DEFINE l == Len(s)
           at == [j \in l + 1 .. l |-> 0]
<1>1. l = 0 /\ l + 1 .. l = {}
  OBVIOUS
<1> HIDE DEF l
<1>2. at \in [l + 1 .. l -> Int]
  OBVIOUS
<1>3. \A i, j \in l + 1 .. l : i < j => at[i] < at[j]
  BY <1>1
<1>4. {} = {Msg(k, s[j], at[j]) : j \in l + 1 .. l}
  BY <1>1
<1>5. /\ ~(m.num > 0) /\ m.num = l - l /\ m.time \in Int /\ l <= l
      /\ \A j \in 1 .. l : s[j] = s[j]
  BY <1>1
<1> QED
  BY <1>2, <1>3, <1>4, <1>5 DEF InSession, l

(* An event is pushed that arrives later than the last one of its session. *)
LEMMA PushSession ==
  ASSUME NEW k, NEW evs, NEW m, NEW s, NEW r, InSession(k, evs, m, s, r),
         NEW e \in Payloads, NEW time \in Int, m.num > 0 => time > m.time
  PROVE  InSession(k, evs \cup {Msg(k, e, time)}, [num |-> m.num + 1, time |-> time],
                   Append(s, e), r)
<1> DEFINE n == Len(r)
           l == Len(s)
           t == Append(s, e)
<1>1. /\ n \in Nat /\ l \in Nat /\ n <= l
      /\ t \in Seq(Payloads) /\ Len(t) = l + 1 /\ r \in Seq(Payloads)
      /\ \A j \in 1 .. l : t[j] = s[j]
      /\ t[l + 1] = e
      /\ \A j \in 1 .. n : r[j] = s[j]
      /\ m.num = l - n
  BY DEF InSession
<1>2. PICK at \in [n + 1 .. l -> Int] :
        /\ \A i, j \in n + 1 .. l : i < j => at[i] < at[j]
        /\ evs = {Msg(k, s[j], at[j]) : j \in n + 1 .. l}
        /\ m.num > 0 => at[l] = m.time
  BY DEF InSession
<1> DEFINE later == [j \in n + 1 .. l + 1 |-> IF j = l + 1 THEN time ELSE at[j]]
<1> HIDE DEF n, l, t
<1>3. /\ \A j \in n + 1 .. l + 1 : j \in n + 1 .. l \/ j = l + 1
      /\ \A j \in n + 1 .. l : j \in n + 1 .. l + 1 /\ j # l + 1 /\ j \in 1 .. l /\ j <= l
      /\ l + 1 \in n + 1 .. l + 1
      /\ n + 1 .. l # {} => l \in n + 1 .. l /\ m.num > 0
  BY <1>1
<1>4. later \in [n + 1 .. l + 1 -> Int]
  BY <1>2, <1>3
<1>5. /\ \A j \in n + 1 .. l : later[j] = at[j]
      /\ later[l + 1] = time
  BY <1>3
<1> HIDE DEF later
<1>6. \A j \in n + 1 .. l : at[j] < time
  <2> TAKE j \in n + 1 .. l
  <2>1. at[l] = m.time /\ time > m.time /\ l \in n + 1 .. l
    BY <1>2, <1>3
  <2>2. at[j] \in Int /\ at[l] \in Int /\ j \in Int /\ l \in Int /\ j <= l
    BY <1>1, <1>2, <1>3, <2>1
  <2>3. j = l \/ at[j] < at[l]
    BY <1>2, <2>1, <2>2
  <2> QED
    BY <2>1, <2>2, <2>3
<1>7. ASSUME NEW i \in n + 1 .. l + 1, NEW j \in n + 1 .. l + 1, i < j
      PROVE  later[i] < later[j]
  <2>1. i \in n + 1 .. l
    BY <1>1, <1>7
  <2>2. CASE j = l + 1
    BY <1>5, <1>6, <2>1, <2>2
  <2>3. CASE j # l + 1
    BY <1>2, <1>3, <1>5, <1>7, <2>1, <2>3
  <2> QED
    BY <2>2, <2>3
<1>8. evs \cup {Msg(k, e, time)} = {Msg(k, t[j], later[j]) : j \in n + 1 .. l + 1}
  <2>1. \A j \in n + 1 .. l : Msg(k, t[j], later[j]) = Msg(k, s[j], at[j])
    BY <1>1, <1>3, <1>5
  <2>2. Msg(k, t[l + 1], later[l + 1]) = Msg(k, e, time)
    BY <1>1, <1>5
  <2> QED
    BY <1>2, <1>3, <2>1, <2>2
<1>9. /\ n <= l + 1 /\ m.num + 1 = (l + 1) - n
      /\ \A j \in 1 .. n : j \in 1 .. l
  BY <1>1
<1>10. \A j \in 1 .. n : r[j] = t[j]
  BY <1>1, <1>9
<1>11. /\ Len(r) = n /\ Len(t) = l + 1 /\ later[l + 1] = time
  BY <1>1, <1>5 DEF n
<1> QED
  BY <1>1, <1>4, <1>7, <1>8, <1>9, <1>10, <1>11 DEF InSession, t

(* The first event to arrive is popped, which is the first of its session. *)
LEMMA PopSession ==
  ASSUME NEW k, NEW evs, NEW m, NEW s, NEW r, InSession(k, evs, m, s, r),
         NEW ev \in evs, \A other \in evs : ev.p <= other.p
  PROVE  InSession(k, evs \ {ev}, [num |-> m.num - 1, time |-> m.time],
                   s, Append(r, ev.e))
<1> DEFINE n == Len(r)
           l == Len(s)
           t == Append(r, ev.e)
<1>1. /\ n \in Nat /\ l \in Nat /\ n <= l
      /\ s \in Seq(Payloads) /\ r \in Seq(Payloads)
      /\ \A j \in 1 .. n : r[j] = s[j]
      /\ m.num = l - n /\ m.time \in Int
  BY DEF InSession
<1>2. PICK at \in [n + 1 .. l -> Int] :
        /\ \A i, j \in n + 1 .. l : i < j => at[i] < at[j]
        /\ evs = {Msg(k, s[j], at[j]) : j \in n + 1 .. l}
        /\ m.num > 0 => at[l] = m.time
  BY DEF InSession
<1> HIDE DEF n, l
<1>3. PICK first \in n + 1 .. l : ev = Msg(k, s[first], at[first])
  BY <1>2
<1>4. \A j \in n + 1 .. l : Msg(k, s[j], at[j]).p = at[j] /\ Msg(k, s[j], at[j]).e = s[j]
  BY DEF Msg
<1>5. first = n + 1
  <2>1. n + 1 \in n + 1 .. l /\ first \in Int /\ n + 1 <= first /\ n + 1 \in Int
    BY <1>1
  <2>2. at[first] <= at[n + 1]
    BY <1>2, <1>3, <1>4, <2>1
  <2>3. at[first] \in Int /\ at[n + 1] \in Int
    BY <1>2, <2>1
  <2>4. ~(n + 1 < first)
    <3>1. n + 1 < first => at[n + 1] < at[first]
      BY <1>2, <2>1
    <3> QED
      BY <2>2, <2>3, <3>1
  <2> QED
    BY <2>1, <2>4
<1>6. /\ n + 1 <= l /\ n + 1 \in 1 .. l /\ n + 1 \in n + 1 .. l
      /\ \A j \in n + 2 .. l : j \in n + 1 .. l /\ j # n + 1 /\ n + 1 < j
      /\ \A j \in n + 1 .. l : j = n + 1 \/ j \in n + 2 .. l
      /\ (n + 1) + 1 = n + 2
  BY <1>1, <1>3, <1>5
<1>7. ev.e = s[n + 1] /\ ev.e \in Payloads
  <2>1. ev.e = s[n + 1]
    BY <1>3, <1>4, <1>5
  <2> QED
    BY <1>1, <1>6, <2>1, ElementOfSeq DEF l
<1>8. /\ t \in Seq(Payloads) /\ Len(t) = n + 1
      /\ \A j \in 1 .. n : t[j] = r[j]
      /\ t[n + 1] = ev.e
  BY <1>1, <1>7 DEF n
<1> HIDE DEF t
<1>9. \A j \in 1 .. n + 1 : t[j] = s[j]
  <2> TAKE j \in 1 .. n + 1
  <2>1. j \in 1 .. n \/ j = n + 1
    BY <1>1
  <2> QED
    BY <1>1, <1>7, <1>8, <2>1
<1> DEFINE rest == [j \in n + 2 .. l |-> at[j]]
<1>10. rest \in [n + 2 .. l -> Int] /\ \A j \in n + 2 .. l : rest[j] = at[j]
  BY <1>2, <1>6
<1> HIDE DEF rest
<1>11. \A i, j \in n + 2 .. l : i < j => rest[i] < rest[j]
  BY <1>2, <1>6, <1>10
<1>12. evs \ {ev} = {Msg(k, s[j], rest[j]) : j \in n + 2 .. l}
  <2>1. \A j \in n + 2 .. l : Msg(k, s[j], at[j]) # ev
    <3> TAKE j \in n + 2 .. l
    <3>1. at[n + 1] < at[j] /\ at[n + 1] \in Int /\ at[j] \in Int
      BY <1>2, <1>6
    <3>2. at[n + 1] # at[j]
      BY <3>1
    <3>3. Msg(k, s[j], at[j]).p = at[j] /\ ev.p = at[n + 1]
      BY <1>3, <1>4, <1>5, <1>6
    <3> QED
      BY <3>2, <3>3
  <2>2. ev = Msg(k, s[n + 1], at[n + 1])
    BY <1>3, <1>5
  <2>3. \A j \in n + 2 .. l : Msg(k, s[j], rest[j]) = Msg(k, s[j], at[j])
    BY <1>10
  <2> QED
    BY <1>2, <1>6, <2>1, <2>2, <2>3
<1>13. m.num - 1 = l - (n + 1) /\ (m.num - 1 > 0 => l \in n + 2 .. l /\ m.num > 0)
  BY <1>1
<1>14. m.num - 1 > 0 => rest[l] = m.time
  BY <1>2, <1>10, <1>13
<1>15. Len(s) = l /\ Len(t) + 1 = n + 2
  BY <1>6, <1>8 DEF l
<1> QED
  BY <1>1, <1>6, <1>8, <1>9, <1>10, <1>11, <1>12, <1>13, <1>14, <1>15 DEF InSession, t

(* As many events are queued as were sent and not received. *)
LEMMA CountSession ==
  ASSUME NEW k, NEW evs, NEW m, NEW s, NEW r, InSession(k, evs, m, s, r)
  PROVE  Cardinality(evs) = Len(s) - Len(r) /\ m.num = Len(s) - Len(r)
<1> DEFINE n == Len(r)
           l == Len(s)
<1>1. n \in Nat /\ l \in Nat /\ n <= l /\ m.num = l - n
  BY DEF InSession
<1>2. PICK at \in [n + 1 .. l -> Int] :
        /\ \A i, j \in n + 1 .. l : i < j => at[i] < at[j]
        /\ evs = {Msg(k, s[j], at[j]) : j \in n + 1 .. l}
  BY DEF InSession
<1> HIDE DEF n, l
<1> DEFINE f == [j \in n + 1 .. l |-> Msg(k, s[j], at[j])]
<1>3. \A i, j \in n + 1 .. l : at[i] = at[j] => i = j
  <2> TAKE i, j \in n + 1 .. l
  <2>1. at[i] \in Int /\ at[j] \in Int /\ i \in Int /\ j \in Int
    BY <1>1, <1>2
  <2>2. (i < j => at[i] < at[j]) /\ (j < i => at[j] < at[i])
    BY <1>2
  <2> QED
    BY <2>1, <2>2
<1>4. \A i, j \in n + 1 .. l : f[i] = f[j] => i = j
  <2> TAKE i, j \in n + 1 .. l
  <2>1. f[i].p = at[i] /\ f[j].p = at[j]
    BY DEF Msg
  <2> QED
    BY <1>3, <2>1
<1>5. f \in Bijection(n + 1 .. l, evs)
  <2>1. f \in [n + 1 .. l -> evs]
    BY <1>2
  <2>2. \A y \in evs : \E j \in n + 1 .. l : f[j] = y
    BY <1>2
  <2> HIDE DEF f
  <2> QED
    BY <1>4, <2>1, <2>2 DEF Bijection, Injection, Surjection, IsInjective
<1>6. IsFiniteSet(n + 1 .. l) /\ Cardinality(n + 1 .. l) = l - n
  <2>1. n + 1 \in Int /\ l \in Int
    BY <1>1
  <2>2. /\ IsFiniteSet(n + 1 .. l)
        /\ Cardinality(n + 1 .. l) = IF n + 1 > l THEN 0 ELSE l - (n + 1) + 1
    BY <2>1, FS_Interval
  <2> QED
    BY <1>1, <2>2
<1>7. ExistsBijection(n + 1 .. l, evs)
  BY <1>5 DEF ExistsBijection
<1> QED
  BY <1>1, <1>6, <1>7, FS_Bijection DEF n, l

LEMMA OrderInit == TimingInit => OrderInv
<1> SUFFICES ASSUME TimingInit PROVE OrderInv
  OBVIOUS
<1>1. /\ q = {} /\ now = 0
      /\ messages = [k \in Pairs |-> [num |-> 0, time |-> 0]]
      /\ sent = [k \in Pairs |-> << >>] /\ received = [k \in Pairs |-> << >>]
  BY DEF TimingInit
<1>2. << >> \in Seq(Payloads) /\ Len(<< >>) = 0
  OBVIOUS
<1>3. \A k \in Pairs : Queued(k) = {}
  BY <1>1 DEF Queued
<1>4. \A k \in Pairs : InSession(k, Queued(k), messages[k], sent[k], received[k])
  <2> TAKE k \in Pairs
  <2>1. messages[k].num = 0 /\ messages[k].time = 0
    BY <1>1
  <2>2. sent[k] \in Seq(Payloads) /\ Len(sent[k]) = 0 /\ received[k] = sent[k]
    BY <1>1, <1>2
  <2> QED
    BY <1>3, <2>1, <2>2, EmptySession
<1> QED
  BY <1>1, <1>2, <1>4 DEF OrderInv

LEMMA ClearOrder == OrderInv /\ TimingClear => OrderInv'
<1> SUFFICES ASSUME TimingClear PROVE OrderInv'
  OBVIOUS
<1>1. /\ q' = {} /\ now' = 0
      /\ messages' = [k \in Pairs |-> [num |-> 0, time |-> 0]]
      /\ sent' = [k \in Pairs |-> << >>] /\ received' = [k \in Pairs |-> << >>]
  BY DEF TimingClear
<1>2. << >> \in Seq(Payloads) /\ Len(<< >>) = 0
  OBVIOUS
<1>3. \A k \in Pairs : Queued(k)' = {}
  BY <1>1 DEF Queued
<1>4. \A k \in Pairs : InSession(k, Queued(k)', messages'[k], sent'[k], received'[k])
  <2> TAKE k \in Pairs
  <2>1. messages'[k].num = 0 /\ messages'[k].time = 0
    BY <1>1
  <2>2. sent'[k] \in Seq(Payloads) /\ Len(sent'[k]) = 0 /\ received'[k] = sent'[k]
    BY <1>1, <1>2
  <2> QED
    BY <1>3, <2>1, <2>2, EmptySession
<1> QED
  BY <1>1, <1>2, <1>4 DEF OrderInv

LEMMA PushBgpOrder ==
  ASSUME NoTies, OrderInv, NEW k \in Pairs, NEW e \in Payloads, NEW d \in Delays,
         PushBgp(k, e, d)
  PROVE  OrderInv'
<1> DEFINE m == messages[k]
           time == InOrder(m, now + d)
           msg == Msg(k, e, time)
<1>1. /\ messages' = [messages EXCEPT ![k] = [num |-> m.num + 1, time |-> time]]
      /\ q' = q \cup {msg}
      /\ sent' = [sent EXCEPT ![k] = Append(@, e)]
      /\ now' = now /\ received' = received
      /\ m.num > 0 => now + d # m.time
  BY DEF PushBgp, NoTies, Msg
<1>2. /\ now \in Int /\ d \in Int /\ m \in [num : Int, time : Int]
      /\ sent \in [Pairs -> Seq(Payloads)]
      /\ messages \in [Pairs -> [num : Int, time : Int]]
  BY DEF OrderInv, NoTies
<1>3. now + d \in Int /\ m.num \in Int /\ m.time \in Int
  BY <1>2
<1>4. time \in Int /\ (m.num > 0 => time > m.time)
  BY <1>1, <1>3 DEF InOrder, NoTies
<1> HIDE DEF m, time
<1>5. msg.key = k /\ msg.kind = "bgp" /\ msg.p = time
  BY DEF Msg
<1> HIDE DEF msg
<1>6. /\ Queued(k)' = Queued(k) \cup {msg}
      /\ \A other \in Pairs \ {k} : Queued(other)' = Queued(other)
  BY <1>1, <1>5 DEF Queued
<1>7. InSession(k, Queued(k)', messages'[k], sent'[k], received'[k])
  <2>1. InSession(k, Queued(k), m, sent[k], received[k])
    BY DEF OrderInv, m
  <2>2. InSession(k, Queued(k) \cup {msg}, [num |-> m.num + 1, time |-> time],
                  Append(sent[k], e), received[k])
    BY <1>4, <2>1, PushSession DEF msg
  <2>3. /\ messages'[k] = [num |-> m.num + 1, time |-> time]
        /\ sent'[k] = Append(sent[k], e)
        /\ received'[k] = received[k]
    BY <1>1, <1>2
  <2> QED
    BY <1>6, <2>2, <2>3
<1>8. \A other \in Pairs \ {k} :
        InSession(other, Queued(other)', messages'[other], sent'[other], received'[other])
  <2> TAKE other \in Pairs \ {k}
  <2>1. /\ messages'[other] = messages[other] /\ sent'[other] = sent[other]
        /\ received'[other] = received[other]
    BY <1>1, <1>2
  <2> QED
    BY <1>6, <2>1 DEF OrderInv
<1>9. /\ messages' \in [Pairs -> [num : Int, time : Int]]
      /\ sent' \in [Pairs -> Seq(Payloads)]
  <2>1. [num |-> m.num + 1, time |-> time] \in [num : Int, time : Int]
    BY <1>3, <1>4 DEF m
  <2>2. Append(sent[k], e) \in Seq(Payloads)
    BY <1>2
  <2> QED
    BY <1>1, <1>2, <2>1, <2>2
<1>10. /\ now' \in Int /\ received' \in [Pairs -> Seq(Payloads)]
       /\ \A ev \in q' : ev.kind = "bgp" => ev.key \in Pairs
       /\ \A ev \in q' : ev.p \in Int
  BY <1>1, <1>4, <1>5 DEF OrderInv
<1> QED
  BY <1>7, <1>8, <1>9, <1>10 DEF OrderInv

LEMMA PushOspfOrder ==
  ASSUME NoTies, OrderInv, NEW k \in Pairs, NEW e \in Payloads, NEW d \in Delays,
         PushOspf(k, e, d)
  PROVE  OrderInv'
<1> DEFINE msg == [key |-> k, kind |-> "ospf", e |-> e, p |-> now + d]
<1>1. /\ q' = q \cup {msg}
      /\ UNCHANGED <<messages, now, sent, received>>
  BY DEF PushOspf
<1>2. msg.kind # "bgp" /\ msg.p \in Int
  BY DEF OrderInv, NoTies
<1> HIDE DEF msg
<1>3. \A s \in Pairs : Queued(s)' = Queued(s)
  BY <1>1, <1>2 DEF Queued
<1> QED
  BY <1>1, <1>2, <1>3 DEF OrderInv

LEMMA PopOrder ==
  ASSUME OrderInv, NEW ev \in q, Pop(ev)
  PROVE  OrderInv'
<1> DEFINE k == ev.key
<1>1. /\ \A other \in q : ev.p <= other.p
      /\ q' = q \ {ev} /\ now' = ev.p /\ sent' = sent
  BY DEF Pop
<1>2. /\ now' \in Int /\ sent' \in [Pairs -> Seq(Payloads)]
      /\ \A other \in q' : other.kind = "bgp" => other.key \in Pairs
      /\ \A other \in q' : other.p \in Int
  BY <1>1 DEF OrderInv
<1>3. CASE ev.kind # "bgp"
  <2>1. UNCHANGED <<messages, received>>
    BY <1>3 DEF Pop
  <2>2. \A s \in Pairs : Queued(s)' = Queued(s)
    BY <1>1, <1>3 DEF Queued
  <2> QED
    BY <1>1, <1>2, <2>1, <2>2 DEF OrderInv
<1>4. CASE ev.kind = "bgp"
  <2>1. /\ messages' = [messages EXCEPT ![k].num = @ - 1]
        /\ received' = [received EXCEPT ![k] = Append(@, ev.e)]
    BY <1>4 DEF Pop
  <2>2. /\ k \in Pairs /\ messages \in [Pairs -> [num : Int, time : Int]]
        /\ received \in [Pairs -> Seq(Payloads)]
    BY <1>4 DEF OrderInv
  <2>3. ev \in Queued(k)
    BY <1>4 DEF Queued
  <2> HIDE DEF k
  <2>4. /\ Queued(k)' = Queued(k) \ {ev}
        /\ \A other \in Pairs \ {k} : Queued(other)' = Queued(other)
    BY <1>1, <2>3 DEF Queued
  <2>5. InSession(k, Queued(k), messages[k], sent[k], received[k])
    BY <2>2 DEF OrderInv
  <2>6. InSession(k, Queued(k) \ {ev},
                  [num |-> messages[k].num - 1, time |-> messages[k].time],
                  sent[k], Append(received[k], ev.e))
    <3>1. \A other \in Queued(k) : ev.p <= other.p
      BY <1>1 DEF Queued
    <3> QED
      BY <2>3, <2>5, <3>1, PopSession
  <2>7. /\ messages'[k] = [num |-> messages[k].num - 1, time |-> messages[k].time]
        /\ received'[k] = Append(received[k], ev.e)
    BY <2>1, <2>2
  <2>8. InSession(k, Queued(k)', messages'[k], sent'[k], received'[k])
    BY <1>1, <2>4, <2>6, <2>7
  <2>9. \A other \in Pairs \ {k} :
          InSession(other, Queued(other)', messages'[other], sent'[other], received'[other])
    <3> TAKE other \in Pairs \ {k}
    <3>1. messages'[other] = messages[other] /\ received'[other] = received[other]
      BY <2>1, <2>2
    <3> QED
      BY <1>1, <2>4, <3>1 DEF OrderInv
  <2>10. /\ messages' \in [Pairs -> [num : Int, time : Int]]
         /\ received' \in [Pairs -> Seq(Payloads)]
    <3>1. received'[k] \in Seq(Payloads)
      BY <2>6, <2>7 DEF InSession
    <3> QED
      BY <2>1, <2>2, <2>7, <3>1
  <2> QED
    BY <1>2, <2>8, <2>9, <2>10 DEF OrderInv
<1> QED
  BY <1>3, <1>4

LEMMA OrderInductive == NoTies /\ OrderInv /\ [TimingNext]_timing_vars => OrderInv'
<1> SUFFICES ASSUME NoTies, OrderInv, [TimingNext]_timing_vars PROVE OrderInv'
  OBVIOUS
<1>1. ASSUME NEW k \in Pairs, NEW e \in Payloads, NEW d \in Delays,
             PushBgp(k, e, d) \/ PushOspf(k, e, d)
      PROVE  OrderInv'
  BY <1>1, PushBgpOrder, PushOspfOrder
<1>2. ASSUME NEW ev \in q, Pop(ev)
      PROVE  OrderInv'
  BY <1>2, PopOrder
<1>3. CASE TimingClear
  BY <1>3, ClearOrder
<1>4. CASE UNCHANGED timing_vars
  <2>1. \A k \in Pairs : Queued(k)' = Queued(k)
    BY <1>4 DEF timing_vars, Queued
  <2> QED
    BY <1>4, <2>1 DEF timing_vars, OrderInv
<1> QED
  BY <1>1, <1>2, <1>3, <1>4 DEF TimingNext

(* Events of a session are handed out in the order in which they were      *)
(* sent, whatever the delays, if none of them arrive at the same time.     *)
THEOREM TcpOrder ==
  ASSUME NoTies
  PROVE  TimingSpec => []TcpOrdering
<1>1. OrderInv => TcpOrdering
  <2> SUFFICES ASSUME OrderInv, NEW k \in Pairs
               PROVE  IsPrefix(received[k], sent[k])
    BY DEF TcpOrdering
  <2> DEFINE r == received[k]
             s == sent[k]
             n == Len(r)
  <2>1. /\ r \in Seq(Payloads) /\ s \in Seq(Payloads) /\ n <= Len(s)
        /\ \A j \in 1 .. n : r[j] = s[j]
    BY DEF OrderInv, InSession
  <2> HIDE DEF r, s
  <2>2. n \in Nat /\ Len(s) \in Nat /\ n \in 0 .. Len(s)
    BY <2>1
  <2>3. SubSeq(r, 1, n) = r
    BY <2>1, SubSeqFull
  <2>4. SubSeq(s, 1, n) \in Seq(Payloads) /\ Len(SubSeq(s, 1, n)) = n
        /\ \A j \in 1 .. n : SubSeq(s, 1, n)[j] = s[j]
    BY <2>1, <2>2
  <2>5. SubSeq(s, 1, n) = r
    BY <2>1, <2>4, SeqEqual
  <2> QED
    BY <2>1, <2>3, <2>5 DEF IsPrefix, r, s
<1>2. OrderInv /\ [TimingNext]_timing_vars => OrderInv'
  BY OrderInductive
<1> QED
  BY <1>1, <1>2, OrderInit, PTL DEF TimingSpec

(* The counter of a session is exact, and no event of it is dropped by the *)
(* queue, although the queue holds equal events once only.                 *)
THEOREM CountsExact ==
  ASSUME NoTies
  PROVE  TimingSpec => []SessionCountExact
<1>1. OrderInv => SessionCountExact
  <2> SUFFICES ASSUME OrderInv, NEW k \in Pairs
               PROVE  /\ Cardinality(Queued(k)) = messages[k].num
                      /\ Cardinality(Queued(k)) = Len(sent[k]) - Len(received[k])
    BY DEF SessionCountExact
  <2>1. InSession(k, Queued(k), messages[k], sent[k], received[k])
    BY DEF OrderInv
  <2> DEFINE evs == Queued(k)
             m == messages[k]
             s == sent[k]
             r == received[k]
  <2>2. InSession(k, evs, m, s, r)
    BY <2>1
  <2> HIDE DEF evs, m, s, r
  <2>3. Cardinality(evs) = m.num /\ Cardinality(evs) = Len(s) - Len(r)
    BY <2>2, CountSession
  <2> QED
    BY <2>3 DEF evs, m, s, r
<1>2. OrderInv /\ [TimingNext]_timing_vars => OrderInv'
  BY OrderInductive
<1> QED
  BY <1>1, <1>2, OrderInit, PTL DEF TimingSpec

(* Every session keeps its order, and its entry counts its events.         *)
THEOREM SessionsAreExact ==
  ASSUME NoTies
  PROVE  TimingSpec => []SessionsExact
<1>1. TcpOrdering /\ SessionCountExact => SessionsExact
  BY DEF SessionsExact
<1> QED
  BY <1>1, TcpOrder, CountsExact, PTL
=============================================================================
