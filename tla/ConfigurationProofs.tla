-------------------------- MODULE ConfigurationProofs --------------------------
(***************************************************************************)
(* Theorems about route maps and configurations, for any network, clauses, *)
(* modifiers and goals: whatever edited them, the lists of clauses do what *)
(* is documented, the configuration keeps its shape, set_config fails only *)
(* for what was hidden from it and otherwise reaches its goal, and the     *)
(* network does with a modifier what Config::apply_modifier says.          *)
(***************************************************************************)
EXTENDS ConfigurationProperties, FiniteSetTheorems, NaturalsInduction,
        WellFoundedInduction, TLAPS

LEMMA NatMinimum ==
  ASSUME NEW T, T \subseteq Nat, T # {}
  PROVE  \E x \in T : \A y \in T : x <= y
<1> DEFINE R == OpToRel(<, Nat)
<1>1. IsWellFoundedOn(R, Nat)
  BY NatLessThanWellFounded
<1> HIDE DEF R
<1>2. PICK x \in T : \A y \in T : ~ (<<y, x>> \in R)
  BY <1>1, WFMin
<1>3. \A i, j \in Nat : i < j => <<i, j>> \in R
  BY DEF R, OpToRel
<1>4. ASSUME NEW y \in T
      PROVE  x <= y
  <2>1. x \in Nat /\ y \in Nat
    OBVIOUS
  <2>2. ~(y < x)
    BY <1>2, <1>3, <2>1
  <2> QED
    BY <2>1, <2>2
<1> QED
  BY <1>4

(* Induction, for a set of numbers.                                        *)
LEMMA UpTo ==
  ASSUME NEW N \in Nat, NEW A, 0 \in A, \A k \in 0 .. N : k \in A /\ k < N => k + 1 \in A
  PROVE  \A k \in 0 .. N : k \in A
<1> DEFINE T == {k \in 0 .. N : k \notin A}
<1> SUFFICES ASSUME T # {} PROVE FALSE
  OBVIOUS
<1>1. PICK k \in T : \A l \in T : k <= l
  <2>1. T \subseteq Nat
    OBVIOUS
  <2> HIDE DEF T
  <2> QED
    BY <2>1, NatMinimum
<1>2. k \in 0 .. N /\ k # 0
  OBVIOUS
<1>3. k - 1 \in 0 .. N /\ k - 1 < N /\ k - 1 \notin T
  BY <1>1, <1>2
<1>4. k - 1 \in A
  BY <1>3
<1>5. k - 1 + 1 \in A
  BY <1>3, <1>4
<1> QED
  BY <1>2, <1>5
-----------------------------------------------------------------------------
(* What a list of clauses does.  RouteMapList::apply looks at every clause *)
(* in turn, the reader of the documentation jumps from one to the next.    *)
Start(e) == [entry |-> {e}, done |-> FALSE, wait_for |-> None]

Scan(g, maps, e) ==
  g = [i \in 0 .. Len(maps) |-> IF i = 0 THEN Start(e) ELSE Visit(g[i - 1], maps[i])]

Begin(e) == [at |-> 1, entry |-> {e}]

Reading(g, maps, e) ==
  g = [k \in 0 .. Len(maps) |-> IF k = 0 THEN Begin(e) ELSE Follow(g[k - 1], maps)]

(* The recursive functions are what they are defined to be.                *)
LEMMA ScanExists ==
  ASSUME NEW maps, Len(maps) \in Nat, NEW e
  PROVE  \E g : Scan(g, maps, e) /\ ApplyList(maps, e) = g[Len(maps)].entry
<1> DEFINE N == Len(maps)
           Upto(g, n) == g = [i \in 0 .. n |->
                                IF i = 0 THEN Start(e) ELSE Visit(g[i - 1], maps[i])]
           A == {n \in Nat : \E g : Upto(g, n)}
<1> HIDE DEF N
<1>0. N \in Nat
  BY DEF N
<1>1. 0 \in A
  <2> DEFINE g == [i \in 0 .. 0 |-> Start(e)]
  <2>1. Upto(g, 0)
    OBVIOUS
  <2> HIDE DEF g
  <2> QED
    BY <2>1
<1>2. ASSUME NEW n \in Nat, n \in A
      PROVE  n + 1 \in A
  <2>1. PICK g : Upto(g, n)
    BY <1>2
  <2> DEFINE h == [i \in 0 .. n + 1 |-> IF i = n + 1 THEN Visit(g[n], maps[n + 1]) ELSE g[i]]
  <2>2. ASSUME NEW i \in 0 .. n + 1
        PROVE  h[i] = IF i = 0 THEN Start(e) ELSE Visit(h[i - 1], maps[i])
    <3>1. CASE i = 0
      BY <2>1, <3>1
    <3>2. CASE i = n + 1
      <4>1. i # 0 /\ i - 1 = n /\ n \in 0 .. n + 1 /\ n # n + 1
        BY <3>2
      <4> QED
        BY <3>2, <4>1
    <3>3. CASE i # 0 /\ i # n + 1
      <4>1. i \in 0 .. n /\ i - 1 \in 0 .. n + 1 /\ i - 1 # n + 1
        BY <3>3
      <4>2. h[i] = g[i] /\ h[i - 1] = g[i - 1]
        BY <3>3, <4>1
      <4>3. g[i] = Visit(g[i - 1], maps[i])
        BY <2>1, <3>3, <4>1
      <4> QED
        BY <3>3, <4>2, <4>3
    <3> QED
      BY <3>1, <3>2, <3>3
  <2>3. h = [i \in 0 .. n + 1 |-> h[i]]
    OBVIOUS
  <2> HIDE DEF h
  <2>4. Upto(h, n + 1)
    BY <2>2, <2>3
  <2> QED
    BY <2>4
<1>3. N \in A
  <2>1. \A k \in 0 .. N : k \in A /\ k < N => k + 1 \in A
    BY <1>2
  <2> HIDE DEF A
  <2>2. \A k \in 0 .. N : k \in A
    BY ONLY <1>0, <1>1, <2>1, UpTo
  <2> QED
    BY <1>0, <2>2
<1>4. PICK f : Upto(f, N)
  BY <1>3
<1> DEFINE c == CHOOSE g : Upto(g, N)
<1>5. Upto(c, N)
  BY <1>4
<1>6. ApplyList(maps, e) = c[N].entry
  BY DEF ApplyList, Start, N
<1> HIDE DEF c
<1>7. Scan(c, maps, e)
  BY <1>5 DEF Scan, N
<1> QED
  BY <1>6, <1>7 DEF N

LEMMA ReadingExists ==
  ASSUME NEW maps, Len(maps) \in Nat, NEW e
  PROVE  \E g : Reading(g, maps, e) /\ Described(maps, e) = g[Len(maps)].entry
<1> DEFINE N == Len(maps)
           Upto(g, n) == g = [i \in 0 .. n |->
                                IF i = 0 THEN Begin(e) ELSE Follow(g[i - 1], maps)]
           A == {n \in Nat : \E g : Upto(g, n)}
<1> HIDE DEF N
<1>0. N \in Nat
  BY DEF N
<1>1. 0 \in A
  <2> DEFINE g == [i \in 0 .. 0 |-> Begin(e)]
  <2>1. Upto(g, 0)
    OBVIOUS
  <2> HIDE DEF g
  <2> QED
    BY <2>1
<1>2. ASSUME NEW n \in Nat, n \in A
      PROVE  n + 1 \in A
  <2>1. PICK g : Upto(g, n)
    BY <1>2
  <2> DEFINE h == [i \in 0 .. n + 1 |-> IF i = n + 1 THEN Follow(g[n], maps) ELSE g[i]]
  <2>2. ASSUME NEW i \in 0 .. n + 1
        PROVE  h[i] = IF i = 0 THEN Begin(e) ELSE Follow(h[i - 1], maps)
    <3>1. CASE i = 0
      BY <2>1, <3>1
    <3>2. CASE i = n + 1
      <4>1. i # 0 /\ i - 1 = n /\ n \in 0 .. n + 1 /\ n # n + 1
        BY <3>2
      <4> QED
        BY <3>2, <4>1
    <3>3. CASE i # 0 /\ i # n + 1
      <4>1. i \in 0 .. n /\ i - 1 \in 0 .. n + 1 /\ i - 1 # n + 1
        BY <3>3
      <4>2. h[i] = g[i] /\ h[i - 1] = g[i - 1]
        BY <3>3, <4>1
      <4>3. g[i] = Follow(g[i - 1], maps)
        BY <2>1, <3>3, <4>1
      <4> QED
        BY <3>3, <4>2, <4>3
    <3> QED
      BY <3>1, <3>2, <3>3
  <2>3. h = [i \in 0 .. n + 1 |-> h[i]]
    OBVIOUS
  <2> HIDE DEF h
  <2>4. Upto(h, n + 1)
    BY <2>2, <2>3
  <2> QED
    BY <2>4
<1>3. N \in A
  <2>1. \A k \in 0 .. N : k \in A /\ k < N => k + 1 \in A
    BY <1>2
  <2> HIDE DEF A
  <2>2. \A k \in 0 .. N : k \in A
    BY ONLY <1>0, <1>1, <2>1, UpTo
  <2> QED
    BY <1>0, <2>2
<1>4. PICK f : Upto(f, N)
  BY <1>3
<1> DEFINE c == CHOOSE g : Upto(g, N)
<1>5. Upto(c, N)
  BY <1>4
<1>6. Described(maps, e) = c[N].entry
  BY DEF Described, Begin, N
<1> HIDE DEF c
<1>7. Reading(c, maps, e)
  BY <1>5 DEF Reading, N
<1> QED
  BY <1>6, <1>7 DEF N

(* What RouteMapList::apply keeps                                          *)
Status(s) ==
  /\ s = [entry |-> s.entry, done |-> s.done, wait_for |-> s.wait_for]
  /\ s.done \in BOOLEAN

(* What it makes of an entry x when it comes to a clause m that it heeds   *)
After(m, x) ==
  LET r == ApplyMap(m, x)
  IN  [entry |-> r.entry, done |-> r.entry = None \/ r.flow = Exit,
       wait_for |-> IF r.flow.kind = "at" THEN {r.flow.order} ELSE None]

LEMMA VisitFacts ==
  ASSUME NEW s, Status(s), NEW m
  PROVE  /\ Status(Visit(s, m))
         /\ s.done => Visit(s, m) = s
         /\ \A o \in Int :
              ~s.done /\ s.wait_for = {o} /\ m.order \in Int =>
                /\ m.order < o => Visit(s, m) = s
                /\ m.order > o => Visit(s, m).done /\ Visit(s, m).entry = s.entry
         /\ \A x :
              ~s.done /\ s.entry = {x} /\ m.order \in Int
              /\ (s.wait_for = None \/ s.wait_for = {m.order}) =>
                Visit(s, m) = After(m, x)
<1> DEFINE y == CHOOSE x \in s.entry : TRUE
           late == s.wait_for # None /\ m.order < Or100(s.wait_for)
           over == s.wait_for # None /\ m.order > Or100(s.wait_for)
<1>1. Visit(s, m) = IF s.done \/ late THEN s
                    ELSE IF over THEN [s EXCEPT !.done = TRUE] ELSE After(m, y)
  BY DEF Visit, After
<1>2. Status(After(m, y)) /\ Status([s EXCEPT !.done = TRUE]) /\ [s EXCEPT !.done = TRUE].done
      /\ [s EXCEPT !.done = TRUE].entry = s.entry
  <2>1. Status(After(m, y))
    BY DEF Status, After
  <2>2. Status([s EXCEPT !.done = TRUE]) /\ [s EXCEPT !.done = TRUE].done
        /\ [s EXCEPT !.done = TRUE].entry = s.entry
    <3> DEFINE en == s.entry
               wa == s.wait_for
               do == s.done
    <3>1. s = [entry |-> en, done |-> do, wait_for |-> wa]
      BY DEF Status
    <3> HIDE DEF en, wa, do
    <3>a. \A d : [[entry |-> en, done |-> do, wait_for |-> wa] EXCEPT !.done = d]
                 = [entry |-> en, done |-> d, wait_for |-> wa]
      OBVIOUS
    <3>2. [s EXCEPT !.done = TRUE] = [entry |-> en, done |-> TRUE, wait_for |-> wa]
      BY ONLY <3>1, <3>a, Zenon
    <3> DEFINE t == [s EXCEPT !.done = TRUE]
    <3>3. t.entry = en /\ t.done = TRUE /\ t.wait_for = wa /\ s.entry = en
      BY <3>1, <3>2
    <3>4. t = [entry |-> t.entry, done |-> t.done, wait_for |-> t.wait_for]
      BY <3>2, <3>3
    <3> HIDE DEF t
    <3>5. Status(t) /\ t.done /\ t.entry = s.entry
      BY <3>3, <3>4 DEF Status
    <3> QED
      BY <3>5 DEF t
  <2> QED
    BY <2>1, <2>2
<1>3. \A o : Or100({o}) = o /\ {o} # None
  BY DEF Or100, None
<1>4. \A x : s.entry = {x} => y = x
  OBVIOUS
<1> HIDE DEF y
<1>5. Status(Visit(s, m)) /\ (s.done => Visit(s, m) = s)
  BY <1>1, <1>2
<1>6. ASSUME NEW o \in Int, ~s.done, s.wait_for = {o}, m.order \in Int
      PROVE  /\ m.order < o => Visit(s, m) = s
             /\ m.order > o => Visit(s, m).done /\ Visit(s, m).entry = s.entry
  <2>1. (late <=> m.order < o) /\ (over <=> m.order > o)
    BY <1>3, <1>6
  <2>2. ~(m.order < o /\ m.order > o)
    BY <1>6
  <2> HIDE DEF late, over
  <2> QED
    BY <1>1, <1>2, <1>6, <2>1, <2>2
<1>7. ASSUME NEW x, ~s.done, s.entry = {x}, m.order \in Int,
             s.wait_for = None \/ s.wait_for = {m.order}
      PROVE  Visit(s, m) = After(m, x)
  <2>1. ~late /\ ~over
    BY <1>3, <1>7
  <2>2. y = x
    BY <1>4, <1>7
  <2>3. Visit(s, m) = After(m, y)
    BY <1>1, <1>7, <2>1
  <2> QED
    BY <2>2, <2>3
<1> QED
  BY <1>5, <1>6, <1>7

LEMMA VisitSkips ==
  ASSUME NEW s, Status(s), NEW m, m.order \in Int, NEW o \in Int,
         ~s.done, s.wait_for = {o}
  PROVE  /\ m.order < o => Visit(s, m) = s
         /\ m.order > o => Visit(s, m).done /\ Visit(s, m).entry = s.entry
BY VisitFacts

LEMMA VisitActs ==
  ASSUME NEW s, Status(s), NEW m, m.order \in Int, NEW x,
         ~s.done, s.entry = {x}, s.wait_for = None \/ s.wait_for = {m.order}
  PROVE  Visit(s, m) = After(m, x)
<1>1. \A y :
        ~s.done /\ s.entry = {y} /\ m.order \in Int
        /\ (s.wait_for = None \/ s.wait_for = {m.order}) =>
          Visit(s, m) = After(m, y)
  BY ONLY VisitFacts, Status(s)
<1>2. ~s.done /\ s.entry = {x} /\ m.order \in Int
      /\ (s.wait_for = None \/ s.wait_for = {m.order})
  OBVIOUS
<1> QED
  BY ONLY <1>1, <1>2

(* Lists of clauses as the code keeps them                                 *)
Orders(maps) ==
  /\ Len(maps) \in Nat /\ DOMAIN maps = 1 .. Len(maps)
  /\ \A i \in 1 .. Len(maps) : WellTyped(maps[i])
  /\ \A i, j \in 1 .. Len(maps) : i < j => maps[i].order < maps[j].order

LEMMA ScanFacts ==
  ASSUME NEW maps, Orders(maps), NEW e, NEW g, Scan(g, maps, e)
  PROVE  /\ g[0] = Start(e)
         /\ \A i \in 1 .. Len(maps) : g[i] = Visit(g[i - 1], maps[i])
         /\ \A i \in 0 .. Len(maps) : Status(g[i])
<1> DEFINE n == Len(maps)
<1>1. n \in Nat
  BY DEF Orders
<1>2. g[0] = Start(e) /\ \A i \in 1 .. n : g[i] = Visit(g[i - 1], maps[i])
  <2> HIDE DEF n
  <2>1. 0 \in 0 .. n /\ \A i \in 1 .. n : i \in 0 .. n /\ i # 0
    BY <1>1
  <2> QED
    BY <2>1 DEF Scan, n
<1>3. Status(Start(e))
  BY DEF Status, Start
<1> DEFINE A == {i \in 0 .. n : Status(g[i])}
<1> HIDE DEF n
<1>4. \A k \in 0 .. n : k \in A /\ k < n => k + 1 \in A
  <2> SUFFICES ASSUME NEW k \in 0 .. n, k \in A, k < n
               PROVE  k + 1 \in A
    OBVIOUS
  <2>1. k + 1 \in 1 .. n /\ k + 1 - 1 = k /\ k + 1 \in 0 .. n
    BY <1>1
  <2>2. g[k + 1] = Visit(g[k], maps[k + 1])
    BY <1>2, <2>1
  <2> QED
    BY <2>1, <2>2, VisitFacts
<1>5. 0 \in A
  BY <1>1, <1>2, <1>3
<1>6. \A k \in 0 .. n : k \in A
  <2> HIDE DEF A
  <2> QED
    BY ONLY <1>1, <1>4, <1>5, UpTo
<1> QED
  BY <1>2, <1>6 DEF n

(* The scan makes no more changes after clause a: it has exited, or no     *)
(* clause has the order it waits for.                                      *)
Idles(maps, s, a) ==
  \/ s.done
  \/ \E o \in Int : s.wait_for = {o} /\ \A i \in a + 1 .. Len(maps) : maps[i].order # o

LEMMA ScanIdles ==
  ASSUME NEW maps, Orders(maps), NEW e, NEW g, Scan(g, maps, e),
         NEW a \in 0 .. Len(maps), Idles(maps, g[a], a)
  PROVE  g[Len(maps)].entry = g[a].entry
<1> DEFINE n == Len(maps)
           A == {k \in 0 .. n - a : g[a + k].entry = g[a].entry /\ Idles(maps, g[a + k], a + k)}
<1>1. /\ n \in Nat /\ a \in Nat /\ n - a \in Nat
      /\ \A i \in 1 .. n : maps[i].order \in Int
  BY DEF Orders, WellTyped
<1>2. /\ \A i \in 1 .. n : g[i] = Visit(g[i - 1], maps[i])
      /\ \A i \in 0 .. n : Status(g[i])
  BY ScanFacts
<1> HIDE DEF n
<1>3. 0 \in A
  <2>1. 0 \in 0 .. n - a /\ a + 0 = a
    BY <1>1
  <2> QED
    BY <2>1
<1>4. \A k \in 0 .. n - a : k \in A /\ k < n - a => k + 1 \in A
  <2> SUFFICES ASSUME NEW k \in 0 .. n - a, k \in A, k < n - a
               PROVE  k + 1 \in A
    OBVIOUS
  <2> DEFINE i == a + k
  <2>1. /\ i \in 0 .. n /\ i + 1 \in 1 .. n /\ i + 1 - 1 = i /\ k + 1 \in 0 .. n - a
        /\ a + (k + 1) = i + 1 /\ i + 1 \in i + 1 .. n
        /\ \A j \in i + 1 + 1 .. n : j \in i + 1 .. n
    BY ONLY <1>1, k \in 0 .. n - a, k < n - a
  <2> HIDE DEF i
  <2>2. g[i].entry = g[a].entry /\ Idles(maps, g[i], i) /\ Status(g[i])
    BY <1>2, <2>1 DEF i
  <2>3. g[i + 1] = Visit(g[i], maps[i + 1]) /\ maps[i + 1].order \in Int
    BY <1>1, <1>2, <2>1
  <2>4. g[i + 1].entry = g[a].entry /\ Idles(maps, g[i + 1], i + 1)
    <3>1. CASE g[i].done
      <4>1. g[i + 1] = g[i]
        BY <2>2, <2>3, <3>1, VisitFacts
      <4> QED
        BY <2>2, <3>1, <4>1 DEF Idles
    <3>2. CASE ~g[i].done
      <4>1. PICK o \in Int : g[i].wait_for = {o} /\ \A j \in i + 1 .. n : maps[j].order # o
        BY <2>2, <3>2 DEF Idles, n
      <4>2. maps[i + 1].order # o
        BY <2>1, <4>1
      <4>3. /\ maps[i + 1].order < o => g[i + 1] = g[i]
            /\ maps[i + 1].order > o => g[i + 1].done /\ g[i + 1].entry = g[i].entry
        BY <2>2, <2>3, <3>2, <4>1, VisitSkips
      <4>4. maps[i + 1].order < o \/ maps[i + 1].order > o
        BY <2>3, <4>2
      <4>5. CASE maps[i + 1].order < o
        <5>1. \A j \in i + 1 + 1 .. n : maps[j].order # o
          BY <2>1, <4>1
        <5> QED
          BY <2>2, <4>1, <4>3, <4>5, <5>1 DEF Idles, n
      <4>6. CASE maps[i + 1].order > o
        BY <2>2, <4>3, <4>6 DEF Idles
      <4> QED
        BY <4>4, <4>5, <4>6
    <3> QED
      BY <3>1, <3>2
  <2> QED
    BY <2>1, <2>4
<1>5. \A k \in 0 .. n - a : k \in A
  <2> HIDE DEF A
  <2> QED
    BY ONLY <1>1, <1>3, <1>4, UpTo
<1>6. n - a \in 0 .. n - a /\ a + (n - a) = n
  BY <1>1
<1> QED
  BY <1>5, <1>6 DEF n

(* ... and it skips what comes before the clause that it waits for.        *)
LEMMA ScanWaits ==
  ASSUME NEW maps, Orders(maps), NEW e, NEW g, Scan(g, maps, e),
         NEW a \in 0 .. Len(maps), NEW t \in a .. Len(maps), NEW o \in Int,
         ~g[a].done, g[a].wait_for = {o}, \A i \in a + 1 .. t : maps[i].order < o
  PROVE  g[t] = g[a]
<1> DEFINE n == Len(maps)
           A == {k \in 0 .. t - a : g[a + k] = g[a]}
<1>1. /\ n \in Nat /\ a \in Nat /\ t \in Nat /\ t - a \in Nat /\ t <= n
      /\ \A i \in 1 .. n : maps[i].order \in Int
  BY DEF Orders, WellTyped
<1>2. /\ \A i \in 1 .. n : g[i] = Visit(g[i - 1], maps[i])
      /\ \A i \in 0 .. n : Status(g[i])
  BY ScanFacts
<1> HIDE DEF n
<1>3. 0 \in A
  <2>1. 0 \in 0 .. t - a /\ a + 0 = a
    BY <1>1
  <2> QED
    BY <2>1
<1>4. \A k \in 0 .. t - a : k \in A /\ k < t - a => k + 1 \in A
  <2> SUFFICES ASSUME NEW k \in 0 .. t - a, k \in A, k < t - a
               PROVE  k + 1 \in A
    OBVIOUS
  <2> DEFINE i == a + k
  <2>1. /\ i \in 0 .. n /\ i + 1 \in 1 .. n /\ i + 1 - 1 = i /\ k + 1 \in 0 .. t - a
        /\ a + (k + 1) = i + 1 /\ i + 1 \in a + 1 .. t
    BY <1>1
  <2> HIDE DEF i
  <2>2. g[i] = g[a] /\ Status(g[i])
    BY <1>2, <2>1 DEF i
  <2>3. g[i + 1] = Visit(g[i], maps[i + 1]) /\ maps[i + 1].order \in Int
        /\ maps[i + 1].order < o
    BY <1>1, <1>2, <2>1
  <2>4. ~g[i].done /\ g[i].wait_for = {o}
    BY <2>2
  <2>5. g[i + 1] = g[i]
    BY <2>2, <2>3, <2>4, VisitSkips
  <2> QED
    BY <2>1, <2>2, <2>5
<1>5. \A k \in 0 .. t - a : k \in A
  <2> HIDE DEF A
  <2> QED
    BY ONLY <1>1, <1>3, <1>4, UpTo
<1>6. t - a \in 0 .. t - a /\ a + (t - a) = t
  BY <1>1
<1> QED
  BY <1>5, <1>6

(* What After is, by what the clause does                                  *)
Going(E) == [entry |-> E, done |-> FALSE, wait_for |-> None]
Gone(E) == [entry |-> E, done |-> TRUE, wait_for |-> None]

LEMMA AfterFacts ==
  ASSUME NEW m, WellTyped(m), NEW x
  PROVE  /\ ~Matched(m, x) => After(m, x) = Going({x})
         /\ Matched(m, x) /\ m.state = "deny" => After(m, x) = Gone(None)
         /\ Matched(m, x) /\ m.state # "deny" /\ m.flow = Exit => After(m, x) = Gone({Acted(m, x)})
         /\ Matched(m, x) /\ m.state # "deny" /\ m.flow = Continue
              => After(m, x) = Going({Acted(m, x)})
         /\ Matched(m, x) /\ m.state # "deny" /\ m.flow \notin {Exit, Continue}
              => /\ m.flow.order \in Int
                 /\ After(m, x) = [entry |-> {Acted(m, x)}, done |-> FALSE,
                                   wait_for |-> {m.flow.order}]
<1>1. /\ Exit.kind = "exit" /\ Continue.kind = "continue" /\ Exit # Continue
      /\ \A o : ContinueAt(o).kind = "at" /\ ContinueAt(o) # Exit
      /\ \A y : {y} # None
  <2>1. Exit.kind = "exit" /\ Continue.kind = "continue"
    BY DEF Exit, Continue
  <2>2. \A o : ContinueAt(o).kind = "at"
    BY DEF ContinueAt
  <2>3. \A y : {y} # None
    BY DEF None
  <2> QED
    BY <2>1, <2>2, <2>3
<1>2. ASSUME ~Matched(m, x)
      PROVE  After(m, x) = Going({x})
  <2>1. ApplyMap(m, x).flow = Continue /\ ApplyMap(m, x).entry = {x}
    BY <1>2 DEF ApplyMap
  <2> QED
    BY <1>1, <2>1 DEF After, Going
<1>3. ASSUME Matched(m, x), m.state = "deny"
      PROVE  After(m, x) = Gone(None)
  <2>1. ApplyMap(m, x).flow = Exit /\ ApplyMap(m, x).entry = None
    BY <1>3 DEF ApplyMap
  <2> QED
    BY <1>1, <2>1 DEF After, Gone
<1>4. ASSUME Matched(m, x), m.state # "deny"
      PROVE  ApplyMap(m, x).flow = m.flow /\ ApplyMap(m, x).entry = {Acted(m, x)}
  BY <1>4 DEF ApplyMap
<1>5. ASSUME Matched(m, x), m.state # "deny", m.flow = Exit
      PROVE  After(m, x) = Gone({Acted(m, x)})
  BY <1>1, <1>4, <1>5 DEF After, Gone
<1>6. ASSUME Matched(m, x), m.state # "deny", m.flow = Continue
      PROVE  After(m, x) = Going({Acted(m, x)})
  BY <1>1, <1>4, <1>6 DEF After, Going
<1>7. ASSUME Matched(m, x), m.state # "deny", m.flow \notin {Exit, Continue}
      PROVE  /\ m.flow.order \in Int
             /\ After(m, x) = [entry |-> {Acted(m, x)}, done |-> FALSE,
                               wait_for |-> {m.flow.order}]
  <2>1. m.flow = ContinueAt(m.flow.order) /\ m.flow.order \in Int
    BY <1>7 DEF WellTyped
  <2>2. m.flow.kind = "at" /\ m.flow # Exit
    BY <1>1, <2>1
  <2> QED
    BY <1>1, <1>4, <1>7, <2>1, <2>2 DEF After
<1> QED
  BY <1>2, <1>3, <1>5, <1>6, <1>7

(* The scan g and a reader in state s have made the same of the entry; one *)
(* that has not finished is at the clause that the scan heeds next.        *)
Together(maps, g, s) ==
  \/ s.at = Len(maps) + 1 /\ s.entry = g[Len(maps)].entry
  \/ /\ s.at \in 1 .. Len(maps)
     /\ s = [at |-> s.at, entry |-> s.entry]
     /\ \E x : s.entry = {x}
     /\ LET f == g[s.at - 1]
        IN  f.entry = s.entry /\ ~f.done /\ (f.wait_for = None \/ f.wait_for = {maps[s.at].order})

(* The reader goes to clause t, with the entry that the scan has before it *)
Before(maps, g, t, y) ==
  /\ g[t - 1].entry = {y} /\ ~g[t - 1].done
  /\ t \in 1 .. Len(maps) => g[t - 1].wait_for = None \/ g[t - 1].wait_for = {maps[t].order}

LEMMA Arrives ==
  ASSUME NEW maps, Len(maps) \in Nat, NEW g, NEW t \in 1 .. Len(maps) + 1, NEW y,
         Before(maps, g, t, y)
  PROVE  Together(maps, g, [at |-> t, entry |-> {y}])
<1> DEFINE s == [at |-> t, entry |-> {y}]
<1>1. s.at = t /\ s.entry = {y} /\ s = [at |-> s.at, entry |-> s.entry]
  OBVIOUS
<1>2. t = Len(maps) + 1 \/ t \in 1 .. Len(maps)
  OBVIOUS
<1>3. t = Len(maps) + 1 => t - 1 = Len(maps)
  OBVIOUS
<1> HIDE DEF s
<1>4. \E x : s.entry = {x}
  BY <1>1
<1>5. Together(maps, g, s)
  BY <1>1, <1>2, <1>3, <1>4 DEF Together, Before
<1> QED
  BY <1>5 DEF s

LEMMA Halts ==
  ASSUME NEW maps, Orders(maps), NEW e, NEW g, Scan(g, maps, e),
         NEW a \in 0 .. Len(maps), Idles(maps, g[a], a)
  PROVE  Together(maps, g, [at |-> Len(maps) + 1, entry |-> g[a].entry])
<1> DEFINE s == [at |-> Len(maps) + 1, entry |-> g[a].entry]
<1>1. g[Len(maps)].entry = g[a].entry
  BY ScanIdles
<1>2. s.at = Len(maps) + 1 /\ s.entry = g[a].entry
  OBVIOUS
<1> HIDE DEF s
<1>3. Together(maps, g, s)
  BY <1>1, <1>2 DEF Together
<1> QED
  BY <1>3 DEF s

LEMMA FollowStep ==
  ASSUME NEW maps, Orders(maps), NEW e, NEW g, Scan(g, maps, e), NEW s, Together(maps, g, s)
  PROVE  LET f == Follow(s, maps)
         IN  /\ Together(maps, g, f) /\ s.at \in Int /\ f.at \in 1 .. Len(maps) + 1
             /\ f.at > s.at \/ f.at = Len(maps) + 1
<1> DEFINE n == Len(maps)
<1>0. n \in Nat
  BY DEF Orders
<1>1. CASE s.at = n + 1
  <2>1. Follow(s, maps) = s
    BY <1>1 DEF Follow
  <2> QED
    BY <1>0, <1>1, <2>1
<1>2. CASE s.at # n + 1
  <2> DEFINE a == s.at
             m == maps[a]
             x == CHOOSE y \in s.entry : TRUE
             targets == {i \in a + 1 .. n : maps[i].order = m.flow.order}
             f == Follow(s, maps)
  <2>1. /\ a \in 1 .. n /\ s = [at |-> a, entry |-> {x}] /\ s.entry = {x}
        /\ g[a - 1].entry = {x} /\ ~g[a - 1].done
        /\ g[a - 1].wait_for = None \/ g[a - 1].wait_for = {m.order}
    <3>1. s.entry = {x}
      BY <1>2 DEF Together
    <3> QED
      BY <1>2, <3>1 DEF Together
  <2>2. WellTyped(m) /\ m.order \in Int
    BY <2>1 DEF Orders, WellTyped
  <2>3. /\ a - 1 \in 0 .. n /\ a \in 0 .. n /\ a + 1 \in 1 .. n + 1 /\ a + 1 - 1 = a
        /\ a # n + 1 /\ a \in Int /\ a + 1 > a /\ n + 1 \in 1 .. n + 1
    BY <1>0, <2>1
  <2>4. g[a] = After(m, x)
    <3>1. g[a] = Visit(g[a - 1], m) /\ Status(g[a - 1])
      BY <2>1, <2>3, ScanFacts
    <3> DEFINE w == g[a - 1]
    <3>2. Status(w) /\ ~w.done /\ w.entry = {x} /\ (w.wait_for = None \/ w.wait_for = {m.order})
      BY <2>1, <3>1
    <3> HIDE DEF w, m, x
    <3>3. Visit(w, m) = After(m, x)
      BY ONLY <2>2, <3>2, VisitActs
    <3> QED
      BY <3>1, <3>3 DEF w
  <2>5. f = IF ~Matched(m, x) THEN [at |-> a + 1, entry |-> {x}]
            ELSE IF m.state = "deny" THEN [at |-> n + 1, entry |-> None]
            ELSE [at |-> CASE m.flow = Exit -> n + 1
                           [] m.flow = Continue -> a + 1
                           [] OTHER -> IF targets = {} THEN n + 1 ELSE Min(targets),
                  entry |-> {Acted(m, x)}]
    BY <2>1, <2>3 DEF Follow
  <2> DEFINE Fine(r) == /\ Together(maps, g, r) /\ r.at \in 1 .. n + 1
                        /\ r.at > a \/ r.at = n + 1
  <2> HIDE DEF m, x, targets, f, a, n
  <2>7. ASSUME NEW y, g[a] = Going({y})
        PROVE  Fine([at |-> a + 1, entry |-> {y}])
    <3>1. g[a].entry = {y} /\ ~g[a].done /\ g[a].wait_for = None
      BY <2>7 DEF Going
    <3>2. Before(maps, g, a + 1, y)
      BY <2>3, <3>1 DEF Before
    <3>3. Together(maps, g, [at |-> a + 1, entry |-> {y}])
      BY <1>0, <2>3, <3>2, Arrives DEF n
    <3> QED
      BY <2>3, <3>3
  <2>8. ASSUME NEW E, g[a].entry = E, Idles(maps, g[a], a)
        PROVE  Fine([at |-> n + 1, entry |-> E])
    <3>1. Together(maps, g, [at |-> n + 1, entry |-> E])
      BY ONLY Orders(maps), Scan(g, maps, e), <2>3, <2>8, Halts DEF n
    <3> QED
      BY <2>3, <3>1
  <2>9. ASSUME NEW E, g[a] = Gone(E)
        PROVE  Fine([at |-> n + 1, entry |-> E])
    <3>1. g[a].entry = E /\ g[a].done
      BY <2>9 DEF Gone
    <3>2. Idles(maps, g[a], a)
      BY <3>1 DEF Idles
    <3> QED
      BY <2>8, <3>1, <3>2
  <2>10. ASSUME ~Matched(m, x)
         PROVE  Fine(f)
    <3>1. f = [at |-> a + 1, entry |-> {x}]
      BY <2>5, <2>10
    <3>2. g[a] = Going({x})
      BY <2>2, <2>4, <2>10, AfterFacts
    <3> QED
      BY <2>7, <3>1, <3>2
  <2>11. ASSUME Matched(m, x), m.state = "deny"
         PROVE  Fine(f)
    <3>1. f = [at |-> n + 1, entry |-> None]
      BY <2>5, <2>11
    <3>2. g[a] = Gone(None)
      BY <2>2, <2>4, <2>11, AfterFacts
    <3> QED
      BY <2>9, <3>1, <3>2
  <2>12. ASSUME Matched(m, x), m.state # "deny", m.flow = Exit
         PROVE  Fine(f)
    <3>0. (CASE m.flow = Exit -> n + 1
             [] m.flow = Continue -> a + 1
             [] OTHER -> IF targets = {} THEN n + 1 ELSE Min(targets)) = n + 1
      <4>1. Exit.kind = "exit" /\ Continue.kind = "continue"
        BY DEF Exit, Continue
      <4>2. m.flow # Continue
        BY <2>12, <4>1
      <4> QED
        BY <2>12, <4>2
    <3>1. f = [at |-> n + 1, entry |-> {Acted(m, x)}]
      BY <2>5, <2>12, <3>0
    <3>2. g[a] = Gone({Acted(m, x)})
      BY <2>2, <2>4, <2>12, AfterFacts
    <3> QED
      BY <2>9, <3>1, <3>2
  <2>13. ASSUME Matched(m, x), m.state # "deny", m.flow = Continue
         PROVE  Fine(f)
    <3>0. Exit # Continue
      <4>1. Exit.kind = "exit" /\ Continue.kind = "continue"
        BY DEF Exit, Continue
      <4> QED
        BY <4>1
    <3>1. f = [at |-> a + 1, entry |-> {Acted(m, x)}]
      BY <2>5, <2>13, <3>0
    <3>2. g[a] = Going({Acted(m, x)})
      BY <2>2, <2>4, <2>13, AfterFacts
    <3> QED
      BY <2>7, <3>1, <3>2
  <2>14. ASSUME Matched(m, x), m.state # "deny", m.flow \notin {Exit, Continue}
         PROVE  Fine(f)
    <3> DEFINE o == m.flow.order
               y == Acted(m, x)
    <3>1. /\ o \in Int
          /\ g[a].entry = {y} /\ ~g[a].done /\ g[a].wait_for = {o}
      <4>1. o \in Int /\ After(m, x) = [entry |-> {y}, done |-> FALSE, wait_for |-> {o}]
        BY <2>2, <2>14, AfterFacts
      <4> QED
        BY <2>4, <4>1
    <3>2. f = [at |-> IF targets = {} THEN n + 1 ELSE Min(targets), entry |-> {y}]
      BY <2>5, <2>14
    <3>3. CASE targets = {}
      <4>1. Idles(maps, g[a], a)
        BY <3>1, <3>3 DEF Idles, targets, n
      <4>2. f = [at |-> n + 1, entry |-> {y}]
        BY <3>2, <3>3
      <4> QED
        BY <2>8, <3>1, <4>1, <4>2
    <3>4. CASE targets # {}
      <4> DEFINE t == Min(targets)
      <4>1. t \in targets
        <5>1. targets \subseteq Nat
          BY <1>0, <2>3 DEF targets
        <5>2. \E i \in targets : \A j \in targets : i <= j
          BY <3>4, <5>1, NatMinimum
        <5> QED
          BY <5>2 DEF Min
      <4> HIDE DEF t
      <4>2. t \in a + 1 .. n /\ maps[t].order = o
        BY <4>1 DEF targets
      <4>3. /\ t \in 1 .. n + 1 /\ t > a /\ t - 1 \in a .. n
            /\ \A i \in a + 1 .. t - 1 : i \in 1 .. n /\ i < t
            /\ t \in 1 .. n
        BY <1>0, <2>3, <4>2
      <4>4. \A i \in a + 1 .. t - 1 : maps[i].order < o
        BY <4>2, <4>3 DEF Orders, n
      <4>5. g[t - 1] = g[a]
        <5> DEFINE l == t - 1
        <5>1. l \in a .. Len(maps) /\ a \in 0 .. Len(maps)
          BY <2>3, <4>3 DEF n
        <5>2. ~g[a].done /\ g[a].wait_for = {o} /\ o \in Int
          BY <3>1
        <5>3. \A i \in a + 1 .. l : maps[i].order < o
          BY <4>4
        <5> HIDE DEF l, o
        <5>4. g[l] = g[a]
          BY ONLY Orders(maps), Scan(g, maps, e), <5>1, <5>2, <5>3, ScanWaits
        <5> QED
          BY <5>4 DEF l
      <4>6. Before(maps, g, t, y)
        BY <3>1, <4>2, <4>5 DEF Before
      <4>7. Together(maps, g, [at |-> t, entry |-> {y}])
        BY <1>0, <4>3, <4>6, Arrives DEF n
      <4>8. f = [at |-> t, entry |-> {y}]
        BY <3>2, <3>4 DEF t
      <4> QED
        BY <4>3, <4>7, <4>8
    <3> QED
      BY <3>3, <3>4
  <2>15. Fine(f)
    BY <2>10, <2>11, <2>12, <2>13, <2>14
  <2> QED
    BY <2>3, <2>15 DEF f, n, a
<1> QED
  BY <1>1, <1>2

(* RouteMapList::apply does what the documentation says.                   *)
LEMMA ListsAsDescribed ==
  ASSUME NEW maps, Orders(maps), NEW e
  PROVE  ApplyList(maps, e) = Described(maps, e)
<1> DEFINE n == Len(maps)
<1>0. n \in Nat
  BY DEF Orders
<1>1. PICK g : Scan(g, maps, e) /\ ApplyList(maps, e) = g[n].entry
  BY <1>0, ScanExists
<1>2. PICK h : Reading(h, maps, e) /\ Described(maps, e) = h[n].entry
  BY <1>0, ReadingExists
<1> DEFINE A == {k \in 0 .. n : /\ Together(maps, g, h[k])
                                /\ h[k].at \in 1 .. n + 1 /\ h[k].at >= k + 1}
<1> HIDE DEF n
<1>3. h[0] = Begin(e) /\ \A k \in 1 .. n : h[k] = Follow(h[k - 1], maps)
  <2>1. 0 \in 0 .. n /\ \A k \in 1 .. n : k \in 0 .. n /\ k # 0
    BY <1>0
  <2> QED
    BY <1>2, <2>1 DEF Reading, n
<1>4. 0 \in A
  <2>1. g[0] = Start(e)
    BY <1>1, ScanFacts
  <2>2. 1 \in 1 .. n + 1 /\ 1 - 1 = 0 /\ 0 \in 0 .. n /\ 1 >= 0 + 1
    BY <1>0
  <2>3. g[0].entry = {e} /\ ~g[0].done /\ g[0].wait_for = None
    BY <2>1 DEF Start
  <2>4. Before(maps, g, 1, e)
    BY <2>2, <2>3 DEF Before
  <2>5. Together(maps, g, [at |-> 1, entry |-> {e}])
    BY <1>0, <2>2, <2>4, Arrives DEF n
  <2> QED
    BY <1>3, <2>2, <2>5 DEF Begin
<1>5. \A k \in 0 .. n : k \in A /\ k < n => k + 1 \in A
  <2> SUFFICES ASSUME NEW k \in 0 .. n, k \in A, k < n
               PROVE  k + 1 \in A
    OBVIOUS
  <2>1. k + 1 \in 1 .. n /\ k + 1 - 1 = k /\ k + 1 \in 0 .. n
    BY <1>0
  <2>2. h[k + 1] = Follow(h[k], maps)
    BY <1>3, <2>1
  <2> DEFINE f == Follow(h[k], maps)
  <2>3. /\ Together(maps, g, f) /\ h[k].at \in Int /\ f.at \in 1 .. n + 1
        /\ f.at > h[k].at \/ f.at = n + 1
    BY <1>1, FollowStep DEF n
  <2> HIDE DEF f
  <2>4. f.at >= k + 1 + 1
    BY <1>0, <2>3
  <2> QED
    BY <2>1, <2>2, <2>3, <2>4 DEF f
<1>6. n \in A
  <2> HIDE DEF A
  <2>1. \A k \in 0 .. n : k \in A
    BY ONLY <1>0, <1>4, <1>5, UpTo
  <2> QED
    BY <1>0, <2>1
<1>7. h[n].at = n + 1
  BY <1>0, <1>6
<1>8. h[n].entry = g[n].entry
  <2>1. h[n].at \notin 1 .. n
    BY <1>0, <1>7
  <2> QED
    BY <1>6, <2>1 DEF Together, n
<1> QED
  BY <1>1, <1>2, <1>8 DEF n
-----------------------------------------------------------------------------
(* How a router keeps a list of clauses sorted.                            *)
Known == {Clauses[v] : v \in DOMAIN Clauses}

Ascending(maps) ==
  \A i, j \in 1 .. Len(maps) : i < j => maps[i].order < maps[j].order

Lists == {maps \in Seq(Known) : Ascending(maps)}

LEMMA KnownTyped == \A map \in Known : WellTyped(map) /\ map.order \in Int
  BY ConfigurationAssumption DEF Known, WellTyped

LEMMA ListsHaveOrders ==
  ASSUME NEW maps \in Lists
  PROVE  Orders(maps)
<1>1. maps \in Seq(Known) /\ Ascending(maps)
  BY DEF Lists
<1>2. \A i \in 1 .. Len(maps) : maps[i] \in Known
  BY <1>1
<1> QED
  BY <1>1, <1>2, KnownTyped DEF Orders, Ascending

LEMMA Inserted ==
  ASSUME NEW S, NEW s \in Seq(S), NEW p \in 1 .. Len(s) + 1, NEW e \in S
  PROVE  /\ InsertAt(s, p, e) \in Seq(S) /\ Len(InsertAt(s, p, e)) = Len(s) + 1
         /\ \A i \in 1 .. Len(s) + 1 :
              InsertAt(s, p, e)[i] = IF i < p THEN s[i] ELSE IF i = p THEN e ELSE s[i - 1]
<1> DEFINE a == SubSeq(s, 1, p - 1)
           b == SubSeq(s, p, Len(s))
           c == a \o <<e>>
<1>1. /\ a \in Seq(S) /\ Len(a) = p - 1
      /\ \A i \in 1 .. p - 1 : a[i] = s[i]
  OBVIOUS
<1>2. /\ b \in Seq(S) /\ Len(b) = Len(s) - p + 1
      /\ \A i \in 1 .. Len(s) - p + 1 : b[i] = s[p + i - 1]
  OBVIOUS
<1>3. <<e>> \in Seq(S) /\ Len(<<e>>) = 1 /\ <<e>>[1] = e
  OBVIOUS
<1> HIDE DEF a, b
<1>4. /\ c \in Seq(S) /\ Len(c) = p
      /\ \A i \in 1 .. p : c[i] = IF i < p THEN s[i] ELSE e
  <2>1. c \in Seq(S) /\ Len(c) = p
    BY <1>1, <1>3
  <2>2. \A i \in 1 .. p - 1 : c[i] = a[i]
    BY <1>1, <1>3
  <2>3. c[p] = e
    BY <1>1, <1>3
  <2> QED
    BY <1>1, <2>1, <2>2, <2>3
<1> HIDE DEF c
<1>5. InsertAt(s, p, e) = c \o b
  BY DEF InsertAt, a, b, c
<1>6. /\ c \o b \in Seq(S) /\ Len(c \o b) = Len(s) + 1
      /\ \A i \in 1 .. p : (c \o b)[i] = c[i]
      /\ \A i \in p + 1 .. Len(s) + 1 : (c \o b)[i] = b[i - p]
  BY <1>2, <1>4
<1>7. \A i \in p + 1 .. Len(s) + 1 : b[i - p] = s[i - 1]
  BY <1>2
<1> QED
  BY <1>4, <1>5, <1>6, <1>7

LEMMA Removed ==
  ASSUME NEW S, NEW s \in Seq(S), NEW p \in 1 .. Len(s)
  PROVE  /\ RemoveAt(s, p) \in Seq(S) /\ Len(RemoveAt(s, p)) = Len(s) - 1
         /\ \A i \in 1 .. Len(s) - 1 :
              RemoveAt(s, p)[i] = IF i < p THEN s[i] ELSE s[i + 1]
<1> DEFINE a == SubSeq(s, 1, p - 1)
           b == SubSeq(s, p + 1, Len(s))
<1>1. /\ a \in Seq(S) /\ Len(a) = p - 1
      /\ \A i \in 1 .. p - 1 : a[i] = s[i]
  OBVIOUS
<1>2. /\ b \in Seq(S) /\ Len(b) = Len(s) - p
      /\ \A i \in 1 .. Len(s) - p : b[i] = s[p + i]
  OBVIOUS
<1> HIDE DEF a, b
<1>3. RemoveAt(s, p) = a \o b
  BY DEF RemoveAt, a, b
<1>4. /\ a \o b \in Seq(S) /\ Len(a \o b) = Len(s) - 1
      /\ \A i \in 1 .. p - 1 : (a \o b)[i] = a[i]
      /\ \A i \in p .. Len(s) - 1 : (a \o b)[i] = b[i - (p - 1)]
  <2>1. a \o b \in Seq(S) /\ Len(a \o b) = Len(s) - 1
    BY <1>1, <1>2
  <2>2. \A i \in 1 .. Len(a) : (a \o b)[i] = a[i]
    BY <1>1, <1>2
  <2>3. \A i \in Len(a) + 1 .. Len(a) + Len(b) : (a \o b)[i] = b[i - Len(a)]
    BY <1>1, <1>2
  <2>4. Len(a) + 1 = p /\ Len(a) + Len(b) = Len(s) - 1
    BY <1>1, <1>2
  <2> QED
    BY <1>1, <2>1, <2>2, <2>3, <2>4
<1>5. \A i \in p .. Len(s) - 1 : b[i - (p - 1)] = s[i + 1]
  <2> TAKE i \in p .. Len(s) - 1
  <2>1. /\ Len(s) \in Nat
        /\ i - (p - 1) \in 1 .. Len(s) - p /\ p + (i - (p - 1)) = i + 1
    OBVIOUS
  <2>2. b[i - (p - 1)] = s[p + (i - (p - 1))]
    BY ONLY <1>2, <2>1
  <2> QED
    BY ONLY <2>1, <2>2
<1>6. \A i \in 1 .. p - 1 : (a \o b)[i] = s[i]
  BY ONLY <1>1, <1>4
<1>7. \A i \in p .. Len(s) - 1 : (a \o b)[i] = s[i + 1]
  BY ONLY <1>4, <1>5
<1>8. Len(s) \in Nat
  OBVIOUS
<1> QED
  BY ONLY <1>3, <1>4, <1>6, <1>7, <1>8, p \in 1 .. Len(s)

(* What is before the place of an order is smaller, the rest is not.       *)
LEMMA Position ==
  ASSUME NEW maps \in Lists, NEW order \in Int
  PROVE  LET p == PositionOf(maps, order)
         IN  /\ p \in 1 .. Len(maps) + 1
             /\ \A i \in 1 .. Len(maps) : i < p <=> maps[i].order < order
             /\ HasOrder(maps, order) => p \in 1 .. Len(maps) /\ maps[p].order = order
<1> DEFINE n == Len(maps)
           D == {i \in DOMAIN maps : maps[i].order < order}
           T == (1 .. n + 1) \ D
<1>1. /\ n \in Nat /\ DOMAIN maps = 1 .. n
      /\ \A i \in 1 .. n : maps[i].order \in Int
      /\ \A i, j \in 1 .. n : i < j => maps[i].order < maps[j].order
  BY ListsHaveOrders DEF Orders, WellTyped
<1> HIDE DEF n
<1>2. PICK q \in T : \A j \in T : q <= j
  <2>1. T \subseteq Nat /\ n + 1 \in T
    BY <1>1
  <2> HIDE DEF T
  <2> QED
    BY <2>1, NatMinimum
<1>3. q \in 1 .. n + 1 /\ q \notin D
  BY <1>2
<1>4. \A i \in 1 .. q - 1 : i \in D
  BY <1>1, <1>2, <1>3
<1>5. \A i \in D : i < q
  <2> SUFFICES ASSUME NEW i \in D, q <= i
               PROVE  FALSE
    BY <1>1, <1>3
  <2>1. i \in 1 .. n /\ q \in 1 .. n /\ maps[i].order < order
    BY <1>1, <1>3
  <2>2. maps[q].order <= maps[i].order
    <3>1. CASE q = i
      BY <1>1, <2>1, <3>1
    <3>2. CASE q < i
      BY <1>1, <2>1, <3>2
    <3> QED
      BY <2>1, <3>1, <3>2
  <2>3. maps[q].order < order
    BY <1>1, <2>1, <2>2
  <2> QED
    BY <1>1, <1>3, <2>1, <2>3
<1>6. D = 1 .. q - 1
  BY <1>1, <1>3, <1>4, <1>5
<1>7. Cardinality(D) = q - 1
  <2>1. q - 1 \in Int /\ 1 \in Int /\ (1 > q - 1 => q - 1 = 0) /\ q - 1 - 1 + 1 = q - 1
    BY <1>1, <1>3
  <2> HIDE DEF D, T
  <2> QED
    BY <1>6, <2>1, FS_Interval
<1>8. PositionOf(maps, order) = q
  BY <1>3, <1>7 DEF PositionOf
<1>9. \A i \in 1 .. n : i < q <=> maps[i].order < order
  BY <1>1, <1>3, <1>6
<1>10. ASSUME HasOrder(maps, order)
       PROVE  q \in 1 .. n /\ maps[q].order = order
  <2>1. PICK i \in 1 .. n : maps[i].order = order
    BY <1>1, <1>10 DEF HasOrder
  <2>a. ~(maps[i].order < order)
    BY <2>1
  <2>b. ~(i < q)
    BY <1>9, <2>a
  <2>2. q <= i
    BY <1>1, <1>3, <2>b
  <2>3. q \in 1 .. n
    BY <1>1, <1>3, <2>1, <2>2
  <2>4. ~(maps[q].order < order) /\ maps[q].order \in Int
    BY <1>1, <1>9, <2>3
  <2>5. CASE q < i
    <3>1. maps[q].order < maps[i].order
      BY <1>1, <2>3, <2>5
    <3> QED
      BY <2>1, <2>4, <3>1
  <2> QED
    BY <2>1, <2>2, <2>3, <2>5
<1> QED
  BY <1>3, <1>8, <1>9, <1>10 DEF n

LEMMA SetMapKeeps ==
  ASSUME NEW maps \in Lists, NEW map \in Known
  PROVE  SetMap(maps, map) \in Lists
<1> DEFINE n == Len(maps)
           o == map.order
           p == PositionOf(maps, o)
<1>1. /\ n \in Nat /\ DOMAIN maps = 1 .. n /\ maps \in Seq(Known)
      /\ \A i \in 1 .. n : maps[i].order \in Int
      /\ \A i, j \in 1 .. n : i < j => maps[i].order < maps[j].order
  BY ListsHaveOrders DEF Orders, WellTyped, Lists
<1>2. o \in Int
  BY KnownTyped
<1>3. /\ p \in 1 .. n + 1
      /\ \A i \in 1 .. n : i < p <=> maps[i].order < o
      /\ HasOrder(maps, o) => p \in 1 .. n /\ maps[p].order = o
  BY <1>2, Position
<1> HIDE DEF n, p
<1>4. CASE HasOrder(maps, o)
  <2> DEFINE r == [maps EXCEPT ![p] = map]
  <2>1. SetMap(maps, map) = r
    BY <1>4 DEF SetMap, p
  <2>2. r \in Seq(Known) /\ Len(r) = n /\ \A i \in 1 .. n : r[i] = IF i = p THEN map ELSE maps[i]
    <3>1. DOMAIN r = 1 .. n /\ \A i \in 1 .. n : r[i] = IF i = p THEN map ELSE maps[i]
      BY <1>1
    <3>2. \A i \in 1 .. n : maps[i] \in Known
      BY <1>1 DEF n
    <3>3. r \in [1 .. n -> Known]
      BY <1>1, <3>1, <3>2
    <3> HIDE DEF r
    <3> QED
      BY <1>1, <3>1, <3>3
  <2>3. \A i \in 1 .. n : r[i].order = maps[i].order
    BY <1>3, <1>4, <2>2
  <2> HIDE DEF r
  <2>4. Ascending(r)
    BY <1>1, <2>2, <2>3 DEF Ascending
  <2> QED
    BY <2>1, <2>2, <2>4 DEF Lists
<1>5. CASE ~HasOrder(maps, o)
  <2> DEFINE r == InsertAt(maps, p, map)
  <2>1. SetMap(maps, map) = r
    BY <1>5 DEF SetMap, p
  <2>2. /\ r \in Seq(Known) /\ Len(r) = n + 1
        /\ \A i \in 1 .. n + 1 :
             r[i] = IF i < p THEN maps[i] ELSE IF i = p THEN map ELSE maps[i - 1]
    <3>1. maps \in Seq(Known) /\ p \in 1 .. Len(maps) + 1 /\ map \in Known
      BY <1>1, <1>3 DEF n
    <3>2. /\ r \in Seq(Known) /\ Len(r) = Len(maps) + 1
          /\ \A i \in 1 .. Len(maps) + 1 :
               r[i] = IF i < p THEN maps[i] ELSE IF i = p THEN map ELSE maps[i - 1]
      BY ONLY <3>1, Inserted
    <3> QED
      BY ONLY <3>2 DEF n
  <2> HIDE DEF r
  <2>3. \A i \in 1 .. n : maps[i].order # o
    BY <1>1, <1>5 DEF HasOrder
  <2>4. ASSUME NEW i \in 1 .. n + 1, NEW j \in 1 .. n + 1, i < j
        PROVE  r[i].order < r[j].order
    <3>1. CASE j < p
      <4>1. i \in 1 .. n /\ j \in 1 .. n /\ i < p
        BY <1>1, <1>3, <2>4, <3>1
      <4> QED
        BY <1>1, <2>2, <2>4, <3>1, <4>1
    <3>2. CASE j = p
      <4>1. i \in 1 .. n /\ i < p /\ j # i
        BY <1>1, <1>3, <2>4, <3>2
      <4>2. r[i] = maps[i] /\ r[j] = map
        BY <2>2, <3>2, <4>1
      <4> QED
        BY <1>3, <4>1, <4>2
    <3>3. CASE i = p
      <4>1. j - 1 \in 1 .. n /\ ~(j - 1 < p) /\ ~(j < p) /\ j # p
        BY <1>1, <1>3, <2>4, <3>3
      <4>2. r[i] = map /\ r[j] = maps[j - 1]
        BY <2>2, <3>3, <4>1
      <4>3. ~(maps[j - 1].order < o) /\ maps[j - 1].order # o /\ maps[j - 1].order \in Int
        BY <1>1, <1>3, <2>3, <4>1
      <4> QED
        BY <1>2, <4>2, <4>3
    <3>4. CASE i < p /\ p < j
      <4>1. i \in 1 .. n /\ j - 1 \in 1 .. n /\ ~(j - 1 < p) /\ ~(j < p) /\ j # p
        BY <1>1, <1>3, <2>4, <3>4
      <4>2. r[i] = maps[i] /\ r[j] = maps[j - 1]
        BY <2>2, <3>4, <4>1
      <4>3. maps[i].order < o /\ ~(maps[j - 1].order < o)
            /\ maps[i].order \in Int /\ maps[j - 1].order \in Int
        BY <1>1, <1>3, <3>4, <4>1
      <4> QED
        BY <1>2, <4>2, <4>3
    <3>5. CASE p < i
      <4>1. i - 1 \in 1 .. n /\ j - 1 \in 1 .. n /\ i - 1 < j - 1
            /\ ~(i < p) /\ i # p /\ ~(j < p) /\ j # p
        BY <1>1, <1>3, <2>4, <3>5
      <4>2. r[i] = maps[i - 1] /\ r[j] = maps[j - 1]
        BY <2>2, <4>1
      <4> QED
        BY <1>1, <4>1, <4>2
    <3> QED
      BY <1>1, <1>3, <3>1, <3>2, <3>3, <3>4, <3>5
  <2>5. Ascending(r)
    BY <2>2, <2>4 DEF Ascending
  <2> QED
    BY <2>1, <2>2, <2>5 DEF Lists
<1> QED
  BY <1>4, <1>5

LEMMA RemoveMapKeeps ==
  ASSUME NEW maps \in Lists, NEW order
  PROVE  RemoveMap(maps, order) \in Lists
<1> DEFINE n == Len(maps)
           p == PositionOf(maps, order)
<1>1. /\ n \in Nat /\ DOMAIN maps = 1 .. n /\ maps \in Seq(Known)
      /\ \A i \in 1 .. n : maps[i].order \in Int
      /\ \A i, j \in 1 .. n : i < j => maps[i].order < maps[j].order
  BY ListsHaveOrders DEF Orders, WellTyped, Lists
<1>2. CASE ~HasOrder(maps, order)
  BY <1>2 DEF RemoveMap
<1>3. CASE HasOrder(maps, order)
  <2>1. order \in Int
    BY <1>1, <1>3 DEF HasOrder
  <2>2. p \in 1 .. n
    BY <1>3, <2>1, Position
  <2> DEFINE r == RemoveAt(maps, p)
  <2>3. RemoveMap(maps, order) = r
    BY <1>3 DEF RemoveMap
  <2> HIDE DEF p, n
  <2>4. /\ r \in Seq(Known) /\ Len(r) = n - 1
        /\ \A i \in 1 .. n - 1 : r[i] = IF i < p THEN maps[i] ELSE maps[i + 1]
    <3>1. maps \in Seq(Known) /\ p \in 1 .. Len(maps)
      BY <1>1, <2>2 DEF n
    <3>2. /\ r \in Seq(Known) /\ Len(r) = Len(maps) - 1
          /\ \A i \in 1 .. Len(maps) - 1 : r[i] = IF i < p THEN maps[i] ELSE maps[i + 1]
      BY ONLY <3>1, Removed
    <3> QED
      BY ONLY <3>2 DEF n
  <2> HIDE DEF r
  <2>5. ASSUME NEW i \in 1 .. n - 1, NEW j \in 1 .. n - 1, i < j
        PROVE  r[i].order < r[j].order
    <3>1. i \in 1 .. n /\ j \in 1 .. n /\ i + 1 \in 1 .. n /\ j + 1 \in 1 .. n
          /\ i + 1 < j + 1 /\ i < j + 1 /\ (j < p => i < p)
      BY <1>1, <2>2, <2>5
    <3> QED
      BY <1>1, <2>4, <2>5, <3>1
  <2>6. Ascending(r)
    BY <2>4, <2>5 DEF Ascending
  <2> QED
    BY <2>3, <2>4, <2>6 DEF Lists
<1> QED
  BY <1>2, <1>3
-----------------------------------------------------------------------------
(* A batch of edits, one after the other.                                  *)
Filings == [Slots -> Lists]

Edited(f, m, i) ==
  [f EXCEPT ![<<m.router, m.updates[i].neighbor, m.updates[i].direction>>] =
     ApplyEdit(@, m.updates[i])]

LEMMA EditKeeps ==
  ASSUME NEW f \in Filings, NEW m, NEW i, ValidEdit(m.updates[i])
  PROVE  Edited(f, m, i) \in Filings
<1> DEFINE u == m.updates[i]
           slot == <<m.router, u.neighbor, u.direction>>
<1>1. ASSUME NEW maps \in Lists
      PROVE  ApplyEdit(maps, u) \in Lists
  <2>1. CASE u.new # None
    <3>1. (CHOOSE v \in u.new : TRUE) \in DOMAIN Clauses
      BY <2>1 DEF ValidEdit, None
    <3>2. Clauses[CHOOSE v \in u.new : TRUE] \in Known
      BY <3>1 DEF Known
    <3> QED
      BY <2>1, <3>2, SetMapKeeps DEF ApplyEdit
  <2>2. CASE u.new = None
    BY <2>2, RemoveMapKeeps DEF ApplyEdit
  <2> QED
    BY <2>1, <2>2
<1>2. Edited(f, m, i) = [f EXCEPT ![slot] = ApplyEdit(@, u)]
  BY DEF Edited
<1> HIDE DEF slot, u
<1>3. ASSUME slot \in Slots
      PROVE  [f EXCEPT ![slot] = ApplyEdit(@, u)] \in Filings
  BY <1>1, <1>3 DEF Filings
<1>4. ASSUME slot \notin Slots
      PROVE  [f EXCEPT ![slot] = ApplyEdit(@, u)] \in Filings
  BY <1>4 DEF Filings
<1> QED
  BY <1>2, <1>3, <1>4

LEMMA BatchWalk ==
  ASSUME NEW maps \in Filings, NEW m, Len(m.updates) \in Nat,
         \A i \in 1 .. Len(m.updates) : ValidEdit(m.updates[i])
  PROVE  \E g : /\ g[0] = maps /\ BatchUpdate(maps, m) = g[Len(m.updates)]
                /\ \A i \in 0 .. Len(m.updates) : g[i] \in Filings
                /\ \A i \in 1 .. Len(m.updates) : g[i] = Edited(g[i - 1], m, i)
<1> DEFINE N == Len(m.updates)
           Upto(g, n) == g = [i \in 0 .. n |->
                                IF i = 0 THEN maps ELSE Edited(g[i - 1], m, i)]
           A == {n \in Nat : \E g : Upto(g, n)}
<1>0. N \in Nat /\ \A i \in 1 .. N : ValidEdit(m.updates[i])
  OBVIOUS
<1> HIDE DEF N
<1>1. 0 \in A
  <2> DEFINE g == [i \in 0 .. 0 |-> maps]
  <2>1. Upto(g, 0)
    OBVIOUS
  <2> HIDE DEF g
  <2> QED
    BY <2>1
<1>2. ASSUME NEW n \in Nat, n \in A
      PROVE  n + 1 \in A
  <2>1. PICK g : Upto(g, n)
    BY <1>2
  <2> DEFINE h == [i \in 0 .. n + 1 |-> IF i = n + 1 THEN Edited(g[n], m, n + 1) ELSE g[i]]
  <2>2. ASSUME NEW i \in 0 .. n + 1
        PROVE  h[i] = IF i = 0 THEN maps ELSE Edited(h[i - 1], m, i)
    <3>1. CASE i = 0
      BY <2>1, <3>1
    <3>2. CASE i = n + 1
      <4>1. i # 0 /\ i - 1 = n /\ n \in 0 .. n + 1 /\ n # n + 1
        BY <3>2
      <4> QED
        BY <3>2, <4>1
    <3>3. CASE i # 0 /\ i # n + 1
      <4>1. i \in 0 .. n /\ i - 1 \in 0 .. n + 1 /\ i - 1 # n + 1
        BY <3>3
      <4>2. h[i] = g[i] /\ h[i - 1] = g[i - 1]
        BY <3>3, <4>1
      <4>3. g[i] = Edited(g[i - 1], m, i)
        BY <2>1, <3>3, <4>1
      <4> QED
        BY <3>3, <4>2, <4>3
    <3> QED
      BY <3>1, <3>2, <3>3
  <2>3. h = [i \in 0 .. n + 1 |-> h[i]]
    OBVIOUS
  <2> HIDE DEF h
  <2>4. Upto(h, n + 1)
    BY <2>2, <2>3
  <2> QED
    BY <2>4
<1>3. N \in A
  <2>1. \A k \in 0 .. N : k \in A /\ k < N => k + 1 \in A
    BY <1>2
  <2> HIDE DEF A
  <2>2. \A k \in 0 .. N : k \in A
    BY ONLY <1>0, <1>1, <2>1, UpTo
  <2> QED
    BY <1>0, <2>2
<1>4. PICK f : Upto(f, N)
  BY <1>3
<1> DEFINE c == CHOOSE g : Upto(g, N)
<1>5. Upto(c, N)
  BY <1>4
<1>6. BatchUpdate(maps, m) = c[N]
  BY DEF BatchUpdate, Edited, N
<1> HIDE DEF c
<1> DEFINE B == {k \in 0 .. N : c[k] \in Filings}
<1>7. 0 \in B
  BY <1>0, <1>5
<1>8. \A k \in 0 .. N : k \in B /\ k < N => k + 1 \in B
  <2> SUFFICES ASSUME NEW k \in 0 .. N, c[k] \in Filings, k < N
               PROVE  c[k + 1] \in Filings /\ k + 1 \in 0 .. N
    OBVIOUS
  <2>1. k + 1 \in 0 .. N /\ k + 1 \in 1 .. N /\ k + 1 # 0 /\ k + 1 - 1 = k
    BY <1>0
  <2>2. c[k + 1] = Edited(c[k], m, k + 1)
    BY <1>5, <2>1
  <2>3. Edited(c[k], m, k + 1) \in Filings
    BY <1>0, <2>1, EditKeeps
  <2> QED
    BY <2>1, <2>2, <2>3
<1>9. \A k \in 0 .. N : k \in B
  <2> HIDE DEF B
  <2> QED
    BY ONLY <1>0, <1>7, <1>8, UpTo
<1>10. c[0] = maps /\ \A i \in 1 .. N : c[i] = Edited(c[i - 1], m, i)
  <2>1. 0 \in 0 .. N /\ \A i \in 1 .. N : i \in 0 .. N /\ i # 0
    BY <1>0
  <2> QED
    BY <1>5, <2>1
<1> HIDE DEF Upto
<1> QED
  BY <1>6,<1>9, <1>10 DEF N

LEMMA BatchKeeps ==
  ASSUME NEW maps \in Filings, NEW m, Len(m.updates) \in Nat,
         \A i \in 1 .. Len(m.updates) : ValidEdit(m.updates[i])
  PROVE  BatchUpdate(maps, m) \in Filings
<1>1. Len(m.updates) \in 0 .. Len(m.updates)
  OBVIOUS
<1> QED
  BY <1>1, BatchWalk
-----------------------------------------------------------------------------
(* The network                                                             *)
Types == {Peer, Client, Absent}

Linked == {"weight", "area", "session", "map"}

Nets(T) ==
  [weight : [LinkEnds -> Nat], area : [Links -> Areas], sessions : [Ends -> Types],
   active : SUBSET Ends, maps : Filings, table : {T}]

TableOk(T) == \A k \in DOMAIN T : ValidExpr(T[k]) /\ Key(T[k]) = k /\ T[k].kind \notin Linked

(* Both ends have a session, or none has.                                  *)
Paired(n) == \A p \in Ends : n.sessions[p] = Absent <=> n.sessions[<<p[2], p[1]>>] = Absent

NetOk(n) == n \in Nets(n.table) /\ TableOk(n.table) /\ SessionsReadable(n) /\ Paired(n)

LEMMA NetFields ==
  ASSUME NEW n, NetOk(n)
  PROVE  /\ \A w \in [LinkEnds -> Nat] : NetOk([n EXCEPT !.weight = w])
         /\ \A a \in [Links -> Areas] : NetOk([n EXCEPT !.area = a])
         /\ \A a \in SUBSET Ends : NetOk([n EXCEPT !.active = a])
         /\ \A f \in Filings : NetOk([n EXCEPT !.maps = f])
         /\ \A T : TableOk(T) => NetOk([n EXCEPT !.table = T])
         /\ \A s \in [Ends -> Types] :
              SessionsReadable([n EXCEPT !.sessions = s]) /\ Paired([n EXCEPT !.sessions = s])
                => NetOk([n EXCEPT !.sessions = s])
<1>1. n \in Nets(n.table)
  BY DEF NetOk
<1>2. \A w \in [LinkEnds -> Nat] : NetOk([n EXCEPT !.weight = w])
  BY <1>1 DEF NetOk, Nets, SessionsReadable, Paired
<1>3. \A a \in [Links -> Areas] : NetOk([n EXCEPT !.area = a])
  BY <1>1 DEF NetOk, Nets, SessionsReadable, Paired
<1>4. \A a \in SUBSET Ends : NetOk([n EXCEPT !.active = a])
  BY <1>1 DEF NetOk, Nets, SessionsReadable, Paired
<1>5. \A f \in Filings : NetOk([n EXCEPT !.maps = f])
  BY <1>1 DEF NetOk, Nets, SessionsReadable, Paired
<1>6. \A T : TableOk(T) => NetOk([n EXCEPT !.table = T])
  BY <1>1 DEF NetOk, Nets, SessionsReadable, Paired
<1>7. \A s \in [Ends -> Types] :
        SessionsReadable([n EXCEPT !.sessions = s]) /\ Paired([n EXCEPT !.sessions = s])
          => NetOk([n EXCEPT !.sessions = s])
  BY <1>1 DEF NetOk, Nets
<1> QED
  BY <1>2, <1>3, <1>4, <1>5, <1>6, <1>7

LEMMA RefreshKeeps ==
  ASSUME NEW n, NetOk(n)
  PROVE  NetOk(Refresh(n))
<1>1. \E a \in SUBSET Ends : Refresh(n) = [n EXCEPT !.active = a]
  BY DEF Refresh
<1> QED
  BY <1>1, NetFields

(* Setting a session from one end makes the other end a peer.              *)
LEMMA SessionKeeps ==
  ASSUME NEW n, NetOk(n), NEW at \in Routers \X Routers, NEW type \in Types
  PROVE  NetOk([n EXCEPT !.sessions = SetSession(@, at, type)])
<1> DEFINE s == SetSession(n.sessions, at, type)
           back == <<at[2], at[1]>>
           r == [n EXCEPT !.sessions = s]
<1>0. at = <<at[1], at[2]>>
  OBVIOUS
<1>1. n \in Nets(n.table) /\ n.sessions \in [Ends -> Types]
  BY DEF NetOk, Nets
<1>2. /\ s \in [Ends -> Types]
      /\ \A p \in Ends : s[p] = IF p = back THEN IF type = Absent THEN Absent ELSE Peer
                                ELSE IF p = at THEN type ELSE n.sessions[p]
  BY <1>1 DEF SetSession, Types
<1>3. r.sessions = s
  BY <1>1 DEF Nets
<1> HIDE DEF s
<1>4. ASSUME NEW p \in Ends, s[p] = Client, s[<<p[2], p[1]>>] = Client
      PROVE  FALSE
  <2> DEFINE q == <<p[2], p[1]>>
  <2>1. q \in Ends /\ p = <<p[1], p[2]>> /\ <<q[2], q[1]>> = p
    BY DEF Ends
  <2>2. p # back /\ q # back
    BY <1>2, <1>4, <2>1 DEF Peer, Client, Absent
  <2>3. p # at /\ q # at
    BY <2>1, <2>2
  <2>4. n.sessions[p] = Client /\ n.sessions[q] = Client
    BY <1>2, <1>4, <2>1, <2>2, <2>3
  <2> QED
    BY <2>4 DEF NetOk, SessionsReadable
<1>5. SessionsReadable(r)
  BY <1>3, <1>4 DEF SessionsReadable
<1>6. ASSUME NEW p \in Ends
      PROVE  s[p] = Absent <=> s[<<p[2], p[1]>>] = Absent
  <2> DEFINE q == <<p[2], p[1]>>
  <2>1. q \in Ends /\ p = <<p[1], p[2]>> /\ <<q[2], q[1]>> = p /\ p # q
    BY DEF Ends
  <2>2. n.sessions[p] = Absent <=> n.sessions[q] = Absent
    BY <2>1 DEF NetOk, Paired
  <2>3. Peer # Absent
    BY DEF Peer, Absent
  <2>4. p = back <=> q = at
    BY <1>0, <2>1
  <2>5. q = back <=> p = at
    BY <1>0, <2>1
  <2> HIDE DEF q, back
  <2>6. /\ s[p] = IF p = back THEN IF type = Absent THEN Absent ELSE Peer
                 ELSE IF p = at THEN type ELSE n.sessions[p]
        /\ s[q] = IF q = back THEN IF type = Absent THEN Absent ELSE Peer
                 ELSE IF q = at THEN type ELSE n.sessions[q]
    BY <1>2, <2>1
  <2>7. CASE p = back
    <3>1. s[p] = Absent <=> type = Absent
      BY <2>3, <2>6, <2>7
    <3>2. q # back /\ q = at
      BY <2>1, <2>4, <2>7
    <3> QED
      BY <2>6, <3>1, <3>2 DEF q
  <2>8. CASE p # back /\ p = at
    <3>1. s[p] = type /\ q = back
      BY <2>5, <2>6, <2>8
    <3> QED
      BY <2>3, <2>6, <3>1 DEF q
  <2>9. CASE p # back /\ p # at
    BY <2>2, <2>4, <2>5, <2>6, <2>9 DEF q
  <2> QED
    BY <2>7, <2>8, <2>9
<1>7. Paired(r)
  BY <1>3, <1>6 DEF Paired
<1> HIDE DEF r
<1>8. NetOk([n EXCEPT !.sessions = s])
  BY <1>2, <1>5, <1>7, NetFields DEF r
<1> QED
  BY <1>8 DEF s

LEMMA SetExprKeeps ==
  ASSUME NEW n, NetOk(n), NEW e, ValidExpr(e)
  PROVE  NetOk(SetExpr(n, e))
<1>0. /\ n.weight \in [LinkEnds -> Nat] /\ n.area \in [Links -> Areas]
      /\ n.maps \in Filings /\ TableOk(n.table)
  BY DEF NetOk, Nets
<1>1. CASE e.kind = "weight"
  <2> DEFINE w == [n.weight EXCEPT ![e.at] = e.value]
  <2>1. w \in [LinkEnds -> Nat]
    BY <1>0, <1>1 DEF ValidExpr
  <2>2. SetExpr(n, e) = Refresh([n EXCEPT !.weight = w])
    BY <1>1 DEF SetExpr
  <2> HIDE DEF w
  <2> QED
    BY <2>1, <2>2, NetFields, RefreshKeeps
<1>2. CASE e.kind = "area"
  <2> DEFINE a == [n.area EXCEPT ![{e.at[1], e.at[2]}] = e.value]
  <2>1. a \in [Links -> Areas]
    BY <1>0, <1>2 DEF ValidExpr
  <2>2. SetExpr(n, e) = Refresh([n EXCEPT !.area = a])
    BY <1>2 DEF SetExpr
  <2> HIDE DEF a
  <2> QED
    BY <2>1, <2>2, NetFields, RefreshKeeps
<1>3. CASE e.kind = "session"
  <2>1. SetExpr(n, e) = Refresh([n EXCEPT !.sessions = SetSession(@, e.at, e.value)])
    BY <1>3 DEF SetExpr
  <2>2. e.value \in Types /\ e.at \in Routers \X Routers
    BY <1>3 DEF ValidExpr, Types
  <2> QED
    BY <2>1, <2>2, SessionKeeps, RefreshKeeps
<1>4. CASE e.kind = "map"
  <2> DEFINE f == [n.maps EXCEPT ![e.at] = SetMap(@, Clauses[e.value])]
  <2>1. \A maps \in Lists : SetMap(maps, Clauses[e.value]) \in Lists
    BY <1>4, SetMapKeeps DEF ValidExpr, Known
  <2>2. f \in Filings
    BY <1>0, <2>1 DEF Filings
  <2>3. SetExpr(n, e) = [n EXCEPT !.maps = f]
    BY <1>4 DEF SetExpr
  <2> HIDE DEF f
  <2> QED
    BY <2>2, <2>3, NetFields
<1>5. CASE e.kind \notin {"weight", "area", "session", "map"}
  <2> DEFINE T == With(n.table, Key(e), e)
  <2>1. TableOk(T)
    BY <1>0, <1>5 DEF TableOk, With, Linked
  <2>2. SetExpr(n, e) = [n EXCEPT !.table = T]
    BY <1>5 DEF SetExpr
  <2> HIDE DEF T
  <2> QED
    BY <2>1, <2>2, NetFields
<1> QED
  BY <1>1, <1>2, <1>3, <1>4, <1>5

LEMMA UnsetExprKeeps ==
  ASSUME NEW n, NetOk(n), NEW e, ValidExpr(e)
  PROVE  NetOk(UnsetExpr(n, e))
<1>0. /\ n.weight \in [LinkEnds -> Nat] /\ n.area \in [Links -> Areas]
      /\ n.maps \in Filings /\ TableOk(n.table)
  BY DEF NetOk, Nets
<1>1. CASE e.kind = "weight"
  <2> DEFINE w == [n.weight EXCEPT ![e.at] = Infinite]
  <2>1. w \in [LinkEnds -> Nat]
    BY <1>0, ConfigurationAssumption
  <2>2. UnsetExpr(n, e) = Refresh([n EXCEPT !.weight = w])
    BY <1>1 DEF UnsetExpr
  <2> HIDE DEF w
  <2> QED
    BY <2>1, <2>2, NetFields, RefreshKeeps
<1>2. CASE e.kind = "area"
  <2> DEFINE a == [n.area EXCEPT ![{e.at[1], e.at[2]}] = Backbone]
  <2>1. a \in [Links -> Areas]
    BY <1>0, ConfigurationAssumption
  <2>2. UnsetExpr(n, e) = Refresh([n EXCEPT !.area = a])
    BY <1>2 DEF UnsetExpr
  <2> HIDE DEF a
  <2> QED
    BY <2>1, <2>2, NetFields, RefreshKeeps
<1>3. CASE e.kind = "session"
  <2>1. UnsetExpr(n, e) = Refresh([n EXCEPT !.sessions = SetSession(@, e.at, Absent)])
    BY <1>3 DEF UnsetExpr
  <2>2. Absent \in Types /\ e.at \in Routers \X Routers
    BY <1>3 DEF ValidExpr, Types
  <2> QED
    BY <2>1, <2>2, SessionKeeps, RefreshKeeps
<1>4. CASE e.kind = "map"
  <2> DEFINE f == [n.maps EXCEPT ![e.at] = RemoveMap(@, Clauses[e.value].order)]
  <2>1. f \in Filings
    BY <1>0, RemoveMapKeeps DEF Filings
  <2>2. UnsetExpr(n, e) = [n EXCEPT !.maps = f]
    BY <1>4 DEF UnsetExpr
  <2> HIDE DEF f
  <2> QED
    BY <2>1, <2>2, NetFields
<1>5. CASE e.kind \notin {"weight", "area", "session", "map"}
  <2> DEFINE T == Without(n.table, Key(e))
  <2>1. TableOk(T)
    BY <1>0 DEF TableOk, Without
  <2>2. UnsetExpr(n, e) = [n EXCEPT !.table = T]
    BY <1>5 DEF UnsetExpr
  <2> HIDE DEF T
  <2> QED
    BY <2>1, <2>2, NetFields
<1> QED
  BY <1>1, <1>2, <1>3, <1>4, <1>5

(* Whatever is applied, the network keeps its shape.                       *)
LEMMA UncheckedKeeps ==
  ASSUME NEW n, NetOk(n), NEW m, ValidModifier(m)
  PROVE  NetOk(Unchecked(n, m))
<1>1. CASE m.type = "insert"
  BY <1>1, SetExprKeeps DEF Unchecked, ValidModifier
<1>2. CASE m.type = "update"
  BY <1>2, SetExprKeeps DEF Unchecked, ValidModifier
<1>3. CASE m.type = "remove"
  BY <1>3, UnsetExprKeeps DEF Unchecked, ValidModifier
<1>4. CASE m.type = "batch"
  <2>1. n.maps \in Filings
    BY DEF NetOk, Nets
  <2>2. Len(m.updates) \in Nat /\ \A i \in 1 .. Len(m.updates) : ValidEdit(m.updates[i])
    BY <1>4 DEF ValidModifier
  <2>3. BatchUpdate(n.maps, m) \in Filings
    BY <2>1, <2>2, BatchKeeps
  <2>4. Unchecked(n, m) = [n EXCEPT !.maps = BatchUpdate(n.maps, m)]
    BY <1>4 DEF Unchecked
  <2> QED
    BY <2>3, <2>4, NetFields
<1> QED
  BY <1>1, <1>2, <1>3, <1>4 DEF ValidModifier
-----------------------------------------------------------------------------
(* The configuration that is read, and the patch to another one.           *)
AllValid(c) == \A k \in DOMAIN c : ValidExpr(c[k])

LEMMA ConfigOfValid ==
  ASSUME NEW exprs, \A e \in exprs : ValidExpr(e)
  PROVE  AllValid(ConfigOf(exprs))
<1> SUFFICES ASSUME NEW k \in DOMAIN ConfigOf(exprs)
             PROVE  ValidExpr(ConfigOf(exprs)[k])
  BY DEF AllValid
<1>1. \E e \in exprs : Key(e) = k
  BY DEF ConfigOf
<1>2. ConfigOf(exprs)[k] = CHOOSE e \in exprs : Key(e) = k
  BY DEF ConfigOf
<1>3. (CHOOSE e \in exprs : Key(e) = k) \in exprs
  BY <1>1
<1> QED
  BY <1>2, <1>3

LEMMA GetConfigValid ==
  ASSUME NEW n, NetOk(n), NEW up
  PROVE  AllValid(GetConfig(n, up))
<1>0. /\ n.weight \in [LinkEnds -> Nat] /\ n.area \in [Links -> Areas]
      /\ n.maps \in Filings /\ TableOk(n.table)
  BY DEF NetOk, Nets
<1>1. \A p \in LinkEnds : ValidExpr(Expr("weight", p, n.weight[p]))
  BY <1>0 DEF ValidExpr, Expr
<1>2. \A p \in LinkEnds : ValidExpr(Expr("area", Oriented(p, up), n.area[{p[1], p[2]}]))
  BY <1>0 DEF ValidExpr, Expr, LinkEnds
<1>3. \A p \in Ends : /\ ValidExpr(Expr("session", p, Client))
                      /\ ValidExpr(Expr("session", Oriented(p, up), Peer))
  BY DEF ValidExpr, Expr, Ends, Oriented, Ordered
<1>4. \A e \in SessionExprs(n, up) : ValidExpr(e)
  BY <1>3 DEF SessionExprs
<1>5. ASSUME NEW s \in Slots, NEW i \in DOMAIN n.maps[s]
      PROVE  ValidExpr(Expr("map", s, CHOOSE v \in DOMAIN Clauses : Clauses[v] = n.maps[s][i]))
  <2>1. n.maps[s] \in Seq(Known)
    BY <1>0 DEF Filings, Lists
  <2>2. n.maps[s][i] \in Known
    BY <2>1
  <2>3. (CHOOSE v \in DOMAIN Clauses : Clauses[v] = n.maps[s][i]) \in DOMAIN Clauses
    BY <2>2 DEF Known
  <2> QED
    BY <2>3 DEF ValidExpr, Expr
<1>6. \A e \in MapExprs(n) : ValidExpr(e)
  BY <1>5 DEF MapExprs
<1>7. \A k \in DOMAIN n.table : ValidExpr(n.table[k])
  BY <1>0 DEF TableOk
<1> DEFINE all == {Expr("weight", p, n.weight[p]) : p \in {q \in LinkEnds : n.weight[q] # DefaultWeight}}
                  \cup {Expr("area", Oriented(p, up), n.area[{p[1], p[2]}]) :
                          p \in {q \in LinkEnds : n.area[{q[1], q[2]}] # Backbone}}
                  \cup SessionExprs(n, up) \cup MapExprs(n) \cup {n.table[k] : k \in DOMAIN n.table}
<1>8. \A e \in all : ValidExpr(e)
  BY <1>1, <1>2, <1>4, <1>6, <1>7
<1>9. GetConfig(n, up) = ConfigOf(all)
  BY DEF GetConfig
<1> HIDE DEF all
<1> QED
  BY <1>8, <1>9, ConfigOfValid

LEMMA DiffValid ==
  ASSUME NEW c, NEW d, AllValid(c), AllValid(d), NEW m \in GetDiff(c, d)
  PROVE  ValidModifier(m)
<1>1. ASSUME NEW k \in DOMAIN c
      PROVE  ValidModifier(RemoveExpr(c[k]))
  BY DEF AllValid, ValidModifier, RemoveExpr
<1>2. ASSUME NEW k \in DOMAIN d
      PROVE  ValidModifier(InsertExpr(d[k]))
  BY DEF AllValid, ValidModifier, InsertExpr
<1>3. ASSUME NEW k \in DOMAIN c, k \in DOMAIN d
      PROVE  ValidModifier(UpdateExpr(c[k], d[k]))
  BY <1>3 DEF AllValid, ValidModifier, UpdateExpr
<1> QED
  BY <1>1, <1>2, <1>3 DEF GetDiff

(* The inductive invariant: a patch has been read from a network of the    *)
(* right shape, so it keeps the shape when it is applied.                  *)
Shaped ==
  /\ NetOk(net)
  /\ \A m \in patch : ValidModifier(m)
  /\ phase \in {"idle", "patching", "reached", "failed"} /\ skip_queue \in BOOLEAN

LEMMA ShapedInit == Init => Shaped
<1> SUFFICES ASSUME Init PROVE Shaped
  OBVIOUS
<1>1. << >> \in Lists
  BY DEF Lists, Ascending
<1>2. Fresh \in Nets(<< >>) /\ Fresh.table = << >> /\ \A p \in Ends : Fresh.sessions[p] = Absent
  BY <1>1, ConfigurationAssumption DEF Fresh, Nets, Filings, Types
<1>3. TableOk(<< >>)
  BY DEF TableOk
<1>4. SessionsReadable(Fresh) /\ Paired(Fresh)
  BY <1>2 DEF SessionsReadable, Paired, Ends, Absent, Client
<1> QED
  BY <1>2, <1>3, <1>4 DEF Init, Shaped, NetOk

LEMMA ShapedNext == Shaped /\ [Next]_vars => Shaped'
<1> SUFFICES ASSUME Shaped, [Next]_vars
             PROVE  Shaped'
  OBVIOUS
<1> USE DEF Shaped
<1>1. ASSUME NEW m \in Modifiers, Modify(m)
      PROVE  Shaped'
  BY <1>1, UncheckedKeeps, ConfigurationAssumption DEF Modify
<1>2. ASSUME NEW c \in Goals, NEW up \in BOOLEAN, SetConfig(c, up)
      PROVE  Shaped'
  <2>1. AllValid(c)
    BY ConfigurationAssumption DEF AllValid
  <2>2. AllValid(GetConfig(net, up))
    BY GetConfigValid
  <2>3. \A m \in patch' : ValidModifier(m)
    BY <1>2, <2>1, <2>2, DiffValid DEF SetConfig
  <2> QED
    BY <1>2, <2>3 DEF SetConfig
<1>3. ASSUME NEW m \in patch, PatchStep(m)
      PROVE  Shaped'
  BY <1>3, UncheckedKeeps DEF PatchStep
<1>4. CASE PatchDone
  BY <1>4 DEF PatchDone
<1>5. CASE ManualSimulation
  BY <1>5 DEF ManualSimulation
<1>6. CASE AutoSimulation
  BY <1>6 DEF AutoSimulation
<1>7. CASE UNCHANGED vars
  BY <1>7 DEF vars
<1> QED
  BY <1>1, <1>2, <1>3, <1>4, <1>5, <1>6, <1>7 DEF Next

LEMMA AlwaysShaped == Spec => []Shaped
<1> QED
  BY ShapedInit, ShapedNext, PTL DEF Spec

LEMMA ShapedIsWellFormed == Shaped => WellFormed
<1> SUFFICES ASSUME Shaped PROVE WellFormed
  OBVIOUS
<1>1. net \in Nets(net.table) /\ SessionsReadable(net)
  BY DEF Shaped, NetOk
<1>2. ASSUME NEW s \in Slots
      PROVE  \A i, j \in DOMAIN net.maps[s] :
               i < j => net.maps[s][i].order < net.maps[s][j].order
  <2>1. net.maps[s] \in Seq(Known) /\ Ascending(net.maps[s])
    BY <1>1 DEF Nets, Filings, Lists
  <2> QED
    BY <2>1 DEF Ascending
<1> QED
  BY <1>1, <1>2 DEF WellFormed, MapsSorted, SessionsConsistent, Shaped, Nets, Types

(* However the user edits a network, applies patches and holds the queue   *)
(* back: the clauses of every route map stay in strictly increasing order, *)
(* no session has a client at both ends, and every field keeps its type    *)
(* (config.rs: apply_modifier_unchecked, apply_patch; bgp_process.rs:      *)
(* set_route_map, remove_route_map, batch_update_route_maps).              *)
THEOREM ConfigurationKeepsShape == Spec => []WellFormed
<1> QED
  BY AlwaysShaped, ShapedIsWellFormed, PTL

(* The route maps that any sequence of edits leaves do to any entry what   *)
(* the documentation of RouteMapBuilder says: the single pass of           *)
(* RouteMapList::apply, which waits for an order, and a reader that jumps  *)
(* to the clause named by continue_at come to the same entry.              *)
THEOREM MapsDoAsDocumented == Spec => []MapsAsDocumented
<1>1. Shaped => MapsAsDocumented
  <2> SUFFICES ASSUME Shaped, NEW s \in Slots, NEW e \in Entries
               PROVE  ApplyList(net.maps[s], e) = Described(net.maps[s], e)
    BY DEF MapsAsDocumented
  <2>1. net.maps[s] \in Lists
    BY DEF Shaped, NetOk, Nets, Filings
  <2>2. Orders(net.maps[s])
    BY <2>1, ListsHaveOrders
  <2> QED
    BY <2>2, ListsAsDescribed
<1> QED
  BY <1>1, AlwaysShaped, PTL
-----------------------------------------------------------------------------
(* Keys: what an expression is about.                                      *)
Flip(p) == <<p[2], p[1]>>

LEMMA KeyFacts ==
  ASSUME NEW e
  PROVE  /\ Key(e) = [kind |-> e.kind, at |-> Key(e).at] /\ Key(e).kind = e.kind
         /\ e.kind \in {"area", "session"} => Key(e).at = Ordered(e.at)
         /\ e.kind = "map" => Key(e).at = Append(e.at, Clauses[e.value].order)
         /\ e.kind \notin {"area", "session", "map"} => Key(e).at = e.at
BY DEF Key

LEMMA SameKey ==
  ASSUME NEW e, NEW f
  PROVE  Key(e) = Key(f) <=> e.kind = f.kind /\ Key(e).at = Key(f).at
<1>1. \A k, a, l, b : k = l /\ a = b => [kind |-> k, at |-> a] = [kind |-> l, at |-> b]
  OBVIOUS
<1>2. Key(e) = [kind |-> e.kind, at |-> Key(e).at] /\ Key(f) = [kind |-> f.kind, at |-> Key(f).at]
      /\ Key(e).kind = e.kind /\ Key(f).kind = f.kind
  BY KeyFacts
<1> QED
  BY <1>1, <1>2, Zenon

LEMMA ExprFields ==
  ASSUME NEW kind, NEW at, NEW value
  PROVE  /\ Expr(kind, at, value).kind = kind /\ Expr(kind, at, value).at = at
         /\ Expr(kind, at, value).value = value
BY DEF Expr

LEMMA Pairs ==
  ASSUME NEW p \in Ends, NEW q \in Ends
  PROVE  /\ Flip(p) \in Ends /\ Flip(Flip(p)) = p /\ p # Flip(p)
         /\ Ordered(p) = Ordered(q) <=> q \in {p, Flip(p)}
         /\ {p[1], p[2]} = {q[1], q[2]} <=> q \in {p, Flip(p)}
<1>1. /\ p = <<p[1], p[2]>> /\ q = <<q[1], q[2]>> /\ p[1] # p[2] /\ q[1] # q[2]
      /\ p[1] \in Nat /\ p[2] \in Nat /\ q[1] \in Nat /\ q[2] \in Nat
      /\ p[1] \in Routers /\ p[2] \in Routers
  <2>1. p \in Routers \X Routers /\ q \in Routers \X Routers /\ p[1] # p[2] /\ q[1] # q[2]
    BY DEF Ends
  <2>2. Routers \subseteq Nat
    BY ConfigurationAssumption
  <2>3. p = <<p[1], p[2]>> /\ p[1] \in Routers /\ p[2] \in Routers
    BY <2>1
  <2>4. q = <<q[1], q[2]>> /\ q[1] \in Routers /\ q[2] \in Routers
    BY <2>1
  <2>5. p[1] \in Nat /\ p[2] \in Nat /\ q[1] \in Nat /\ q[2] \in Nat
    BY <2>2, <2>3, <2>4
  <2> QED
    BY <2>1, <2>3, <2>4, <2>5
<1>2. Flip(p) \in Ends /\ Flip(Flip(p)) = p /\ p # Flip(p)
  BY <1>1 DEF Flip, Ends
<1>3. q = p <=> q[1] = p[1] /\ q[2] = p[2]
  BY <1>1
<1>4. q = Flip(p) <=> q[1] = p[2] /\ q[2] = p[1]
  BY <1>1 DEF Flip
<1>5. Ordered(p)[1] = IF p[1] < p[2] THEN p[1] ELSE p[2]
  BY DEF Ordered
<1>6. Ordered(p)[2] = IF p[1] < p[2] THEN p[2] ELSE p[1]
  BY DEF Ordered
<1>7. Ordered(q)[1] = IF q[1] < q[2] THEN q[1] ELSE q[2]
  BY DEF Ordered
<1>8. Ordered(q)[2] = IF q[1] < q[2] THEN q[2] ELSE q[1]
  BY DEF Ordered
<1>9. Ordered(p) = <<Ordered(p)[1], Ordered(p)[2]>> /\ Ordered(q) = <<Ordered(q)[1], Ordered(q)[2]>>
  BY <1>1 DEF Ordered
<1>10. Ordered(p) = Ordered(q) <=> Ordered(p)[1] = Ordered(q)[1] /\ Ordered(p)[2] = Ordered(q)[2]
  BY <1>9
<1>11. Ordered(p) = Ordered(q) <=> q \in {p, Flip(p)}
  BY <1>1, <1>3, <1>4, <1>5, <1>6, <1>7, <1>8, <1>10
<1>12. {p[1], p[2]} = {q[1], q[2]} <=> q \in {p, Flip(p)}
  BY <1>1, <1>3, <1>4
<1> QED
  BY <1>2, <1>11, <1>12

LEMMA SlotKeys ==
  ASSUME NEW s \in Slots, NEW t \in Slots, NEW o, NEW u
  PROVE  Append(s, o) = Append(t, u) <=> s = t /\ o = u
<1>1. \A r \in Slots : r = <<r[1], r[2], r[3]>>
  <2>1. ASSUME NEW p, NEW d
        PROVE  LET r == <<p[1], p[2], d>> IN r = <<r[1], r[2], r[3]>>
    OBVIOUS
  <2> QED
    BY <2>1 DEF Slots
<1> DEFINE S == {s[1], s[2], s[3], t[1], t[2], t[3], o, u}
<1>2. \A a, b, c \in S : <<a, b, c>> \in Seq(S) /\ Len(<<a, b, c>>) = 3
  <2> HIDE DEF S
  <2> QED
    OBVIOUS
<1>3. s \in Seq(S) /\ Len(s) = 3 /\ t \in Seq(S) /\ Len(t) = 3 /\ o \in S /\ u \in S
  <2>1. /\ s[1] \in S /\ s[2] \in S /\ s[3] \in S /\ t[1] \in S /\ t[2] \in S /\ t[3] \in S
        /\ o \in S /\ u \in S
    OBVIOUS
  <2> HIDE DEF S
  <2>2. <<s[1], s[2], s[3]>> \in Seq(S) /\ Len(<<s[1], s[2], s[3]>>) = 3
    BY <1>2, <2>1
  <2>3. <<t[1], t[2], t[3]>> \in Seq(S) /\ Len(<<t[1], t[2], t[3]>>) = 3
    BY <1>2, <2>1
  <2>4. s = <<s[1], s[2], s[3]>> /\ t = <<t[1], t[2], t[3]>>
    BY <1>1
  <2> QED
    BY <2>1, <2>2, <2>3, <2>4, Zenon
<1> HIDE DEF S
<1>4. /\ Append(s, o)[4] = o /\ Append(t, u)[4] = u
      /\ Append(s, o)[1] = s[1] /\ Append(s, o)[2] = s[2] /\ Append(s, o)[3] = s[3]
      /\ Append(t, u)[1] = t[1] /\ Append(t, u)[2] = t[2] /\ Append(t, u)[3] = t[3]
  <2>1. \A r \in Seq(S), e \in S :
          /\ Append(r, e)[Len(r) + 1] = e
          /\ \A i \in 1 .. Len(r) : Append(r, e)[i] = r[i]
    OBVIOUS
  <2>2. 3 + 1 = 4 /\ 1 \in 1 .. 3 /\ 2 \in 1 .. 3 /\ 3 \in 1 .. 3
    OBVIOUS
  <2>3. ASSUME NEW r \in Seq(S), Len(r) = 3, NEW e \in S
        PROVE  Append(r, e)[4] = e /\ \A i \in 1 .. 3 : Append(r, e)[i] = r[i]
    <3>1. Append(r, e)[Len(r) + 1] = e /\ \A i \in 1 .. Len(r) : Append(r, e)[i] = r[i]
      BY <2>1
    <3>2. Append(r, e)[3 + 1] = e /\ \A i \in 1 .. 3 : Append(r, e)[i] = r[i]
      BY ONLY <2>3, <3>1, Zenon
    <3> QED
      BY ONLY <2>2, <3>2, Zenon
  <2>4. Append(s, o)[4] = o /\ \A i \in 1 .. 3 : Append(s, o)[i] = s[i]
    BY ONLY <1>3, <2>3, Zenon
  <2>5. Append(t, u)[4] = u /\ \A i \in 1 .. 3 : Append(t, u)[i] = t[i]
    BY ONLY <1>3, <2>3, Zenon
  <2> QED
    BY ONLY <2>2, <2>4, <2>5, Zenon
<1>5. ASSUME Append(s, o) = Append(t, u)
      PROVE  s = t /\ o = u
  <2>1. o = u /\ s[1] = t[1] /\ s[2] = t[2] /\ s[3] = t[3]
    BY <1>4, <1>5, Zenon
  <2>2. s = <<s[1], s[2], s[3]>> /\ t = <<t[1], t[2], t[3]>>
    BY <1>1
  <2> QED
    BY <2>1, <2>2, Zenon
<1> QED
  BY <1>5

(* What of the network an expression changes                               *)
LEMMA RefreshFields ==
  ASSUME NEW n, NetOk(n)
  PROVE  /\ Refresh(n).weight = n.weight /\ Refresh(n).area = n.area
         /\ Refresh(n).sessions = n.sessions /\ Refresh(n).maps = n.maps
         /\ Refresh(n).table = n.table
         /\ \A p \in Refresh(n).active : p \in Ends /\ n.sessions[p] # Absent
<1>1. n \in Nets(n.table)
  BY DEF NetOk
<1>2. Refresh(n).active = {p \in Ends : n.sessions[p] # Absent /\ p \in Reachable(n)
                                        /\ <<p[2], p[1]>> \in Reachable(n)}
  BY <1>1 DEF Refresh, Nets
<1> QED
  BY <1>1, <1>2 DEF Refresh, Nets

ActiveOk(n) == \A p \in n.active : p \in Ends /\ n.sessions[p] # Absent

LEMMA SetFields ==
  ASSUME NEW n, NetOk(n), NEW e, ValidExpr(e)
  PROVE  LET r == SetExpr(n, e)
         IN  /\ r.weight = IF e.kind = "weight" THEN [n.weight EXCEPT ![e.at] = e.value] ELSE n.weight
             /\ r.area = IF e.kind = "area" THEN [n.area EXCEPT ![{e.at[1], e.at[2]}] = e.value]
                         ELSE n.area
             /\ r.sessions = IF e.kind = "session" THEN SetSession(n.sessions, e.at, e.value)
                             ELSE n.sessions
             /\ r.maps = IF e.kind = "map"
                         THEN [n.maps EXCEPT ![e.at] = SetMap(@, Clauses[e.value])] ELSE n.maps
             /\ r.table = IF e.kind \notin Linked THEN With(n.table, Key(e), e) ELSE n.table
             /\ ActiveOk(n) => ActiveOk(r)
<1>0. n \in Nets(n.table)
  BY DEF NetOk
<1>1. CASE e.kind = "weight"
  <2> DEFINE w == [n.weight EXCEPT ![e.at] = e.value]
             r == [n EXCEPT !.weight = w]
  <2>1. w \in [LinkEnds -> Nat]
    BY <1>0, <1>1 DEF ValidExpr, Nets
  <2>2. SetExpr(n, e) = Refresh(r)
    BY <1>1 DEF SetExpr
  <2> HIDE DEF w
  <2>3. NetOk(r)
    BY <2>1, NetFields
  <2>4. r.weight = w /\ r.area = n.area /\ r.sessions = n.sessions /\ r.maps = n.maps /\ r.table = n.table
    BY <1>0 DEF Nets
  <2> HIDE DEF r
  <2> QED
    BY <1>1, <2>2, <2>3, <2>4, RefreshFields DEF Linked, ActiveOk, w
<1>2. CASE e.kind = "area"
  <2> DEFINE a == [n.area EXCEPT ![{e.at[1], e.at[2]}] = e.value]
             r == [n EXCEPT !.area = a]
  <2>1. a \in [Links -> Areas]
    BY <1>0, <1>2 DEF ValidExpr, Nets
  <2>2. SetExpr(n, e) = Refresh(r)
    BY <1>2 DEF SetExpr
  <2> HIDE DEF a
  <2>3. NetOk(r)
    BY <2>1, NetFields
  <2>4. r.weight = n.weight /\ r.area = a /\ r.sessions = n.sessions /\ r.maps = n.maps /\ r.table = n.table
    BY <1>0 DEF Nets
  <2> HIDE DEF r
  <2> QED
    BY <1>2, <2>2, <2>3, <2>4, RefreshFields DEF Linked, ActiveOk, a
<1>3. CASE e.kind = "session"
  <2> DEFINE s == SetSession(n.sessions, e.at, e.value)
             r == [n EXCEPT !.sessions = s]
  <2>1. SetExpr(n, e) = Refresh(r)
    BY <1>3 DEF SetExpr
  <2>2. e.value \in Types /\ e.at \in Routers \X Routers
    BY <1>3 DEF ValidExpr, Types
  <2>3. NetOk(r)
    BY <2>2, SessionKeeps
  <2> HIDE DEF s
  <2>4. r.weight = n.weight /\ r.area = n.area /\ r.sessions = s /\ r.maps = n.maps /\ r.table = n.table
    BY <1>0 DEF Nets
  <2> HIDE DEF r
  <2> QED
    BY <1>3, <2>1, <2>3, <2>4, RefreshFields DEF Linked, ActiveOk, s
<1>4. CASE e.kind = "map"
  <2> DEFINE f == [n.maps EXCEPT ![e.at] = SetMap(@, Clauses[e.value])]
             r == [n EXCEPT !.maps = f]
  <2>1. SetExpr(n, e) = r
    BY <1>4 DEF SetExpr
  <2> HIDE DEF f
  <2>2. r.weight = n.weight /\ r.area = n.area /\ r.sessions = n.sessions /\ r.maps = f
        /\ r.table = n.table /\ r.active = n.active
    BY <1>0 DEF Nets
  <2> HIDE DEF r
  <2> QED
    BY <1>4, <2>1, <2>2 DEF Linked, ActiveOk, f
<1>5. CASE e.kind \notin Linked
  <2> DEFINE T == With(n.table, Key(e), e)
             r == [n EXCEPT !.table = T]
  <2>1. SetExpr(n, e) = r
    BY <1>5 DEF SetExpr, Linked
  <2> HIDE DEF T
  <2>2. r.weight = n.weight /\ r.area = n.area /\ r.sessions = n.sessions /\ r.maps = n.maps
        /\ r.table = T /\ r.active = n.active
    BY <1>0 DEF Nets
  <2> HIDE DEF r
  <2> QED
    BY <1>5, <2>1, <2>2 DEF Linked, ActiveOk, T
<1> QED
  BY <1>1, <1>2, <1>3, <1>4, <1>5 DEF Linked

LEMMA UnsetFields ==
  ASSUME NEW n, NetOk(n), NEW e, ValidExpr(e)
  PROVE  LET r == UnsetExpr(n, e)
         IN  /\ r.weight = IF e.kind = "weight" THEN [n.weight EXCEPT ![e.at] = Infinite] ELSE n.weight
             /\ r.area = IF e.kind = "area" THEN [n.area EXCEPT ![{e.at[1], e.at[2]}] = Backbone]
                         ELSE n.area
             /\ r.sessions = IF e.kind = "session" THEN SetSession(n.sessions, e.at, Absent)
                             ELSE n.sessions
             /\ r.maps = IF e.kind = "map"
                         THEN [n.maps EXCEPT ![e.at] = RemoveMap(@, Clauses[e.value].order)]
                         ELSE n.maps
             /\ r.table = IF e.kind \notin Linked THEN Without(n.table, Key(e)) ELSE n.table
             /\ ActiveOk(n) => ActiveOk(r)
<1>0. n \in Nets(n.table)
  BY DEF NetOk
<1>1. CASE e.kind = "weight"
  <2> DEFINE w == [n.weight EXCEPT ![e.at] = Infinite]
             r == [n EXCEPT !.weight = w]
  <2>1. w \in [LinkEnds -> Nat]
    BY <1>0, ConfigurationAssumption DEF Nets
  <2>2. UnsetExpr(n, e) = Refresh(r)
    BY <1>1 DEF UnsetExpr
  <2> HIDE DEF w
  <2>3. NetOk(r)
    BY <2>1, NetFields
  <2>4. r.weight = w /\ r.area = n.area /\ r.sessions = n.sessions /\ r.maps = n.maps /\ r.table = n.table
    BY <1>0 DEF Nets
  <2> HIDE DEF r
  <2> QED
    BY <1>1, <2>2, <2>3, <2>4, RefreshFields DEF Linked, ActiveOk, w
<1>2. CASE e.kind = "area"
  <2> DEFINE a == [n.area EXCEPT ![{e.at[1], e.at[2]}] = Backbone]
             r == [n EXCEPT !.area = a]
  <2>1. a \in [Links -> Areas]
    BY <1>0, ConfigurationAssumption DEF Nets
  <2>2. UnsetExpr(n, e) = Refresh(r)
    BY <1>2 DEF UnsetExpr
  <2> HIDE DEF a
  <2>3. NetOk(r)
    BY <2>1, NetFields
  <2>4. r.weight = n.weight /\ r.area = a /\ r.sessions = n.sessions /\ r.maps = n.maps /\ r.table = n.table
    BY <1>0 DEF Nets
  <2> HIDE DEF r
  <2> QED
    BY <1>2, <2>2, <2>3, <2>4, RefreshFields DEF Linked, ActiveOk, a
<1>3. CASE e.kind = "session"
  <2> DEFINE s == SetSession(n.sessions, e.at, Absent)
             r == [n EXCEPT !.sessions = s]
  <2>1. UnsetExpr(n, e) = Refresh(r)
    BY <1>3 DEF UnsetExpr
  <2>2. Absent \in Types /\ e.at \in Routers \X Routers
    BY <1>3 DEF ValidExpr, Types
  <2>3. NetOk(r)
    BY <2>2, SessionKeeps
  <2> HIDE DEF s
  <2>4. r.weight = n.weight /\ r.area = n.area /\ r.sessions = s /\ r.maps = n.maps /\ r.table = n.table
    BY <1>0 DEF Nets
  <2> HIDE DEF r
  <2> QED
    BY <1>3, <2>1, <2>3, <2>4, RefreshFields DEF Linked, ActiveOk, s
<1>4. CASE e.kind = "map"
  <2> DEFINE f == [n.maps EXCEPT ![e.at] = RemoveMap(@, Clauses[e.value].order)]
             r == [n EXCEPT !.maps = f]
  <2>1. UnsetExpr(n, e) = r
    BY <1>4 DEF UnsetExpr
  <2> HIDE DEF f
  <2>2. r.weight = n.weight /\ r.area = n.area /\ r.sessions = n.sessions /\ r.maps = f
        /\ r.table = n.table /\ r.active = n.active
    BY <1>0 DEF Nets
  <2> HIDE DEF r
  <2> QED
    BY <1>4, <2>1, <2>2 DEF Linked, ActiveOk, f
<1>5. CASE e.kind \notin Linked
  <2> DEFINE T == Without(n.table, Key(e))
             r == [n EXCEPT !.table = T]
  <2>1. UnsetExpr(n, e) = r
    BY <1>5 DEF UnsetExpr, Linked
  <2> HIDE DEF T
  <2>2. r.weight = n.weight /\ r.area = n.area /\ r.sessions = n.sessions /\ r.maps = n.maps
        /\ r.table = T /\ r.active = n.active
    BY <1>0 DEF Nets
  <2> HIDE DEF r
  <2> QED
    BY <1>5, <2>1, <2>2 DEF Linked, ActiveOk, T
<1> QED
  BY <1>1, <1>2, <1>3, <1>4, <1>5 DEF Linked

(* What editing a list of clauses leaves in it                             *)
Has(maps, c) == \E i \in DOMAIN maps : maps[i] = c

LEMMA OrderOfClause ==
  ASSUME NEW maps, NEW order
  PROVE  HasOrder(maps, order) <=> \E c : Has(maps, c) /\ c.order = order
BY DEF HasOrder, Has

LEMMA SetMapContent ==
  ASSUME NEW maps \in Lists, NEW map \in Known
  PROVE  /\ Has(SetMap(maps, map), map)
         /\ \A c : c.order # map.order => (Has(SetMap(maps, map), c) <=> Has(maps, c))
<1> DEFINE n == Len(maps)
           o == map.order
           p == PositionOf(maps, o)
<1>1. n \in Nat /\ DOMAIN maps = 1 .. n /\ maps \in Seq(Known) /\ o \in Int
  BY KnownTyped DEF Lists
<1>2. p \in 1 .. n + 1 /\ (HasOrder(maps, o) => p \in 1 .. n /\ maps[p].order = o)
  BY <1>1, Position
<1> HIDE DEF n, p
<1>3. CASE HasOrder(maps, o)
  <2> DEFINE r == [maps EXCEPT ![p] = map]
  <2>1. SetMap(maps, map) = r
    BY <1>3 DEF SetMap, p
  <2>2. DOMAIN r = 1 .. n /\ \A i \in 1 .. n : r[i] = IF i = p THEN map ELSE maps[i]
    BY <1>1
  <2> HIDE DEF r
  <2>3. Has(r, map)
    BY <1>2, <1>3, <2>2 DEF Has
  <2>4. ASSUME NEW c, c.order # o
        PROVE  Has(r, c) <=> Has(maps, c)
    <3>1. c # map
      BY <2>4
    <3>2. \A i \in 1 .. n : maps[i] = c => i # p
      BY <1>2, <1>3, <2>4
    <3> QED
      BY <1>1, <2>2, <3>1, <3>2 DEF Has
  <2> QED
    BY <2>1, <2>3, <2>4
<1>4. CASE ~HasOrder(maps, o)
  <2> DEFINE r == InsertAt(maps, p, map)
  <2>1. SetMap(maps, map) = r
    BY <1>4 DEF SetMap, p
  <2>2. /\ r \in Seq(Known) /\ Len(r) = n + 1
        /\ \A i \in 1 .. n + 1 :
             r[i] = IF i < p THEN maps[i] ELSE IF i = p THEN map ELSE maps[i - 1]
    <3>1. maps \in Seq(Known) /\ p \in 1 .. Len(maps) + 1 /\ map \in Known
      BY <1>1, <1>2 DEF n
    <3>2. /\ r \in Seq(Known) /\ Len(r) = Len(maps) + 1
          /\ \A i \in 1 .. Len(maps) + 1 :
               r[i] = IF i < p THEN maps[i] ELSE IF i = p THEN map ELSE maps[i - 1]
      BY ONLY <3>1, Inserted
    <3> QED
      BY ONLY <3>2 DEF n
  <2> HIDE DEF r
  <2>3. DOMAIN r = 1 .. n + 1
    BY <2>2
  <2>4. Has(r, map)
    <3>1. r[p] = map
      BY <1>1, <1>2, <2>2
    <3> QED
      BY <1>2, <2>3, <3>1 DEF Has
  <2>5. ASSUME NEW c, c.order # o, Has(r, c)
        PROVE  Has(maps, c)
    <3>1. PICK i \in 1 .. n + 1 : r[i] = c
      BY <2>3, <2>5 DEF Has
    <3>2. i # p
      BY <1>1, <1>2, <2>2, <2>5, <3>1
    <3>3. CASE i < p
      <4>1. i \in 1 .. n /\ maps[i] = c
        BY <1>1, <1>2, <2>2, <3>1, <3>3
      <4> QED
        BY <1>1, <4>1 DEF Has
    <3>4. CASE p < i
      <4>1. i - 1 \in 1 .. n /\ ~(i < p)
        BY <1>1, <1>2, <3>4
      <4>2. maps[i - 1] = c
        BY <2>2, <3>1, <3>2, <4>1
      <4> QED
        BY <1>1, <4>1, <4>2 DEF Has
    <3> QED
      BY <1>1, <1>2, <3>2, <3>3, <3>4
  <2>6. ASSUME NEW c, Has(maps, c)
        PROVE  Has(r, c)
    <3>1. PICK i \in 1 .. n : maps[i] = c
      BY <1>1, <2>6 DEF Has
    <3>2. CASE i < p
      <4>1. i \in 1 .. n + 1 /\ r[i] = c
        BY <1>1, <2>2, <3>1, <3>2
      <4> QED
        BY <2>3, <4>1 DEF Has
    <3>3. CASE ~(i < p)
      <4>1. i + 1 \in 1 .. n + 1 /\ ~(i + 1 < p) /\ i + 1 # p /\ i + 1 - 1 = i
        BY <1>1, <1>2, <3>3
      <4>2. r[i + 1] = c
        BY <2>2, <3>1, <4>1
      <4> QED
        BY <2>3, <4>1, <4>2 DEF Has
    <3> QED
      BY <3>2, <3>3
  <2> QED
    BY <2>1, <2>4, <2>5, <2>6
<1> QED
  BY <1>3, <1>4

LEMMA RemoveMapContent ==
  ASSUME NEW maps \in Lists, NEW order
  PROVE  /\ ~HasOrder(RemoveMap(maps, order), order)
         /\ \A c : c.order # order => (Has(RemoveMap(maps, order), c) <=> Has(maps, c))
<1> DEFINE n == Len(maps)
           p == PositionOf(maps, order)
<1>1. /\ n \in Nat /\ DOMAIN maps = 1 .. n /\ maps \in Seq(Known)
      /\ \A i \in 1 .. n : maps[i].order \in Int
      /\ \A i, j \in 1 .. n : i < j => maps[i].order < maps[j].order
  BY ListsHaveOrders DEF Orders, WellTyped, Lists
<1>2. CASE ~HasOrder(maps, order)
  BY <1>2 DEF RemoveMap
<1>3. CASE HasOrder(maps, order)
  <2>1. order \in Int
    BY <1>1, <1>3 DEF HasOrder
  <2>2. p \in 1 .. n /\ maps[p].order = order
    BY <1>3, <2>1, Position
  <2> DEFINE r == RemoveAt(maps, p)
  <2>3. RemoveMap(maps, order) = r
    BY <1>3 DEF RemoveMap
  <2> HIDE DEF p, n
  <2>4. /\ r \in Seq(Known) /\ Len(r) = n - 1
        /\ \A i \in 1 .. n - 1 : r[i] = IF i < p THEN maps[i] ELSE maps[i + 1]
    <3>1. maps \in Seq(Known) /\ p \in 1 .. Len(maps)
      BY <1>1, <2>2 DEF n
    <3>2. /\ r \in Seq(Known) /\ Len(r) = Len(maps) - 1
          /\ \A i \in 1 .. Len(maps) - 1 : r[i] = IF i < p THEN maps[i] ELSE maps[i + 1]
      BY ONLY <3>1, Removed
    <3> QED
      BY ONLY <3>2 DEF n
  <2> HIDE DEF r
  <2>5. DOMAIN r = 1 .. n - 1
    BY <2>4
  <2>6. ASSUME NEW i \in 1 .. n - 1
        PROVE  \E j \in 1 .. n : j # p /\ r[i] = maps[j]
    <3>1. CASE i < p
      <4>1. i \in 1 .. n /\ i # p
        BY <1>1, <2>2, <3>1
      <4> QED
        BY <2>4, <3>1, <4>1
    <3>2. CASE ~(i < p)
      <4>1. i + 1 \in 1 .. n /\ i + 1 # p
        BY <1>1, <2>2, <3>2
      <4> QED
        BY <2>4, <3>2, <4>1
    <3> QED
      BY <3>1, <3>2
  <2>7. ASSUME NEW j \in 1 .. n, j # p
        PROVE  \E i \in 1 .. n - 1 : r[i] = maps[j]
    <3>1. CASE j < p
      <4>1. j \in 1 .. n - 1
        BY <1>1, <2>2, <3>1
      <4> QED
        BY <2>4, <3>1, <4>1
    <3>2. CASE ~(j < p)
      <4>1. j - 1 \in 1 .. n - 1 /\ ~(j - 1 < p) /\ j - 1 + 1 = j
        BY <1>1, <2>2, <2>7, <3>2
      <4> QED
        BY <2>4, <4>1
    <3> QED
      BY <3>1, <3>2
  <2>8. \A j \in 1 .. n : j # p => maps[j].order # order
    <3> SUFFICES ASSUME NEW j \in 1 .. n, j # p
                 PROVE  maps[j].order # order
      OBVIOUS
    <3>1. j < p \/ p < j
      BY <1>1, <2>2
    <3> QED
      BY <1>1, <2>1, <2>2, <3>1
  <2>9. ~HasOrder(r, order)
    BY <2>5, <2>6, <2>8 DEF HasOrder
  <2>10. ASSUME NEW c, c.order # order
         PROVE  Has(r, c) <=> Has(maps, c)
    <3>1. ASSUME Has(r, c)
          PROVE  Has(maps, c)
      BY <1>1, <2>5, <2>6, <3>1 DEF Has
    <3>2. ASSUME Has(maps, c)
          PROVE  Has(r, c)
      <4>1. PICK j \in 1 .. n : maps[j] = c
        BY <1>1, <3>2 DEF Has
      <4>2. j # p
        BY <2>2, <2>10, <4>1
      <4>3. PICK i \in 1 .. n - 1 : r[i] = maps[j]
        BY ONLY <2>7, <4>1, <4>2, j \in 1 .. n
      <4> QED
        BY <2>5, <4>1, <4>3 DEF Has
    <3> QED
      BY <3>1, <3>2
  <2> QED
    BY <2>3, <2>9, <2>10
<1> QED
  BY <1>2, <1>3

(* In a sorted list, a clause is known by its order.                       *)
LEMMA ContainedOnce ==
  ASSUME NEW maps \in Lists, NEW c, NEW d, Has(maps, c), Has(maps, d), c.order = d.order
  PROVE  c = d
<1>1. /\ Len(maps) \in Nat /\ DOMAIN maps = 1 .. Len(maps)
      /\ \A i \in 1 .. Len(maps) : maps[i].order \in Int
      /\ \A i, j \in 1 .. Len(maps) : i < j => maps[i].order < maps[j].order
  BY ListsHaveOrders DEF Orders, WellTyped
<1>2. PICK i \in 1 .. Len(maps) : maps[i] = c
  BY <1>1 DEF Has
<1>3. PICK j \in 1 .. Len(maps) : maps[j] = d
  BY <1>1 DEF Has
<1>4. i < j \/ j < i \/ i = j
  BY <1>1
<1>5. ~(i < j) /\ ~(j < i)
  BY <1>1, <1>2, <1>3
<1> QED
  BY <1>2, <1>3, <1>4, <1>5
-----------------------------------------------------------------------------
(* What a network says of the place that an expression is about: what the  *)
(* expression says, nothing, nothing that get_config would show; and that  *)
(* two networks say the same of it.                                        *)
Holds(n, e) ==
  /\ e.kind = "weight" => n.weight[e.at] = e.value
  /\ e.kind = "area" => n.area[{e.at[1], e.at[2]}] = e.value
  /\ e.kind = "session" => n.sessions[e.at] = e.value /\ n.sessions[Flip(e.at)] = Peer
  /\ e.kind = "map" => Has(n.maps[e.at], Clauses[e.value])
  /\ e.kind \notin Linked => Key(e) \in DOMAIN n.table /\ n.table[Key(e)] = e

Clear(n, e) ==
  /\ e.kind = "weight" => n.weight[e.at] \in {DefaultWeight, Infinite}
  /\ e.kind = "area" => n.area[{e.at[1], e.at[2]}] = Backbone
  /\ e.kind = "session" => n.sessions[e.at] = Absent /\ n.sessions[Flip(e.at)] = Absent
  /\ e.kind = "map" => ~HasOrder(n.maps[e.at], Clauses[e.value].order)
  /\ e.kind \notin Linked => Key(e) \notin DOMAIN n.table

Untold(n, e) == Clear(n, e) /\ (e.kind = "weight" => n.weight[e.at] = DefaultWeight)

Untouched(n, r, e) ==
  /\ e.kind = "weight" => r.weight[e.at] = n.weight[e.at]
  /\ e.kind = "area" => r.area[{e.at[1], e.at[2]}] = n.area[{e.at[1], e.at[2]}]
  /\ e.kind = "session" => /\ r.sessions[e.at] = n.sessions[e.at]
                           /\ r.sessions[Flip(e.at)] = n.sessions[Flip(e.at)]
  /\ e.kind = "map" => \A c : c.order = Clauses[e.value].order =>
                                (Has(r.maps[e.at], c) <=> Has(n.maps[e.at], c))
  /\ e.kind \notin Linked => /\ Key(e) \in DOMAIN r.table <=> Key(e) \in DOMAIN n.table
                             /\ Key(e) \in DOMAIN n.table => r.table[Key(e)] = n.table[Key(e)]

LEMMA UntouchedKeeps ==
  ASSUME NEW n, NEW r, NEW e, Untouched(n, r, e)
  PROVE  /\ Holds(n, e) => Holds(r, e)
         /\ Clear(n, e) => Clear(r, e)
<1>1. Holds(n, e) => Holds(r, e)
  BY DEF Untouched, Holds
<1>2. e.kind = "map" => (HasOrder(r.maps[e.at], Clauses[e.value].order)
                           <=> HasOrder(n.maps[e.at], Clauses[e.value].order))
  BY OrderOfClause DEF Untouched
<1>3. Clear(n, e) => Clear(r, e)
  BY <1>2 DEF Untouched, Clear
<1> QED
  BY <1>1, <1>3

Proper(e) == ValidExpr(e) /\ Located(e)

LEMMA SetSessionFacts ==
  ASSUME NEW s \in [Ends -> Types], NEW at \in Ends, NEW type
  PROVE  /\ SetSession(s, at, type)[at] = type
         /\ SetSession(s, at, type)[Flip(at)] = IF type = Absent THEN Absent ELSE Peer
         /\ \A p \in Ends : p \notin {at, Flip(at)} => SetSession(s, at, type)[p] = s[p]
<1>1. Flip(at) \in Ends /\ at # Flip(at)
  BY Pairs
<1>2. SetSession(s, at, type) =
        [s EXCEPT ![at] = type, ![Flip(at)] = IF type = Absent THEN Absent ELSE Peer]
  BY DEF SetSession, Flip
<1> QED
  BY <1>1, <1>2

(* An expression changes nothing but what it is about.                     *)
LEMMA Elsewhere ==
  ASSUME NEW n, NetOk(n), NEW e, Proper(e), NEW f, Proper(f), Key(e) # Key(f),
         NEW r, r \in {SetExpr(n, e), UnsetExpr(n, e)}
  PROVE  Untouched(n, r, f)
<1> DEFINE place == {e.at[1], e.at[2]}
           order == Clauses[e.value].order
<1>0. /\ n.weight \in [LinkEnds -> Nat] /\ n.area \in [Links -> Areas]
      /\ n.sessions \in [Ends -> Types] /\ n.maps \in [Slots -> Lists]
  BY DEF NetOk, Nets, Filings
<1>1. \/ e.kind # f.kind
      \/ e.kind = f.kind /\ Key(e).at # Key(f).at
  BY SameKey
<1>2. /\ r.weight = n.weight \/ (e.kind = "weight" /\ \E w : r.weight = [n.weight EXCEPT ![e.at] = w])
      /\ r.area = n.area \/ (e.kind = "area" /\ \E a : r.area = [n.area EXCEPT ![place] = a])
      /\ r.sessions = n.sessions
         \/ (e.kind = "session" /\ \E type : r.sessions = SetSession(n.sessions, e.at, type))
      /\ r.maps = n.maps
         \/ /\ e.kind = "map"
            /\ \/ r.maps = [n.maps EXCEPT ![e.at] = SetMap(@, Clauses[e.value])]
               \/ r.maps = [n.maps EXCEPT ![e.at] = RemoveMap(@, order)]
      /\ r.table = n.table
         \/ /\ e.kind \notin Linked
            /\ r.table = With(n.table, Key(e), e) \/ r.table = Without(n.table, Key(e))
  <2> DEFINE w == e.value
             W(v) == [n.weight EXCEPT ![e.at] = v]
             A(v) == [n.area EXCEPT ![place] = v]
             S(v) == SetSession(n.sessions, e.at, v)
             M == [n.maps EXCEPT ![e.at] = SetMap(@, Clauses[e.value])]
             D == [n.maps EXCEPT ![e.at] = RemoveMap(@, order)]
  <2>1. CASE r = SetExpr(n, e)
    <3>1. /\ r.weight = n.weight \/ (e.kind = "weight" /\ r.weight = W(w))
          /\ r.area = n.area \/ (e.kind = "area" /\ r.area = A(w))
          /\ r.sessions = n.sessions \/ (e.kind = "session" /\ r.sessions = S(w))
          /\ r.maps = n.maps \/ (e.kind = "map" /\ r.maps = M)
          /\ r.table = n.table \/ (e.kind \notin Linked /\ r.table = With(n.table, Key(e), e))
      <4>1. ValidExpr(e)
        BY DEF Proper
      <4> QED
        BY ONLY NetOk(n), <2>1, <4>1, SetFields
    <3> HIDE DEF w, W, A, S, M, D
    <3>2. /\ r.weight = n.weight \/ (e.kind = "weight" /\ \E v : r.weight = W(v))
          /\ r.area = n.area \/ (e.kind = "area" /\ \E v : r.area = A(v))
          /\ r.sessions = n.sessions \/ (e.kind = "session" /\ \E v : r.sessions = S(v))
      BY <3>1
    <3> QED
      BY <3>1, <3>2 DEF W, A, S, M
  <2>2. CASE r = UnsetExpr(n, e)
    <3>1. /\ r.weight = n.weight \/ (e.kind = "weight" /\ r.weight = W(Infinite))
          /\ r.area = n.area \/ (e.kind = "area" /\ r.area = A(Backbone))
          /\ r.sessions = n.sessions \/ (e.kind = "session" /\ r.sessions = S(Absent))
          /\ r.maps = n.maps \/ (e.kind = "map" /\ r.maps = D)
          /\ r.table = n.table \/ (e.kind \notin Linked /\ r.table = Without(n.table, Key(e)))
      <4>1. ValidExpr(e)
        BY DEF Proper
      <4> QED
        BY ONLY NetOk(n), <2>2, <4>1, UnsetFields
    <3> HIDE DEF W, A, S, M, D
    <3>2. /\ r.weight = n.weight \/ (e.kind = "weight" /\ \E v : r.weight = W(v))
          /\ r.area = n.area \/ (e.kind = "area" /\ \E v : r.area = A(v))
          /\ r.sessions = n.sessions \/ (e.kind = "session" /\ \E v : r.sessions = S(v))
      BY <3>1
    <3> QED
      BY <3>1, <3>2 DEF W, A, S, D
  <2> QED
    BY <2>1, <2>2
<1> HIDE DEF place, order
<1>3. CASE f.kind = "weight"
  <2>1. r.weight[f.at] = n.weight[f.at]
    <3>1. f.at \in LinkEnds
      BY <1>3 DEF Proper, Located
    <3>2. e.kind = "weight" => f.at # e.at
      BY <1>1, <1>3, KeyFacts
    <3> QED
      BY <1>0, <1>2, <3>1, <3>2
  <2> QED
    BY <1>3, <2>1 DEF Untouched, Linked
<1>4. CASE f.kind = "area"
  <2> DEFINE other == {f.at[1], f.at[2]}
  <2>1. other \in Links /\ f.at \in Ends
    BY <1>4 DEF Proper, Located, LinkEnds
  <2>2. e.kind = "area" => other # place
    <3>1. SUFFICES ASSUME e.kind = "area" PROVE other # place
      OBVIOUS
    <3>2. e.at \in Ends
      BY <3>1 DEF Proper, Located, LinkEnds
    <3>3. Ordered(e.at) # Ordered(f.at)
      BY <1>1, <1>4, <3>1, KeyFacts
    <3> QED
      BY <2>1, <3>2, <3>3, Pairs DEF place
  <2> HIDE DEF other
  <2>3. r.area[other] = n.area[other]
    BY <1>0, <1>2, <2>1, <2>2
  <2> QED
    BY <1>4, <2>3 DEF Untouched, Linked, other
<1>5. CASE f.kind = "session"
  <2>1. f.at \in Ends /\ Flip(f.at) \in Ends
    BY <1>5, Pairs DEF Proper, Located
  <2>2. ASSUME NEW type, e.kind = "session", r.sessions = SetSession(n.sessions, e.at, type)
        PROVE  r.sessions[f.at] = n.sessions[f.at] /\ r.sessions[Flip(f.at)] = n.sessions[Flip(f.at)]
    <3>1. e.at \in Ends
      BY <2>2 DEF Proper, Located
    <3>2. Ordered(e.at) # Ordered(f.at)
      BY <1>1, <1>5, <2>2, KeyFacts
    <3>3. Ordered(Flip(f.at)) = Ordered(f.at)
      BY <2>1, Pairs
    <3>4. f.at \notin {e.at, Flip(e.at)} /\ Flip(f.at) \notin {e.at, Flip(e.at)}
      BY <2>1, <3>1, <3>2, <3>3, Pairs
    <3> QED
      BY <1>0, <2>1, <2>2, <3>1, <3>4, SetSessionFacts
  <2>3. r.sessions[f.at] = n.sessions[f.at] /\ r.sessions[Flip(f.at)] = n.sessions[Flip(f.at)]
    BY <1>2, <2>2
  <2> QED
    BY <1>5, <2>3 DEF Untouched, Linked
<1>6. CASE f.kind = "map"
  <2>1. f.at \in Slots
    BY <1>6 DEF Proper, Located
  <2>2. CASE r.maps = n.maps
    BY <1>6, <2>2 DEF Untouched, Linked
  <2>3. CASE r.maps # n.maps
    <3>1. e.kind = "map" /\ e.at \in Slots /\ e.value \in DOMAIN Clauses
      BY <1>2, <2>3 DEF Proper, Located, ValidExpr
    <3>2. Append(e.at, order) # Append(f.at, Clauses[f.value].order)
      BY <1>1, <1>6, <3>1, KeyFacts DEF order
    <3>3. e.at # f.at \/ order # Clauses[f.value].order
      BY <3>2
    <3>4. n.maps[e.at] \in Lists /\ Clauses[e.value] \in Known
      BY <1>0, <3>1 DEF Known
    <3>5. ASSUME NEW c, c.order = Clauses[f.value].order
          PROVE  Has(r.maps[f.at], c) <=> Has(n.maps[f.at], c)
      <4>1. CASE e.at # f.at
        <5>1. r.maps[f.at] = n.maps[f.at]
          BY <1>0, <1>2, <2>1, <2>3, <4>1
        <5> QED
          BY <5>1
      <4>2. CASE e.at = f.at
        <5>1. c.order # order
          BY <3>3, <3>5, <4>2
        <5>2. \/ r.maps[f.at] = SetMap(n.maps[f.at], Clauses[e.value])
              \/ r.maps[f.at] = RemoveMap(n.maps[f.at], order)
          BY <1>0, <1>2, <2>1, <2>3, <4>2
        <5>3. /\ Has(SetMap(n.maps[f.at], Clauses[e.value]), c) <=> Has(n.maps[f.at], c)
              /\ Has(RemoveMap(n.maps[f.at], order), c) <=> Has(n.maps[f.at], c)
          BY <3>4, <4>2, <5>1, SetMapContent, RemoveMapContent DEF order
        <5> QED
          BY <5>2, <5>3
      <4> QED
        BY <4>1, <4>2
    <3> QED
      BY <1>6, <3>5 DEF Untouched, Linked
  <2> QED
    BY <2>2, <2>3
<1>7. CASE f.kind \notin Linked
  <2>1. /\ Key(f) \in DOMAIN r.table <=> Key(f) \in DOMAIN n.table
        /\ Key(f) \in DOMAIN n.table => r.table[Key(f)] = n.table[Key(f)]
    BY <1>2 DEF With, Without
  <2> QED
    BY <1>7, <2>1 DEF Untouched, Linked
<1> QED
  BY <1>3, <1>4, <1>5, <1>6, <1>7 DEF Linked

(* There, it does what it says.                                            *)
LEMMA SetHolds ==
  ASSUME NEW n, NetOk(n), NEW e, Proper(e)
  PROVE  Holds(SetExpr(n, e), e)
<1> DEFINE r == SetExpr(n, e)
<1>0. /\ n.weight \in [LinkEnds -> Nat] /\ n.area \in [Links -> Areas]
      /\ n.sessions \in [Ends -> Types] /\ n.maps \in [Slots -> Lists]
  BY DEF NetOk, Nets, Filings
<1>1. CASE e.kind = "weight"
  <2>1. e.at \in LinkEnds
    BY <1>1 DEF Proper, Located
  <2>2. r.weight = [n.weight EXCEPT ![e.at] = e.value]
    BY <1>1, SetFields DEF Proper
  <2> HIDE DEF r
  <2>3. r.weight[e.at] = e.value
    BY <1>0, <2>1, <2>2
  <2> QED
    BY <1>1, <2>3 DEF Holds, Linked, r
<1>2. CASE e.kind = "area"
  <2> DEFINE l == {e.at[1], e.at[2]}
  <2>1. l \in Links
    BY <1>2 DEF Proper, Located, LinkEnds
  <2>2. r.area = [n.area EXCEPT ![l] = e.value]
    BY <1>2, SetFields DEF Proper
  <2> HIDE DEF r, l
  <2>3. r.area[l] = e.value
    BY <1>0, <2>1, <2>2
  <2> QED
    BY <1>2, <2>3 DEF Holds, Linked, r, l
<1>3. CASE e.kind = "session"
  <2>1. e.at \in Ends /\ e.value # Absent
    BY <1>3 DEF Proper, Located, ValidExpr, Peer, Client, Absent
  <2>2. r.sessions = SetSession(n.sessions, e.at, e.value)
    BY <1>3, SetFields DEF Proper
  <2> HIDE DEF r
  <2>3. r.sessions[e.at] = e.value /\ r.sessions[Flip(e.at)] = Peer
    BY <1>0, <2>1, <2>2, SetSessionFacts
  <2> QED
    BY <1>3, <2>3 DEF Holds, Linked, r
<1>4. CASE e.kind = "map"
  <2>1. e.at \in Slots /\ Clauses[e.value] \in Known
    BY <1>4 DEF Proper, Located, ValidExpr, Known
  <2>2. r.maps = [n.maps EXCEPT ![e.at] = SetMap(@, Clauses[e.value])]
    BY <1>4, SetFields DEF Proper
  <2> HIDE DEF r
  <2>3. r.maps[e.at] = SetMap(n.maps[e.at], Clauses[e.value])
    BY <1>0, <2>1, <2>2
  <2>4. Has(r.maps[e.at], Clauses[e.value])
    BY <1>0, <2>1, <2>3, SetMapContent
  <2> QED
    BY <1>4, <2>4 DEF Holds, Linked, r
<1>5. CASE e.kind \notin Linked
  <2>1. r.table = With(n.table, Key(e), e)
    BY <1>5, SetFields DEF Proper
  <2> HIDE DEF r
  <2>2. Key(e) \in DOMAIN r.table /\ r.table[Key(e)] = e
    BY <2>1 DEF With
  <2> QED
    BY <1>5, <2>2 DEF Holds, Linked, r
<1> QED
  BY <1>1, <1>2, <1>3, <1>4, <1>5 DEF Linked

LEMMA UnsetClears ==
  ASSUME NEW n, NetOk(n), NEW e, Proper(e)
  PROVE  Clear(UnsetExpr(n, e), e)
<1> DEFINE r == UnsetExpr(n, e)
<1>0. /\ n.weight \in [LinkEnds -> Nat] /\ n.area \in [Links -> Areas]
      /\ n.sessions \in [Ends -> Types] /\ n.maps \in [Slots -> Lists]
  BY DEF NetOk, Nets, Filings
<1>1. CASE e.kind = "weight"
  <2>1. e.at \in LinkEnds
    BY <1>1 DEF Proper, Located
  <2>2. r.weight = [n.weight EXCEPT ![e.at] = Infinite]
    BY <1>1, UnsetFields DEF Proper
  <2> HIDE DEF r
  <2>3. r.weight[e.at] = Infinite
    BY <1>0, <2>1, <2>2
  <2> QED
    BY <1>1, <2>3 DEF Clear, Linked, r
<1>2. CASE e.kind = "area"
  <2> DEFINE l == {e.at[1], e.at[2]}
  <2>1. l \in Links
    BY <1>2 DEF Proper, Located, LinkEnds
  <2>2. r.area = [n.area EXCEPT ![l] = Backbone]
    BY <1>2, UnsetFields DEF Proper
  <2> HIDE DEF r, l
  <2>3. r.area[l] = Backbone
    BY <1>0, <2>1, <2>2
  <2> QED
    BY <1>2, <2>3 DEF Clear, Linked, r, l
<1>3. CASE e.kind = "session"
  <2>1. e.at \in Ends
    BY <1>3 DEF Proper, Located
  <2>2. r.sessions = SetSession(n.sessions, e.at, Absent)
    BY <1>3, UnsetFields DEF Proper
  <2> HIDE DEF r
  <2>3. r.sessions[e.at] = Absent /\ r.sessions[Flip(e.at)] = Absent
    BY <1>0, <2>1, <2>2, SetSessionFacts
  <2> QED
    BY <1>3, <2>3 DEF Clear, Linked, r
<1>4. CASE e.kind = "map"
  <2> DEFINE o == Clauses[e.value].order
  <2>1. e.at \in Slots
    BY <1>4 DEF Proper, Located
  <2>2. r.maps = [n.maps EXCEPT ![e.at] = RemoveMap(@, o)]
    BY <1>4, UnsetFields DEF Proper
  <2> HIDE DEF r, o
  <2>3. r.maps[e.at] = RemoveMap(n.maps[e.at], o)
    BY <1>0, <2>1, <2>2
  <2>4. ~HasOrder(r.maps[e.at], o)
    BY <1>0, <2>1, <2>3, RemoveMapContent
  <2> QED
    BY <1>4, <2>4 DEF Clear, Linked, r, o
<1>5. CASE e.kind \notin Linked
  <2>1. r.table = Without(n.table, Key(e))
    BY <1>5, UnsetFields DEF Proper
  <2> HIDE DEF r
  <2>2. Key(e) \notin DOMAIN r.table
    BY <2>1 DEF Without
  <2> QED
    BY <1>5, <2>2 DEF Clear, Linked, r
<1> QED
  BY <1>1, <1>2, <1>3, <1>4, <1>5 DEF Linked
-----------------------------------------------------------------------------
(* What get_config reads holds, and it reads all that is not as it is      *)
(* anyway, but for the route maps of neighbors without a session.          *)
Readings(n, up) ==
  {Expr("weight", p, n.weight[p]) : p \in {q \in LinkEnds : n.weight[q] # DefaultWeight}} \cup
  {Expr("area", Oriented(p, up), n.area[{p[1], p[2]}]) :
     p \in {q \in LinkEnds : n.area[{q[1], q[2]}] # Backbone}} \cup
  SessionExprs(n, up) \cup MapExprs(n) \cup {n.table[k] : k \in DOMAIN n.table}

LEMMA ReadConfig ==
  ASSUME NEW n, NEW up
  PROVE  /\ \A k \in DOMAIN GetConfig(n, up) :
              GetConfig(n, up)[k] \in Readings(n, up) /\ Key(GetConfig(n, up)[k]) = k
         /\ \A e \in Readings(n, up) : Key(e) \in DOMAIN GetConfig(n, up)
<1> DEFINE all == Readings(n, up)
<1>1. GetConfig(n, up) = ConfigOf(all)
  BY DEF GetConfig, Readings
<1> HIDE DEF all
<1>2. ConfigOf(all) = [k \in {Key(e) : e \in all} |-> CHOOSE e \in all : Key(e) = k]
  BY DEF ConfigOf
<1>3. \A e \in all : Key(e) \in DOMAIN ConfigOf(all)
  BY <1>2
<1>4. ASSUME NEW k \in DOMAIN ConfigOf(all)
      PROVE  ConfigOf(all)[k] \in all /\ Key(ConfigOf(all)[k]) = k
  <2>1. \E e \in all : Key(e) = k
    BY <1>2
  <2>2. ConfigOf(all)[k] = CHOOSE e \in all : Key(e) = k
    BY <1>2
  <2>3. (CHOOSE e \in all : Key(e) = k) \in all /\ Key(CHOOSE e \in all : Key(e) = k) = k
    BY <2>1
  <2> QED
    BY <2>2, <2>3
<1> QED
  BY <1>1, <1>3, <1>4 DEF all

LEMMA OrientedFacts ==
  ASSUME NEW p \in Ends, NEW up
  PROVE  /\ Oriented(p, up) \in {p, Flip(p)} /\ Oriented(p, up) \in Ends
         /\ Ordered(Oriented(p, up)) = Ordered(p)
         /\ {Oriented(p, up)[1], Oriented(p, up)[2]} = {p[1], p[2]}
         /\ p \in LinkEnds => Oriented(p, up) \in LinkEnds
<1>1. Ordered(p) \in {p, Flip(p)}
  BY DEF Ordered, Flip
<1>2. Flip(p) \in Ends /\ Flip(Flip(p)) = p
  BY Pairs
<1>3. Oriented(p, up) \in {p, Flip(p)}
  BY <1>1, <1>2 DEF Oriented, Flip
<1>4. Oriented(p, up) \in Ends
  BY <1>2, <1>3
<1>5. /\ Ordered(Oriented(p, up)) = Ordered(p)
      /\ {Oriented(p, up)[1], Oriented(p, up)[2]} = {p[1], p[2]}
  BY <1>3, <1>4, Pairs
<1>6. p \in LinkEnds => Oriented(p, up) \in LinkEnds
  BY <1>4, <1>5 DEF LinkEnds
<1> QED
  BY <1>3, <1>4, <1>5, <1>6

LEMMA SessionEnds ==
  ASSUME NEW n, NetOk(n), NEW p \in Ends
  PROVE  /\ n.sessions[p] \in Types /\ n.sessions[Flip(p)] \in Types
         /\ ~(n.sessions[p] = Client /\ n.sessions[Flip(p)] = Client)
         /\ n.sessions[p] = Absent <=> n.sessions[Flip(p)] = Absent
<1>1. Flip(p) \in Ends /\ n.sessions \in [Ends -> Types]
  BY Pairs DEF NetOk, Nets
<1> QED
  BY <1>1 DEF NetOk, SessionsReadable, Paired, Flip

LEMMA ReadingsHold ==
  ASSUME NEW n, NetOk(n), NEW up, NEW e \in Readings(n, up)
  PROVE  Proper(e) /\ Telling(e) /\ Holds(n, e)
<1>0. /\ n.weight \in [LinkEnds -> Nat] /\ n.area \in [Links -> Areas]
      /\ n.sessions \in [Ends -> Types] /\ n.maps \in [Slots -> Lists] /\ TableOk(n.table)
  BY DEF NetOk, Nets, Filings
<1>1. ASSUME NEW p \in LinkEnds, n.weight[p] # DefaultWeight, e = Expr("weight", p, n.weight[p])
      PROVE  Proper(e) /\ Telling(e) /\ Holds(n, e)
  <2>1. e.kind = "weight" /\ e.at = p /\ e.value = n.weight[p]
    BY <1>1, ExprFields
  <2>2. e.value \in Nat /\ e = Expr(e.kind, e.at, e.value)
    BY <1>0, <1>1, <2>1
  <2> QED
    BY <1>1, <2>1, <2>2 DEF Proper, ValidExpr, Located, Telling, Holds, Linked
<1>2. ASSUME NEW p \in LinkEnds, n.area[{p[1], p[2]}] # Backbone,
             e = Expr("area", Oriented(p, up), n.area[{p[1], p[2]}])
      PROVE  Proper(e) /\ Telling(e) /\ Holds(n, e)
  <2>0. p \in Ends /\ {p[1], p[2]} \in Links
    BY DEF LinkEnds
  <2>1. e.kind = "area" /\ e.at = Oriented(p, up) /\ e.value = n.area[{p[1], p[2]}]
    BY <1>2, ExprFields
  <2>2. e.value \in Areas /\ e = Expr(e.kind, e.at, e.value)
    BY <1>0, <1>2, <2>0, <2>1
  <2>3. e.at \in LinkEnds /\ {e.at[1], e.at[2]} = {p[1], p[2]}
    BY <2>0, <2>1, OrientedFacts
  <2> QED
    BY <1>2, <2>1, <2>2, <2>3 DEF Proper, ValidExpr, Located, Telling, Holds, Linked
<1>3. ASSUME NEW p \in Ends, NEW type \in {Peer, Client}, e = Expr("session", p, type),
             n.sessions[p] = type, n.sessions[Flip(p)] = Peer
      PROVE  Proper(e) /\ Telling(e) /\ Holds(n, e)
  <2>1. e.kind = "session" /\ e.at = p /\ e.value = type
    BY <1>3, ExprFields
  <2>2. e.at \in Routers \X Routers /\ e = Expr(e.kind, e.at, e.value)
    BY <1>3, <2>1 DEF Ends
  <2> QED
    BY <1>3, <2>1, <2>2 DEF Proper, ValidExpr, Located, Telling, Holds, Linked
<1>4. ASSUME e \in SessionExprs(n, up)
      PROVE  Proper(e) /\ Telling(e) /\ Holds(n, e)
  <2>1. CASE \E p \in Ends : n.sessions[p] = Client /\ e = Expr("session", p, Client)
    <3>1. PICK p \in Ends : n.sessions[p] = Client /\ e = Expr("session", p, Client)
      BY <2>1
    <3>2. n.sessions[Flip(p)] = Peer
      BY <3>1, SessionEnds DEF Types, Client, Absent
    <3> QED
      BY <1>3, <3>1, <3>2
  <2>2. CASE \E p \in Ends : /\ n.sessions[p] = Peer /\ n.sessions[Flip(p)] # Client
                             /\ e = Expr("session", Oriented(p, up), Peer)
    <3>1. PICK p \in Ends : /\ n.sessions[p] = Peer /\ n.sessions[Flip(p)] # Client
                            /\ e = Expr("session", Oriented(p, up), Peer)
      BY <2>2
    <3>2. n.sessions[Flip(p)] = Peer
      BY <3>1, SessionEnds DEF Types, Peer, Absent
    <3> DEFINE q == Oriented(p, up)
    <3>3. q \in Ends /\ n.sessions[q] = Peer /\ n.sessions[Flip(q)] = Peer
      BY <3>1, <3>2, OrientedFacts, Pairs
    <3> HIDE DEF q
    <3>4. e = Expr("session", q, Peer)
      BY <3>1 DEF q
    <3> QED
      BY <1>3, <3>3, <3>4
  <2>3. \A p \in Ends : <<p[2], p[1]>> = Flip(p) /\ Flip(p) \in Ends
    BY Pairs DEF Flip
  <2> QED
    BY <1>4, <2>1, <2>2, <2>3 DEF SessionExprs
<1>5. ASSUME e \in MapExprs(n)
      PROVE  Proper(e) /\ Telling(e) /\ Holds(n, e)
  <2>0. PICK s \in Slots :
          \E i \in DOMAIN n.maps[s] :
            e = Expr("map", s, CHOOSE v \in DOMAIN Clauses : Clauses[v] = n.maps[s][i])
    BY <1>5 DEF MapExprs
  <2>1. PICK i \in DOMAIN n.maps[s] :
          e = Expr("map", s, CHOOSE v \in DOMAIN Clauses : Clauses[v] = n.maps[s][i])
    BY <2>0
  <2>2. n.maps[s] \in Seq(Known)
    BY <1>0 DEF Lists
  <2>3. n.maps[s][i] \in Known
    BY <2>2
  <2> DEFINE v == CHOOSE w \in DOMAIN Clauses : Clauses[w] = n.maps[s][i]
  <2>4. v \in DOMAIN Clauses /\ Clauses[v] = n.maps[s][i]
    BY <2>3 DEF Known
  <2>5. e = Expr("map", s, v)
    BY <2>1
  <2> HIDE DEF v
  <2>6. e.kind = "map" /\ e.at = s /\ e.value = v
    BY <2>5, ExprFields
  <2>7. e = Expr(e.kind, e.at, e.value)
    BY <2>5, <2>6
  <2>8. Has(n.maps[e.at], Clauses[e.value])
    BY <2>4, <2>6 DEF Has
  <2> QED
    BY <2>4, <2>6, <2>7, <2>8 DEF Proper, ValidExpr, Located, Telling, Holds, Linked
<1>6. ASSUME NEW k \in DOMAIN n.table, e = n.table[k]
      PROVE  Proper(e) /\ Telling(e) /\ Holds(n, e)
  <2>1. ValidExpr(e) /\ Key(e) = k /\ e.kind \notin Linked
    BY <1>0, <1>6 DEF TableOk
  <2> QED
    BY <1>6, <2>1 DEF Proper, Located, Telling, Holds, Linked
<1> QED
  BY <1>1, <1>2, <1>4, <1>5, <1>6 DEF Readings

LEMMA ReadingsComplete ==
  ASSUME NEW n, NetOk(n), NEW up, NEW f, Proper(f), f.kind # "map",
         \A e \in Readings(n, up) : Key(e) # Key(f)
  PROVE  Untold(n, f)
<1>1. CASE f.kind = "weight"
  <2>1. f.at \in LinkEnds
    BY <1>1 DEF Proper, Located
  <2> DEFINE e == Expr("weight", f.at, n.weight[f.at])
  <2>2. e.kind = "weight" /\ e.at = f.at
    BY ExprFields
  <2>3. n.weight[f.at] # DefaultWeight => e \in Readings(n, up)
    BY <2>1 DEF Readings
  <2> HIDE DEF e
  <2>4. Key(e) = Key(f)
    BY <1>1, <2>2, KeyFacts, SameKey
  <2>5. n.weight[f.at] = DefaultWeight
    BY <2>3, <2>4
  <2> QED
    BY <1>1, <2>5 DEF Untold, Clear, Linked
<1>2. CASE f.kind = "area"
  <2> DEFINE l == {f.at[1], f.at[2]}
             e == Expr("area", Oriented(f.at, up), n.area[l])
  <2>1. f.at \in LinkEnds /\ f.at \in Ends
    BY <1>2 DEF Proper, Located, LinkEnds
  <2>2. e.kind = "area" /\ e.at = Oriented(f.at, up)
    BY ExprFields
  <2>3. n.area[l] # Backbone => e \in Readings(n, up)
    BY <2>1 DEF Readings
  <2> HIDE DEF e, l
  <2>4. Ordered(e.at) = Ordered(f.at)
    BY <2>1, <2>2, OrientedFacts
  <2>5. Key(e) = Key(f)
    BY <1>2, <2>2, <2>4, KeyFacts, SameKey
  <2>6. n.area[l] = Backbone
    BY <2>3, <2>5
  <2> QED
    BY <1>2, <2>6 DEF Untold, Clear, Linked, l
<1>3. CASE f.kind = "session"
  <2> DEFINE p == f.at
  <2>1. p \in Ends /\ Flip(p) \in Ends /\ Flip(Flip(p)) = p
    BY <1>3, Pairs DEF Proper, Located
  <2> HIDE DEF p
  <2>2. ASSUME NEW q, q \in {p, Flip(p)}, NEW type
        PROVE  Key(Expr("session", q, type)) = Key(f)
    <3> DEFINE e == Expr("session", q, type)
    <3>1. e.kind = "session" /\ e.at = q
      BY ExprFields
    <3>2. Ordered(q) = Ordered(p)
      BY <2>1, <2>2, Pairs
    <3> HIDE DEF e
    <3>3. Key(e) = Key(f)
      BY <1>3, <3>1, <3>2, KeyFacts, SameKey DEF p
    <3> QED
      BY <3>3 DEF e
  <2>3. \A q \in {p, Flip(p)} : n.sessions[q] # Client
    <3> SUFFICES ASSUME NEW q \in {p, Flip(p)}, n.sessions[q] = Client
                 PROVE  FALSE
      OBVIOUS
    <3>1. Expr("session", q, Client) \in Readings(n, up)
      BY <2>1 DEF Readings, SessionExprs
    <3> QED
      BY <2>2, <3>1
  <2>4. n.sessions[p] # Peer
    <3> SUFFICES ASSUME n.sessions[p] = Peer
                 PROVE  FALSE
      OBVIOUS
    <3>1. n.sessions[<<p[2], p[1]>>] # Client
      BY <2>3 DEF Flip
    <3>2. Expr("session", Oriented(p, up), Peer) \in Readings(n, up)
      BY <2>1, <3>1 DEF Readings, SessionExprs
    <3>3. Oriented(p, up) \in {p, Flip(p)}
      BY <2>1, OrientedFacts
    <3> QED
      BY <2>2, <3>2, <3>3
  <2>5. n.sessions[p] = Absent /\ n.sessions[Flip(p)] = Absent
    BY <2>1, <2>3, <2>4, SessionEnds DEF Types
  <2> QED
    BY <1>3, <2>5 DEF Untold, Clear, Linked, p
<1>4. CASE f.kind \notin Linked
  <2>1. ASSUME Key(f) \in DOMAIN n.table
        PROVE  FALSE
    <3>1. n.table[Key(f)] \in Readings(n, up)
      BY <2>1 DEF Readings
    <3>2. Key(n.table[Key(f)]) = Key(f)
      BY <2>1 DEF NetOk, TableOk
    <3> QED
      BY <3>1, <3>2
  <2> QED
    BY <1>4, <2>1 DEF Untold, Clear, Linked
<1> QED
  BY <1>1, <1>2, <1>3, <1>4 DEF Linked

LEMMA ReadingsOfMaps ==
  ASSUME NEW n, NetOk(n), NEW up, NEW f, Proper(f), f.kind = "map", Holds(n, f),
         <<f.at[1], f.at[2]>> \in n.active
  PROVE  \E e \in Readings(n, up) : Key(e) = Key(f)
<1> DEFINE s == f.at
<1>1. s \in Slots /\ f.value \in DOMAIN Clauses
  BY DEF Proper, Located, ValidExpr
<1>2. PICK i \in DOMAIN n.maps[s] : n.maps[s][i] = Clauses[f.value]
  BY DEF Holds, Has
<1> DEFINE v == CHOOSE w \in DOMAIN Clauses : Clauses[w] = n.maps[s][i]
           e == Expr("map", s, v)
<1>3. e \in Readings(n, up)
  <2>1. s \in {t \in Slots : <<t[1], t[2]>> \in n.active}
    BY <1>1
  <2>2. e \in {Expr("map", s, CHOOSE w \in DOMAIN Clauses : Clauses[w] = n.maps[s][j]) :
                 j \in DOMAIN n.maps[s]}
    OBVIOUS
  <2> HIDE DEF e, s
  <2>3. e \in MapExprs(n)
    BY <2>1, <2>2 DEF MapExprs
  <2> QED
    BY <2>3 DEF Readings
<1>4. v \in DOMAIN Clauses /\ Clauses[v] = Clauses[f.value]
  BY <1>1, <1>2
<1> HIDE DEF v
<1>5. e.kind = "map" /\ e.at = s /\ e.value = v
  BY ExprFields
<1> HIDE DEF e
<1>6. Key(e) = Key(f)
  <2>1. Key(e).at = Append(s, Clauses[v].order) /\ Key(f).at = Append(s, Clauses[f.value].order)
    BY <1>5, KeyFacts
  <2> QED
    BY <1>4, <1>5, <2>1, SameKey
<1> QED
  BY <1>3, <1>6

(* Two expressions that hold at one place are alike.                       *)
LEMMA HoldsOnce ==
  ASSUME NEW n, NetOk(n), NEW e, Proper(e), Holds(n, e), NEW f, Proper(f), Holds(n, f),
         Key(e) = Key(f)
  PROVE  Alike(e, f)
<1>1. e.kind = f.kind /\ Key(e).at = Key(f).at
  BY SameKey
<1>2. e = Expr(e.kind, e.at, e.value) /\ f = Expr(f.kind, f.at, f.value)
  BY DEF Proper, ValidExpr
<1>3. ASSUME e.at = f.at, e.value = f.value
      PROVE  Alike(e, f)
  <2>1. e = f
    BY <1>1, <1>2, <1>3
  <2> QED
    BY <2>1 DEF Alike, Same
<1>4. CASE e.kind = "weight"
  <2>1. e.at = f.at
    BY <1>1, <1>4, KeyFacts
  <2> QED
    BY <1>1, <1>3, <1>4, <2>1 DEF Holds
<1>5. CASE e.kind = "area"
  <2>1. e.at \in Ends /\ f.at \in Ends
    BY <1>1, <1>5 DEF Proper, Located, LinkEnds
  <2>2. Ordered(e.at) = Ordered(f.at)
    BY <1>1, <1>5, KeyFacts
  <2>3. {e.at[1], e.at[2]} = {f.at[1], f.at[2]}
    BY <2>1, <2>2, Pairs
  <2>4. e.value = f.value
    BY <1>1, <1>5, <2>3 DEF Holds
  <2> QED
    BY <1>1, <1>5, <2>2, <2>4 DEF Alike
<1>6. CASE e.kind = "session"
  <2>1. e.at \in Ends /\ f.at \in Ends
    BY <1>1, <1>6 DEF Proper, Located
  <2>2. Ordered(e.at) = Ordered(f.at)
    BY <1>1, <1>6, KeyFacts
  <2>3. f.at = e.at \/ (f.at = Flip(e.at) /\ Flip(f.at) = e.at)
    BY <2>1, <2>2, Pairs
  <2>4. CASE f.at = e.at
    BY <1>1, <1>3, <1>6, <2>4 DEF Holds
  <2>5. CASE f.at = Flip(e.at) /\ Flip(f.at) = e.at
    <3>1. e.value = Peer /\ f.value = Peer
      BY <1>1, <1>6, <2>5 DEF Holds
    <3> QED
      BY <1>1, <1>6, <2>2, <3>1 DEF Alike, Same
  <2> QED
    BY <2>3, <2>4, <2>5
<1>7. CASE e.kind = "map"
  <2>1. /\ e.at \in Slots /\ f.at \in Slots
        /\ e.value \in DOMAIN Clauses /\ f.value \in DOMAIN Clauses
    BY <1>1, <1>7 DEF Proper, Located, ValidExpr
  <2>2. Append(e.at, Clauses[e.value].order) = Append(f.at, Clauses[f.value].order)
    BY <1>1, <1>7, KeyFacts
  <2>3. e.at = f.at /\ Clauses[e.value].order = Clauses[f.value].order
    <3> DEFINE s == e.at
               t == f.at
               o == Clauses[e.value].order
               u == Clauses[f.value].order
    <3>1. s \in Slots /\ t \in Slots /\ Append(s, o) = Append(t, u)
      BY <2>1, <2>2
    <3> HIDE DEF s, t, o, u
    <3>2. s = t /\ o = u
      BY ONLY <3>1, SlotKeys
    <3> QED
      BY <3>2 DEF s, t, o, u
  <2>4. n.maps[e.at] \in Lists
    BY <2>1 DEF NetOk, Nets, Filings
  <2>5. Has(n.maps[e.at], Clauses[e.value]) /\ Has(n.maps[e.at], Clauses[f.value])
    BY <1>1, <1>7, <2>3 DEF Holds
  <2>6. Clauses[e.value] = Clauses[f.value]
    BY <2>3, <2>4, <2>5, ContainedOnce
  <2>7. e.value = f.value
    BY <2>1, <2>6, GoalsAssumption
  <2> QED
    BY <1>3, <2>3, <2>7
<1>8. CASE e.kind \notin Linked
  <2>1. e = f
    BY <1>1, <1>8 DEF Holds
  <2> QED
    BY <2>1 DEF Alike, Same
<1> QED
  BY <1>4, <1>5, <1>6, <1>7, <1>8 DEF Linked

LEMMA SameHolds ==
  ASSUME NEW n, NEW e, Proper(e), Holds(n, e), NEW f, Proper(f), Same(e, f)
  PROVE  Holds(n, f)
<1>1. CASE e = f
  BY <1>1
<1>2. CASE e # f
  <2>1. /\ e.kind = "session" /\ f.kind = "session" /\ e.value = Peer /\ f.value = Peer
        /\ Ordered(e.at) = Ordered(f.at)
    BY <1>2 DEF Same
  <2>2. e.at \in Ends /\ f.at \in Ends
    BY <2>1 DEF Proper, Located
  <2>3. f.at = e.at \/ (f.at = Flip(e.at) /\ Flip(f.at) = e.at)
    BY <2>1, <2>2, Pairs
  <2>4. n.sessions[f.at] = Peer /\ n.sessions[Flip(f.at)] = Peer
    BY <2>1, <2>3 DEF Holds
  <2> QED
    BY <2>1, <2>4 DEF Holds, Linked
<1> QED
  BY <1>1, <1>2

LEMMA ClearAt ==
  ASSUME NEW n, NEW e, Proper(e), Clear(n, e), NEW f, Proper(f), Key(e) = Key(f)
  PROVE  Clear(n, f)
<1>1. e.kind = f.kind /\ Key(e).at = Key(f).at
  BY SameKey
<1>2. CASE f.kind = "weight"
  <2>1. e.at = f.at
    BY <1>1, <1>2, KeyFacts
  <2> QED
    BY <1>1, <1>2, <2>1 DEF Clear, Linked
<1>3. CASE f.kind = "area"
  <2>1. e.at \in Ends /\ f.at \in Ends
    BY <1>1, <1>3 DEF Proper, Located, LinkEnds
  <2>2. Ordered(e.at) = Ordered(f.at)
    BY <1>1, <1>3, KeyFacts
  <2>3. {e.at[1], e.at[2]} = {f.at[1], f.at[2]}
    BY <2>1, <2>2, Pairs
  <2> QED
    BY <1>1, <1>3, <2>3 DEF Clear, Linked
<1>4. CASE f.kind = "session"
  <2>1. e.at \in Ends /\ f.at \in Ends
    BY <1>1, <1>4 DEF Proper, Located
  <2>2. Ordered(e.at) = Ordered(f.at)
    BY <1>1, <1>4, KeyFacts
  <2>3. f.at = e.at \/ (f.at = Flip(e.at) /\ Flip(f.at) = e.at)
    BY <2>1, <2>2, Pairs
  <2>4. n.sessions[f.at] = Absent /\ n.sessions[Flip(f.at)] = Absent
    BY <1>1, <1>4, <2>3 DEF Clear
  <2> QED
    BY <1>4, <2>4 DEF Clear, Linked
<1>5. CASE f.kind = "map"
  <2>1. e.at \in Slots /\ f.at \in Slots
    BY <1>1, <1>5 DEF Proper, Located
  <2>2. Append(e.at, Clauses[e.value].order) = Append(f.at, Clauses[f.value].order)
    BY <1>1, <1>5, KeyFacts
  <2>3. e.at = f.at /\ Clauses[e.value].order = Clauses[f.value].order
    <3> DEFINE s == e.at
               t == f.at
               o == Clauses[e.value].order
               u == Clauses[f.value].order
    <3>1. s \in Slots /\ t \in Slots /\ Append(s, o) = Append(t, u)
      BY <2>1, <2>2
    <3> HIDE DEF s, t, o, u
    <3>2. s = t /\ o = u
      BY ONLY <3>1, SlotKeys
    <3> QED
      BY <3>2 DEF s, t, o, u
  <2> QED
    BY <1>1, <1>5, <2>3 DEF Clear, Linked
<1>6. CASE f.kind \notin Linked
  BY <1>1, <1>6 DEF Clear, Linked
<1> QED
  BY <1>2, <1>3, <1>4, <1>5, <1>6 DEF Linked

LEMMA ActiveKeeps ==
  ASSUME NEW n, NetOk(n), ActiveOk(n), NEW m, ValidModifier(m)
  PROVE  ActiveOk(Unchecked(n, m))
<1>1. CASE m.type = "insert"
  BY <1>1, SetFields DEF Unchecked, ValidModifier
<1>2. CASE m.type = "update"
  BY <1>2, SetFields DEF Unchecked, ValidModifier
<1>3. CASE m.type = "remove"
  BY <1>3, UnsetFields DEF Unchecked, ValidModifier
<1>4. CASE m.type = "batch"
  <2> DEFINE f == BatchUpdate(n.maps, m)
  <2>1. Unchecked(n, m) = [n EXCEPT !.maps = f]
    BY <1>4 DEF Unchecked
  <2> HIDE DEF f
  <2>2. [n EXCEPT !.maps = f].active = n.active /\ [n EXCEPT !.maps = f].sessions = n.sessions
    BY DEF NetOk, Nets
  <2> QED
    BY <2>1, <2>2 DEF ActiveOk
<1> QED
  BY <1>1, <1>2, <1>3, <1>4 DEF ValidModifier
-----------------------------------------------------------------------------
(* While a patch is applied, the network is at every place still as it was *)
(* read, if a modifier for it is to come, and as the goal says otherwise.  *)
Subject(m) == IF m.type = "update" THEN Key(m.to) ELSE Key(m.expr)

GoalOk == \A k \in DOMAIN goal : Key(goal[k]) = k /\ Proper(goal[k]) /\ Telling(goal[k])

ToRemove(m) ==
  /\ m.type = "remove" /\ Key(m.expr) \notin DOMAIN goal
  /\ Proper(m.expr) /\ Telling(m.expr) /\ Holds(net, m.expr)

ToInsert(m) ==
  /\ m.type = "insert" /\ Key(m.expr) \in DOMAIN goal /\ m.expr = goal[Key(m.expr)]
  /\ m.expr.kind # "map" => Clear(net, m.expr)

ToUpdate(m) ==
  /\ m.type = "update" /\ Key(m.to) \in DOMAIN goal /\ m.to = goal[Key(m.to)]
  /\ Key(m.from) = Key(m.to) /\ Proper(m.from) /\ Telling(m.from) /\ Holds(net, m.from)

Pending(k) == \E m \in patch : Subject(m) = k

Reached == \A k \in DOMAIN goal : Pending(k) \/ Holds(net, goal[k])

Unwanted(f) ==
  /\ Proper(f) /\ Key(f) \notin DOMAIN goal /\ ~Pending(Key(f))
  /\ f.kind = "map" => Key(f) \in seen

Cleared == \A f : Unwanted(f) => Clear(net, f)

Progress ==
  /\ GoalOk /\ Reached /\ Cleared
  /\ \A m \in patch : ToRemove(m) \/ ToInsert(m) \/ ToUpdate(m)
  /\ \A l, m \in patch : Subject(l) = Subject(m) => l = m

(* The inductive invariant of set_config                                   *)
Configuring ==
  /\ Shaped /\ ActiveOk(net)
  /\ phase \in {"patching", "reached"} => Progress
  /\ phase = "reached" => patch = {}

(* What set_config plans                                                   *)
LEMMA Planned ==
  ASSUME Configuring, NEW c \in Goals, NEW up \in BOOLEAN, SetConfig(c, up)
  PROVE  Progress'
<1> DEFINE r == GetConfig(net, up)
<1>0. NetOk(net) /\ net' = net /\ goal' = c /\ seen' = DOMAIN r /\ patch' = GetDiff(r, c)
  BY DEF Configuring, Shaped, SetConfig
<1>1. ASSUME NEW k \in DOMAIN c
      PROVE  Key(c[k]) = k /\ Proper(c[k]) /\ Telling(c[k])
  BY ConfigurationAssumption, GoalsAssumption DEF Proper
<1>2. ASSUME NEW k \in DOMAIN r
      PROVE  Key(r[k]) = k /\ Proper(r[k]) /\ Telling(r[k]) /\ Holds(net, r[k])
  BY <1>0, ReadConfig, ReadingsHold
<1>3. ASSUME NEW f, Proper(f), f.kind # "map", Key(f) \notin DOMAIN r
      PROVE  Clear(net, f)
  <2>1. \A e \in Readings(net, up) : Key(e) # Key(f)
    BY <1>3, ReadConfig
  <2> QED
    BY <1>0, <1>3, <2>1, ReadingsComplete DEF Untold
<1> HIDE DEF r
<1>4. \A e, f :
        /\ InsertExpr(e).type = "insert" /\ InsertExpr(e).expr = e
        /\ RemoveExpr(e).type = "remove" /\ RemoveExpr(e).expr = e
        /\ UpdateExpr(e, f).type = "update" /\ UpdateExpr(e, f).from = e /\ UpdateExpr(e, f).to = f
  BY DEF InsertExpr, RemoveExpr, UpdateExpr
<1>5. ASSUME NEW m \in patch'
      PROVE  \/ \E k \in DOMAIN r \ DOMAIN c : m = RemoveExpr(r[k])
             \/ \E k \in DOMAIN c \ DOMAIN r : m = InsertExpr(c[k])
             \/ \E k \in DOMAIN r \cap DOMAIN c : m = UpdateExpr(r[k], c[k])
  BY <1>0 DEF GetDiff
<1>6. /\ \A k \in DOMAIN r \ DOMAIN c : RemoveExpr(r[k]) \in patch'
      /\ \A k \in DOMAIN c \ DOMAIN r : InsertExpr(c[k]) \in patch'
      /\ \A k \in DOMAIN r \cap DOMAIN c : Same(r[k], c[k]) \/ UpdateExpr(r[k], c[k]) \in patch'
  BY <1>0 DEF GetDiff
<1>7. /\ \A k \in DOMAIN r \ DOMAIN c : Subject(RemoveExpr(r[k])) = k
      /\ \A k \in DOMAIN c \ DOMAIN r : Subject(InsertExpr(c[k])) = k
      /\ \A k \in DOMAIN r \cap DOMAIN c : Subject(UpdateExpr(r[k], c[k])) = k
  BY <1>1, <1>2, <1>4 DEF Subject
<1>8. GoalOk'
  BY <1>0, <1>1 DEF GoalOk
<1>9. \A l, m \in patch' : Subject(l) = Subject(m) => l = m
  BY <1>5, <1>7
<1>10. ASSUME NEW m \in patch'
       PROVE  ToRemove(m)' \/ ToInsert(m)' \/ ToUpdate(m)'
  <2>1. ASSUME NEW k \in DOMAIN r \ DOMAIN c, m = RemoveExpr(r[k])
        PROVE  ToRemove(m)'
    BY <1>0, <1>2, <1>4, <2>1 DEF ToRemove
  <2>2. ASSUME NEW k \in DOMAIN c \ DOMAIN r, m = InsertExpr(c[k])
        PROVE  ToInsert(m)'
    <3>1. m.type = "insert" /\ m.expr = c[k] /\ Key(m.expr) = k /\ Proper(m.expr)
      BY <1>1, <1>4, <2>2
    <3>2. m.expr.kind # "map" => Clear(net, m.expr)
      BY <1>3, <2>2, <3>1
    <3> QED
      BY <1>0, <3>1, <3>2 DEF ToInsert
  <2>3. ASSUME NEW k \in DOMAIN r \cap DOMAIN c, m = UpdateExpr(r[k], c[k])
        PROVE  ToUpdate(m)'
    BY <1>0, <1>1, <1>2, <1>4, <2>3 DEF ToUpdate
  <2> QED
    BY <1>5, <2>1, <2>2, <2>3
<1>11. Reached'
  <2> SUFFICES ASSUME NEW k \in DOMAIN c, ~Pending(k)'
               PROVE  Holds(net, c[k])
    BY <1>0 DEF Reached
  <2>1. \A m \in patch' : Subject(m) # k
    BY DEF Pending
  <2>2. k \in DOMAIN r
    BY <1>6, <1>7, <2>1
  <2>3. Same(r[k], c[k])
    BY <1>6, <1>7, <2>1, <2>2
  <2> QED
    BY <1>1, <1>2, <2>2, <2>3, SameHolds
<1>12. Cleared'
  <2> SUFFICES ASSUME NEW f, Unwanted(f)'
               PROVE  Clear(net, f)
    BY <1>0 DEF Cleared
  <2>1. /\ Proper(f) /\ Key(f) \notin DOMAIN c /\ \A m \in patch' : Subject(m) # Key(f)
        /\ f.kind = "map" => Key(f) \in DOMAIN r
    BY <1>0 DEF Unwanted, Pending
  <2>2. Key(f) \notin DOMAIN r
    BY <1>6, <1>7, <2>1
  <2> QED
    BY <1>3, <2>1, <2>2
<1> QED
  BY <1>8, <1>9, <1>10, <1>11, <1>12 DEF Progress

(* A modifier of the patch moves the network at its own place only.        *)
LEMMA Advanced ==
  ASSUME Configuring, NEW m \in patch, PatchStep(m), CanApply(net, m), phase = "patching"
  PROVE  Progress'
<1>0. /\ NetOk(net) /\ Progress /\ net' = Unchecked(net, m) /\ patch' = patch \ {m}
      /\ goal' = goal /\ seen' = seen
  BY DEF Configuring, Shaped, PatchStep
<1> DEFINE e == IF m.type = "update" THEN m.to ELSE m.expr
<1>1. /\ Proper(e) /\ Key(e) = Subject(m)
      /\ \/ m.type = "remove" /\ Key(e) \notin DOMAIN goal /\ net' = UnsetExpr(net, e)
         \/ /\ m.type # "remove" /\ Key(e) \in DOMAIN goal /\ e = goal[Key(e)]
            /\ net' = SetExpr(net, e)
  <2>1. CASE ToRemove(m)
    BY <1>0, <2>1 DEF ToRemove, Subject, Unchecked
  <2>2. CASE ToInsert(m)
    BY <1>0, <2>2 DEF ToInsert, Subject, Unchecked, Progress, GoalOk
  <2>3. CASE ToUpdate(m)
    BY <1>0, <2>3 DEF ToUpdate, Subject, Unchecked, Progress, GoalOk
  <2> QED
    BY <1>0, <2>1, <2>2, <2>3 DEF Progress
<1> HIDE DEF e
<1>2. ASSUME NEW f, Proper(f), Key(f) # Key(e)
      PROVE  /\ Holds(net, f) => Holds(net', f)
             /\ Clear(net, f) => Clear(net', f)
  <2>1. net' \in {SetExpr(net, e), UnsetExpr(net, e)}
    BY <1>1
  <2>2. Untouched(net, net', f)
    BY <1>0, <1>1, <1>2, <2>1, Elsewhere
  <2> QED
    BY <2>2, UntouchedKeeps
<1>3. \A k : k # Key(e) => (Pending(k)' <=> Pending(k))
  BY <1>0, <1>1 DEF Pending
<1>4. ASSUME NEW l \in patch'
      PROVE  l \in patch /\ Subject(l) # Key(e)
  BY <1>0, <1>1 DEF Progress
<1>5. GoalOk'
  BY <1>0 DEF Progress, GoalOk
<1>6. \A j, l \in patch' : Subject(j) = Subject(l) => j = l
  BY <1>0 DEF Progress
<1>7. ASSUME NEW l \in patch'
      PROVE  ToRemove(l)' \/ ToInsert(l)' \/ ToUpdate(l)'
  <2>1. CASE ToRemove(l)
    BY <1>0, <1>2, <1>4, <2>1 DEF ToRemove, Subject
  <2>2. CASE ToInsert(l)
    BY <1>0, <1>2, <1>4, <2>2 DEF ToInsert, Subject, Progress, GoalOk
  <2>3. CASE ToUpdate(l)
    BY <1>0, <1>2, <1>4, <2>3 DEF ToUpdate, Subject
  <2> QED
    BY <1>0, <1>4, <2>1, <2>2, <2>3 DEF Progress
<1>8. Reached'
  <2> SUFFICES ASSUME NEW k \in DOMAIN goal, ~Pending(k)'
               PROVE  Holds(net', goal[k])
    BY <1>0 DEF Reached
  <2>1. CASE k = Key(e)
    BY <1>0, <1>1, <2>1, SetHolds
  <2>2. CASE k # Key(e)
    <3>1. ~Pending(k) /\ Proper(goal[k]) /\ Key(goal[k]) = k
      BY <1>0, <1>3, <2>2 DEF Progress, GoalOk
    <3>2. Holds(net, goal[k])
      BY <1>0, <3>1 DEF Progress, Reached
    <3> QED
      BY <1>2, <2>2, <3>1, <3>2
  <2> QED
    BY <2>1, <2>2
<1>9. Cleared'
  <2> SUFFICES ASSUME NEW f, Unwanted(f)'
               PROVE  Clear(net', f)
    BY DEF Cleared
  <2>0. Proper(f) /\ Key(f) \notin DOMAIN goal /\ ~Pending(Key(f))'
        /\ (f.kind = "map" => Key(f) \in seen)
    BY <1>0 DEF Unwanted
  <2>1. CASE Key(f) = Key(e)
    <3>1. net' = UnsetExpr(net, e)
      BY <1>1, <2>0, <2>1
    <3>2. Clear(net', e)
      BY <1>0, <1>1, <3>1, UnsetClears
    <3> QED
      BY <1>1, <2>0, <2>1, <3>2, ClearAt
  <2>2. CASE Key(f) # Key(e)
    <3>1. Unwanted(f)
      BY <1>3, <2>0, <2>2 DEF Unwanted
    <3>2. Clear(net, f)
      BY <1>0, <3>1 DEF Progress, Cleared
    <3> QED
      BY <1>2, <2>0, <2>2, <3>2
  <2> QED
    BY <2>1, <2>2
<1> QED
  BY <1>5, <1>6, <1>7, <1>8, <1>9 DEF Progress

LEMMA ConfiguringInit == Init => Configuring
<1> SUFFICES ASSUME Init PROVE Configuring
  OBVIOUS
<1>1. net.active = {}
  BY DEF Init, Fresh
<1> QED
  BY <1>1, ShapedInit DEF Configuring, ActiveOk, Init

LEMMA ConfiguringNext == Configuring /\ [Next]_vars => Configuring'
<1> SUFFICES ASSUME Configuring, [Next]_vars
             PROVE  Configuring'
  OBVIOUS
<1>0. Shaped' /\ NetOk(net) /\ ActiveOk(net)
  BY ShapedNext DEF Configuring, Shaped
<1>1. ASSUME NEW m \in Modifiers, Modify(m)
      PROVE  Configuring'
  BY <1>0, <1>1, ActiveKeeps, ConfigurationAssumption DEF Modify, Configuring
<1>2. ASSUME NEW c \in Goals, NEW up \in BOOLEAN, SetConfig(c, up)
      PROVE  Configuring'
  <2>1. Progress'
    BY <1>2, Planned
  <2>2. net' = net /\ phase' = "patching"
    BY <1>2 DEF SetConfig
  <2>3. ActiveOk(net')
    BY <1>0, <2>2
  <2> QED
    BY <1>0, <2>1, <2>2, <2>3 DEF Configuring
<1>3. ASSUME NEW m \in patch, PatchStep(m)
      PROVE  Configuring'
  <2>1. CASE CanApply(net, m)
    <3>1. ValidModifier(m) /\ net' = Unchecked(net, m) /\ phase = "patching" /\ phase' = "patching"
      BY <1>3, <2>1 DEF PatchStep, Configuring, Shaped
    <3>2. ActiveOk(net')
      BY <1>0, <3>1, ActiveKeeps
    <3>3. Progress'
      BY <1>3, <2>1, <3>1, Advanced
    <3> QED
      BY <1>0, <3>1, <3>2, <3>3 DEF Configuring
  <2>2. CASE ~CanApply(net, m)
    <3>1. net' = net /\ phase' = "failed"
      BY <1>3, <2>2 DEF PatchStep
    <3>2. ActiveOk(net')
      BY <1>0, <3>1
    <3> QED
      BY <1>0, <3>1, <3>2 DEF Configuring
  <2> QED
    BY <2>1, <2>2
<1>4. ASSUME UNCHANGED <<net, patch, goal, seen>>,
             phase' = phase \/ (phase = "patching" /\ phase' = "reached" /\ patch = {})
      PROVE  Configuring'
  <2>1. Progress => Progress'
    BY <1>4 DEF Progress, GoalOk, Reached, Cleared, Unwanted, Pending, ToRemove, ToInsert, ToUpdate
  <2>2. ActiveOk(net')
    BY <1>0, <1>4
  <2> QED
    BY <1>0, <1>4, <2>1, <2>2 DEF Configuring
<1> QED
  BY <1>1, <1>2, <1>3, <1>4 DEF Next, PatchDone, ManualSimulation, AutoSimulation, vars

LEMMA AlwaysConfiguring == Spec => []Configuring
<1> QED
  BY ConfiguringInit, ConfiguringNext, PTL DEF Spec

(* A patch that set_config plans is refused only for what was hidden from  *)
(* get_config: a session that is configured but that the routers do not    *)
(* have, or a clause of a route map that had outlived its session.  Every  *)
(* other modifier still finds what can_apply_modifier asks for, whatever   *)
(* was applied before it.                                                  *)
THEOREM RefusedOnlyWhenHidden == Spec => FailsOnlyWhenHidden
<1> DEFINE Excused == \/ phase = "failed"
                      \/ Hidden(net)
                      \/ \E m \in patch : m.type = "insert" /\ m.expr.kind = "map" /\ ~CanApply(net, m)
<1>1. ASSUME Configuring, NEW m \in patch, phase = "patching", ~CanApply(net, m)
      PROVE  Excused
  <2>0. /\ ActiveOk(net) /\ NetOk(net) /\ GoalOk
        /\ ToRemove(m) \/ ToInsert(m) \/ ToUpdate(m)
    BY <1>1 DEF Configuring, Shaped, Progress
  <2>1. ASSUME NEW e, Proper(e), Telling(e), Holds(net, e), ~Removable(net, e)
        PROVE  Hidden(net)
    <3>1. CASE e.kind = "weight"
      BY <2>1, <3>1 DEF Removable, Proper, Located
    <3>2. CASE e.kind = "area"
      BY <2>1, <3>2 DEF Removable, Proper, Located, Telling, Holds
    <3>3. CASE e.kind = "session"
      <4>1. e.at \in Ends /\ net.sessions[e.at] # Absent
        BY <2>1, <3>3 DEF Proper, Located, ValidExpr, Holds, Peer, Client, Absent
      <4>2. e.at \notin net.active
        BY <2>1, <3>3 DEF Removable
      <4> QED
        BY <4>1, <4>2 DEF Hidden
    <3>4. CASE e.kind = "map"
      <4>1. HasOrder(net.maps[e.at], Clauses[e.value].order)
        BY <2>1, <3>4, OrderOfClause DEF Holds
      <4> QED
        BY <2>1, <3>4, <4>1 DEF Removable
    <3>5. CASE e.kind \notin Linked
      BY <2>1, <3>5 DEF Removable, Holds, Linked
    <3> QED
      BY <3>1, <3>2, <3>3, <3>4, <3>5 DEF Linked
  <2>2. CASE ToRemove(m)
    <3>1. ~Removable(net, m.expr)
      BY <1>1, <2>2 DEF ToRemove, CanApply
    <3> QED
      BY <2>1, <2>2, <3>1 DEF ToRemove
  <2>3. CASE ToUpdate(m)
    <3>1. ~Removable(net, m.from)
      BY <1>1, <2>3 DEF ToUpdate, CanApply
    <3> QED
      BY <2>1, <2>3, <3>1 DEF ToUpdate
  <2>4. CASE ToInsert(m)
    <3> DEFINE e == m.expr
    <3>1. ~Insertable(net, e) /\ Proper(e) /\ (e.kind # "map" => Clear(net, e)) /\ m.type = "insert"
      BY <1>1, <2>0, <2>4 DEF ToInsert, CanApply, GoalOk
    <3> HIDE DEF e
    <3>2. e.kind = "map"
      <4>1. e.kind # "weight"
        BY <3>1 DEF Insertable, Proper, Located
      <4>2. e.kind # "area"
        BY <3>1 DEF Insertable, Proper, Located, Clear
      <4>3. e.kind # "session"
        BY <2>0, <3>1 DEF Insertable, Clear, ActiveOk
      <4>4. e.kind \in Linked
        BY <3>1 DEF Insertable, Clear, Linked
      <4> QED
        BY <4>1, <4>2, <4>3, <4>4 DEF Linked
    <3> QED
      BY <1>1, <3>1, <3>2 DEF e
  <2> QED
    BY <2>0, <2>2, <2>3, <2>4
<1>2. Configuring /\ [Next]_vars => [phase' = "failed" => Excused]_vars
  <2> SUFFICES ASSUME Configuring, Next, phase' = "failed", phase # "failed"
               PROVE  Excused
    BY DEF vars
  <2>1. PICK m \in patch : PatchStep(m)
    BY DEF Next, Modify, SetConfig, PatchDone, ManualSimulation, AutoSimulation
  <2>2. phase = "patching" /\ ~CanApply(net, m)
    BY <2>1 DEF PatchStep
  <2> QED
    BY <1>1, <2>2
<1> QED
  BY <1>2, AlwaysConfiguring, PTL DEF Spec, FailsOnlyWhenHidden

(* When set_config succeeds, the running configuration agrees with the one *)
(* that it was given, in whatever order the patch was applied, but for     *)
(* clauses of route maps that had outlived their session.                  *)
THEOREM GoalIsReached == Spec => []ConfigReached
<1>1. ASSUME Configuring, phase = "reached", ~Hidden(net), NEW up \in BOOLEAN
      PROVE  LET running == GetConfig(net, up)
                 outlived == {k \in DOMAIN running \ seen : k.kind = "map"} \ DOMAIN goal
             IN  Agree([k \in DOMAIN running \ outlived |-> running[k]], goal)
  <2> DEFINE running == GetConfig(net, up)
             outlived == {k \in DOMAIN running \ seen : k.kind = "map"} \ DOMAIN goal
             shown == [k \in DOMAIN running \ outlived |-> running[k]]
  <2>0. NetOk(net) /\ GoalOk /\ Reached /\ Cleared /\ patch = {}
    BY <1>1 DEF Configuring, Shaped, Progress
  <2>1. ASSUME NEW k \in DOMAIN goal
        PROVE  Key(goal[k]) = k /\ Proper(goal[k]) /\ Telling(goal[k]) /\ Holds(net, goal[k])
    BY <2>0 DEF GoalOk, Reached, Pending
  <2>2. ASSUME NEW k \in DOMAIN running
        PROVE  Key(running[k]) = k /\ Proper(running[k]) /\ Telling(running[k]) /\ Holds(net, running[k])
    BY <2>0, ReadConfig, ReadingsHold
  <2>3. ASSUME NEW k \in DOMAIN goal
        PROVE  k \in DOMAIN running
    <3> DEFINE g == goal[k]
    <3>0. Key(g) = k /\ Proper(g) /\ Telling(g) /\ Holds(net, g)
      BY <2>1
    <3> HIDE DEF g
    <3> SUFFICES ASSUME \A e \in Readings(net, up) : Key(e) # Key(g)
                 PROVE  FALSE
      BY <3>0, ReadConfig
    <3>1. CASE g.kind = "map"
      <4>1. g.at \in Slots
        BY <3>0, <3>1 DEF Proper, Located
      <4>2. net.maps[g.at] # << >>
        BY <3>0, <3>1 DEF Holds, Has
      <4>3. <<g.at[1], g.at[2]>> \in net.active
        BY <1>1, <4>1, <4>2 DEF Hidden
      <4> QED
        BY <2>0, <3>0, <3>1, <4>3, ReadingsOfMaps
    <3>2. CASE g.kind # "map"
      <4>1. Untold(net, g)
        BY <2>0, <3>0, <3>2, ReadingsComplete
      <4>2. g.kind # "weight" /\ g.kind # "area"
        BY <3>0, <4>1 DEF Untold, Clear, Telling, Holds
      <4>3. g.kind # "session"
        BY <3>0, <4>1 DEF Untold, Clear, Holds, Peer, Absent
      <4>4. g.kind \in Linked
        BY <3>0, <4>1 DEF Untold, Clear, Holds
      <4> QED
        BY <3>2, <4>2, <4>3, <4>4 DEF Linked
    <3> QED
      BY <3>1, <3>2
  <2>4. ASSUME NEW k \in DOMAIN running, k \in DOMAIN goal
        PROVE  Alike(running[k], goal[k])
    BY <2>0, <2>1, <2>2, <2>4, HoldsOnce
  <2>5. ASSUME NEW k \in DOMAIN running, k \notin outlived, k \notin DOMAIN goal
        PROVE  Unused(running[k])
    <3> DEFINE e == running[k]
    <3>0. Key(e) = k /\ Proper(e) /\ Telling(e) /\ Holds(net, e) /\ k.kind = e.kind
      BY <2>2, KeyFacts
    <3>1. e.kind = "map" => k \in seen
      BY <2>5, <3>0
    <3> HIDE DEF e, running, outlived
    <3>2. Unwanted(e)
      BY <2>0, <2>5, <3>0, <3>1 DEF Unwanted, Pending
    <3>3. Clear(net, e)
      BY <2>0, <3>2 DEF Cleared
    <3>4. e.kind # "area"
      BY <3>0, <3>3 DEF Clear, Telling, Holds
    <3>5. e.kind # "session"
      BY <3>0, <3>3 DEF Clear, Holds, Peer, Absent
    <3>6. e.kind # "map"
      BY <3>0, <3>3, OrderOfClause DEF Clear, Holds
    <3>7. e.kind \in Linked
      BY <3>0, <3>3 DEF Clear, Holds
    <3>8. e.kind = "weight"
      BY <3>4, <3>5, <3>6, <3>7 DEF Linked
    <3>9. e.value = Infinite
      BY <3>0, <3>3, <3>8 DEF Clear, Telling, Holds
    <3> QED
      BY <3>8, <3>9 DEF Unused, e
  <2> HIDE DEF running
  <2>6. DOMAIN shown = DOMAIN running \ outlived /\ \A k \in DOMAIN shown : shown[k] = running[k]
    OBVIOUS
  <2>7. outlived \cap DOMAIN goal = {}
    OBVIOUS
  <2> HIDE DEF shown, outlived
  <2>8. Agree(shown, goal)
    BY <2>3, <2>4, <2>5, <2>6, <2>7 DEF Agree
  <2> QED
    BY <2>8 DEF shown, outlived, running
<1>2. Configuring => ConfigReached
  BY <1>1 DEF ConfigReached
<1> QED
  BY <1>2, AlwaysConfiguring, PTL
-----------------------------------------------------------------------------
(* What a modifier is about, and the expression that it puts or takes.     *)
Given(m) == IF m.type = "update" THEN m.to ELSE m.expr

(* A modifier of one expression, which a running configuration can show.   *)
Single(m) ==
  /\ m.type \in {"insert", "remove", "update"}
  /\ Proper(Given(m))
  /\ m.type # "remove" => Telling(Given(m))
  /\ m.type = "update" => Proper(m.from)

LEMMA SubjectGiven == \A m : Subject(m) = Key(Given(m))
BY DEF Subject, Given

LEMMA SingleStep ==
  ASSUME NEW n, NetOk(n), NEW m, Single(m)
  PROVE  /\ NetOk(Unchecked(n, m))
         /\ m.type = "remove" => Unchecked(n, m) = UnsetExpr(n, Given(m)) /\ Clear(Unchecked(n, m), Given(m))
         /\ m.type # "remove" => Unchecked(n, m) = SetExpr(n, Given(m)) /\ Holds(Unchecked(n, m), Given(m))
         /\ \A f : Proper(f) /\ Key(f) # Subject(m) => Untouched(n, Unchecked(n, m), f)
<1> DEFINE e == Given(m)
<1>1. Proper(e) /\ ValidExpr(e) /\ Subject(m) = Key(e)
  BY SubjectGiven DEF Single, Proper
<1>2. /\ m.type = "remove" => Unchecked(n, m) = UnsetExpr(n, e)
      /\ m.type # "remove" => Unchecked(n, m) = SetExpr(n, e)
  BY DEF Single, Unchecked, Given
<1> HIDE DEF e
<1>3. NetOk(SetExpr(n, e)) /\ NetOk(UnsetExpr(n, e))
  BY <1>1, SetExprKeeps, UnsetExprKeeps
<1>4. Holds(SetExpr(n, e), e) /\ Clear(UnsetExpr(n, e), e)
  BY <1>1, SetHolds, UnsetClears
<1>5. ASSUME NEW f, Proper(f), Key(f) # Key(e)
      PROVE  Untouched(n, Unchecked(n, m), f)
  <2>1. Unchecked(n, m) \in {SetExpr(n, e), UnsetExpr(n, e)}
    BY <1>2
  <2> QED
    BY <1>1, <1>5, <2>1, Elsewhere
<1> QED
  BY <1>1, <1>2, <1>3, <1>4, <1>5 DEF e

LEMMA ModifiedConfig ==
  ASSUME NEW c, NEW m, Single(m), ModifyOne(c, m).ok
  PROVE  /\ DOMAIN ModifyOne(c, m).config = IF m.type = "remove" THEN DOMAIN c \ {Subject(m)}
                                            ELSE DOMAIN c \cup {Subject(m)}
         /\ \A k \in DOMAIN ModifyOne(c, m).config :
              ModifyOne(c, m).config[k] = IF k = Subject(m) THEN Given(m) ELSE c[k]
         /\ m.type = "insert" => Subject(m) \notin DOMAIN c
         /\ m.type = "remove" => Subject(m) \in DOMAIN c /\ Same(c[Subject(m)], m.expr)
         /\ m.type = "update" => /\ Key(m.from) = Subject(m) /\ Subject(m) \in DOMAIN c
                                 /\ Same(c[Subject(m)], m.from)
<1>1. CASE m.type = "insert"
  <2>1. ModifyOne(c, m).config = With(c, Key(m.expr), m.expr) /\ Key(m.expr) \notin DOMAIN c
    BY <1>1 DEF ModifyOne
  <2> QED
    BY <1>1, <2>1 DEF With, Subject, Given
<1>2. CASE m.type = "remove"
  <2>1. /\ ModifyOne(c, m).config = Without(c, Key(m.expr))
        /\ Key(m.expr) \in DOMAIN c /\ Same(c[Key(m.expr)], m.expr)
    BY <1>2 DEF ModifyOne
  <2> QED
    BY <1>2, <2>1 DEF Without, Subject, Given
<1>3. CASE m.type = "update"
  <2>1. /\ ModifyOne(c, m).config = [c EXCEPT ![Key(m.to)] = m.to]
        /\ Key(m.from) = Key(m.to) /\ Key(m.from) \in DOMAIN c /\ Same(c[Key(m.from)], m.from)
    BY <1>3 DEF ModifyOne
  <2> QED
    BY <1>3, <2>1 DEF Subject, Given
<1> QED
  BY <1>1, <1>2, <1>3 DEF Single

(* A configuration that says what the network has, and of no other place.  *)
Mirrors(n, c) ==
  /\ \A k \in DOMAIN c : Key(c[k]) = k /\ Proper(c[k]) /\ Telling(c[k]) /\ Holds(n, c[k])
  /\ \A f : Proper(f) /\ Key(f) \notin DOMAIN c => Clear(n, f)

LEMMA RunningMirrors ==
  ASSUME NEW n, NetOk(n), ~Hidden(n), NEW up
  PROVE  Mirrors(n, GetConfig(n, up))
<1>1. ASSUME NEW k \in DOMAIN GetConfig(n, up)
      PROVE  LET e == GetConfig(n, up)[k] IN Key(e) = k /\ Proper(e) /\ Telling(e) /\ Holds(n, e)
  BY ReadConfig, ReadingsHold
<1>2. ASSUME NEW f, Proper(f), Key(f) \notin DOMAIN GetConfig(n, up)
      PROVE  Clear(n, f)
  <2>1. \A e \in Readings(n, up) : Key(e) # Key(f)
    BY <1>2, ReadConfig
  <2>2. CASE f.kind # "map"
    BY <1>2, <2>1, <2>2, ReadingsComplete DEF Untold
  <2>3. CASE f.kind = "map"
    <3> SUFFICES ASSUME HasOrder(n.maps[f.at], Clauses[f.value].order) PROVE FALSE
      BY <2>3 DEF Clear, Linked
    <3>1. f.at \in Slots /\ n.maps[f.at] \in Lists
      BY <1>2, <2>3 DEF Proper, Located, NetOk, Nets, Filings
    <3>2. PICK i \in DOMAIN n.maps[f.at] : n.maps[f.at][i].order = Clauses[f.value].order
      BY DEF HasOrder
    <3>3. n.maps[f.at][i] \in Known
      BY <3>1, <3>2 DEF Lists
    <3>4. PICK v \in DOMAIN Clauses : Clauses[v] = n.maps[f.at][i]
      BY <3>3 DEF Known
    <3> DEFINE g == Expr("map", f.at, v)
    <3>5. g.kind = "map" /\ g.at = f.at /\ g.value = v /\ g = Expr(g.kind, g.at, g.value)
      BY ExprFields
    <3> HIDE DEF g
    <3>6. Proper(g)
      BY <3>1, <3>4, <3>5 DEF Proper, ValidExpr, Located
    <3>7. Holds(n, g)
      BY <3>2, <3>4, <3>5 DEF Holds, Has, Linked
    <3>8. Key(g) = Key(f)
      <4>1. Key(g).at = Append(f.at, Clauses[v].order) /\ Key(f).at = Append(f.at, Clauses[f.value].order)
        BY <2>3, <3>5, KeyFacts
      <4>2. Clauses[v].order = Clauses[f.value].order
        BY <3>2, <3>4
      <4>3. Key(g).at = Key(f).at
        BY ONLY <4>1, <4>2, Zenon
      <4> QED
        BY <2>3, <3>5, <4>3, SameKey
    <3>9. <<g.at[1], g.at[2]>> \in n.active
      <4>1. n.maps[f.at] # << >>
        BY <3>2
      <4>2. <<f.at[1], f.at[2]>> \in n.active
        BY <3>1, <4>1 DEF Hidden
      <4> QED
        BY <3>5, <4>2
    <3> QED
      BY <2>1, <3>5, <3>6, <3>7, <3>8, <3>9, ReadingsOfMaps
  <2> QED
    BY <2>2, <2>3
<1> QED
  BY <1>1, <1>2 DEF Mirrors

LEMMA MirrorsAgree ==
  ASSUME NEW n, NetOk(n), ~Hidden(n), NEW up, NEW c, Mirrors(n, c)
  PROVE  Agree(GetConfig(n, up), c)
<1> DEFINE running == GetConfig(n, up)
<1>1. Mirrors(n, running)
  BY RunningMirrors
<1>2. ASSUME NEW k \in DOMAIN c
      PROVE  k \in DOMAIN running
  <2> DEFINE g == c[k]
  <2>0. Key(g) = k /\ Proper(g) /\ Telling(g) /\ Holds(n, g)
    BY DEF Mirrors
  <2> HIDE DEF g
  <2> SUFFICES ASSUME \A e \in Readings(n, up) : Key(e) # Key(g)
               PROVE  FALSE
    BY <2>0, ReadConfig
  <2>1. CASE g.kind = "map"
    <3>1. g.at \in Slots
      BY <2>0, <2>1 DEF Proper, Located
    <3>2. n.maps[g.at] # << >>
      BY <2>0, <2>1 DEF Holds, Has
    <3>3. <<g.at[1], g.at[2]>> \in n.active
      BY <3>1, <3>2 DEF Hidden
    <3> QED
      BY <2>0, <2>1, <3>3, ReadingsOfMaps
  <2>2. CASE g.kind # "map"
    <3>1. Untold(n, g)
      BY <2>0, <2>2, ReadingsComplete
    <3>2. g.kind # "weight" /\ g.kind # "area"
      BY <2>0, <3>1 DEF Untold, Clear, Telling, Holds
    <3>3. g.kind # "session"
      BY <2>0, <3>1 DEF Proper, ValidExpr, Untold, Clear, Holds, Peer, Client, Absent
    <3>4. g.kind \in Linked
      BY <2>0, <3>1 DEF Untold, Clear, Holds
    <3> QED
      BY <2>2, <3>2, <3>3, <3>4 DEF Linked
  <2> QED
    BY <2>1, <2>2
<1>3. ASSUME NEW k \in DOMAIN running, k \in DOMAIN c
      PROVE  Alike(running[k], c[k])
  <2>1. /\ Key(running[k]) = k /\ Proper(running[k]) /\ Holds(n, running[k])
        /\ Key(c[k]) = k /\ Proper(c[k]) /\ Holds(n, c[k])
    BY <1>1, <1>3 DEF Mirrors
  <2> QED
    BY <2>1, HoldsOnce
<1>4. ASSUME NEW k \in DOMAIN running, k \notin DOMAIN c
      PROVE  Unused(running[k])
  <2> DEFINE e == running[k]
  <2>0. Key(e) = k /\ Proper(e) /\ Telling(e) /\ Holds(n, e)
    BY <1>1 DEF Mirrors
  <2> HIDE DEF e, running
  <2>1. Clear(n, e)
    BY <1>4, <2>0 DEF Mirrors
  <2>2. e.kind # "area"
    BY <2>0, <2>1 DEF Clear, Telling, Holds
  <2>3. e.kind # "session"
    BY <2>0, <2>1 DEF Clear, Holds, Peer, Absent
  <2>4. e.kind # "map"
    BY <2>0, <2>1, OrderOfClause DEF Clear, Holds
  <2>5. e.kind \in Linked
    BY <2>0, <2>1 DEF Clear, Holds
  <2>6. e.kind = "weight"
    BY <2>2, <2>3, <2>4, <2>5 DEF Linked
  <2>7. e.value = Infinite
    BY <2>0, <2>1, <2>6 DEF Clear, Telling, Holds
  <2> QED
    BY <2>6, <2>7 DEF Unused, e
<1> HIDE DEF running
<1>5. Agree(running, c)
  BY <1>2, <1>3, <1>4 DEF Agree
<1> QED
  BY <1>5 DEF running

LEMMA MirrorsStep ==
  ASSUME NEW n, NetOk(n), NEW c, Mirrors(n, c), NEW m, Single(m), ModifyOne(c, m).ok
  PROVE  Mirrors(Unchecked(n, m), ModifyOne(c, m).config)
<1> DEFINE r == Unchecked(n, m)
           d == ModifyOne(c, m).config
           s == Subject(m)
           e == Given(m)
<1>1. /\ m.type = "remove" => Clear(r, e)
      /\ m.type # "remove" => Holds(r, e)
      /\ \A f : Proper(f) /\ Key(f) # s => Untouched(n, r, f)
  BY SingleStep
<1>2. /\ DOMAIN d = IF m.type = "remove" THEN DOMAIN c \ {s} ELSE DOMAIN c \cup {s}
      /\ \A k \in DOMAIN d : d[k] = IF k = s THEN e ELSE c[k]
  BY ModifiedConfig
<1>3. s = Key(e) /\ Proper(e) /\ (m.type # "remove" => Telling(e))
  BY SubjectGiven DEF Single
<1> HIDE DEF r, d, s, e
<1>4. ASSUME NEW k \in DOMAIN d
      PROVE  Key(d[k]) = k /\ Proper(d[k]) /\ Telling(d[k]) /\ Holds(r, d[k])
  <2>1. CASE k = s
    <3>1. m.type # "remove" /\ d[k] = e
      BY <1>2, <2>1
    <3> QED
      BY <1>1, <1>3, <2>1, <3>1
  <2>2. CASE k # s
    <3>1. k \in DOMAIN c /\ d[k] = c[k]
      BY <1>2, <2>2
    <3>2. Key(c[k]) = k /\ Proper(c[k]) /\ Telling(c[k]) /\ Holds(n, c[k])
      BY <3>1 DEF Mirrors
    <3>3. Holds(r, c[k])
      BY <1>1, <2>2, <3>2, UntouchedKeeps
    <3> QED
      BY <3>1, <3>2, <3>3
  <2> QED
    BY <2>1, <2>2
<1>5. ASSUME NEW f, Proper(f), Key(f) \notin DOMAIN d
      PROVE  Clear(r, f)
  <2>1. CASE Key(f) = s
    <3>1. m.type = "remove"
      BY <1>2, <1>5, <2>1
    <3> QED
      BY <1>1, <1>3, <1>5, <2>1, <3>1, ClearAt
  <2>2. CASE Key(f) # s
    <3>1. Key(f) \notin DOMAIN c
      BY <1>2, <1>5, <2>2
    <3>2. Clear(n, f)
      BY <1>5, <3>1 DEF Mirrors
    <3> QED
      BY <1>1, <1>5, <2>2, <3>2, UntouchedKeeps
  <2> QED
    BY <2>1, <2>2
<1>6. Mirrors(r, d)
  BY <1>4, <1>5 DEF Mirrors
<1> QED
  BY <1>6 DEF r, d

(* What can_apply_modifier finds where an expression holds, or none does.  *)
LEMMA HeldIsRemovable ==
  ASSUME NEW n, NetOk(n), ~Hidden(n), NEW e, Proper(e), Telling(e), Holds(n, e)
  PROVE  Removable(n, e)
<1>1. CASE e.kind = "weight"
  BY <1>1 DEF Removable, Proper, Located
<1>2. CASE e.kind = "area"
  BY <1>2 DEF Removable, Proper, Located, Telling, Holds
<1>3. CASE e.kind = "session"
  <2>1. e.at \in Ends /\ n.sessions[e.at] # Absent
    BY <1>3 DEF Proper, Located, ValidExpr, Holds, Peer, Client, Absent
  <2>2. e.at \in n.active
    BY <2>1 DEF Hidden
  <2> QED
    BY <1>3, <2>2 DEF Removable
<1>4. CASE e.kind = "map"
  <2>1. HasOrder(n.maps[e.at], Clauses[e.value].order)
    BY <1>4, OrderOfClause DEF Holds
  <2> QED
    BY <1>4, <2>1 DEF Removable
<1>5. CASE e.kind \notin Linked
  BY <1>5 DEF Removable, Holds, Linked
<1> QED
  BY <1>1, <1>2, <1>3, <1>4, <1>5 DEF Linked

LEMMA ClearIsInsertable ==
  ASSUME NEW n, ActiveOk(n), NEW e, Proper(e), Clear(n, e)
  PROVE  Insertable(n, e)
<1>1. CASE e.kind = "weight"
  BY <1>1 DEF Insertable, Proper, Located
<1>2. CASE e.kind = "area"
  BY <1>2 DEF Insertable, Proper, Located, Clear
<1>3. CASE e.kind = "session"
  BY <1>3 DEF Insertable, Clear, ActiveOk
<1>4. CASE e.kind = "map"
  BY <1>4 DEF Insertable, Clear
<1>5. CASE e.kind \notin Linked
  BY <1>5 DEF Insertable, Clear, Linked
<1> QED
  BY <1>1, <1>2, <1>3, <1>4, <1>5 DEF Linked

(* What a modifier that the configuration accepts takes away is there in   *)
(* the network that it mirrors.                                            *)
LEMMA MirrorsHold ==
  ASSUME NEW n, NEW c, Mirrors(n, c), NEW e, Proper(e), Key(e) \in DOMAIN c, Same(c[Key(e)], e)
  PROVE  Telling(e) /\ Holds(n, e)
<1> DEFINE g == c[Key(e)]
<1>1. Proper(g) /\ Telling(g) /\ Holds(n, g)
  BY DEF Mirrors
<1>2. Same(g, e)
  OBVIOUS
<1> HIDE DEF g
<1>3. Telling(e)
  BY <1>1, <1>2 DEF Same, Telling
<1> QED
  BY <1>1, <1>2, <1>3, SameHolds

LEMMA SingleApplies ==
  ASSUME NEW n, NetOk(n), ActiveOk(n), ~Hidden(n), NEW c, Mirrors(n, c),
         NEW m, Single(m), ModifyOne(c, m).ok
  PROVE  CanApply(n, m)
<1>0. /\ m.type = "insert" => Subject(m) \notin DOMAIN c
      /\ m.type = "remove" => Subject(m) \in DOMAIN c /\ Same(c[Subject(m)], m.expr)
      /\ m.type = "update" => /\ Key(m.from) = Subject(m) /\ Subject(m) \in DOMAIN c
                              /\ Same(c[Subject(m)], m.from)
  BY ModifiedConfig
<1>1. CASE m.type = "insert"
  <2>1. Proper(m.expr) /\ Key(m.expr) \notin DOMAIN c
    BY <1>0, <1>1 DEF Single, Given, Subject
  <2>2. Insertable(n, m.expr)
    BY <2>1, ClearIsInsertable DEF Mirrors
  <2> QED
    BY <1>1, <2>2 DEF CanApply
<1>2. CASE m.type = "remove"
  <2>1. Proper(m.expr) /\ Key(m.expr) \in DOMAIN c /\ Same(c[Key(m.expr)], m.expr)
    BY <1>0, <1>2 DEF Single, Given, Subject
  <2>2. Removable(n, m.expr)
    BY <2>1, MirrorsHold, HeldIsRemovable
  <2> QED
    BY <1>2, <2>2 DEF CanApply
<1>3. CASE m.type = "update"
  <2>1. Proper(m.from) /\ Key(m.from) \in DOMAIN c /\ Same(c[Key(m.from)], m.from)
    BY <1>0, <1>3 DEF Single
  <2>2. Removable(n, m.from)
    BY <2>1, MirrorsHold, HeldIsRemovable
  <2> QED
    BY <1>3, <2>2 DEF CanApply
<1> QED
  BY <1>1, <1>2, <1>3 DEF Single
-----------------------------------------------------------------------------
(* Two networks that say the same of every place are the same.             *)
LEMMA UntouchedChain ==
  ASSUME NEW n, NEW x, NEW r, NEW f, Untouched(n, x, f), Untouched(x, r, f)
  PROVE  Untouched(n, r, f)
BY DEF Untouched

LEMMA UntouchedSelf == \A n, f : Untouched(n, n, f)
BY DEF Untouched

LEMMA ClearBoth ==
  ASSUME NEW n, NEW r, NEW f, Clear(n, f), Clear(r, f), f.kind # "weight"
  PROVE  Untouched(n, r, f)
<1>1. CASE f.kind = "map"
  <2>1. \A c : c.order = Clauses[f.value].order => ~Has(n.maps[f.at], c) /\ ~Has(r.maps[f.at], c)
    BY <1>1, OrderOfClause DEF Clear
  <2> QED
    BY <1>1, <2>1 DEF Untouched, Linked
<1>2. CASE f.kind # "map"
  BY <1>2 DEF Clear, Untouched
<1> QED
  BY <1>1, <1>2

LEMMA HeldBoth ==
  ASSUME NEW n, NetOk(n), NEW r, NetOk(r), NEW e, Proper(e), Holds(n, e), Holds(r, e),
         NEW f, Proper(f), Key(e) = Key(f)
  PROVE  Untouched(n, r, f)
<1>1. e.kind = f.kind /\ Key(e).at = Key(f).at
  BY SameKey
<1>2. CASE f.kind = "weight"
  <2>1. e.at = f.at
    BY <1>1, <1>2, KeyFacts
  <2> QED
    BY <1>1, <1>2, <2>1 DEF Holds, Untouched, Linked
<1>3. CASE f.kind = "area"
  <2>1. e.at \in Ends /\ f.at \in Ends
    BY <1>1, <1>3 DEF Proper, Located, LinkEnds
  <2>2. Ordered(e.at) = Ordered(f.at)
    BY <1>1, <1>3, KeyFacts
  <2>3. {e.at[1], e.at[2]} = {f.at[1], f.at[2]}
    BY <2>1, <2>2, Pairs
  <2> QED
    BY <1>1, <1>3, <2>3 DEF Holds, Untouched, Linked
<1>4. CASE f.kind = "session"
  <2>1. e.at \in Ends /\ f.at \in Ends
    BY <1>1, <1>4 DEF Proper, Located
  <2>2. Ordered(e.at) = Ordered(f.at)
    BY <1>1, <1>4, KeyFacts
  <2>3. f.at = e.at \/ (f.at = Flip(e.at) /\ Flip(f.at) = e.at)
    BY <2>1, <2>2, Pairs
  <2>4. /\ n.sessions[f.at] = r.sessions[f.at]
        /\ n.sessions[Flip(f.at)] = r.sessions[Flip(f.at)]
    BY <1>1, <1>4, <2>3 DEF Holds
  <2> QED
    BY <1>4, <2>4 DEF Untouched, Linked
<1>5. CASE f.kind = "map"
  <2>1. e.at \in Slots /\ f.at \in Slots
    BY <1>1, <1>5 DEF Proper, Located
  <2>2. Append(e.at, Clauses[e.value].order) = Append(f.at, Clauses[f.value].order)
    BY <1>1, <1>5, KeyFacts
  <2>3. e.at = f.at /\ Clauses[e.value].order = Clauses[f.value].order
    <3> DEFINE s == e.at
               t == f.at
               o == Clauses[e.value].order
               u == Clauses[f.value].order
    <3>1. s \in Slots /\ t \in Slots /\ Append(s, o) = Append(t, u)
      BY <2>1, <2>2
    <3> HIDE DEF s, t, o, u
    <3>2. s = t /\ o = u
      BY ONLY <3>1, SlotKeys
    <3> QED
      BY <3>2 DEF s, t, o, u
  <2>4. n.maps[f.at] \in Lists /\ r.maps[f.at] \in Lists
    BY <2>1 DEF NetOk, Nets, Filings
  <2>5. Has(n.maps[f.at], Clauses[e.value]) /\ Has(r.maps[f.at], Clauses[e.value])
    BY <1>1, <1>5, <2>3 DEF Holds
  <2>6. ASSUME NEW c, c.order = Clauses[f.value].order
        PROVE  Has(r.maps[f.at], c) <=> Has(n.maps[f.at], c)
    <3>1. c.order = Clauses[e.value].order
      BY <2>3, <2>6
    <3>2. Has(n.maps[f.at], c) => c = Clauses[e.value]
      BY <2>4, <2>5, <3>1, ContainedOnce
    <3>3. Has(r.maps[f.at], c) => c = Clauses[e.value]
      BY <2>4, <2>5, <3>1, ContainedOnce
    <3> QED
      BY <2>5, <3>2, <3>3
  <2> QED
    BY <1>5, <2>6 DEF Untouched, Linked
<1>6. CASE f.kind \notin Linked
  BY <1>1, <1>6 DEF Holds, Untouched, Linked
<1> QED
  BY <1>2, <1>3, <1>4, <1>5, <1>6 DEF Linked

(* A sorted list is told by its clauses.                                   *)
LEMMA SameStart ==
  ASSUME NEW a \in Lists, NEW b \in Lists, \A c : Has(a, c) <=> Has(b, c)
  PROVE  Len(a) <= Len(b) /\ \A i \in 1 .. Len(a) : a[i] = b[i]
<1> DEFINE N == Len(a)
           M == Len(b)
           A == {k \in 0 .. N : k <= M /\ \A i \in 1 .. k : a[i] = b[i]}
<1>0. /\ N \in Nat /\ DOMAIN a = 1 .. N /\ M \in Nat /\ DOMAIN b = 1 .. M
      /\ \A i \in 1 .. N : a[i].order \in Int
      /\ \A i \in 1 .. M : b[i].order \in Int
      /\ \A i, j \in 1 .. N : i < j => a[i].order < a[j].order
      /\ \A i, j \in 1 .. M : i < j => b[i].order < b[j].order
  BY ListsHaveOrders DEF Orders, WellTyped
<1> HIDE DEF N, M
<1>1. 0 \in A
  BY <1>0
<1>2. ASSUME NEW k \in 0 .. N, k \in A, k < N
      PROVE  k + 1 \in A
  <2>0. k + 1 \in 1 .. N /\ k \in Nat /\ k <= M
    BY <1>0, <1>2
  <2>1. PICK j \in 1 .. M : b[j] = a[k + 1]
    BY <1>0, <2>0 DEF Has
  <2>2. j > k
    <3> SUFFICES ASSUME j <= k PROVE FALSE
      BY <2>0
    <3>1. j \in 1 .. k /\ j \in 1 .. N /\ j < k + 1
      BY <1>0, <2>0
    <3>2. a[j] = b[j]
      BY <1>2, <3>1
    <3>3. a[j].order < a[k + 1].order
      BY <1>0, <2>0, <3>1
    <3> QED
      BY <1>0, <2>0, <2>1, <3>1, <3>2, <3>3
  <2>3. k + 1 \in 1 .. M
    BY <1>0, <2>0, <2>2
  <2>4. PICK i \in 1 .. N : a[i] = b[k + 1]
    BY <1>0, <2>3 DEF Has
  <2>5. i > k
    <3> SUFFICES ASSUME i <= k PROVE FALSE
      BY <2>0
    <3>1. i \in 1 .. k /\ i \in 1 .. M /\ i < k + 1
      BY <1>0, <2>0
    <3>2. a[i] = b[i]
      BY <1>2, <3>1
    <3>3. b[i].order < b[k + 1].order
      BY <1>0, <2>3, <3>1
    <3> QED
      BY <1>0, <2>3, <2>4, <3>1, <3>2, <3>3
  <2>6. i = k + 1
    <3> SUFFICES ASSUME i > k + 1 PROVE FALSE
      BY <2>0, <2>5
    <3>1. a[k + 1].order < a[i].order
      BY <1>0, <2>0
    <3>2. j = k + 1 \/ b[k + 1].order < b[j].order
      BY <1>0, <2>2, <2>3
    <3> QED
      BY <1>0, <2>0, <2>1, <2>3, <2>4, <3>1, <3>2
  <2>7. \A l \in 1 .. k + 1 : a[l] = b[l]
    <3>1. \A l \in 1 .. k + 1 : l \in 1 .. k \/ l = k + 1
      BY <2>0
    <3> QED
      BY <1>2, <2>4, <2>6, <3>1
  <2> QED
    BY <2>0, <2>3, <2>7
<1>3. \A k \in 0 .. N : k \in A
  <2> HIDE DEF A
  <2>1. \A k \in 0 .. N : k \in A /\ k < N => k + 1 \in A
    BY <1>2
  <2> QED
    BY ONLY <1>0, <1>1, <2>1, UpTo
<1>4. N \in A
  BY <1>0, <1>3
<1> QED
  BY <1>4 DEF N, M

LEMMA SameClauses ==
  ASSUME NEW a \in Lists, NEW b \in Lists, \A c : Has(a, c) <=> Has(b, c)
  PROVE  a = b
<1>1. Len(a) <= Len(b) /\ \A i \in 1 .. Len(a) : a[i] = b[i]
  BY SameStart
<1>2. Len(b) <= Len(a)
  BY SameStart
<1>3. a \in Seq(Known) /\ b \in Seq(Known)
  BY DEF Lists
<1> QED
  BY <1>1, <1>2, <1>3

LEMMA LinkHasEnds ==
  ASSUME NEW l \in Links
  PROVE  \E p \in LinkEnds : l = {p[1], p[2]}
<1>1. PICK a \in Routers, b \in Routers : a # b /\ l = {a, b}
  BY ConfigurationAssumption
<1>2. <<a, b>> \in LinkEnds /\ l = {<<a, b>>[1], <<a, b>>[2]}
  BY <1>1 DEF LinkEnds, Ends
<1> QED
  BY <1>2

(* The sessions that the routers have are those that refreshing them would *)
(* give, and what remains is a map.                                        *)
Current(n) ==
  /\ n.active = Refresh(n).active
  /\ n.table = [k \in DOMAIN n.table |-> n.table[k]]

LEMMA RefreshSame ==
  ASSUME NEW n, NetOk(n), NEW r, NetOk(r),
         n.weight = r.weight, n.area = r.area, n.sessions = r.sessions
  PROVE  Refresh(n).active = Refresh(r).active
<1>1. Reachable(n) = Reachable(r)
  BY DEF Reachable
<1>2. n \in Nets(n.table) /\ r \in Nets(r.table)
  BY DEF NetOk
<1>3. Refresh(n).active = {p \in Ends : n.sessions[p] # Absent /\ p \in Reachable(n)
                                        /\ <<p[2], p[1]>> \in Reachable(n)}
  BY <1>2 DEF Refresh, Nets
<1>4. Refresh(r).active = {p \in Ends : r.sessions[p] # Absent /\ p \in Reachable(r)
                                        /\ <<p[2], p[1]>> \in Reachable(r)}
  BY <1>2 DEF Refresh, Nets
<1> QED
  BY <1>1, <1>3, <1>4

LEMMA SameNets ==
  ASSUME NEW n, NetOk(n), Current(n), NEW r, NetOk(r), Current(r),
         \A f : Proper(f) => Untouched(n, r, f)
  PROVE  n = r
<1>0. /\ n \in Nets(n.table) /\ r \in Nets(r.table)
      /\ n.weight \in [LinkEnds -> Nat] /\ n.area \in [Links -> Areas]
      /\ n.sessions \in [Ends -> Types] /\ n.maps \in [Slots -> Lists]
      /\ r.weight \in [LinkEnds -> Nat] /\ r.area \in [Links -> Areas]
      /\ r.sessions \in [Ends -> Types] /\ r.maps \in [Slots -> Lists]
  BY DEF NetOk, Nets, Filings
<1>1. ASSUME NEW kind, NEW at, NEW value, ValidExpr(Expr(kind, at, value)), Located(Expr(kind, at, value))
      PROVE  Untouched(n, r, Expr(kind, at, value))
  BY <1>1 DEF Proper
<1>2. n.weight = r.weight
  <2>1. ASSUME NEW p \in LinkEnds
        PROVE  n.weight[p] = r.weight[p]
    <3> DEFINE f == Expr("weight", p, 0)
    <3>1. f.kind = "weight" /\ f.at = p /\ f.value = 0 /\ f = Expr(f.kind, f.at, f.value)
      BY ExprFields
    <3> HIDE DEF f
    <3>2. Proper(f)
      BY <3>1 DEF Proper, ValidExpr, Located
    <3> QED
      BY <3>1, <3>2 DEF Untouched
  <2> QED
    BY <1>0, <2>1
<1>3. n.area = r.area
  <2>1. ASSUME NEW l \in Links
        PROVE  n.area[l] = r.area[l]
    <3>0. PICK p \in LinkEnds : l = {p[1], p[2]}
      BY LinkHasEnds
    <3> DEFINE f == Expr("area", p, Backbone)
    <3>1. f.kind = "area" /\ f.at = p /\ f.value = Backbone /\ f = Expr(f.kind, f.at, f.value)
      BY ExprFields
    <3> HIDE DEF f
    <3>2. Proper(f)
      BY <3>1, ConfigurationAssumption DEF Proper, ValidExpr, Located
    <3> QED
      BY <3>0, <3>1, <3>2 DEF Untouched
  <2> QED
    BY <1>0, <2>1
<1>4. n.sessions = r.sessions
  <2>1. ASSUME NEW p \in Ends
        PROVE  n.sessions[p] = r.sessions[p]
    <3> DEFINE f == Expr("session", p, Peer)
    <3>1. f.kind = "session" /\ f.at = p /\ f.value = Peer /\ f = Expr(f.kind, f.at, f.value)
      BY ExprFields
    <3> HIDE DEF f
    <3>2. Proper(f)
      BY <3>1 DEF Proper, ValidExpr, Located, Ends
    <3> QED
      BY <3>1, <3>2 DEF Untouched
  <2> QED
    BY <1>0, <2>1
<1>5. n.maps = r.maps
  <2>1. ASSUME NEW s \in Slots
        PROVE  n.maps[s] = r.maps[s]
    <3>0. n.maps[s] \in Lists /\ r.maps[s] \in Lists
      BY <1>0
    <3>1. ASSUME NEW c, Has(n.maps[s], c) \/ Has(r.maps[s], c)
          PROVE  Has(n.maps[s], c) <=> Has(r.maps[s], c)
      <4>1. c \in Known
        BY <3>0, <3>1 DEF Lists, Has
      <4>2. PICK v \in DOMAIN Clauses : Clauses[v] = c
        BY <4>1 DEF Known
      <4> DEFINE f == Expr("map", s, v)
      <4>3. f.kind = "map" /\ f.at = s /\ f.value = v /\ f = Expr(f.kind, f.at, f.value)
        BY ExprFields
      <4> HIDE DEF f
      <4>4. Proper(f)
        BY <4>3 DEF Proper, ValidExpr, Located
      <4>5. Untouched(n, r, f)
        BY <4>4
      <4> QED
        BY <4>2, <4>3, <4>5 DEF Untouched
    <3> QED
      BY <3>0, <3>1, SameClauses
  <2> QED
    BY <1>0, <2>1
<1>6. n.table = r.table
  <2>1. ASSUME NEW k, k \in DOMAIN n.table \/ k \in DOMAIN r.table
        PROVE  k \in DOMAIN n.table /\ k \in DOMAIN r.table /\ n.table[k] = r.table[k]
    <3>1. PICK f : ValidExpr(f) /\ Key(f) = k /\ f.kind \notin Linked
      BY <2>1 DEF NetOk, TableOk
    <3>2. Proper(f)
      BY <3>1 DEF Proper, Located, Linked
    <3>3. Untouched(n, r, f)
      BY <3>2
    <3> QED
      BY <2>1, <3>1, <3>3 DEF Untouched
  <2>2. DOMAIN n.table = DOMAIN r.table
    BY <2>1
  <2> QED
    BY <2>1, <2>2 DEF Current
<1>7. n.active = r.active
  BY <1>2, <1>3, <1>4, RefreshSame DEF Current
<1>8. r \in Nets(n.table)
  BY <1>0, <1>6
<1> QED
  BY <1>0, <1>2, <1>3, <1>4, <1>5, <1>6, <1>7, <1>8 DEF Nets

LEMMA CurrentFields ==
  ASSUME NEW n, NetOk(n), Current(n), NEW r, NetOk(r), n.weight = r.weight, n.area = r.area,
         n.sessions = r.sessions, n.active = r.active,
         r.table = [k \in DOMAIN r.table |-> r.table[k]]
  PROVE  Current(r)
BY RefreshSame DEF Current

LEMMA CurrentRefresh ==
  ASSUME NEW n, NetOk(n), n.table = [k \in DOMAIN n.table |-> n.table[k]]
  PROVE  Current(Refresh(n))
<1>1. NetOk(Refresh(n))
  BY RefreshKeeps
<1>2. /\ Refresh(n).weight = n.weight /\ Refresh(n).area = n.area
      /\ Refresh(n).sessions = n.sessions /\ Refresh(n).table = n.table
  BY RefreshFields
<1>3. Refresh(n).active = Refresh(Refresh(n)).active
  BY <1>1, <1>2, RefreshSame
<1> QED
  BY <1>2, <1>3 DEF Current

LEMMA SetCurrent ==
  ASSUME NEW n, NetOk(n), Current(n), NEW e, ValidExpr(e)
  PROVE  Current(SetExpr(n, e))
<1>0. /\ n.weight \in [LinkEnds -> Nat] /\ n.area \in [Links -> Areas]
      /\ n.maps \in Filings /\ n \in Nets(n.table)
  BY DEF NetOk, Nets
<1>1. CASE e.kind = "weight"
  <2> DEFINE w == [n.weight EXCEPT ![e.at] = e.value]
  <2>1. w \in [LinkEnds -> Nat]
    BY <1>0, <1>1 DEF ValidExpr
  <2>2. SetExpr(n, e) = Refresh([n EXCEPT !.weight = w])
    BY <1>1 DEF SetExpr
  <2> HIDE DEF w
  <2> DEFINE x == [n EXCEPT !.weight = w]
  <2>3. NetOk(x) /\ x.table = n.table
    BY <1>0, <2>1, NetFields DEF Nets
  <2>4. SetExpr(n, e) = Refresh(x)
    BY <2>2 DEF x
  <2> HIDE DEF x
  <2> QED
    BY <2>3, <2>4, CurrentRefresh DEF Current
<1>2. CASE e.kind = "area"
  <2> DEFINE a == [n.area EXCEPT ![{e.at[1], e.at[2]}] = e.value]
  <2>1. a \in [Links -> Areas]
    BY <1>0, <1>2 DEF ValidExpr
  <2>2. SetExpr(n, e) = Refresh([n EXCEPT !.area = a])
    BY <1>2 DEF SetExpr
  <2> HIDE DEF a
  <2> DEFINE x == [n EXCEPT !.area = a]
  <2>3. NetOk(x) /\ x.table = n.table
    BY <1>0, <2>1, NetFields DEF Nets
  <2>4. SetExpr(n, e) = Refresh(x)
    BY <2>2 DEF x
  <2> HIDE DEF x
  <2> QED
    BY <2>3, <2>4, CurrentRefresh DEF Current
<1>3. CASE e.kind = "session"
  <2> DEFINE x == [n EXCEPT !.sessions = SetSession(@, e.at, e.value)]
  <2>1. SetExpr(n, e) = Refresh(x)
    BY <1>3 DEF SetExpr
  <2>2. e.value \in Types /\ e.at \in Routers \X Routers
    BY <1>3 DEF ValidExpr, Types
  <2>3. NetOk(x)
    BY <2>2, SessionKeeps
  <2>4. x.table = n.table
    BY <1>0 DEF Nets
  <2> HIDE DEF x
  <2> QED
    BY <2>1, <2>3, <2>4, CurrentRefresh DEF Current
<1>4. CASE e.kind = "map"
  <2> DEFINE f == [n.maps EXCEPT ![e.at] = SetMap(@, Clauses[e.value])]
  <2>1. SetExpr(n, e) = [n EXCEPT !.maps = f]
    BY <1>4 DEF SetExpr
  <2> HIDE DEF f
  <2> DEFINE r == [n EXCEPT !.maps = f]
  <2>2. /\ n.weight = r.weight /\ n.area = r.area /\ n.sessions = r.sessions
        /\ n.active = r.active /\ n.table = r.table
    BY <1>0 DEF Nets
  <2>3. NetOk(r) /\ SetExpr(n, e) = r
    BY <2>1, SetExprKeeps
  <2> HIDE DEF r
  <2>4. r.table = [k \in DOMAIN r.table |-> r.table[k]]
    BY <2>2 DEF Current
  <2>5. Current(r)
    BY ONLY NetOk(n), Current(n), <2>2, <2>3, <2>4, CurrentFields
  <2> QED
    BY <2>3, <2>5
<1>5. CASE e.kind \notin Linked
  <2> DEFINE T == With(n.table, Key(e), e)
  <2>1. SetExpr(n, e) = [n EXCEPT !.table = T]
    BY <1>5 DEF SetExpr, Linked
  <2>2. T = [k \in DOMAIN T |-> T[k]]
    BY DEF With
  <2> HIDE DEF T
  <2> DEFINE r == [n EXCEPT !.table = T]
  <2>3. /\ n.weight = r.weight /\ n.area = r.area /\ n.sessions = r.sessions
        /\ n.active = r.active /\ r.table = T
    BY <1>0 DEF Nets
  <2>4. NetOk(r) /\ SetExpr(n, e) = r
    BY <2>1, SetExprKeeps
  <2> HIDE DEF r
  <2>5. r.table = [k \in DOMAIN r.table |-> r.table[k]]
    BY <2>2, <2>3
  <2>6. Current(r)
    BY ONLY NetOk(n), Current(n), <2>3, <2>4, <2>5, CurrentFields
  <2> QED
    BY <2>4, <2>6
<1> QED
  BY <1>1, <1>2, <1>3, <1>4, <1>5 DEF Linked

LEMMA UnsetCurrent ==
  ASSUME NEW n, NetOk(n), Current(n), NEW e, ValidExpr(e)
  PROVE  Current(UnsetExpr(n, e))
<1>0. /\ n.weight \in [LinkEnds -> Nat] /\ n.area \in [Links -> Areas]
      /\ n.maps \in Filings /\ n \in Nets(n.table)
  BY DEF NetOk, Nets
<1>1. CASE e.kind = "weight"
  <2> DEFINE w == [n.weight EXCEPT ![e.at] = Infinite]
  <2>1. w \in [LinkEnds -> Nat]
    BY <1>0, ConfigurationAssumption
  <2>2. UnsetExpr(n, e) = Refresh([n EXCEPT !.weight = w])
    BY <1>1 DEF UnsetExpr
  <2> HIDE DEF w
  <2> DEFINE x == [n EXCEPT !.weight = w]
  <2>3. NetOk(x) /\ x.table = n.table
    BY <1>0, <2>1, NetFields DEF Nets
  <2>4. UnsetExpr(n, e) = Refresh(x)
    BY <2>2 DEF x
  <2> HIDE DEF x
  <2> QED
    BY <2>3, <2>4, CurrentRefresh DEF Current
<1>2. CASE e.kind = "area"
  <2> DEFINE a == [n.area EXCEPT ![{e.at[1], e.at[2]}] = Backbone]
  <2>1. a \in [Links -> Areas]
    BY <1>0, ConfigurationAssumption
  <2>2. UnsetExpr(n, e) = Refresh([n EXCEPT !.area = a])
    BY <1>2 DEF UnsetExpr
  <2> HIDE DEF a
  <2> DEFINE x == [n EXCEPT !.area = a]
  <2>3. NetOk(x) /\ x.table = n.table
    BY <1>0, <2>1, NetFields DEF Nets
  <2>4. UnsetExpr(n, e) = Refresh(x)
    BY <2>2 DEF x
  <2> HIDE DEF x
  <2> QED
    BY <2>3, <2>4, CurrentRefresh DEF Current
<1>3. CASE e.kind = "session"
  <2> DEFINE x == [n EXCEPT !.sessions = SetSession(@, e.at, Absent)]
  <2>1. UnsetExpr(n, e) = Refresh(x)
    BY <1>3 DEF UnsetExpr
  <2>2. Absent \in Types /\ e.at \in Routers \X Routers
    BY <1>3 DEF ValidExpr, Types
  <2>3. NetOk(x)
    BY <2>2, SessionKeeps
  <2>4. x.table = n.table
    BY <1>0 DEF Nets
  <2> HIDE DEF x
  <2> QED
    BY <2>1, <2>3, <2>4, CurrentRefresh DEF Current
<1>4. CASE e.kind = "map"
  <2> DEFINE f == [n.maps EXCEPT ![e.at] = RemoveMap(@, Clauses[e.value].order)]
  <2>1. UnsetExpr(n, e) = [n EXCEPT !.maps = f]
    BY <1>4 DEF UnsetExpr
  <2> HIDE DEF f
  <2> DEFINE r == [n EXCEPT !.maps = f]
  <2>2. /\ n.weight = r.weight /\ n.area = r.area /\ n.sessions = r.sessions
        /\ n.active = r.active /\ n.table = r.table
    BY <1>0 DEF Nets
  <2>3. NetOk(r) /\ UnsetExpr(n, e) = r
    BY <2>1, UnsetExprKeeps
  <2> HIDE DEF r
  <2>4. r.table = [k \in DOMAIN r.table |-> r.table[k]]
    BY <2>2 DEF Current
  <2>5. Current(r)
    BY ONLY NetOk(n), Current(n), <2>2, <2>3, <2>4, CurrentFields
  <2> QED
    BY <2>3, <2>5
<1>5. CASE e.kind \notin Linked
  <2> DEFINE T == Without(n.table, Key(e))
  <2>1. UnsetExpr(n, e) = [n EXCEPT !.table = T]
    BY <1>5 DEF UnsetExpr, Linked
  <2>2. T = [k \in DOMAIN T |-> T[k]]
    BY DEF Without
  <2> HIDE DEF T
  <2> DEFINE r == [n EXCEPT !.table = T]
  <2>3. /\ n.weight = r.weight /\ n.area = r.area /\ n.sessions = r.sessions
        /\ n.active = r.active /\ r.table = T
    BY <1>0 DEF Nets
  <2>4. NetOk(r) /\ UnsetExpr(n, e) = r
    BY <2>1, UnsetExprKeeps
  <2> HIDE DEF r
  <2>5. r.table = [k \in DOMAIN r.table |-> r.table[k]]
    BY <2>2, <2>3
  <2>6. Current(r)
    BY ONLY NetOk(n), Current(n), <2>3, <2>4, <2>5, CurrentFields
  <2> QED
    BY <2>4, <2>6
<1> QED
  BY <1>1, <1>2, <1>3, <1>4, <1>5 DEF Linked

LEMMA CurrentKeeps ==
  ASSUME NEW n, NetOk(n), Current(n), NEW m, ValidModifier(m)
  PROVE  Current(Unchecked(n, m))
<1>1. CASE m.type = "insert"
  BY <1>1, SetCurrent DEF Unchecked, ValidModifier
<1>2. CASE m.type = "update"
  BY <1>2, SetCurrent DEF Unchecked, ValidModifier
<1>3. CASE m.type = "remove"
  BY <1>3, UnsetCurrent DEF Unchecked, ValidModifier
<1>4. CASE m.type = "batch"
  <2>1. Unchecked(n, m) = [n EXCEPT !.maps = BatchUpdate(n.maps, m)]
    BY <1>4 DEF Unchecked
  <2>2. n \in Nets(n.table) /\ NetOk(Unchecked(n, m))
    BY UncheckedKeeps DEF NetOk
  <2> DEFINE r == Unchecked(n, m)
  <2>3. /\ n.weight = r.weight /\ n.area = r.area /\ n.sessions = r.sessions
        /\ n.active = r.active /\ n.table = r.table
    BY <2>1, <2>2 DEF Nets
  <2> HIDE DEF r
  <2>4. NetOk(r)
    BY <2>2 DEF r
  <2>5. r.table = [k \in DOMAIN r.table |-> r.table[k]]
    BY <2>3 DEF Current
  <2>6. Current(r)
    BY ONLY NetOk(n), Current(n), <2>3, <2>4, <2>5, CurrentFields
  <2> QED
    BY <2>6 DEF r
<1> QED
  BY <1>1, <1>2, <1>3, <1>4 DEF ValidModifier

(* What the configuration may rely on in any state                         *)
Settled == Configuring /\ Current(net)

LEMMA SettledInit == Init => Settled
<1> SUFFICES ASSUME Init PROVE Settled
  OBVIOUS
<1>1. Configuring /\ net = Fresh
  BY ConfiguringInit DEF Init
<1>2. /\ Fresh.active = {} /\ Fresh.table = << >> /\ \A p \in Ends : Fresh.sessions[p] = Absent
      /\ NetOk(Fresh)
  BY <1>1 DEF Fresh, Configuring, Shaped
<1>3. Refresh(Fresh).active = {}
  BY <1>2 DEF Refresh, NetOk, Nets
<1>4. << >> = [k \in DOMAIN << >> |-> << >>[k]]
  OBVIOUS
<1> QED
  BY <1>1, <1>2, <1>3, <1>4 DEF Settled, Current

LEMMA SettledNext == Settled /\ [Next]_vars => Settled'
<1> SUFFICES ASSUME Settled, [Next]_vars
             PROVE  Settled'
  OBVIOUS
<1>0. Configuring' /\ NetOk(net) /\ Current(net)
  BY ConfiguringNext DEF Settled, Configuring, Shaped
<1>1. net' = net \/ \E m : ValidModifier(m) /\ net' = Unchecked(net, m)
  BY ConfigurationAssumption
     DEF Settled, Configuring, Shaped, Next, Modify, SetConfig, PatchStep, PatchDone,
         ManualSimulation, AutoSimulation, vars
<1>2. Current(net')
  BY <1>0, <1>1, CurrentKeeps
<1>3. Current(net)'
  BY <1>2 DEF Current
<1> QED
  BY <1>0, <1>3 DEF Settled

LEMMA AlwaysSettled == Spec => []Settled
<1> QED
  BY SettledInit, SettledNext, PTL DEF Spec
-----------------------------------------------------------------------------
(* What a modifier of one expression finds where it applies: nothing, or   *)
(* what it takes away.  An inserted weight would find the default weight.  *)
Fits(n, m) ==
  /\ m.type = "insert" => Clear(n, m.expr) /\ m.expr.kind # "weight"
  /\ m.type = "remove" => Holds(n, m.expr)
  /\ m.type = "update" => Holds(n, m.from) /\ Key(m.from) = Key(m.to)

LEMMA Fitting ==
  ASSUME NEW n, NEW c, Mirrors(n, c), NEW m, Single(m), ModifyOne(c, m).ok,
         ~(m.type = "insert" /\ m.expr.kind = "weight")
  PROVE  Fits(n, m) /\ Single(Reversed(m)) /\ Subject(Reversed(m)) = Subject(m)
<1>0. /\ m.type = "insert" => Subject(m) \notin DOMAIN c
      /\ m.type = "remove" => Subject(m) \in DOMAIN c /\ Same(c[Subject(m)], m.expr)
      /\ m.type = "update" => /\ Key(m.from) = Subject(m) /\ Subject(m) \in DOMAIN c
                              /\ Same(c[Subject(m)], m.from)
  BY ModifiedConfig
<1>1. CASE m.type = "insert"
  <2>1. Proper(m.expr) /\ Telling(m.expr) /\ Key(m.expr) \notin DOMAIN c
    BY <1>0, <1>1 DEF Single, Given, Subject
  <2>2. Clear(n, m.expr)
    BY <2>1 DEF Mirrors
  <2>3. Reversed(m) = RemoveExpr(m.expr)
    BY <1>1 DEF Reversed
  <2> QED
    BY <1>1, <2>1, <2>2, <2>3 DEF Fits, Single, Given, Subject, RemoveExpr
<1>2. CASE m.type = "remove"
  <2>1. Proper(m.expr) /\ Key(m.expr) \in DOMAIN c /\ Same(c[Key(m.expr)], m.expr)
    BY <1>0, <1>2 DEF Single, Given, Subject
  <2>2. Telling(m.expr) /\ Holds(n, m.expr)
    BY <2>1, MirrorsHold
  <2>3. Reversed(m) = InsertExpr(m.expr)
    BY <1>2 DEF Reversed
  <2> QED
    BY <1>2, <2>1, <2>2, <2>3 DEF Fits, Single, Given, Subject, InsertExpr
<1>3. CASE m.type = "update"
  <2>1. /\ Proper(m.from) /\ Key(m.from) \in DOMAIN c /\ Same(c[Key(m.from)], m.from)
        /\ Proper(m.to) /\ Telling(m.to) /\ Key(m.from) = Key(m.to)
    BY <1>0, <1>3 DEF Single, Given, Subject
  <2>2. Telling(m.from) /\ Holds(n, m.from)
    BY <2>1, MirrorsHold
  <2>3. Reversed(m) = UpdateExpr(m.to, m.from)
    BY <1>3 DEF Reversed
  <2> QED
    BY <1>3, <2>1, <2>2, <2>3 DEF Fits, Single, Given, Subject, UpdateExpr
<1> QED
  BY <1>1, <1>2, <1>3 DEF Single

(* Wherever it is reversed, what its place holds is what it found there.   *)
LEMMA StepBack ==
  ASSUME NEW n, NetOk(n), NEW y, NetOk(y), NEW m, Single(m), Single(Reversed(m)), Fits(n, m),
         NEW f, Proper(f), Key(f) = Subject(m)
  PROVE  Untouched(n, Unchecked(y, Reversed(m)), f)
<1> DEFINE k == Reversed(m)
           x == Unchecked(y, k)
<1>0. /\ NetOk(x)
      /\ k.type = "remove" => Clear(x, Given(k))
      /\ k.type # "remove" => Holds(x, Given(k))
  BY SingleStep
<1>1. CASE m.type = "insert"
  <2>1. k.type = "remove" /\ Given(k) = m.expr /\ Key(f) = Key(m.expr) /\ Proper(m.expr)
    BY <1>1 DEF Reversed, RemoveExpr, Given, Subject, Single
  <2>2. Clear(n, m.expr) /\ Clear(x, m.expr) /\ m.expr.kind # "weight"
    BY <1>0, <1>1, <2>1 DEF Fits
  <2> HIDE DEF x, k
  <2>3. Clear(n, f) /\ Clear(x, f) /\ f.kind # "weight"
    BY <1>0, <2>1, <2>2, ClearAt, SameKey
  <2>4. Untouched(n, x, f)
    BY <2>3, ClearBoth
  <2> QED
    BY <2>4 DEF x, k
<1>2. CASE m.type # "insert"
  <2> DEFINE e == IF m.type = "update" THEN m.from ELSE m.expr
  <2>1. k.type # "remove" /\ Given(k) = e /\ Key(f) = Key(e) /\ Proper(e) /\ Holds(n, e)
    BY <1>2 DEF Reversed, InsertExpr, UpdateExpr, Given, Subject, Single, Fits
  <2>2. Holds(x, e)
    BY <1>0, <2>1
  <2> HIDE DEF x, k, e
  <2>3. Untouched(n, x, f)
    BY <1>0, <2>1, <2>2, HeldBoth
  <2> QED
    BY <2>3 DEF x, k
<1> QED
  BY <1>1, <1>2

LEMMA SingleValid == \A m : Single(m) => ValidModifier(m)
BY DEF Single, ValidModifier, Given, Proper

LEMMA SingleRestores ==
  ASSUME NEW n, NetOk(n), Current(n), NEW m, Single(m), Single(Reversed(m)), Fits(n, m),
         Subject(Reversed(m)) = Subject(m)
  PROVE  Unchecked(Unchecked(n, m), Reversed(m)) = n
<1> DEFINE y == Unchecked(n, m)
           x == Unchecked(y, Reversed(m))
<1>1. NetOk(y) /\ Current(y)
  BY SingleValid, UncheckedKeeps, CurrentKeeps
<1> HIDE DEF y
<1>2. NetOk(x) /\ Current(x)
  BY <1>1, SingleValid, UncheckedKeeps, CurrentKeeps
<1>3. ASSUME NEW f, Proper(f)
      PROVE  Untouched(n, x, f)
  <2>1. CASE Key(f) = Subject(m)
    BY <1>1, <1>3, <2>1, StepBack
  <2>2. CASE Key(f) # Subject(m)
    <3>1. Untouched(n, y, f)
      BY <1>3, <2>2, SingleStep DEF y
    <3>2. Untouched(y, x, f)
      BY <1>1, <1>3, <2>2, SingleStep
    <3> QED
      BY <3>1, <3>2, UntouchedChain
  <2> QED
    BY <2>1, <2>2
<1> HIDE DEF x
<1>4. n = x
  BY <1>1, <1>2, <1>3, SameNets
<1> QED
  BY <1>4 DEF x, y
-----------------------------------------------------------------------------
(* A batch: the modifier that each of its edits stands for                 *)
Part(m, i) == IntoModifier(m.updates[i], m.router)

Edits(m) ==
  /\ m.type = "batch" /\ Len(m.updates) \in Nat /\ DOMAIN m.updates = 1 .. Len(m.updates)
  /\ \A i \in 1 .. Len(m.updates) :
       /\ ValidEdit(m.updates[i])
       /\ m.updates[i].old \cup m.updates[i].new # {}
       /\ <<m.router, m.updates[i].neighbor, m.updates[i].direction>> \in Slots

LEMMA PartOf ==
  ASSUME NEW m, Edits(m), NEW i \in 1 .. Len(m.updates)
  PROVE  LET u == m.updates[i]
             slot == <<m.router, u.neighbor, u.direction>>
         IN  \/ /\ u.old = {} /\ u.new # {}
                /\ \E v \in DOMAIN Clauses : /\ v = (CHOOSE x \in u.new : TRUE)
                                             /\ Part(m, i) = InsertExpr(Expr("map", slot, v))
             \/ /\ u.old # {} /\ u.new = {}
                /\ \E v \in DOMAIN Clauses : /\ v = (CHOOSE x \in u.old : TRUE)
                                             /\ Part(m, i) = RemoveExpr(Expr("map", slot, v))
             \/ /\ u.old # {} /\ u.new # {}
                /\ \E v, w \in DOMAIN Clauses : /\ v = (CHOOSE x \in u.old : TRUE)
                                                /\ w = (CHOOSE x \in u.new : TRUE)
                                                /\ Part(m, i) = UpdateExpr(Expr("map", slot, v), Expr("map", slot, w))
<1> DEFINE u == m.updates[i]
           v == CHOOSE x \in u.old : TRUE
           w == CHOOSE x \in u.new : TRUE
<1>1. ValidEdit(u) /\ u.old \cup u.new # {}
  BY DEF Edits
<1>2. u.old # {} => v \in DOMAIN Clauses
  BY <1>1 DEF ValidEdit
<1>3. u.new # {} => w \in DOMAIN Clauses
  BY <1>1 DEF ValidEdit
<1>4. Part(m, i) = IntoModifier(u, m.router)
  BY DEF Part
<1> QED
  BY <1>1, <1>2, <1>3, <1>4 DEF IntoModifier, None

LEMMA MapProper ==
  ASSUME NEW s \in Slots, NEW v \in DOMAIN Clauses
  PROVE  LET e == Expr("map", s, v)
         IN  /\ Proper(e) /\ Telling(e)
             /\ e.kind = "map" /\ e.at = s /\ e.value = v
<1> DEFINE e == Expr("map", s, v)
<1>1. e.kind = "map" /\ e.at = s /\ e.value = v /\ e = Expr(e.kind, e.at, e.value)
  BY ExprFields
<1> HIDE DEF e
<1>2. Proper(e) /\ Telling(e)
  BY <1>1 DEF Proper, ValidExpr, Located, Telling
<1> QED
  BY <1>1, <1>2 DEF e

LEMMA PartSingle ==
  ASSUME NEW m, Edits(m), NEW i \in 1 .. Len(m.updates)
  PROVE  /\ Single(Part(m, i))
         /\ ~(Part(m, i).type = "insert" /\ Part(m, i).expr.kind = "weight")
<1> DEFINE u == m.updates[i]
           slot == <<m.router, u.neighbor, u.direction>>
           p == Part(m, i)
<1>1. slot \in Slots
  BY DEF Edits
<1>2. \/ \E v \in DOMAIN Clauses : p = InsertExpr(Expr("map", slot, v))
      \/ \E v \in DOMAIN Clauses : p = RemoveExpr(Expr("map", slot, v))
      \/ \E v, w \in DOMAIN Clauses : p = UpdateExpr(Expr("map", slot, v), Expr("map", slot, w))
  BY PartOf
<1> HIDE DEF p, slot, u
<1>3. ASSUME NEW v \in DOMAIN Clauses, NEW w \in DOMAIN Clauses,
             \/ p = InsertExpr(Expr("map", slot, v))
             \/ p = RemoveExpr(Expr("map", slot, v))
             \/ p = UpdateExpr(Expr("map", slot, v), Expr("map", slot, w))
      PROVE  Single(p) /\ ~(p.type = "insert" /\ p.expr.kind = "weight")
  <2> DEFINE e == Expr("map", slot, v)
             f == Expr("map", slot, w)
  <2>1. Proper(e) /\ Telling(e) /\ Proper(f) /\ Telling(f) /\ e.kind = "map"
    BY <1>1, MapProper
  <2>2. p = InsertExpr(e) \/ p = RemoveExpr(e) \/ p = UpdateExpr(e, f)
    BY <1>3
  <2> HIDE DEF e, f
  <2> QED
    BY <2>1, <2>2 DEF InsertExpr, RemoveExpr, UpdateExpr, Single, Given
<1>4. Single(p) /\ ~(p.type = "insert" /\ p.expr.kind = "weight")
  BY <1>2, <1>3
<1> QED
  BY <1>4 DEF p

LEMMA PartStep ==
  ASSUME NEW m, Edits(m), NEW i \in 1 .. Len(m.updates), NEW n
  PROVE  Unchecked(n, Part(m, i)) = [n EXCEPT !.maps = Edited(n.maps, m, i)]
<1> DEFINE u == m.updates[i]
           slot == <<m.router, u.neighbor, u.direction>>
           p == Part(m, i)
<1>0. Edited(n.maps, m, i) = [n.maps EXCEPT ![slot] = ApplyEdit(@, u)]
  BY DEF Edited
<1>1. slot \in Slots
  BY DEF Edits
<1>2. \/ /\ u.old = {} /\ u.new # {}
         /\ \E v \in DOMAIN Clauses : /\ v = (CHOOSE x \in u.new : TRUE)
                                      /\ p = InsertExpr(Expr("map", slot, v))
      \/ /\ u.old # {} /\ u.new = {}
         /\ \E v \in DOMAIN Clauses : /\ v = (CHOOSE x \in u.old : TRUE)
                                      /\ p = RemoveExpr(Expr("map", slot, v))
      \/ /\ u.old # {} /\ u.new # {}
         /\ \E v, w \in DOMAIN Clauses : /\ v = (CHOOSE x \in u.old : TRUE)
                                         /\ w = (CHOOSE x \in u.new : TRUE)
                                         /\ p = UpdateExpr(Expr("map", slot, v), Expr("map", slot, w))
  BY PartOf
<1> HIDE DEF p, slot, u
<1>3. ASSUME u.new # {}, NEW w \in DOMAIN Clauses, w = (CHOOSE x \in u.new : TRUE),
             p = InsertExpr(Expr("map", slot, w)) \/ \E e : p = UpdateExpr(e, Expr("map", slot, w))
      PROVE  Unchecked(n, p) = [n EXCEPT !.maps = [n.maps EXCEPT ![slot] = ApplyEdit(@, u)]]
  <2> DEFINE f == Expr("map", slot, w)
  <2>1. f.kind = "map" /\ f.at = slot /\ f.value = w
    BY ExprFields
  <2>2. p = InsertExpr(f) \/ \E e : p = UpdateExpr(e, f)
    BY <1>3
  <2> HIDE DEF f
  <2>3. Unchecked(n, p) = SetExpr(n, f)
    BY <2>2 DEF Unchecked, InsertExpr, UpdateExpr
  <2>4. SetExpr(n, f) = [n EXCEPT !.maps[slot] = SetMap(@, Clauses[w])]
    BY <2>1 DEF SetExpr
  <2>5. \A maps : ApplyEdit(maps, u) = SetMap(maps, Clauses[w])
    BY <1>3 DEF ApplyEdit, None
  <2> QED
    BY <2>3, <2>4, <2>5
<1>4. ASSUME u.new = {}, NEW v \in DOMAIN Clauses, v = (CHOOSE x \in u.old : TRUE),
             p = RemoveExpr(Expr("map", slot, v))
      PROVE  Unchecked(n, p) = [n EXCEPT !.maps = [n.maps EXCEPT ![slot] = ApplyEdit(@, u)]]
  <2> DEFINE f == Expr("map", slot, v)
  <2>1. f.kind = "map" /\ f.at = slot /\ f.value = v
    BY ExprFields
  <2>2. p = RemoveExpr(f)
    BY <1>4
  <2> HIDE DEF f
  <2>3. Unchecked(n, p) = UnsetExpr(n, f)
    BY <2>2 DEF Unchecked, RemoveExpr
  <2>4. UnsetExpr(n, f) = [n EXCEPT !.maps[slot] = RemoveMap(@, Clauses[v].order)]
    BY <2>1 DEF UnsetExpr
  <2>5. \A maps : ApplyEdit(maps, u) = RemoveMap(maps, Clauses[v].order)
    BY <1>4 DEF ApplyEdit, None
  <2> QED
    BY <2>3, <2>4, <2>5
<1>5. Unchecked(n, p) = [n EXCEPT !.maps = [n.maps EXCEPT ![slot] = ApplyEdit(@, u)]]
  BY <1>2, <1>3, <1>4
<1> QED
  BY <1>0, <1>5 DEF p

(* The networks that the modifiers p lead through, one after the other     *)
Walk(x, p, N) ==
  /\ \A i \in 0 .. N : NetOk(x[i])
  /\ \A i \in 1 .. N : Single(p[i]) /\ x[i] = Unchecked(x[i - 1], p[i])

LEMMA NetWalk ==
  ASSUME NEW n, NetOk(n), NEW m, Edits(m), NEW p, \A i \in 1 .. Len(m.updates) : p[i] = Part(m, i)
  PROVE  \E x : /\ Walk(x, p, Len(m.updates))
                /\ x[0] = n /\ x[Len(m.updates)] = Unchecked(n, m)
<1> DEFINE N == Len(m.updates)
<1>0. /\ N \in Nat /\ n \in Nets(n.table) /\ n.maps \in Filings
      /\ Unchecked(n, m) = [n EXCEPT !.maps = BatchUpdate(n.maps, m)]
  BY DEF Edits, NetOk, Nets, Unchecked
<1>1. PICK g : /\ g[0] = n.maps /\ BatchUpdate(n.maps, m) = g[N]
               /\ \A i \in 0 .. N : g[i] \in Filings
               /\ \A i \in 1 .. N : g[i] = Edited(g[i - 1], m, i)
  <2> DEFINE maps == n.maps
  <2>1. maps \in Filings /\ Len(m.updates) \in Nat /\ \A i \in 1 .. Len(m.updates) : ValidEdit(m.updates[i])
    BY <1>0 DEF Edits
  <2> HIDE DEF maps
  <2>2. \E g : /\ g[0] = maps /\ BatchUpdate(maps, m) = g[Len(m.updates)]
               /\ \A i \in 0 .. Len(m.updates) : g[i] \in Filings
               /\ \A i \in 1 .. Len(m.updates) : g[i] = Edited(g[i - 1], m, i)
    BY ONLY <2>1, BatchWalk
  <2> QED
    BY <2>2 DEF maps
<1> DEFINE x == [i \in 0 .. N |-> [n EXCEPT !.maps = g[i]]]
<1> HIDE DEF N
<1>2. ASSUME NEW i \in 0 .. N
      PROVE  x[i] = [n EXCEPT !.maps = g[i]] /\ NetOk(x[i]) /\ x[i].maps = g[i]
  <2>1. x[i] = [n EXCEPT !.maps = g[i]] /\ g[i] \in Filings
    BY <1>1
  <2> HIDE DEF x
  <2>2. NetOk(x[i])
    BY <2>1, NetFields
  <2>3. x[i].maps = g[i]
    BY <1>0, <2>1 DEF Nets
  <2> QED
    BY <2>1, <2>2, <2>3
<1>3. ASSUME NEW i \in 1 .. N
      PROVE  x[i] = Unchecked(x[i - 1], p[i])
  <2>1. i \in 0 .. N /\ i - 1 \in 0 .. N
    BY <1>0
  <2> HIDE DEF x
  <2>2. Unchecked(x[i - 1], p[i]) = [x[i - 1] EXCEPT !.maps = Edited(x[i - 1].maps, m, i)]
    <3>1. i \in 1 .. Len(m.updates) /\ p[i] = Part(m, i)
      BY <1>3 DEF N
    <3> QED
      BY <3>1, PartStep
  <2>3. /\ x[i] = [n EXCEPT !.maps = g[i]] /\ x[i - 1] = [n EXCEPT !.maps = g[i - 1]]
        /\ x[i - 1].maps = g[i - 1]
    BY <1>2, <2>1
  <2>4. Unchecked(x[i - 1], p[i]) = [x[i - 1] EXCEPT !.maps = g[i]]
    BY <1>1, <2>2, <2>3
  <2> QED
    BY <1>0, <2>3, <2>4 DEF Nets
<1>4. x[0] = n
  <2>1. x[0] = [n EXCEPT !.maps = n.maps]
    BY <1>0, <1>1
  <2> QED
    BY <1>0, <2>1 DEF Nets
<1>5. x[N] = Unchecked(n, m)
  BY <1>0, <1>1, <1>2
<1> HIDE DEF x
<1>6. \A i \in 1 .. N : Single(p[i])
  BY PartSingle DEF N
<1>7. Walk(x, p, N)
  BY <1>2, <1>3, <1>6 DEF Walk
<1> QED
  BY <1>4, <1>5, <1>7 DEF N

LEMMA WalkElsewhere ==
  ASSUME NEW N \in Nat, NEW x, NEW p, Walk(x, p, N), NEW f, Proper(f),
         NEW a \in 0 .. N, NEW b \in 0 .. N, a <= b,
         \A i \in 1 .. N : a < i /\ i <= b => Subject(p[i]) # Key(f)
  PROVE  Untouched(x[a], x[b], f)
<1> DEFINE A == {k \in 0 .. N : a <= k /\ k <= b => Untouched(x[a], x[k], f)}
<1>1. 0 \in A
  BY UntouchedSelf
<1>2. ASSUME NEW k \in 0 .. N, k \in A, k < N
      PROVE  k + 1 \in A
  <2> SUFFICES ASSUME a <= k + 1, k + 1 <= b
               PROVE  Untouched(x[a], x[k + 1], f)
    BY <1>2
  <2>1. CASE a = k + 1
    BY <2>1, UntouchedSelf
  <2>2. CASE a # k + 1
    <3>1. a <= k /\ k <= b /\ k + 1 \in 1 .. N /\ k + 1 - 1 = k /\ a < k + 1
      BY <1>2, <2>2
    <3>2. Untouched(x[a], x[k], f)
      BY <1>2, <3>1
    <3>3. NetOk(x[k]) /\ Single(p[k + 1]) /\ x[k + 1] = Unchecked(x[k], p[k + 1])
      BY <3>1 DEF Walk
    <3>4. Key(f) # Subject(p[k + 1])
      BY <3>1
    <3>5. Untouched(x[k], x[k + 1], f)
      BY <3>3, <3>4, SingleStep
    <3> QED
      BY <3>2, <3>5, UntouchedChain
  <2> QED
    BY <2>1, <2>2
<1>3. \A k \in 0 .. N : k \in A
  <2> HIDE DEF A
  <2>1. \A k \in 0 .. N : k \in A /\ k < N => k + 1 \in A
    BY <1>2
  <2> QED
    BY ONLY N \in Nat, <1>1, <2>1, UpTo
<1> QED
  BY <1>3

(* What Config::apply_modifier makes of a batch, one edit after the other  *)
Tried(r, m, i) ==
  IF r.ok THEN ModifyOne(r.config, Part(m, i)) ELSE r

LEMMA TryWalk ==
  ASSUME NEW c, NEW m, m.type = "batch", Len(m.updates) \in Nat
  PROVE  \E h : /\ h[0] = [ok |-> TRUE, config |-> c]
                /\ ModifyConfig(c, m) = h[Len(m.updates)]
                /\ \A i \in 1 .. Len(m.updates) : h[i] = Tried(h[i - 1], m, i)
<1> DEFINE N == Len(m.updates)
           Upto(g, n) == g = [i \in 0 .. n |->
                                IF i = 0 THEN [ok |-> TRUE, config |-> c] ELSE Tried(g[i - 1], m, i)]
           A == {n \in Nat : \E g : Upto(g, n)}
<1>0. N \in Nat
  OBVIOUS
<1> HIDE DEF N
<1>1. 0 \in A
  <2> DEFINE g == [i \in 0 .. 0 |-> [ok |-> TRUE, config |-> c]]
  <2>1. Upto(g, 0)
    OBVIOUS
  <2> HIDE DEF g
  <2> QED
    BY <2>1
<1>2. ASSUME NEW n \in Nat, n \in A
      PROVE  n + 1 \in A
  <2>1. PICK g : Upto(g, n)
    BY <1>2
  <2> DEFINE h == [i \in 0 .. n + 1 |-> IF i = n + 1 THEN Tried(g[n], m, n + 1) ELSE g[i]]
  <2>2. ASSUME NEW i \in 0 .. n + 1
        PROVE  h[i] = IF i = 0 THEN [ok |-> TRUE, config |-> c] ELSE Tried(h[i - 1], m, i)
    <3>1. CASE i = 0
      BY <2>1, <3>1
    <3>2. CASE i = n + 1
      <4>1. i # 0 /\ i - 1 = n /\ n \in 0 .. n + 1 /\ n # n + 1
        BY <3>2
      <4> QED
        BY <3>2, <4>1
    <3>3. CASE i # 0 /\ i # n + 1
      <4>1. i \in 0 .. n /\ i - 1 \in 0 .. n + 1 /\ i - 1 # n + 1
        BY <3>3
      <4>2. h[i] = g[i] /\ h[i - 1] = g[i - 1]
        BY <3>3, <4>1
      <4>3. g[i] = Tried(g[i - 1], m, i)
        BY <2>1, <3>3, <4>1
      <4> QED
        BY <3>3, <4>2, <4>3
    <3> QED
      BY <3>1, <3>2, <3>3
  <2>3. h = [i \in 0 .. n + 1 |-> h[i]]
    OBVIOUS
  <2> HIDE DEF h
  <2>4. Upto(h, n + 1)
    BY <2>2, <2>3
  <2> QED
    BY <2>4
<1>3. N \in A
  <2>1. \A k \in 0 .. N : k \in A /\ k < N => k + 1 \in A
    BY <1>2
  <2> HIDE DEF A
  <2>2. \A k \in 0 .. N : k \in A
    BY ONLY <1>0, <1>1, <2>1, UpTo
  <2> QED
    BY <1>0, <2>2
<1>4. PICK f : Upto(f, N)
  BY <1>3
<1> DEFINE h == CHOOSE g : Upto(g, N)
<1>5. Upto(h, N)
  BY <1>4
<1>6. ModifyConfig(c, m) = h[N]
  BY DEF ModifyConfig, Tried, Part, N
<1> HIDE DEF h
<1>7. h[0] = [ok |-> TRUE, config |-> c] /\ \A i \in 1 .. N : h[i] = Tried(h[i - 1], m, i)
  <2>1. 0 \in 0 .. N /\ \A i \in 1 .. N : i \in 0 .. N /\ i # 0
    BY <1>0
  <2> QED
    BY <1>5, <2>1
<1> HIDE DEF Upto
<1> QED
  BY <1>6, <1>7 DEF N

Trying(d, p, N) ==
  \A i \in 1 .. N : ModifyOne(d[i - 1], p[i]).ok /\ d[i] = ModifyOne(d[i - 1], p[i]).config

LEMMA ConfigWalk ==
  ASSUME NEW c, NEW m, Edits(m), NEW p, \A i \in 1 .. Len(m.updates) : p[i] = Part(m, i),
         ModifyConfig(c, m).ok
  PROVE  \E d : /\ d[0] = c /\ d[Len(m.updates)] = ModifyConfig(c, m).config
                /\ Trying(d, p, Len(m.updates))
<1> DEFINE N == Len(m.updates)
<1>0. N \in Nat /\ m.type = "batch" /\ \A i \in 1 .. N : p[i] = Part(m, i)
  BY DEF Edits
<1>1. PICK h : /\ h[0] = [ok |-> TRUE, config |-> c]
               /\ ModifyConfig(c, m) = h[N]
               /\ \A i \in 1 .. N : h[i] = Tried(h[i - 1], m, i)
  BY <1>0, TryWalk
<1> HIDE DEF N
<1> DEFINE A == {k \in 0 .. N : h[N - k].ok}
<1>2. 0 \in A
  BY <1>0, <1>1
<1>3. ASSUME NEW k \in 0 .. N, k \in A, k < N
      PROVE  k + 1 \in A
  <2> DEFINE j == N - k
  <2>1. j \in 1 .. N /\ N - (k + 1) = j - 1 /\ h[j].ok /\ k + 1 \in 0 .. N
    BY <1>0, <1>3
  <2> HIDE DEF j
  <2>2. h[j] = Tried(h[j - 1], m, j)
    BY <1>1, <2>1
  <2>3. h[j - 1].ok
    BY <2>1, <2>2 DEF Tried
  <2> QED
    BY <2>1, <2>3
<1>4. \A k \in 0 .. N : k \in A
  <2> HIDE DEF A
  <2>1. \A k \in 0 .. N : k \in A /\ k < N => k + 1 \in A
    BY <1>3
  <2> QED
    BY ONLY <1>0, <1>2, <2>1, UpTo
<1>5. ASSUME NEW i \in 0 .. N
      PROVE  h[i].ok
  <2>1. N - i \in 0 .. N /\ N - (N - i) = i
    BY <1>0
  <2> QED
    BY <1>4, <2>1
<1> DEFINE d == [i \in 0 .. N |-> h[i].config]
<1>6. d[0] = c /\ d[N] = ModifyConfig(c, m).config
  BY <1>0, <1>1
<1>7. ASSUME NEW i \in 1 .. N
      PROVE  ModifyOne(d[i - 1], p[i]).ok /\ d[i] = ModifyOne(d[i - 1], p[i]).config
  <2>1. i \in 0 .. N /\ i - 1 \in 0 .. N
    BY <1>0
  <2>2. d[i] = h[i].config /\ d[i - 1] = h[i - 1].config
    BY <2>1
  <2> HIDE DEF d
  <2>3. h[i] = ModifyOne(h[i - 1].config, p[i])
    BY <1>0, <1>1, <1>5, <2>1 DEF Tried
  <2>4. h[i].ok
    BY <1>5, <2>1
  <2> QED
    BY <2>2, <2>3, <2>4
<1> HIDE DEF d
<1>8. Trying(d, p, N)
  BY <1>7 DEF Trying
<1> QED
  BY <1>6, <1>8 DEF N

LEMMA MirrorsWalk ==
  ASSUME NEW N \in Nat, NEW x, NEW p, Walk(x, p, N), NEW d, Trying(d, p, N), Mirrors(x[0], d[0])
  PROVE  \A k \in 0 .. N : Mirrors(x[k], d[k])
<1> DEFINE A == {k \in 0 .. N : Mirrors(x[k], d[k])}
<1>1. 0 \in A
  OBVIOUS
<1>2. ASSUME NEW k \in 0 .. N, k \in A, k < N
      PROVE  k + 1 \in A
  <2>1. k + 1 \in 1 .. N /\ k + 1 - 1 = k /\ k + 1 \in 0 .. N
    BY <1>2
  <2>2. NetOk(x[k]) /\ Single(p[k + 1]) /\ x[k + 1] = Unchecked(x[k], p[k + 1])
    BY <2>1 DEF Walk
  <2>3. ModifyOne(d[k], p[k + 1]).ok /\ d[k + 1] = ModifyOne(d[k], p[k + 1]).config
    BY <2>1 DEF Trying
  <2>4. Mirrors(x[k], d[k])
    BY <1>2
  <2>5. Mirrors(x[k + 1], d[k + 1])
    BY <2>2, <2>3, <2>4, MirrorsStep
  <2> QED
    BY <2>1, <2>5
<1> HIDE DEF A
<1>3. \A k \in 0 .. N : k \in A /\ k < N => k + 1 \in A
  BY <1>2
<1>4. \A k \in 0 .. N : k \in A
  BY ONLY N \in Nat, <1>1, <1>3, UpTo
<1> QED
  BY <1>4 DEF A

LEMMA UntouchedBack ==
  ASSUME NEW n, NEW r, NEW f, Untouched(n, r, f)
  PROVE  Untouched(r, n, f)
BY DEF Untouched

(* No two of the modifiers are about the same place.                       *)
Apart(p, N) == \A i, j \in 1 .. N : i # j => Subject(p[i]) # Subject(p[j])

LEMMA FitsAtFirst ==
  ASSUME NEW N \in Nat, NEW x, NEW p, Walk(x, p, N), NEW d, Trying(d, p, N), Mirrors(x[0], d[0]),
         Apart(p, N), NEW i \in 1 .. N, ~(p[i].type = "insert" /\ p[i].expr.kind = "weight")
  PROVE  /\ Fits(x[0], p[i]) /\ Single(Reversed(p[i])) /\ Subject(Reversed(p[i])) = Subject(p[i])
<1> DEFINE m == p[i]
           e == IF m.type = "update" THEN m.from ELSE m.expr
<1>1. i - 1 \in 0 .. N /\ 0 \in 0 .. N
  OBVIOUS
<1>2. Single(m) /\ NetOk(x[i - 1]) /\ Mirrors(x[i - 1], d[i - 1]) /\ ModifyOne(d[i - 1], m).ok
  BY <1>1, MirrorsWalk DEF Walk, Trying
<1>3. Fits(x[i - 1], m) /\ Single(Reversed(m)) /\ Subject(Reversed(m)) = Subject(m)
  BY <1>2, Fitting
<1>4. Proper(e) /\ Key(e) = Subject(m)
  BY <1>2, <1>3 DEF Single, Given, Fits, Subject
<1>5. Untouched(x[0], x[i - 1], e)
  <2>1. \A j \in 1 .. N : 0 < j /\ j <= i - 1 => Subject(p[j]) # Key(e)
    <3> SUFFICES ASSUME NEW j \in 1 .. N, j <= i - 1 PROVE Subject(p[j]) # Key(e)
      OBVIOUS
    <3>1. j # i
      OBVIOUS
    <3> QED
      BY <1>4, <3>1 DEF Apart
  <2> HIDE DEF e, m
  <2> QED
    BY <1>1, <1>4, <2>1, WalkElsewhere
<1>6. Untouched(x[i - 1], x[0], e)
  BY <1>5, UntouchedBack
<1>7. (Holds(x[i - 1], e) => Holds(x[0], e)) /\ (Clear(x[i - 1], e) => Clear(x[0], e))
  BY <1>6, UntouchedKeeps
<1>8. Fits(x[0], m)
  BY <1>2, <1>3, <1>7 DEF Fits
<1> QED
  BY <1>3, <1>8

LEMMA BatchApplies ==
  ASSUME NEW n, NetOk(n), ActiveOk(n), ~Hidden(n), NEW m, Edits(m),
         \A i \in 1 .. Len(m.updates) :
           /\ Single(Part(m, i)) /\ Fits(n, Part(m, i))
           /\ Single(Reversed(Part(m, i)))
  PROVE  CanApply(n, m)
<1>1. ASSUME NEW i \in 1 .. Len(m.updates)
      PROVE  LET u == m.updates[i]
                 slot == <<m.router, u.neighbor, u.direction>>
                 clause(value) == Expr("map", slot, CHOOSE v \in value : TRUE)
             IN  IF u.old = None THEN Insertable(n, clause(u.new)) ELSE Removable(n, clause(u.old))
  <2> DEFINE u == m.updates[i]
             slot == <<m.router, u.neighbor, u.direction>>
             e == Expr("map", slot, CHOOSE v \in u.old : TRUE)
             f == Expr("map", slot, CHOOSE v \in u.new : TRUE)
             p == Part(m, i)
  <2>1. \/ u.old = {} /\ u.new # {} /\ p = InsertExpr(f)
        \/ u.old # {} /\ u.new = {} /\ p = RemoveExpr(e)
        \/ u.old # {} /\ u.new # {} /\ p = UpdateExpr(e, f)
    BY PartOf
  <2>2. Single(p) /\ Fits(n, p) /\ Single(Reversed(p))
    BY <1>1
  <2> HIDE DEF e, f, p, u
  <2>3. CASE u.old = {}
    <3>1. p = InsertExpr(f)
      BY <2>1, <2>3
    <3>2. Proper(f) /\ Clear(n, f)
      BY <2>2, <3>1 DEF InsertExpr, Single, Given, Fits
    <3>3. Insertable(n, f)
      BY <3>2, ClearIsInsertable
    <3> QED
      BY <2>3, <3>3 DEF None, f, u
  <2>4. CASE u.old # {}
    <3>1. p = RemoveExpr(e) \/ p = UpdateExpr(e, f)
      BY <2>1, <2>4
    <3>2. Proper(e) /\ Telling(e) /\ Holds(n, e)
      <4>1. CASE p = RemoveExpr(e)
        <5>1. p.type = "remove" /\ p.expr = e /\ Reversed(p) = InsertExpr(e)
          BY <4>1 DEF RemoveExpr, Reversed
        <5> QED
          BY <2>2, <5>1 DEF InsertExpr, Single, Given, Fits
      <4>2. CASE p = UpdateExpr(e, f)
        <5>1. p.type = "update" /\ p.from = e /\ Reversed(p) = UpdateExpr(f, e)
          BY <4>2 DEF UpdateExpr, Reversed
        <5> QED
          BY <2>2, <5>1 DEF UpdateExpr, Single, Given, Fits
      <4> QED
        BY <3>1, <4>1, <4>2
    <3>3. Removable(n, e)
      BY <3>2, HeldIsRemovable
    <3> QED
      BY <2>4, <3>3 DEF None, e, u
  <2> QED
    BY <2>3, <2>4
<1> QED
  BY <1>1 DEF CanApply, Edits

LEMMA ReversedEdits ==
  ASSUME NEW m, Edits(m), m.updates \in Seq({m.updates[i] : i \in DOMAIN m.updates})
  PROVE  /\ Edits(Reversed(m)) /\ Len(Reversed(m).updates) = Len(m.updates)
         /\ ValidModifier(Reversed(m))
         /\ \A i \in 1 .. Len(m.updates) : Part(Reversed(m), i) = Reversed(Part(m, i))
<1> DEFINE N == Len(m.updates)
           back(u) == Edit(u.neighbor, u.direction, u.new, u.old)
           s == [i \in DOMAIN m.updates |-> back(m.updates[i])]
           k == Reversed(m)
<1>0. N \in Nat /\ DOMAIN m.updates = 1 .. N /\ m.type = "batch"
  BY DEF Edits
<1>1. k = BatchEdit(m.router, s)
  BY <1>0 DEF Reversed
<1>2. k.type = "batch" /\ k.router = m.router /\ k.updates = s
  BY <1>1 DEF BatchEdit
<1> HIDE DEF k
<1>3. DOMAIN s = 1 .. N /\ \A i \in 1 .. N : s[i] = back(m.updates[i])
  BY <1>0
<1>4. Len(s) = N /\ s \in Seq({s[i] : i \in DOMAIN s})
  <2> DEFINE T == {s[i] : i \in DOMAIN s}
  <2>1. s \in [1 .. N -> T]
    BY <1>0, <1>3
  <2> HIDE DEF s, N, T
  <2>2. Len(s) = N /\ s \in Seq(T)
    BY <1>0, <2>1, <1>3
  <2> QED
    BY <2>2 DEF T
<1> HIDE DEF s
<1>5. ASSUME NEW i \in 1 .. N
      PROVE  LET u == m.updates[i]
                 v == k.updates[i]
             IN  v.neighbor = u.neighbor /\ v.direction = u.direction /\ v.old = u.new /\ v.new = u.old
  <2>1. k.updates[i] = Edit(m.updates[i].neighbor, m.updates[i].direction, m.updates[i].new, m.updates[i].old)
    BY <1>2, <1>3, <1>5
  <2> HIDE DEF N
  <2> QED
    BY ONLY <2>1 DEF Edit
<1>6. Edits(k)
  <2>1. ASSUME NEW i \in 1 .. N
        PROVE  /\ ValidEdit(k.updates[i])
               /\ k.updates[i].old \cup k.updates[i].new # {}
               /\ <<k.router, k.updates[i].neighbor, k.updates[i].direction>> \in Slots
    <3>1. /\ ValidEdit(m.updates[i]) /\ m.updates[i].old \cup m.updates[i].new # {}
          /\ <<m.router, m.updates[i].neighbor, m.updates[i].direction>> \in Slots
      BY <2>1 DEF Edits, N
    <3> QED
      BY <1>2, <1>5, <3>1 DEF ValidEdit
  <2>2. Len(k.updates) = N /\ DOMAIN k.updates = 1 .. N
    BY <1>2, <1>3, <1>4
  <2> HIDE DEF N
  <2> QED
    BY <1>0, <1>2, <2>1, <2>2 DEF Edits
<1>7. ASSUME NEW i \in 1 .. N
      PROVE  Part(k, i) = Reversed(Part(m, i))
  <2> DEFINE u == m.updates[i]
             v == k.updates[i]
             slot == <<m.router, u.neighbor, u.direction>>
             e == Expr("map", slot, CHOOSE x \in u.old : TRUE)
             f == Expr("map", slot, CHOOSE x \in u.new : TRUE)
             p == Part(m, i)
             q == Part(k, i)
  <2>1. \/ u.old = {} /\ u.new # {} /\ p = InsertExpr(f)
        \/ u.old # {} /\ u.new = {} /\ p = RemoveExpr(e)
        \/ u.old # {} /\ u.new # {} /\ p = UpdateExpr(e, f)
    BY <1>7, PartOf DEF N
  <2>2. q = CASE v.old = {} -> InsertExpr(Expr("map", <<k.router, v.neighbor, v.direction>>, CHOOSE x \in v.new : TRUE))
              [] v.new = {} -> RemoveExpr(Expr("map", <<k.router, v.neighbor, v.direction>>, CHOOSE x \in v.old : TRUE))
              [] OTHER -> UpdateExpr(Expr("map", <<k.router, v.neighbor, v.direction>>, CHOOSE x \in v.old : TRUE),
                                     Expr("map", <<k.router, v.neighbor, v.direction>>, CHOOSE x \in v.new : TRUE))
    BY DEF Part, IntoModifier, None
  <2>3. q = CASE u.new = {} -> InsertExpr(e)
              [] u.old = {} -> RemoveExpr(f)
              [] OTHER -> UpdateExpr(f, e)
    BY <1>2, <1>5, <2>2
  <2> HIDE DEF u, e, f, p, q
  <2>4. q = Reversed(p)
    BY <2>1, <2>3 DEF Reversed, InsertExpr, RemoveExpr, UpdateExpr
  <2> QED
    BY <2>4 DEF p, q
<1>8. ValidModifier(k)
  <2>1. k.updates \in Seq({k.updates[i] : i \in DOMAIN k.updates})
    BY <1>2, <1>4
  <2>2. \A i \in DOMAIN k.updates : ValidEdit(k.updates[i])
    BY <1>6 DEF Edits
  <2> QED
    BY <1>2, <2>1, <2>2 DEF ValidModifier
<1> QED
  BY <1>2, <1>4, <1>6, <1>7, <1>8 DEF k, N

(* There and back: every place is what it was.                             *)
LEMMA WalkBack ==
  ASSUME NEW N \in Nat, NEW x, NEW p, Walk(x, p, N), NEW y, NEW q, Walk(y, q, N), y[0] = x[N],
         Apart(p, N), \A i \in 1 .. N : /\ q[i] = Reversed(p[i]) /\ Fits(x[0], p[i])
                                        /\ Subject(q[i]) = Subject(p[i]),
         NEW f, Proper(f)
  PROVE  Untouched(x[0], y[N], f)
<1>0. 0 \in 0 .. N /\ N \in 0 .. N
  OBVIOUS
<1>1. CASE \A i \in 1 .. N : Subject(p[i]) # Key(f)
  <2>1. \A i \in 1 .. N : Subject(q[i]) # Key(f)
    BY <1>1
  <2>2. Untouched(x[0], x[N], f)
    BY <1>0, <1>1, WalkElsewhere
  <2>3. Untouched(y[0], y[N], f)
    BY <1>0, <2>1, WalkElsewhere
  <2> QED
    BY <2>2, <2>3, UntouchedChain
<1>2. ASSUME NEW i \in 1 .. N, Subject(p[i]) = Key(f)
      PROVE  Untouched(x[0], y[N], f)
  <2>1. i \in 0 .. N /\ i - 1 \in 0 .. N /\ i <= N
    OBVIOUS
  <2>2. /\ NetOk(x[0]) /\ NetOk(y[i - 1]) /\ Single(p[i]) /\ Single(q[i])
        /\ y[i] = Unchecked(y[i - 1], q[i]) /\ q[i] = Reversed(p[i]) /\ Fits(x[0], p[i])
    BY <1>0, <2>1 DEF Walk
  <2>3. Untouched(x[0], y[i], f)
    BY <1>2, <2>2, StepBack
  <2>4. \A j \in 1 .. N : i < j /\ j <= N => Subject(q[j]) # Key(f)
    <3> SUFFICES ASSUME NEW j \in 1 .. N, i < j PROVE Subject(q[j]) # Key(f)
      OBVIOUS
    <3>1. Subject(p[j]) # Subject(p[i])
      BY DEF Apart
    <3> QED
      BY <1>2, <3>1
  <2>5. Untouched(y[i], y[N], f)
    BY <1>0, <2>1, <2>4, WalkElsewhere
  <2> QED
    BY <2>3, <2>5, UntouchedChain
<1> QED
  BY <1>1, <1>2

Restores(n, m) ==
  ~(m.type = "insert" /\ m.expr.kind = "weight") => Unchecked(Unchecked(n, m), Reversed(m)) = n

LEMMA SingleReliable ==
  ASSUME NEW n, NetOk(n), ActiveOk(n), Current(n), ~Hidden(n), NEW c, Mirrors(n, c),
         NEW m, Single(m), ModifyConfig(c, m).ok
  PROVE  /\ CanApply(n, m) /\ Restores(n, m)
         /\ Mirrors(Unchecked(n, m), ModifyConfig(c, m).config)
<1>1. ModifyConfig(c, m) = ModifyOne(c, m)
  BY DEF Single, ModifyConfig
<1>2. ModifyOne(c, m).ok
  BY <1>1
<1>3. CanApply(n, m)
  BY <1>2, SingleApplies
<1>4. Mirrors(Unchecked(n, m), ModifyOne(c, m).config)
  BY <1>2, MirrorsStep
<1>5. Restores(n, m)
  BY <1>2, Fitting, SingleRestores DEF Restores
<1> QED
  BY <1>1, <1>3, <1>4, <1>5

LEMMA BatchReliable ==
  ASSUME NEW n, NetOk(n), ActiveOk(n), Current(n), ~Hidden(n), NEW c, Mirrors(n, c),
         NEW m, Edits(m), ValidModifier(m), ModifyConfig(c, m).ok,
         \A i, j \in 1 .. Len(m.updates) : i # j => Subject(Part(m, i)) # Subject(Part(m, j))
  PROVE  /\ CanApply(n, m) /\ Restores(n, m)
         /\ Mirrors(Unchecked(n, m), ModifyConfig(c, m).config)
<1> DEFINE N == Len(m.updates)
           p == [i \in 1 .. N |-> Part(m, i)]
           k == Reversed(m)
           q == [i \in 1 .. N |-> Part(k, i)]
<1>0. N \in Nat /\ \A i \in 1 .. N : p[i] = Part(m, i)
  BY DEF Edits
<1>1. PICK x : Walk(x, p, N) /\ x[0] = n /\ x[N] = Unchecked(n, m)
  <2> HIDE DEF p
  <2> QED
    BY <1>0, NetWalk
<1>2. PICK d : d[0] = c /\ d[N] = ModifyConfig(c, m).config /\ Trying(d, p, N)
  <2> HIDE DEF p
  <2> QED
    BY <1>0, ConfigWalk
<1>3. /\ Edits(k) /\ Len(k.updates) = N /\ ValidModifier(k)
      /\ \A i \in 1 .. N : Part(k, i) = Reversed(Part(m, i))
  <2>1. m.updates \in Seq({m.updates[i] : i \in DOMAIN m.updates})
    BY DEF Edits, ValidModifier
  <2> QED
    BY <2>1, ReversedEdits
<1>4. \A i \in 1 .. N : q[i] = Part(k, i) /\ q[i] = Reversed(p[i])
  BY <1>0, <1>3
<1>5. Apart(p, N)
  BY <1>0 DEF Apart
<1>6. \A i \in 1 .. N : Single(p[i]) /\ ~(p[i].type = "insert" /\ p[i].expr.kind = "weight")
  BY <1>0, PartSingle
<1>7. NetOk(Unchecked(n, m)) /\ Current(Unchecked(n, m))
  BY UncheckedKeeps, CurrentKeeps
<1> HIDE DEF p, q, k
<1>8. PICK y : Walk(y, q, N) /\ y[0] = x[N] /\ y[N] = Unchecked(Unchecked(n, m), k)
  <2>1. \A i \in 1 .. Len(k.updates) : q[i] = Part(k, i)
    BY <1>3, <1>4
  <2> DEFINE r == Unchecked(n, m)
  <2>2. NetOk(r) /\ Edits(k)
    BY <1>3, <1>7
  <2> HIDE DEF r
  <2>3. \E y : Walk(y, q, Len(k.updates)) /\ y[0] = r /\ y[Len(k.updates)] = Unchecked(r, k)
    BY ONLY <2>1, <2>2, NetWalk
  <2> QED
    BY <1>1, <1>3, <2>3 DEF r
<1> HIDE DEF N
<1>9. Mirrors(x[0], d[0])
  BY <1>1, <1>2
<1>10. \A i \in 1 .. N : /\ Fits(x[0], p[i]) /\ Single(Reversed(p[i]))
                         /\ Subject(Reversed(p[i])) = Subject(p[i])
  BY <1>0, <1>1, <1>2, <1>5, <1>6, <1>9, FitsAtFirst
<1>11. CanApply(n, m)
  <2>1. \A i \in 1 .. Len(m.updates) : /\ Single(Part(m, i)) /\ Fits(n, Part(m, i))
                                       /\ Single(Reversed(Part(m, i)))
    BY <1>0, <1>1, <1>6, <1>10 DEF N
  <2> QED
    BY <2>1, BatchApplies
<1>12. Mirrors(Unchecked(n, m), ModifyConfig(c, m).config)
  <2>1. N \in 0 .. N /\ \A i \in 0 .. N : Mirrors(x[i], d[i])
    BY <1>0, <1>1, <1>2, <1>9, MirrorsWalk
  <2> QED
    BY <1>1, <1>2, <2>1
<1>13. Unchecked(Unchecked(n, m), k) = n
  <2> DEFINE r == Unchecked(Unchecked(n, m), k)
  <2>1. NetOk(r) /\ Current(r)
    BY <1>3, <1>7, UncheckedKeeps, CurrentKeeps
  <2>2. \A i \in 1 .. N : /\ q[i] = Reversed(p[i]) /\ Fits(x[0], p[i])
                          /\ Subject(q[i]) = Subject(p[i])
    BY <1>4, <1>10
  <2> HIDE DEF r
  <2>3. r = y[N]
    BY <1>8 DEF r
  <2>4. ASSUME NEW f, Proper(f)
        PROVE  Untouched(n, r, f)
    <3>1. Untouched(x[0], y[N], f)
      BY <1>0, <1>1, <1>5, <1>8, <2>2, <2>4, WalkBack
    <3> QED
      BY <1>1, <2>3, <3>1
  <2>5. n = r
    BY <2>1, <2>4, SameNets
  <2> QED
    BY <2>5 DEF r
<1> QED
  BY <1>11, <1>12, <1>13 DEF Restores, k

(* What the user applies is about links, sessions and neighbors that are   *)
(* there, and sets what get_config would say: no weight to the default one *)
(* and no area to the backbone, which a Config keeps as expressions and a  *)
(* network does not.  An edit of a batch has an old or a new clause, as    *)
(* into_modifier panics otherwise, and no two are about the same clause:   *)
(* can_apply_modifier looks at each edit before any of them is made, while *)
(* Config::apply_modifier makes one after the other.                       *)
ModifiersTelling ==
  \A m \in Modifiers :
    /\ m.type \in {"insert", "remove"} => Located(m.expr)
    /\ m.type = "insert" => Telling(m.expr)
    /\ m.type = "update" => Located(m.from) /\ Located(m.to) /\ Telling(m.to)
    /\ m.type = "batch" => \A i \in DOMAIN m.updates :
         LET u == m.updates[i]
         IN  /\ u.old \cup u.new # {}
             /\ <<m.router, u.neighbor, u.direction>> \in Slots
             /\ \A j \in DOMAIN m.updates : i # j => Subject(Part(m, i)) # Subject(Part(m, j))

LEMMA UserModifies ==
  ASSUME ModifiersTelling, NEW m \in Modifiers
  PROVE  \/ Single(m)
         \/ /\ Edits(m) /\ ValidModifier(m)
            /\ \A i, j \in 1 .. Len(m.updates) : i # j => Subject(Part(m, i)) # Subject(Part(m, j))
<1>0. ValidModifier(m)
  BY ConfigurationAssumption
<1>1. CASE m.type # "batch"
  BY <1>0, <1>1 DEF ModifiersTelling, ValidModifier, Single, Given, Proper
<1>2. CASE m.type = "batch"
  <2>1. /\ Len(m.updates) \in Nat /\ DOMAIN m.updates = 1 .. Len(m.updates)
        /\ \A i \in DOMAIN m.updates : ValidEdit(m.updates[i])
    BY <1>0, <1>2 DEF ValidModifier
  <2>2. \A i \in DOMAIN m.updates :
          /\ m.updates[i].old \cup m.updates[i].new # {}
          /\ <<m.router, m.updates[i].neighbor, m.updates[i].direction>> \in Slots
          /\ \A j \in DOMAIN m.updates : i # j => Subject(Part(m, i)) # Subject(Part(m, j))
    BY <1>2 DEF ModifiersTelling
  <2> QED
    BY <1>0, <1>2, <2>1, <2>2 DEF Edits
<1> QED
  BY <1>1, <1>2

(* A modifier that Config::apply_modifier accepts for the running          *)
(* configuration is accepted by the network, leads to the same             *)
(* configuration, and its reverse leads back, unless it inserts a weight:  *)
(* in every state, for modifiers as above.                                 *)
THEOREM ModifiersAreReliable ==
  ASSUME ModifiersTelling
  PROVE  Spec => []ModifiersReliable
<1>1. ASSUME Settled, ~Hidden(net), NEW up \in BOOLEAN, NEW m \in Modifiers,
             ModifyConfig(GetConfig(net, up), m).ok
      PROVE  /\ CanApply(net, m) /\ Restores(net, m)
             /\ Mirrors(Unchecked(net, m), ModifyConfig(GetConfig(net, up), m).config)
             /\ NetOk(Unchecked(net, m))
  <2> DEFINE c == GetConfig(net, up)
  <2>1. NetOk(net) /\ ActiveOk(net) /\ Current(net)
    BY <1>1 DEF Settled, Configuring, Shaped
  <2>2. Mirrors(net, c) /\ ModifyConfig(c, m).ok
    BY <1>1, <2>1, RunningMirrors
  <2>3. ValidModifier(m)
    BY ConfigurationAssumption
  <2> HIDE DEF c
  <2>4. NetOk(Unchecked(net, m))
    BY <2>1, <2>3, UncheckedKeeps
  <2>5. CASE Single(m)
    <3>1. /\ CanApply(net, m) /\ Restores(net, m)
          /\ Mirrors(Unchecked(net, m), ModifyConfig(c, m).config)
      BY <1>1, <2>1, <2>2, <2>5, SingleReliable
    <3> QED
      BY <2>4, <3>1 DEF c
  <2>6. CASE ~Single(m)
    <3>1. /\ CanApply(net, m) /\ Restores(net, m)
          /\ Mirrors(Unchecked(net, m), ModifyConfig(c, m).config)
      BY <1>1, <2>1, <2>2, <2>3, <2>6, UserModifies, BatchReliable
    <3> QED
      BY <2>4, <3>1 DEF c
  <2> QED
    BY <2>5, <2>6
<1>2. ASSUME Settled
      PROVE  ModifierAgrees
  <2> SUFFICES ASSUME ~Hidden(net), NEW up \in BOOLEAN, NEW m \in Modifiers,
                      ModifyConfig(GetConfig(net, up), m).ok
               PROVE  /\ CanApply(net, m)
                      /\ ~Hidden(Unchecked(net, m)) =>
                           Agree(GetConfig(Unchecked(net, m), up), ModifyConfig(GetConfig(net, up), m).config)
    BY DEF ModifierAgrees
  <2>1. /\ CanApply(net, m) /\ NetOk(Unchecked(net, m))
        /\ Mirrors(Unchecked(net, m), ModifyConfig(GetConfig(net, up), m).config)
    BY <1>1, <1>2
  <2> QED
    BY <2>1, MirrorsAgree
<1>3. ASSUME Settled
      PROVE  ReverseRestores
  <2> SUFFICES ASSUME ~Hidden(net), NEW m \in Modifiers, ModifyConfig(GetConfig(net, TRUE), m).ok,
                      ~(m.type = "insert" /\ m.expr.kind = "weight")
               PROVE  Unchecked(Unchecked(net, m), Reversed(m)) = net
    BY DEF ReverseRestores
  <2>1. Restores(net, m)
    BY <1>1, <1>3
  <2> QED
    BY <2>1 DEF Restores
<1>4. Settled => ModifiersReliable
  BY <1>2, <1>3 DEF ModifiersReliable
<1> QED
  BY <1>4, AlwaysSettled, PTL
=============================================================================
