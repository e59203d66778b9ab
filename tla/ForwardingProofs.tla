--------------------------- MODULE ForwardingProofs ---------------------------
(***************************************************************************)
(* Theorems about forwarding tables and forwarding states, for any         *)
(* network, prefixes and edits: looking up a table is longest-prefix       *)
(* matching, and a forwarding state that is updated, or replayed, is the   *)
(* one of the network.                                                     *)
(***************************************************************************)
EXTENDS ForwardingProperties, FiniteSetTheorems, NaturalsInduction,
        WellFoundedInduction, TLAPS

LEMMA Smallest ==
  ASSUME NEW T, T \subseteq Nat, T # {}
  PROVE  \E x \in T : \A y \in T : x <= y
<1> DEFINE R == OpToRel(<, Nat)
<1>1. IsWellFoundedOn(R, Nat)
  BY NatLessThanWellFounded
<1> HIDE DEF R
<1>2. PICK x \in T : \A y \in T : ~ (<<y, x>> \in R)
  BY <1>1, WFMin
<1>3. \A i, j \in Nat : i < j => <<i, j>> \in R
  BY DEF R, OpToRel
<1>4. ASSUME NEW y \in T
      PROVE  x <= y
  <2>1. x \in Nat /\ y \in Nat
    OBVIOUS
  <2>2. ~(y < x)
    BY <1>2, <1>3, <2>1
  <2> QED
    BY <2>1, <2>2
<1> QED
  BY <1>4

(* Induction up to a number, for a set.                                    *)
LEMMA UpTo ==
  ASSUME NEW N \in Nat, NEW A, 0 \in A, \A k \in 0 .. N : k \in A /\ k < N => k + 1 \in A
  PROVE  \A k \in 0 .. N : k \in A
<1> DEFINE T == {k \in 0 .. N : k \notin A}
<1> SUFFICES ASSUME T # {} PROVE FALSE
  OBVIOUS
<1>1. PICK k \in T : \A l \in T : k <= l
  <2>1. T \subseteq Nat
    OBVIOUS
  <2> HIDE DEF T
  <2> QED
    BY <2>1, Smallest
<1>2. k \in 0 .. N /\ k # 0
  OBVIOUS
<1>3. k - 1 \in 0 .. N /\ k - 1 < N /\ k - 1 \notin T
  BY <1>1, <1>2
<1>4. k - 1 \in A
  BY <1>3
<1>5. k - 1 + 1 \in A
  BY <1>3, <1>4
<1> QED
  BY <1>2, <1>5
-----------------------------------------------------------------------------
(* Looking up a prefix that is in the table: it is its own longest match.  *)
LEMMA LongestExact ==
  ASSUME NEW map, DOMAIN map \subseteq AllPrefixes, NEW p \in DOMAIN map
  PROVE  Longest(map, p) = {p}
BY ForwardingAssumption DEF Longest

LEMMA LongestOne ==
  ASSUME NEW map, DOMAIN map \subseteq AllPrefixes, NEW p \in AllPrefixes
  PROVE  /\ Longest(map, p) \subseteq DOMAIN map
         /\ \A q \in Longest(map, p) : p \in Within[q] /\ Longest(map, p) = {q}
<1>1. Longest(map, p) \subseteq DOMAIN map /\ \A q \in Longest(map, p) : p \in Within[q]
  BY DEF Longest
<1>2. ASSUME NEW q \in Longest(map, p), NEW c \in Longest(map, p)
      PROVE  c = q
  <2>1. q \in Within[c] /\ c \in Within[q]
    BY DEF Longest
  <2> QED
    BY <1>1, <2>1, ForwardingAssumption
<1> QED
  BY <1>1, <1>2

LEMMA AtOne ==
  ASSUME NEW map, NEW q, NEW default
  PROVE  At(map, {q}, default) = map[q]
BY DEF At

LEMMA TablesTyped ==
  ASSUME NEW x \in RouterTables
  PROVE  /\ DOMAIN x.sr \subseteq AllPrefixes /\ DOMAIN x.rib \subseteq AllPrefixes
         /\ \A q \in DOMAIN x.sr : x.sr[q] \in StaticRoutes
         /\ \A q \in DOMAIN x.rib : x.rib[q] \in BgpRoutes
         /\ x.do_load_balancing \in BOOLEAN
BY DEF RouterTables, PrefixMaps

(* What a router does with a prefix that it knows: its static route for    *)
(* that very prefix, or else its BGP route.                                *)
Exactly(x, q) == IF q \in DOMAIN x.sr THEN x.sr[q] ELSE Indirect(x.rib[q].next_hop)

LEMMA TargetExact ==
  ASSUME NEW x \in RouterTables, NEW q \in DOMAIN x.sr \cup DOMAIN x.rib
  PROVE  Target(x, q) = Exactly(x, q)
<1> DEFINE sr == Longest(x.sr, q)
           bgp == Longest(x.rib, q)
<1>0. q \in AllPrefixes
  BY TablesTyped
<1>1. /\ sr \subseteq DOMAIN x.sr /\ \A s \in sr : q \in Within[s] /\ sr = {s}
      /\ bgp \subseteq DOMAIN x.rib /\ \A s \in bgp : q \in Within[s] /\ bgp = {s}
  BY <1>0, TablesTyped, LongestOne
<1>2. Target(x, q) = IF sr # {} /\ \A b \in bgp : sr \subseteq Within[b]
                     THEN At(x.sr, sr, Drop)
                     ELSE IF bgp # {} THEN Indirect(At(x.rib, bgp, Drop).next_hop)
                     ELSE Drop
  BY DEF Target
<1>3. CASE q \in DOMAIN x.sr
  <2>1. sr = {q}
    BY <1>3, TablesTyped, LongestExact
  <2> HIDE DEF sr, bgp
  <2>2. \A b \in bgp : sr \subseteq Within[b]
    BY <1>1, <2>1
  <2>3. Target(x, q) = At(x.sr, {q}, Drop)
    BY <1>2, <2>1, <2>2
  <2> QED
    BY <1>3, <2>3, AtOne DEF Exactly
<1>4. CASE q \notin DOMAIN x.sr
  <2>1. bgp = {q}
    BY <1>4, TablesTyped, LongestExact
  <2>2. ~(sr # {} /\ \A b \in bgp : sr \subseteq Within[b])
    <3> HIDE DEF sr, bgp
    <3> SUFFICES ASSUME NEW s \in sr, s \in Within[q] PROVE FALSE
      BY <2>1
    <3>1. s \in DOMAIN x.sr /\ q \in Within[s]
      BY <1>1
    <3>2. s = q
      BY <1>0, <3>1, TablesTyped, ForwardingAssumption
    <3> QED
      BY <1>4, <3>1, <3>2
  <2> HIDE DEF sr, bgp
  <2>3. Target(x, q) = Indirect(At(x.rib, {q}, Drop).next_hop)
    BY <1>2, <2>1, <2>2
  <2> QED
    BY <1>4, <2>3, AtOne DEF Exactly
<1> QED
  BY <1>3, <1>4

(* The next hops of any target are routers.                                *)
LEMMA HopsAreRouters ==
  ASSUME NEW r \in Routers, NEW target
  PROVE  NextHopsTo(r, target) \in Seq(Routers)
<1>1. CASE target.kind = "Direct"
  BY <1>1, NetworkAssumption DEF NextHopsTo
<1>2. CASE target.kind = "Indirect"
  BY <1>2, NetworkAssumption DEF NextHopsTo
<1>3. CASE target.kind \notin {"Direct", "Indirect"}
  BY <1>3 DEF NextHopsTo
<1> QED
  BY <1>1, <1>2, <1>3

LEMMA NextHopKnown ==
  ASSUME NEW n \in [Routers -> RouterTables], NEW r \in Routers, NEW p
  PROVE  LET nhs == NextHopsTo(r, Target(n[r], p))
             hop == GetNextHop(n, r, p)
         IN  /\ hop \in Seq(Routers) /\ ToSet(hop) \subseteq ToSet(nhs)
             /\ n[r].do_load_balancing => hop = nhs
             /\ hop = << >> <=> nhs = << >>
<1> DEFINE nhs == NextHopsTo(r, Target(n[r], p))
<1>1. nhs \in Seq(Routers)
  BY HopsAreRouters
<1>2. GetNextHop(n, r, p) = IF n[r].do_load_balancing \/ nhs = << >> THEN nhs ELSE <<Head(nhs)>>
  BY DEF GetNextHop
<1> HIDE DEF nhs
<1>3. CASE n[r].do_load_balancing \/ nhs = << >>
  BY <1>1, <1>2, <1>3 DEF nhs
<1>4. CASE ~(n[r].do_load_balancing \/ nhs = << >>)
  <2>1. Head(nhs) = nhs[1] /\ 1 \in DOMAIN nhs /\ Head(nhs) \in Routers
    BY <1>1, <1>4
  <2>2. ToSet(<<Head(nhs)>>) = {Head(nhs)} /\ Head(nhs) \in ToSet(nhs)
    BY <2>1 DEF ToSet
  <2>3. <<Head(nhs)>> \in Seq(Routers) /\ <<Head(nhs)>> # << >>
    BY <2>1
  <2> QED
    BY <1>2, <1>4, <2>2, <2>3 DEF nhs
<1> QED
  BY <1>3, <1>4
-----------------------------------------------------------------------------
(* Edits of the network.                                                   *)
LEMMA MapsKept ==
  ASSUME NEW T, NEW map \in PrefixMaps(T), NEW p \in AllPrefixes
  PROVE  /\ Without(map, p) \in PrefixMaps(T)
         /\ \A x \in T : Put(map, p, x) \in PrefixMaps(T)
         /\ \A option : option \subseteq T => Set(map, p, option) \in PrefixMaps(T)
<1>1. PICK K \in SUBSET AllPrefixes : map \in [K -> T]
  BY DEF PrefixMaps
<1>2. Without(map, p) \in [K \ {p} -> T]
  BY <1>1 DEF Without
<1>3. \A x \in T : Put(map, p, x) \in [K \cup {p} -> T]
  BY <1>1 DEF Put
<1>4. K \ {p} \in SUBSET AllPrefixes /\ K \cup {p} \in SUBSET AllPrefixes
  BY <1>1
<1>5. Without(map, p) \in PrefixMaps(T) /\ \A x \in T : Put(map, p, x) \in PrefixMaps(T)
  BY <1>2, <1>3, <1>4 DEF PrefixMaps
<1>6. \A option : option \subseteq T => Set(map, p, option) \in PrefixMaps(T)
  BY <1>5 DEF Set
<1> QED
  BY <1>5, <1>6

Nets == [Routers -> RouterTables]

LEMMA EditCases ==
  ASSUME NEW c \in Edits
  PROVE  /\ c.router \in Routers /\ c.prefix \in AllPrefixes
         /\ \/ c.type = "static" /\ c.route \subseteq StaticRoutes
            \/ c.type = "bgp" /\ c.route \subseteq BgpRoutes
            \/ c.type = "balance"
BY DEF Edits

LEMMA ApplyFacts ==
  ASSUME NEW n \in Nets, NEW c \in Edits
  PROVE  /\ Apply(n, c) \in Nets
         /\ \A r \in Routers \ {c.router} : Apply(n, c)[r] = n[r]
         /\ Apply(n, c)[c.router].sr = IF c.type = "static" THEN Set(n[c.router].sr, c.prefix, c.route)
                                      ELSE n[c.router].sr
         /\ Apply(n, c)[c.router].rib = IF c.type = "bgp" THEN Set(n[c.router].rib, c.prefix, c.route)
                                       ELSE n[c.router].rib
<1>1. c.router \in Routers /\ c.prefix \in AllPrefixes /\ n[c.router] \in RouterTables
  BY EditCases DEF Nets
<1>2. /\ n[c.router].sr \in PrefixMaps(StaticRoutes) /\ n[c.router].rib \in PrefixMaps(BgpRoutes)
      /\ n[c.router].do_load_balancing \in BOOLEAN
  BY <1>1 DEF RouterTables
<1>3. CASE c.type = "static" /\ c.route \subseteq StaticRoutes
  <2>1. Apply(n, c) = [n EXCEPT ![c.router].sr = Set(@, c.prefix, c.route)]
    BY <1>3 DEF Apply
  <2>2. Set(n[c.router].sr, c.prefix, c.route) \in PrefixMaps(StaticRoutes)
    BY <1>1, <1>2, <1>3, MapsKept
  <2>3. [n[c.router] EXCEPT !.sr = Set(@, c.prefix, c.route)] \in RouterTables
    BY <1>1, <2>2 DEF RouterTables
  <2>4. Apply(n, c) \in Nets
    BY <1>1, <2>1, <2>3 DEF Nets
  <2> QED
    BY <1>1, <1>3, <2>1, <2>4 DEF Nets, RouterTables
<1>4. CASE c.type = "bgp" /\ c.route \subseteq BgpRoutes
  <2>1. Apply(n, c) = [n EXCEPT ![c.router].rib = Set(@, c.prefix, c.route)]
    BY <1>4 DEF Apply
  <2>2. Set(n[c.router].rib, c.prefix, c.route) \in PrefixMaps(BgpRoutes)
    BY <1>1, <1>2, <1>4, MapsKept
  <2>3. [n[c.router] EXCEPT !.rib = Set(@, c.prefix, c.route)] \in RouterTables
    BY <1>1, <2>2 DEF RouterTables
  <2>4. Apply(n, c) \in Nets
    BY <1>1, <2>1, <2>3 DEF Nets
  <2> QED
    BY <1>1, <1>4, <2>1, <2>4 DEF Nets, RouterTables
<1>5. CASE c.type = "balance"
  <2>1. Apply(n, c) = [n EXCEPT ![c.router].do_load_balancing = ~@]
    BY <1>5 DEF Apply
  <2>2. [n[c.router] EXCEPT !.do_load_balancing = ~@] \in RouterTables
    BY <1>1, <1>2 DEF RouterTables
  <2>3. Apply(n, c) \in Nets
    BY <1>1, <2>1, <2>2 DEF Nets
  <2> QED
    BY <1>1, <1>5, <2>1, <2>3 DEF Nets, RouterTables
<1> QED
  BY <1>3, <1>4, <1>5, EditCases

(* The recursive function of ApplyAll is what it is defined to be.         *)
Editing(g, n, op) ==
  g = [i \in 0 .. Len(op) |-> IF i = 0 THEN n ELSE Apply(g[i - 1], op[i])]

LEMMA EditingExists ==
  ASSUME NEW op, Len(op) \in Nat, NEW n
  PROVE  \E g : Editing(g, n, op) /\ ApplyAll(n, op) = g[Len(op)]
<1> DEFINE N == Len(op)
           Upto(g, k) == g = [i \in 0 .. k |-> IF i = 0 THEN n ELSE Apply(g[i - 1], op[i])]
           A == {k \in Nat : \E g : Upto(g, k)}
<1> HIDE DEF N
<1>0. N \in Nat
  BY DEF N
<1>1. 0 \in A
  <2> DEFINE g == [i \in 0 .. 0 |-> n]
  <2>1. Upto(g, 0)
    OBVIOUS
  <2> HIDE DEF g
  <2> QED
    BY <2>1
<1>2. ASSUME NEW k \in Nat, k \in A
      PROVE  k + 1 \in A
  <2>1. PICK g : Upto(g, k)
    BY <1>2
  <2> DEFINE h == [i \in 0 .. k + 1 |-> IF i = k + 1 THEN Apply(g[k], op[k + 1]) ELSE g[i]]
  <2>2. ASSUME NEW i \in 0 .. k + 1
        PROVE  h[i] = IF i = 0 THEN n ELSE Apply(h[i - 1], op[i])
    <3>1. CASE i = 0
      BY <2>1, <3>1
    <3>2. CASE i = k + 1
      <4>1. i # 0 /\ i - 1 = k /\ k \in 0 .. k + 1 /\ k # k + 1
        BY <3>2
      <4> QED
        BY <3>2, <4>1
    <3>3. CASE i # 0 /\ i # k + 1
      <4>1. i \in 0 .. k /\ i - 1 \in 0 .. k + 1 /\ i - 1 # k + 1
        BY <3>3
      <4>2. h[i] = g[i] /\ h[i - 1] = g[i - 1]
        BY <3>3, <4>1
      <4>3. g[i] = Apply(g[i - 1], op[i])
        BY <2>1, <3>3, <4>1
      <4> QED
        BY <3>3, <4>2, <4>3
    <3> QED
      BY <3>1, <3>2, <3>3
  <2>3. h = [i \in 0 .. k + 1 |-> h[i]]
    OBVIOUS
  <2> HIDE DEF h
  <2>4. Upto(h, k + 1)
    BY <2>2, <2>3
  <2> QED
    BY <2>4
<1>3. N \in A
  <2>1. \A k \in 0 .. N : k \in A /\ k < N => k + 1 \in A
    BY <1>2
  <2> HIDE DEF A
  <2>2. \A k \in 0 .. N : k \in A
    BY ONLY <1>0, <1>1, <2>1, UpTo
  <2> QED
    BY <1>0, <2>2
<1>4. PICK f : Upto(f, N)
  BY <1>3
<1> DEFINE c == CHOOSE g : Upto(g, N)
<1>5. Upto(c, N)
  BY <1>4
<1>6. ApplyAll(n, op) = c[N]
  BY DEF ApplyAll, N
<1> HIDE DEF c
<1>7. Editing(c, n, op)
  BY <1>5 DEF Editing, N
<1> QED
  BY <1>6, <1>7 DEF N

(* What an edit keeps of a set of networks, a sequence of edits keeps.     *)
LEMMA EditsKeep ==
  ASSUME NEW op \in Seq(Edits), NEW S, NEW n \in S,
         \A i \in DOMAIN op : \A m \in S : Apply(m, op[i]) \in S
  PROVE  ApplyAll(n, op) \in S
<1> DEFINE N == Len(op)
<1>0. N \in Nat /\ DOMAIN op = 1 .. N
  OBVIOUS
<1>1. PICK g : Editing(g, n, op) /\ ApplyAll(n, op) = g[N]
  BY <1>0, EditingExists
<1> HIDE DEF N
<1>2. g[0] = n /\ \A k \in 0 .. N : k < N => g[k + 1] = Apply(g[k], op[k + 1])
  <2>1. DOMAIN g = 0 .. N /\ \A i \in 0 .. N : g[i] = IF i = 0 THEN n ELSE Apply(g[i - 1], op[i])
    BY <1>1 DEF Editing, N
  <2>2. ASSUME NEW k \in 0 .. N, k < N
        PROVE  g[k + 1] = Apply(g[k], op[k + 1])
    <3>1. k + 1 \in 0 .. N /\ k + 1 # 0 /\ k + 1 - 1 = k
      BY <1>0, <2>2
    <3> QED
      BY <2>1, <3>1
  <2> QED
    BY <1>0, <2>1, <2>2
<1> DEFINE A == {k \in 0 .. N : g[k] \in S}
<1>3. 0 \in A
  BY <1>0, <1>2
<1>4. ASSUME NEW k \in 0 .. N, k \in A, k < N
      PROVE  k + 1 \in A
  <2>1. k + 1 \in DOMAIN op /\ k + 1 \in 0 .. N
    BY <1>0, <1>4
  <2>2. g[k] \in S
    BY <1>4
  <2> QED
    BY <1>2, <1>4, <2>1, <2>2
<1> HIDE DEF A
<1>5. \A k \in 0 .. N : k \in A
  BY ONLY <1>0, <1>3, <1>4, UpTo
<1> QED
  BY <1>0, <1>1, <1>5 DEF A, N
-----------------------------------------------------------------------------
LEMMA NetTypedInit == Init => net \in Nets
BY NetworkAssumption DEF Init, Nets

LEMMA NetTypedNext == net \in Nets /\ [Next]_vars => (net \in Nets)'
<1> SUFFICES ASSUME net \in Nets, [Next]_vars PROVE net' \in Nets
  OBVIOUS
<1>1. ASSUME NEW c \in Changes, Follow(c) PROVE net' \in Nets
  BY <1>1, ApplyFacts, NetworkAssumption DEF Follow
<1>2. ASSUME NEW op \in Operations, Record(op) PROVE net' \in Nets
  <2>1. op \in Seq(Edits)
    BY NetworkAssumption
  <2>2. \A i \in DOMAIN op : op[i] \in Edits
    BY <2>1
  <2>3. ApplyAll(net, op) \in Nets
    BY <2>1, <2>2, ApplyFacts, EditsKeep
  <2> QED
    BY <1>2, <2>3 DEF Record
<1>3. ASSUME NEW c \in Events, HandleEvent(c) PROVE net' \in Nets
  BY <1>3, ApplyFacts, NetworkAssumption DEF HandleEvent
<1>4. CASE UNCHANGED net
  BY <1>4
<1> QED
  BY <1>1, <1>2, <1>3, <1>4
     DEF Next, vars, Recorded, StepForward, Back, IntoInitial, AskForPaths

LEMMA NetTyped == Spec => [](net \in Nets)
BY NetTypedInit, NetTypedNext, PTL DEF Spec

LEMMA LookupIsMatch == net \in Nets => ForwardsByLongestMatch
<1> SUFFICES ASSUME net \in Nets, NEW r \in Routers, NEW p \in AllPrefixes
             PROVE  LET x == net[r]
                        covers == {q \in DOMAIN x.sr \cup DOMAIN x.rib : p \in Within[q]}
                        best == {q \in covers : \A c \in covers : q \in Within[c]}
                        target(q) == IF q \in DOMAIN x.sr THEN x.sr[q]
                                     ELSE Indirect(x.rib[q].next_hop)
                        hops == UNION {ToSet(NextHopsTo(r, target(q))) : q \in best}
                        found == ToSet(NextHops(FromNet(net), r, p)) \ {Dst}
                    IN  IF x.do_load_balancing THEN found = hops
                        ELSE found \subseteq hops /\ (found = {} <=> hops = {})
  BY DEF ForwardsByLongestMatch
<1> DEFINE x == net[r]
           covers == {q \in DOMAIN x.sr \cup DOMAIN x.rib : p \in Within[q]}
           best == {q \in covers : \A c \in covers : q \in Within[c]}
           hops == UNION {ToSet(NextHopsTo(r, Exactly(x, q))) : q \in best}
           found == ToSet(NextHops(FromNet(net), r, p)) \ {Dst}
           table == Table(net, r)
<1>0. x \in RouterTables
  BY DEF Nets
<1>1. DOMAIN table = DOMAIN x.sr \cup DOMAIN x.rib
  BY DEF Table
<1>2. best = Longest(table, p)
  BY <1>1 DEF Longest
<1>3. NextHops(FromNet(net), r, p) = At(table, best, << >>)
  BY <1>2 DEF NextHops, FromNet
<1>4. ToSet(<< >>) = {}
  BY DEF ToSet
<1> SUFFICES IF x.do_load_balancing THEN found = hops
             ELSE found \subseteq hops /\ (found = {} <=> hops = {})
  BY DEF Exactly
<1>5. CASE best = {}
  <2>1. NextHops(FromNet(net), r, p) = << >>
    BY <1>3, <1>5 DEF At
  <2>2. found = {}
    BY <1>4, <2>1
  <2>3. hops = {}
    BY <1>5
  <2> QED
    BY <2>2, <2>3
<1>6. CASE best # {}
  <2>1. DOMAIN table \subseteq AllPrefixes
    BY <1>0, <1>1, TablesTyped
  <2>2. PICK q \in DOMAIN table : best = {q}
    BY <1>2, <1>6, <2>1, LongestOne
  <2> DEFINE nhs == NextHopsTo(r, Exactly(x, q))
             hop == GetNextHop(net, r, q)
  <2>3. hops = ToSet(nhs)
    BY <2>2
  <2>4. NextHops(FromNet(net), r, p) = table[q]
    BY <1>3, <2>2, AtOne
  <2>5. table[q] = IF hop = << >> /\ Terminal(net, r, q) THEN <<Dst>> ELSE hop
    BY <1>1, <2>2 DEF Table
  <2>6. Target(x, q) = Exactly(x, q)
    BY <1>0, <1>1, <2>2, TargetExact
  <2>7. nhs \in Seq(Routers)
    BY HopsAreRouters
  <2>8. /\ hop \in Seq(Routers) /\ ToSet(hop) \subseteq ToSet(nhs)
        /\ x.do_load_balancing => hop = nhs
        /\ hop = << >> <=> nhs = << >>
    BY <2>6, NextHopKnown DEF Nets
  <2>9. found = ToSet(hop)
    <3>1. CASE hop = << >> /\ Terminal(net, r, q)
      <4>1. ToSet(<<Dst>>) = {Dst}
        BY DEF ToSet
      <4> QED
        BY <1>4, <2>4, <2>5, <3>1, <4>1
    <3>2. CASE ~(hop = << >> /\ Terminal(net, r, q))
      <4>1. Dst \notin Routers
        BY ForwardingAssumption DEF Dst
      <4>2. ToSet(hop) \subseteq Routers
        BY <2>8 DEF ToSet
      <4> QED
        BY <2>4, <2>5, <3>2, <4>1, <4>2
    <3> QED
      BY <3>1, <3>2
  <2> HIDE DEF found, hops, nhs, hop
  <2>10. hop # << >> => ToSet(hop) # {}
    BY <2>8 DEF ToSet
  <2> QED
    BY <1>4, <2>3, <2>8, <2>9, <2>10
<1> QED
  BY <1>5, <1>6

(* ForwardsByLongestMatch: in every network and for every prefix, looking  *)
(* up a prefix in the table that get_fib makes (forwarding_state.rs:195)   *)
(* finds the next hops of the most specific static or BGP route that       *)
(* covers it, the static one first (router/mod.rs:246), and all of them    *)
(* if the router balances the load.                                        *)
THEOREM TablesMatchLongest == Spec => []ForwardsByLongestMatch
BY NetTyped, LookupIsMatch, PTL
-----------------------------------------------------------------------------
(* Updates of a forwarding state.                                          *)
Shaped(f) ==
  /\ f = [state |-> f.state, reversed |-> f.reversed, cache |-> f.cache]
  /\ f.state = [r \in Routers |-> f.state[r]]
  /\ \A r \in Routers : /\ f.state[r] = [p \in DOMAIN f.state[r] |-> f.state[r][p]]
                        /\ DOMAIN f.state[r] \subseteq AllPrefixes
  /\ f.reversed = [n \in Routers \cup {Dst} |-> f.reversed[n]]

Reversed(f) ==
  \A n \in Routers \cup {Dst}, p \in AllPrefixes :
    Feeders(f, n, p) = {r \in Routers : n \in ToSet(Entry(f, r, p))}

Sound(f) == Shaped(f) /\ Reversed(f)

(* f forwards what the function e says. *)
Says(f, e) == \A r \in Routers, p \in AllPrefixes : Entry(f, r, p) = e[r][p]

LEMMA EntryPut ==
  ASSUME NEW f, Shaped(f), NEW r \in Routers, NEW p \in AllPrefixes, NEW nhs
  PROVE  LET g == SetState(f, r, p, nhs)
         IN  /\ Shaped(g) /\ g.reversed = f.reversed /\ g.cache = f.cache
             /\ \A x \in Routers, q \in AllPrefixes :
                  Entry(g, x, q) = IF x = r /\ q = p THEN nhs ELSE Entry(f, x, q)
<1> DEFINE t == IF nhs = << >> THEN Without(f.state[r], p) ELSE Put(f.state[r], p, nhs)
           g == SetState(f, r, p, nhs)
<1>1. t = [q \in DOMAIN t |-> t[q]] /\ DOMAIN t \subseteq AllPrefixes
  BY DEF Shaped, Without, Put
<1>2. \A q \in AllPrefixes :
        (IF q \in DOMAIN t THEN t[q] ELSE << >>)
          = IF q = p THEN nhs ELSE IF q \in DOMAIN f.state[r] THEN f.state[r][q] ELSE << >>
  BY DEF Without, Put
<1>3. /\ g = [state |-> g.state, reversed |-> f.reversed, cache |-> f.cache]
      /\ g.state = [x \in Routers |-> IF x = r THEN t ELSE f.state[x]]
  BY DEF Shaped, SetState
<1> HIDE DEF g, t
<1>4. g.reversed = f.reversed /\ g.cache = f.cache
  BY <1>3
<1>5. Shaped(g)
  BY <1>1, <1>3, <1>4 DEF Shaped
<1>6. ASSUME NEW x \in Routers, NEW q \in AllPrefixes
      PROVE  Entry(g, x, q) = IF x = r /\ q = p THEN nhs ELSE Entry(f, x, q)
  BY <1>2, <1>3 DEF Entry
<1> QED
  BY <1>4, <1>5, <1>6 DEF g

LEMMA ReverseFacts ==
  ASSUME NEW f, Shaped(f), NEW r \in Routers, NEW p \in AllPrefixes, NEW old, NEW new
  PROVE  LET g == SetReversed(f, r, p, old, new)
         IN  /\ Shaped(g) /\ g.state = f.state
             /\ \A n \in Routers \cup {Dst}, q \in AllPrefixes :
                  Feeders(g, n, q) =
                    IF q = p /\ n \in old \cup new
                    THEN (Feeders(f, n, p) \ {r}) \cup (IF n \in new THEN {r} ELSE {})
                    ELSE Feeders(f, n, q)
<1> DEFINE g == SetReversed(f, r, p, old, new)
           mine(n) == (Feeders(f, n, p) \ {r}) \cup (IF n \in new THEN {r} ELSE {})
           reverse == [n \in DOMAIN f.reversed |->
                         IF n \in old \cup new THEN Put(f.reversed[n], p, mine(n)) ELSE f.reversed[n]]
<1>0. DOMAIN f.reversed = Routers \cup {Dst}
  BY DEF Shaped
<1>1. /\ g = [state |-> f.state, reversed |-> g.reversed, cache |-> f.cache]
      /\ g.state = f.state
      /\ g.reversed = [n \in Routers \cup {Dst} |->
                         IF n \in old \cup new THEN Put(f.reversed[n], p, mine(n)) ELSE f.reversed[n]]
  <2>1. g = [f EXCEPT !.reversed = reverse]
    BY DEF SetReversed
  <2>2. f = [state |-> f.state, reversed |-> f.reversed, cache |-> f.cache]
    BY DEF Shaped
  <2> DEFINE V == reverse
  <2>3. V = [n \in Routers \cup {Dst} |->
               IF n \in old \cup new THEN Put(f.reversed[n], p, mine(n)) ELSE f.reversed[n]]
    BY <1>0
  <2>4. g = [f EXCEPT !.reversed = V]
    BY <2>1
  <2> HIDE DEF V, g, reverse
  <2>5. g = [state |-> f.state, reversed |-> V, cache |-> f.cache]
    BY <2>2, <2>4
  <2> QED
    BY <2>3, <2>5
<1> HIDE DEF g
<1>2. Shaped(g) /\ g.state = f.state
  <2>1. g.cache = f.cache
    BY <1>1
  <2>2. g.reversed = [n \in Routers \cup {Dst} |-> g.reversed[n]]
    BY <1>1
  <2> QED
    BY <1>1, <2>1, <2>2 DEF Shaped
<1>3. ASSUME NEW n \in Routers \cup {Dst}, NEW q \in AllPrefixes
      PROVE  Feeders(g, n, q) = IF q = p /\ n \in old \cup new THEN mine(n) ELSE Feeders(f, n, q)
  <2>1. CASE n \in old \cup new
    <3>1. g.reversed[n] = Put(f.reversed[n], p, mine(n))
      BY <1>1, <2>1
    <3> HIDE DEF mine
    <3> QED
      BY <2>1, <3>1 DEF Feeders, Put
  <2>2. CASE n \notin old \cup new
    <3>1. g.reversed[n] = f.reversed[n]
      BY <1>1, <2>2
    <3> QED
      BY <2>2, <3>1 DEF Feeders
  <2> QED
    BY <2>1, <2>2
<1> QED
  BY <1>2, <1>3 DEF g

(* update changes exactly one entry, and keeps the reverse.                *)
LEMMA UpdateFacts ==
  ASSUME NEW f, Sound(f), NEW r \in Routers, NEW p \in AllPrefixes, NEW nhs
  PROVE  /\ Sound(Update(f, r, p, nhs))
         /\ \A x \in Routers, q \in AllPrefixes :
              Entry(Update(f, r, p, nhs), x, q) = IF x = r /\ q = p THEN nhs ELSE Entry(f, x, q)
<1> DEFINE old == Entry(f, r, p)
           table == SetState(f, r, p, nhs)
           changed == SetReversed(table, r, p, ToSet(old), ToSet(nhs))
           kept == {y \in DOMAIN changed.cache :
                      y[2] \in Within[p] => y[1] \in Invalidate(changed, r, y[2])}
           final == [changed EXCEPT !.cache = [x \in kept |-> changed.cache[x]]]
           g == Update(f, r, p, nhs)
<1>1. g = IF old = nhs THEN table ELSE final
  <2>1. final = [changed EXCEPT !.cache =
                  [x \in {y \in DOMAIN @ : y[2] \in Within[p] => y[1] \in Invalidate(changed, r, y[2])}
                     |-> @[x]]]
    BY Zenon
  <2> HIDE DEF final, changed
  <2> QED
    BY <2>1 DEF Update, changed
<1>2. /\ Shaped(table) /\ table.reversed = f.reversed
      /\ \A x \in Routers, q \in AllPrefixes :
           Entry(table, x, q) = IF x = r /\ q = p THEN nhs ELSE Entry(f, x, q)
  <2>1. Shaped(f)
    BY DEF Sound
  <2> QED
    BY ONLY <2>1, r \in Routers, p \in AllPrefixes, EntryPut
<1>3. \A n \in Routers \cup {Dst}, q \in AllPrefixes : Feeders(table, n, q) = Feeders(f, n, q)
  BY <1>2 DEF Feeders
<1> HIDE DEF table
<1>4. \A n \in Routers \cup {Dst}, q \in AllPrefixes :
        Feeders(f, n, q) = {x \in Routers : n \in ToSet(Entry(f, x, q))}
  BY DEF Sound, Reversed
<1>5. CASE old = nhs
  <2>1. \A x \in Routers, q \in AllPrefixes : Entry(table, x, q) = Entry(f, x, q)
    BY <1>2, <1>5
  <2>2. Reversed(table)
    BY <1>3, <1>4, <2>1 DEF Reversed
  <2> QED
    BY <1>1, <1>2, <1>5, <2>2 DEF Sound
<1>6. CASE old # nhs
  <2>1. /\ Shaped(changed) /\ changed.state = table.state
        /\ \A n \in Routers \cup {Dst}, q \in AllPrefixes :
             Feeders(changed, n, q) =
               IF q = p /\ n \in ToSet(old) \cup ToSet(nhs)
               THEN (Feeders(table, n, p) \ {r}) \cup (IF n \in ToSet(nhs) THEN {r} ELSE {})
               ELSE Feeders(table, n, q)
    BY <1>2, ReverseFacts
  <2> HIDE DEF changed
  <2>2. /\ final.state = table.state /\ final.reversed = changed.reversed
        /\ final = [state |-> final.state, reversed |-> final.reversed, cache |-> final.cache]
    <3> HIDE DEF kept
    <3> QED
      BY <2>1 DEF Shaped
  <2> HIDE DEF final
  <2>3. Shaped(final)
    BY <2>1, <2>2 DEF Shaped
  <2>4. \A x \in Routers, q \in AllPrefixes : Entry(final, x, q) = Entry(table, x, q)
    BY <2>2 DEF Entry
  <2>5. \A n \in Routers \cup {Dst}, q \in AllPrefixes : Feeders(final, n, q) = Feeders(changed, n, q)
    BY <2>2 DEF Feeders
  <2>6. ASSUME NEW n \in Routers \cup {Dst}, NEW q \in AllPrefixes
        PROVE  Feeders(final, n, q) = {x \in Routers : n \in ToSet(Entry(final, x, q))}
    <3>1. CASE q # p
      <4>1. Feeders(final, n, q) = Feeders(f, n, q)
        BY <1>3, <2>1, <2>5, <3>1
      <4>2. \A x \in Routers : Entry(final, x, q) = Entry(f, x, q)
        BY <1>2, <2>4, <3>1
      <4> QED
        BY <1>4, <4>1, <4>2
    <3>2. CASE q = p
      <4>1. \A x \in Routers : Entry(final, x, p) = IF x = r THEN nhs ELSE Entry(f, x, p)
        BY <1>2, <2>4
      <4>2. Feeders(f, n, p) = {x \in Routers : n \in ToSet(Entry(f, x, p))}
        BY <1>4
      <4>3. r \in Feeders(f, n, p) <=> n \in ToSet(old)
        BY <4>2
      <4>4. Feeders(final, n, p) =
              IF n \in ToSet(old) \cup ToSet(nhs)
              THEN (Feeders(f, n, p) \ {r}) \cup (IF n \in ToSet(nhs) THEN {r} ELSE {})
              ELSE Feeders(f, n, p)
        BY <1>3, <2>1, <2>5
      <4> HIDE DEF old
      <4>5. ASSUME NEW x \in Routers
            PROVE  x \in Feeders(final, n, p) <=> n \in ToSet(Entry(final, x, p))
        <5>1. CASE x = r
          BY <4>1, <4>3, <4>4, <5>1
        <5>2. CASE x # r
          BY <4>1, <4>2, <4>4, <5>2
        <5> QED
          BY <5>1, <5>2
      <4>6. Feeders(final, n, p) \subseteq Routers
        BY <4>2, <4>4
      <4> QED
        BY <3>2, <4>5, <4>6
    <3> QED
      BY <3>1, <3>2
  <2>7. Sound(final)
    BY <2>3, <2>6 DEF Sound, Reversed
  <2> QED
    BY <1>1, <1>2, <1>6, <2>4, <2>7
<1> QED
  BY <1>5, <1>6
-----------------------------------------------------------------------------
(* A finite set as a sequence has all elements.                            *)
LEMMA SequenceOfSet ==
  ASSUME NEW D, IsFiniteSet(D)
  PROVE  /\ Len(SetToSeq(D)) \in Nat
         /\ \A i \in 1 .. Len(SetToSeq(D)) : SetToSeq(D)[i] \in D
         /\ \A d \in D : \E i \in 1 .. Len(SetToSeq(D)) : SetToSeq(D)[i] = d
<1> DEFINE n == Cardinality(D)
           ds == SetToSeq(D)
<1>1. n \in Nat /\ ExistsBijection(1 .. n, D)
  BY FS_CardinalityType
<1>2. PICK b : b \in [1 .. n -> D] /\ \A x, y \in 1 .. n : b[x] = b[y] => x = y
  BY <1>1 DEF ExistsBijection, Bijection, Injection, IsInjective
<1>3. IsInjective(b)
  BY <1>2 DEF IsInjective
<1>4. ds \in [1 .. n -> D] /\ IsInjective(ds)
  BY <1>2, <1>3 DEF SetToSeq
<1> HIDE DEF ds, n
<1>5. ds \in Injection(1 .. n, D)
  BY <1>4 DEF Injection, IsInjective
<1>6. Cardinality(1 .. n) = n
  BY <1>1, FS_Interval
<1>7. ds \in Surjection(1 .. n, D)
  BY <1>5, <1>6, FS_Injection DEF n
<1>8. Len(ds) = n
  <2>1. ds \in Seq(D)
    BY <1>1, <1>4
  <2> QED
    BY <1>1, <1>4, <2>1
<1>9. \A d \in D : \E i \in 1 .. n : ds[i] = d
  BY <1>7 DEF Surjection
<1> QED
  BY <1>1, <1>4, <1>8, <1>9 DEF ds

(* The recursive function of Applied is what it is defined to be.          *)
Applying(g, f, ds, side) ==
  g = [i \in 0 .. Len(ds) |->
         IF i = 0 THEN f ELSE Update(g[i - 1], ds[i].router, ds[i].prefix, ds[i][side])]

LEMMA ApplyingExists ==
  ASSUME NEW f, NEW D, IsFiniteSet(D), NEW side
  PROVE  \E g : Applying(g, f, SetToSeq(D), side) /\ Applied(f, D, side) = g[Len(SetToSeq(D))]
<1> DEFINE N == Len(SetToSeq(D))
           Upto(g, k) == g = [i \in 0 .. k |-> IF i = 0 THEN f ELSE Update(g[i - 1], SetToSeq(D)[i].router, SetToSeq(D)[i].prefix, SetToSeq(D)[i][side])]
           A == {k \in Nat : \E g : Upto(g, k)}
<1> HIDE DEF N
<1>0. N \in Nat
  BY SequenceOfSet DEF N
<1>1. 0 \in A
  <2> DEFINE g == [i \in 0 .. 0 |-> f]
  <2>1. Upto(g, 0)
    OBVIOUS
  <2> HIDE DEF g
  <2> QED
    BY <2>1
<1>2. ASSUME NEW k \in Nat, k \in A
      PROVE  k + 1 \in A
  <2>1. PICK g : Upto(g, k)
    BY <1>2
  <2> DEFINE h == [i \in 0 .. k + 1 |-> IF i = k + 1 THEN Update(g[k], SetToSeq(D)[k + 1].router, SetToSeq(D)[k + 1].prefix, SetToSeq(D)[k + 1][side]) ELSE g[i]]
  <2>2. ASSUME NEW i \in 0 .. k + 1
        PROVE  h[i] = IF i = 0 THEN f ELSE Update(h[i - 1], SetToSeq(D)[i].router, SetToSeq(D)[i].prefix, SetToSeq(D)[i][side])
    <3>1. CASE i = 0
      BY <2>1, <3>1
    <3>2. CASE i = k + 1
      <4>1. i # 0 /\ i - 1 = k /\ k \in 0 .. k + 1 /\ k # k + 1
        BY <3>2
      <4> QED
        BY <3>2, <4>1
    <3>3. CASE i # 0 /\ i # k + 1
      <4>1. i \in 0 .. k /\ i - 1 \in 0 .. k + 1 /\ i - 1 # k + 1
        BY <3>3
      <4>2. h[i] = g[i] /\ h[i - 1] = g[i - 1]
        BY <3>3, <4>1
      <4>3. g[i] = Update(g[i - 1], SetToSeq(D)[i].router, SetToSeq(D)[i].prefix, SetToSeq(D)[i][side])
        BY <2>1, <3>3, <4>1
      <4> QED
        BY <3>3, <4>2, <4>3
    <3> QED
      BY <3>1, <3>2, <3>3
  <2>3. h = [i \in 0 .. k + 1 |-> h[i]]
    OBVIOUS
  <2> HIDE DEF h
  <2>4. Upto(h, k + 1)
    BY <2>2, <2>3
  <2> QED
    BY <2>4
<1>3. N \in A
  <2>1. \A k \in 0 .. N : k \in A /\ k < N => k + 1 \in A
    BY <1>2
  <2> HIDE DEF A
  <2>2. \A k \in 0 .. N : k \in A
    BY ONLY <1>0, <1>1, <2>1, UpTo
  <2> QED
    BY <1>0, <2>2
<1>4. PICK c0 : Upto(c0, N)
  BY <1>3
<1> DEFINE c == CHOOSE g : Upto(g, N)
<1>5. Upto(c, N)
  BY <1>4
<1>6. Applied(f, D, side) = c[N]
  BY DEF Applied, N
<1> HIDE DEF c
<1>7. Applying(c, f, SetToSeq(D), side)
  BY <1>5 DEF Applying, N
<1> QED
  BY <1>6, <1>7 DEF N

(* Updates with deltas: if these are what e says of their entries, and f   *)
(* says what e does of all other entries, the outcome says what e does.    *)
LEMMA AppliedFacts ==
  ASSUME NEW f, Sound(f), NEW D, IsFiniteSet(D), NEW side, NEW e,
         \A d \in D : /\ d.router \in Routers /\ d.prefix \in AllPrefixes
                      /\ d[side] = e[d.router][d.prefix],
         \A x \in Routers, q \in AllPrefixes :
           Entry(f, x, q) = e[x][q] \/ \E d \in D : d.router = x /\ d.prefix = q
  PROVE  Sound(Applied(f, D, side)) /\ Says(Applied(f, D, side), e)
<1> DEFINE ds == SetToSeq(D)
           N == Len(ds)
<1>1. /\ N \in Nat
      /\ \A i \in 1 .. N : ds[i] \in D
      /\ \A d \in D : \E i \in 1 .. N : ds[i] = d
  BY SequenceOfSet
<1>2. PICK g : Applying(g, f, ds, side) /\ Applied(f, D, side) = g[N]
  BY ApplyingExists
<1> HIDE DEF ds
<1>3. /\ g[0] = f
      /\ \A k \in 0 .. N : k < N => g[k + 1] = Update(g[k], ds[k + 1].router, ds[k + 1].prefix, ds[k + 1][side])
  <2>1. DOMAIN g = 0 .. N
        /\ \A i \in 0 .. N : g[i] = IF i = 0 THEN f ELSE Update(g[i - 1], ds[i].router, ds[i].prefix, ds[i][side])
    BY <1>2 DEF Applying
  <2> HIDE DEF N
  <2>2. ASSUME NEW k \in 0 .. N, k < N
        PROVE  g[k + 1] = Update(g[k], ds[k + 1].router, ds[k + 1].prefix, ds[k + 1][side])
    <3>1. k + 1 \in 0 .. N /\ k + 1 # 0 /\ k + 1 - 1 = k
      BY <1>1, <2>2
    <3> QED
      BY <2>1, <3>1
  <2> QED
    BY <1>1, <2>1, <2>2
<1> HIDE DEF N
<1> DEFINE Done(k) == \A x \in Routers, q \in AllPrefixes :
                        \/ Entry(g[k], x, q) = e[x][q]
                        \/ \E i \in 1 .. N : i > k /\ ds[i].router = x /\ ds[i].prefix = q
           A == {k \in 0 .. N : Sound(g[k]) /\ Done(k)}
<1>4. 0 \in A
  <2>1. Done(0)
    <3> SUFFICES ASSUME NEW x \in Routers, NEW q \in AllPrefixes, Entry(f, x, q) # e[x][q]
                 PROVE  \E i \in 1 .. N : i > 0 /\ ds[i].router = x /\ ds[i].prefix = q
      BY <1>3
    <3>1. PICK d \in D : d.router = x /\ d.prefix = q
      OBVIOUS
    <3>2. PICK i \in 1 .. N : ds[i] = d
      BY <1>1
    <3> QED
      BY <1>1, <3>1, <3>2
  <2> QED
    BY <1>1, <1>3, <2>1
<1>5. ASSUME NEW k \in 0 .. N, k \in A, k < N
      PROVE  k + 1 \in A
  <2> DEFINE d == ds[k + 1]
  <2>1. k + 1 \in 1 .. N /\ k + 1 \in 0 .. N
    BY <1>1, <1>5
  <2>2. d \in D /\ d.router \in Routers /\ d.prefix \in AllPrefixes /\ d[side] = e[d.router][d.prefix]
    BY <1>1, <2>1
  <2>3. Sound(g[k]) /\ Done(k)
    BY <1>5
  <2>4. g[k + 1] = Update(g[k], d.router, d.prefix, d[side])
    BY <1>3, <1>5
  <2> HIDE DEF d
  <2>5. /\ Sound(g[k + 1])
        /\ \A x \in Routers, q \in AllPrefixes :
             Entry(g[k + 1], x, q) = IF x = d.router /\ q = d.prefix THEN d[side] ELSE Entry(g[k], x, q)
    BY <2>2, <2>3, <2>4, UpdateFacts
  <2>6. Done(k + 1)
    <3> SUFFICES ASSUME NEW x \in Routers, NEW q \in AllPrefixes, Entry(g[k + 1], x, q) # e[x][q]
                 PROVE  \E i \in 1 .. N : i > k + 1 /\ ds[i].router = x /\ ds[i].prefix = q
      OBVIOUS
    <3>1. ~(x = d.router /\ q = d.prefix) /\ Entry(g[k], x, q) # e[x][q]
      BY <2>2, <2>5
    <3>2. PICK i \in 1 .. N : i > k /\ ds[i].router = x /\ ds[i].prefix = q
      BY <2>3, <3>1
    <3>3. i # k + 1
      BY <3>1, <3>2 DEF d
    <3>4. i > k + 1
      BY <1>1, <3>2, <3>3
    <3> QED
      BY <3>2, <3>4
  <2> HIDE DEF Done
  <2> QED
    BY <2>1, <2>5, <2>6
<1> HIDE DEF A
<1>6. \A k \in 0 .. N : k \in A
  BY ONLY <1>1, <1>4, <1>5, UpTo
<1>7. N \in A
  BY <1>1, <1>6
<1>8. Done(N) /\ Sound(g[N])
  BY <1>7 DEF A
<1>9. Says(g[N], e)
  BY <1>1, <1>8 DEF Says
<1> QED
  BY <1>2, <1>8, <1>9

(* The recursive function of Undone is what it is defined to be.           *)
Undoing(g, f, entries, position) ==
  g = [i \in 0 .. position |-> IF i = 0 THEN f ELSE Applied(g[i - 1], entries[position + 1 - i], "old")]

LEMMA UndoingExists ==
  ASSUME NEW f, NEW entries, NEW position \in Nat
  PROVE  \E g : Undoing(g, f, entries, position) /\ Undone(f, entries, position) = g[position]
<1> DEFINE N == position
           Upto(g, k) == g = [i \in 0 .. k |-> IF i = 0 THEN f ELSE Applied(g[i - 1], entries[position + 1 - i], "old")]
           A == {k \in Nat : \E g : Upto(g, k)}
<1> HIDE DEF N
<1>0. N \in Nat
  BY DEF N
<1>1. 0 \in A
  <2> DEFINE g == [i \in 0 .. 0 |-> f]
  <2>1. Upto(g, 0)
    OBVIOUS
  <2> HIDE DEF g
  <2> QED
    BY <2>1
<1>2. ASSUME NEW k \in Nat, k \in A
      PROVE  k + 1 \in A
  <2>1. PICK g : Upto(g, k)
    BY <1>2
  <2> DEFINE h == [i \in 0 .. k + 1 |-> IF i = k + 1 THEN Applied(g[k], entries[position + 1 - (k + 1)], "old") ELSE g[i]]
  <2>2. ASSUME NEW i \in 0 .. k + 1
        PROVE  h[i] = IF i = 0 THEN f ELSE Applied(h[i - 1], entries[position + 1 - i], "old")
    <3>1. CASE i = 0
      BY <2>1, <3>1
    <3>2. CASE i = k + 1
      <4>1. i # 0 /\ i - 1 = k /\ k \in 0 .. k + 1 /\ k # k + 1
        BY <3>2
      <4> QED
        BY <3>2, <4>1
    <3>3. CASE i # 0 /\ i # k + 1
      <4>1. i \in 0 .. k /\ i - 1 \in 0 .. k + 1 /\ i - 1 # k + 1
        BY <3>3
      <4>2. h[i] = g[i] /\ h[i - 1] = g[i - 1]
        BY <3>3, <4>1
      <4>3. g[i] = Applied(g[i - 1], entries[position + 1 - i], "old")
        BY <2>1, <3>3, <4>1
      <4> QED
        BY <3>3, <4>2, <4>3
    <3> QED
      BY <3>1, <3>2, <3>3
  <2>3. h = [i \in 0 .. k + 1 |-> h[i]]
    OBVIOUS
  <2> HIDE DEF h
  <2>4. Upto(h, k + 1)
    BY <2>2, <2>3
  <2> QED
    BY <2>4
<1>3. N \in A
  <2>1. \A k \in 0 .. N : k \in A /\ k < N => k + 1 \in A
    BY <1>2
  <2> HIDE DEF A
  <2>2. \A k \in 0 .. N : k \in A
    BY ONLY <1>0, <1>1, <2>1, UpTo
  <2> QED
    BY <1>0, <2>2
<1>4. PICK c0 : Upto(c0, N)
  BY <1>3
<1> DEFINE c == CHOOSE g : Upto(g, N)
<1>5. Upto(c, N)
  BY <1>4
<1>6. Undone(f, entries, position) = c[N]
  BY DEF Undone, N
<1> HIDE DEF c
<1>7. Undoing(c, f, entries, position)
  BY <1>5 DEF Undoing, N
<1> QED
  BY <1>6, <1>7 DEF N
-----------------------------------------------------------------------------
(* What a recording remembers of the tables: the entries with next hops.   *)
HopLists == Seq(Routers \cup {Dst})
Tabulars == [Routers -> PrefixMaps(HopLists \ {<< >>})]

Full(h) ==
  [r \in Routers |-> [p \in AllPrefixes |-> IF p \in DOMAIN h[r] THEN h[r][p] ELSE << >>]]

LEMMA FullEntries ==
  ASSUME NEW f, Shaped(f), NEW r \in Routers, NEW p \in AllPrefixes
  PROVE  Full(Entries(f))[r][p] = Entry(f, r, p)
<1> DEFINE known == {q \in DOMAIN f.state[r] : f.state[r][q] # << >>}
<1>1. Entries(f)[r] = [q \in known |-> f.state[r][q]]
  BY DEF Entries
<1>2. Full(Entries(f))[r][p] = IF p \in known THEN f.state[r][p] ELSE << >>
  BY <1>1 DEF Full
<1> QED
  BY <1>2 DEF Entry

(* Tables are equal if their entries are.                                  *)
LEMMA EntriesEqual ==
  ASSUME NEW f, Shaped(f), NEW h \in Tabulars, Says(f, Full(h))
  PROVE  Entries(f) = h
<1>1. ASSUME NEW r \in Routers
      PROVE  Entries(f)[r] = h[r]
  <2> DEFINE known == {q \in DOMAIN f.state[r] : f.state[r][q] # << >>}
  <2>1. Entries(f)[r] = [q \in known |-> f.state[r][q]]
    BY DEF Entries
  <2>2. PICK K \in SUBSET AllPrefixes : h[r] \in [K -> HopLists \ {<< >>}]
    BY DEF Tabulars, PrefixMaps
  <2>3. \A p \in AllPrefixes : Entry(f, r, p) = IF p \in K THEN h[r][p] ELSE << >>
    BY <2>2 DEF Says, Full
  <2>4. DOMAIN f.state[r] \subseteq AllPrefixes
    BY DEF Shaped
  <2>5. \A p \in K : h[r][p] # << >>
    BY <2>2
  <2>6. known = K
    BY <2>3, <2>4, <2>5 DEF Entry
  <2>7. \A p \in K : f.state[r][p] = h[r][p]
    BY <2>3, <2>6 DEF Entry
  <2> HIDE DEF known
  <2> QED
    BY <2>1, <2>2, <2>6, <2>7
<1>2. Entries(f) = [r \in Routers |-> Entries(f)[r]]
  BY DEF Entries
<1>3. h = [r \in Routers |-> h[r]]
  BY DEF Tabulars
<1> QED
  BY <1>1, <1>2, <1>3

(* What from_net yields.                                                   *)
LEMMA FromNetState ==
  ASSUME NEW n \in Nets, NEW r \in Routers
  PROVE  /\ FromNet(n).state[r] = Table(n, r)
         /\ DOMAIN Table(n, r) = DOMAIN n[r].sr \cup DOMAIN n[r].rib
         /\ DOMAIN Table(n, r) \subseteq AllPrefixes
         /\ \A p \in DOMAIN Table(n, r) :
              /\ Table(n, r)[p] = IF GetNextHop(n, r, p) = << >> /\ Terminal(n, r, p) THEN <<Dst>>
                                  ELSE GetNextHop(n, r, p)
              /\ Table(n, r)[p] \in HopLists
<1>1. FromNet(n).state[r] = Table(n, r)
  BY DEF FromNet
<1>2. DOMAIN Table(n, r) = DOMAIN n[r].sr \cup DOMAIN n[r].rib
  BY DEF Table
<1>3. DOMAIN Table(n, r) \subseteq AllPrefixes
  BY <1>2, TablesTyped DEF Nets
<1>4. ASSUME NEW p \in DOMAIN Table(n, r)
      PROVE  /\ Table(n, r)[p] = IF GetNextHop(n, r, p) = << >> /\ Terminal(n, r, p) THEN <<Dst>>
                                 ELSE GetNextHop(n, r, p)
             /\ Table(n, r)[p] \in HopLists
  <2>1. Table(n, r)[p] = IF GetNextHop(n, r, p) = << >> /\ Terminal(n, r, p) THEN <<Dst>>
                         ELSE GetNextHop(n, r, p)
    BY <1>2 DEF Table
  <2>2. GetNextHop(n, r, p) \in Seq(Routers)
    BY NextHopKnown DEF Nets
  <2>3. GetNextHop(n, r, p) \in HopLists /\ <<Dst>> \in HopLists
    BY <2>2 DEF HopLists
  <2> QED
    BY <2>1, <2>3
<1> QED
  BY <1>1, <1>2, <1>3, <1>4

LEMMA FromNetSound == ASSUME NEW n \in Nets PROVE Sound(FromNet(n))
<1> DEFINE f == FromNet(n)
           used(q) == {p \in AllPrefixes : \E r \in Routers :
                         p \in DOMAIN Table(n, r) /\ q \in ToSet(Table(n, r)[p])}
<1>1. /\ f = [state |-> f.state, reversed |-> f.reversed, cache |-> f.cache]
      /\ f.state = [r \in Routers |-> Table(n, r)]
      /\ f.reversed = [q \in Routers \cup {Dst} |-> [p \in used(q) |->
                         {r \in Routers : p \in DOMAIN Table(n, r) /\ q \in ToSet(Table(n, r)[p])}]]
  <2> DEFINE s == [r \in Routers |-> Table(n, r)]
             u(q) == {p \in AllPrefixes : \E r \in Routers : p \in DOMAIN s[r] /\ q \in ToSet(s[r][p])}
             v == [q \in Routers \cup {Dst} |-> [p \in u(q) |->
                     {r \in Routers : p \in DOMAIN s[r] /\ q \in ToSet(s[r][p])}]]
  <2>1. f = [state |-> s, reversed |-> v, cache |-> << >>]
    BY DEF FromNet
  <2>2. v = [q \in Routers \cup {Dst} |-> [p \in used(q) |->
              {r \in Routers : p \in DOMAIN Table(n, r) /\ q \in ToSet(Table(n, r)[p])}]]
    BY Zenon
  <2> HIDE DEF v, f
  <2>3. f.state = s /\ f.reversed = v /\ f.cache = << >>
    BY <2>1
  <2> QED
    BY <2>1, <2>2, <2>3
<1> HIDE DEF f
<1>2. \A r \in Routers : /\ Table(n, r) = [p \in DOMAIN Table(n, r) |-> Table(n, r)[p]]
                         /\ DOMAIN Table(n, r) \subseteq AllPrefixes
  BY FromNetState DEF Table
<1>3. Shaped(f)
  BY <1>1, <1>2 DEF Shaped
<1>4. ASSUME NEW q \in Routers \cup {Dst}, NEW p \in AllPrefixes
      PROVE  Feeders(f, q, p) = {r \in Routers : q \in ToSet(Entry(f, r, p))}
  <2> DEFINE feed == {r \in Routers : p \in DOMAIN Table(n, r) /\ q \in ToSet(Table(n, r)[p])}
  <2>1. ToSet(<< >>) = {}
    BY DEF ToSet
  <2>2. feed = {r \in Routers : q \in ToSet(Entry(f, r, p))}
    BY <1>1, <2>1 DEF Entry
  <2>3. DOMAIN f.reversed[q] = used(q) /\ (p \in used(q) => f.reversed[q][p] = feed)
    BY <1>1
  <2>4. p \notin used(q) => feed = {}
    OBVIOUS
  <2> HIDE DEF feed, used
  <2>5. Feeders(f, q, p) = feed
    BY <2>3, <2>4 DEF Feeders
  <2> QED
    BY <2>2, <2>5
<1> QED
  BY <1>3, <1>4 DEF Sound, Reversed, f

(* The entries of a router are its own business.                           *)
LEMMA FromNetLocal ==
  ASSUME NEW n \in Nets, NEW m \in Nets, NEW r \in Routers, n[r] = m[r], NEW p \in AllPrefixes
  PROVE  Entry(FromNet(n), r, p) = Entry(FromNet(m), r, p)
<1>1. \A q : GetNextHop(n, r, q) = GetNextHop(m, r, q) /\ (Terminal(n, r, q) <=> Terminal(m, r, q))
  BY DEF GetNextHop, Terminal
<1>2. DOMAIN Table(n, r) = DOMAIN Table(m, r)
  BY FromNetState
<1>3. ASSUME NEW q \in DOMAIN Table(n, r)
      PROVE  Table(n, r)[q] = Table(m, r)[q]
  <2>1. q \in DOMAIN Table(m, r)
    BY <1>2
  <2>2. /\ Table(n, r)[q] = IF GetNextHop(n, r, q) = << >> /\ Terminal(n, r, q) THEN <<Dst>>
                            ELSE GetNextHop(n, r, q)
        /\ Table(m, r)[q] = IF GetNextHop(m, r, q) = << >> /\ Terminal(m, r, q) THEN <<Dst>>
                            ELSE GetNextHop(m, r, q)
    BY <2>1, FromNetState
  <2> QED
    BY <1>1, <2>2
<1> QED
  BY <1>2, <1>3, FromNetState DEF Entry

LEMMA FromNetTabular == ASSUME NEW n \in Nets PROVE Entries(FromNet(n)) \in Tabulars
<1>1. ASSUME NEW r \in Routers
      PROVE  Entries(FromNet(n))[r] \in PrefixMaps(HopLists \ {<< >>})
  <2> DEFINE known == {q \in DOMAIN Table(n, r) : Table(n, r)[q] # << >>}
  <2>1. Entries(FromNet(n))[r] = [q \in known |-> Table(n, r)[q]]
    BY FromNetState DEF Entries
  <2>2. known \in SUBSET AllPrefixes /\ \A q \in known : Table(n, r)[q] \in HopLists \ {<< >>}
    BY FromNetState
  <2> HIDE DEF known
  <2>3. Entries(FromNet(n))[r] \in [known -> HopLists \ {<< >>}]
    BY <2>1, <2>2
  <2> QED
    BY <2>2, <2>3 DEF PrefixMaps
<1>2. Entries(FromNet(n)) = [r \in Routers |-> Entries(FromNet(n))[r]]
  BY DEF Entries
<1> HIDE DEF Tabulars
<1> QED
  BY <1>1, <1>2 DEF Tabulars

LEMMA FromNetSays ==
  ASSUME NEW n \in Nets
  PROVE  Says(FromNet(n), Full(Entries(FromNet(n))))
BY FromNetSound, FullEntries DEF Says, Sound
-----------------------------------------------------------------------------
(* No event concerns a router that may select a route which it originates  *)
(* itself: get_next_hop, whose results a recording stores (record.rs:106), *)
(* does not tell such a router from one that drops the prefix.             *)
Quiet(n) == \A c \in Events : \A p \in DOMAIN n[c.router].rib : ~n[c.router].rib[p].own

Imports(c) == c.type = "bgp" /\ (\E d \in Events : d.router = c.router) =>
                \A x \in c.route : ~x.own

OwnersQuiet ==
  /\ \A n \in Networks : Quiet(n)
  /\ \A c \in Events : Imports(c)
  /\ \A op \in Operations : \A i \in DOMAIN op : Imports(op[i])

(* The networks that are recorded *)
Recordable ==
  {n \in Nets : /\ \A r \in Routers : DOMAIN n[r].sr \cup DOMAIN n[r].rib \subseteq {Single}
                /\ Quiet(n)}

Deltas == [router : Routers, prefix : AllPrefixes, old : HopLists, new : HopLists]

(* The deltas D are the difference between what is known as h and k.       *)
Explains(h, D, k) ==
  /\ \A d \in D : /\ d.old = Full(h)[d.router][d.prefix]
                  /\ d.new = Full(k)[d.router][d.prefix]
  /\ \A r \in Routers, p \in AllPrefixes :
       \/ Full(h)[r][p] = Full(k)[r][p]
       \/ \E d \in D : d.router = r /\ d.prefix = p

(* A recording: every entry is the difference of two states of the history *)
Recording ==
  /\ trace \in Seq(SUBSET Deltas) /\ history \in Seq(Tabulars)
  /\ Len(history) = Len(trace) + 1
  /\ \A i \in 1 .. Len(trace) : IsFiniteSet(trace[i]) /\ Explains(history[i], trace[i], history[i + 1])
  /\ pointer \in 0 .. Len(trace)
  /\ Says(fs, Full(history[pointer + 1]))

(* The inductive invariant: the forwarding state is its own reverse, and   *)
(* says what the network does, or what the history says at the position.   *)
Following ==
  /\ net \in Nets
  /\ phase \in {"live", "recording", "replay", "released"}
  /\ Sound(fs)
  /\ phase = "live" => pointer = 0 /\ Says(fs, Full(Entries(FromNet(net))))
  /\ phase # "live" => Recording
  /\ phase = "recording" => /\ net \in Recordable /\ pointer = 0
                            /\ history[Len(history)] = Entries(FromNet(net))

LEMMA RecordableEdits ==
  ASSUME NEW n \in Recordable, NEW c \in Edits, c.prefix = Single, Imports(c)
  PROVE  Apply(n, c) \in Recordable
<1> DEFINE m == Apply(n, c)
<1>0. n \in Nets /\ c.router \in Routers
  BY EditCases DEF Recordable
<1>1. /\ m \in Nets
      /\ \A r \in Routers \ {c.router} : m[r] = n[r]
      /\ m[c.router].sr = IF c.type = "static" THEN Set(n[c.router].sr, c.prefix, c.route)
                          ELSE n[c.router].sr
      /\ m[c.router].rib = IF c.type = "bgp" THEN Set(n[c.router].rib, c.prefix, c.route)
                           ELSE n[c.router].rib
  BY <1>0, ApplyFacts
<1> HIDE DEF m
<1>2. ASSUME NEW r \in Routers
      PROVE  DOMAIN m[r].sr \cup DOMAIN m[r].rib \subseteq {Single}
  <2>1. DOMAIN n[r].sr \subseteq {Single} /\ DOMAIN n[r].rib \subseteq {Single}
    BY DEF Recordable
  <2>2. CASE r = c.router
    <3>0. /\ DOMAIN Set(n[r].sr, c.prefix, c.route) \subseteq DOMAIN n[r].sr \cup {c.prefix}
          /\ DOMAIN Set(n[r].rib, c.prefix, c.route) \subseteq DOMAIN n[r].rib \cup {c.prefix}
      BY DEF Set, Put, Without
    <3>1. DOMAIN m[r].sr \subseteq {Single}
      BY <1>1, <2>1, <2>2, <3>0
    <3>2. DOMAIN m[r].rib \subseteq {Single}
      BY <1>1, <2>1, <2>2, <3>0
    <3> QED
      BY <3>1, <3>2
  <2>3. CASE r # c.router
    BY <1>1, <2>1, <2>3
  <2> QED
    BY <2>2, <2>3
<1>3. ASSUME NEW d \in Events, NEW p \in DOMAIN m[d.router].rib
      PROVE  ~m[d.router].rib[p].own
  <2>0. d.router \in Routers
    BY EditCases, NetworkAssumption
  <2>1. \A q \in DOMAIN n[d.router].rib : ~n[d.router].rib[q].own
    BY DEF Recordable, Quiet
  <2>2. CASE d.router = c.router /\ c.type = "bgp"
    <3>1. \A x \in c.route : ~x.own
      BY <2>2 DEF Imports
    <3>2. IF p = c.prefix THEN m[c.router].rib[p] \in c.route
          ELSE p \in DOMAIN n[c.router].rib /\ m[c.router].rib[p] = n[c.router].rib[p]
      <4>1. m[c.router].rib = Set(n[c.router].rib, c.prefix, c.route) /\ p \in DOMAIN m[c.router].rib
        BY <1>1, <2>2
      <4>2. \A q \in DOMAIN Set(n[c.router].rib, c.prefix, c.route) :
              IF q = c.prefix THEN Set(n[c.router].rib, c.prefix, c.route)[q] \in c.route
              ELSE /\ q \in DOMAIN n[c.router].rib
                   /\ Set(n[c.router].rib, c.prefix, c.route)[q] = n[c.router].rib[q]
        BY DEF Set, Put, Without
      <4> QED
        BY <4>1, <4>2
    <3> QED
      BY <2>1, <2>2, <3>1, <3>2
  <2>3. CASE ~(d.router = c.router /\ c.type = "bgp")
    <3>1. m[d.router].rib = n[d.router].rib
      BY <1>1, <2>0, <2>3
    <3> QED
      BY <2>1, <3>1
  <2> QED
    BY <2>2, <2>3
<1> QED
  BY <1>1, <1>2, <1>3 DEF Recordable, Quiet, m

LEMMA NetworksRecordable == OwnersQuiet => Networks \subseteq Recordable
BY NetworkAssumption, SinglePrefixAssumption DEF OwnersQuiet, Recordable, Nets

LEMMA OperationsRecordable ==
  ASSUME OwnersQuiet, NEW n \in Networks, NEW op \in Operations
  PROVE  ApplyAll(n, op) \in Recordable
<1>1. op \in Seq(Edits) /\ \A i \in DOMAIN op : op[i].prefix = Single /\ Imports(op[i])
  BY NetworkAssumption, SinglePrefixAssumption DEF OwnersQuiet
<1>2. \A i \in DOMAIN op : op[i] \in Edits
  BY <1>1
<1>3. \A i \in DOMAIN op : \A m \in Recordable : Apply(m, op[i]) \in Recordable
  BY <1>1, <1>2, RecordableEdits
<1>4. n \in Recordable
  BY NetworksRecordable
<1> QED
  BY <1>1, <1>3, <1>4, EditsKeep

(* Of a network with one prefix, no router has another entry.              *)
LEMMA OnlyOneEntry ==
  ASSUME NEW n \in Recordable, NEW r \in Routers, NEW p \in AllPrefixes, p # Single
  PROVE  Entry(FromNet(n), r, p) = << >>
<1>1. n \in Nets /\ DOMAIN n[r].sr \cup DOMAIN n[r].rib \subseteq {Single}
  BY DEF Recordable
<1> QED
  BY <1>1, FromNetState DEF Entry

(* What a recording stores of a router that events concern is its entry.   *)
LEMMA EntryIsNextHop ==
  ASSUME NEW n \in Recordable, NEW c \in Events
  PROVE  GetNextHop(n, c.router, Single) = Entry(FromNet(n), c.router, Single)
<1> DEFINE r == c.router
           x == n[r]
<1>0. r \in Routers /\ Single \in AllPrefixes
  BY EditCases, NetworkAssumption, SinglePrefixAssumption
<1>1. /\ n \in Nets /\ x \in RouterTables
      /\ DOMAIN x.sr \subseteq {Single} /\ DOMAIN x.rib \subseteq {Single}
      /\ \A p \in DOMAIN x.rib : ~x.rib[p].own
  BY <1>0 DEF Recordable, Quiet, Nets
<1>2. ~Terminal(n, r, Single)
  <2> SUFFICES ASSUME Terminal(n, r, Single) PROVE FALSE
    OBVIOUS
  <2> DEFINE bgp == Longest(x.rib, Single)
  <2>1. bgp # {} /\ At(x.rib, bgp, Drop) = Route(r, TRUE)
    BY DEF Terminal
  <2>2. bgp \subseteq DOMAIN x.rib /\ \A q \in bgp : bgp = {q}
    BY <1>0, <1>1, TablesTyped, LongestOne
  <2> HIDE DEF bgp
  <2>3. PICK q \in DOMAIN x.rib : bgp = {q}
    BY <2>1, <2>2
  <2>4. x.rib[q] = Route(r, TRUE)
    BY <2>1, <2>3, AtOne
  <2>5. x.rib[q].own = TRUE
    BY <2>4 DEF Route
  <2> QED
    BY <1>1, <2>5
<1>3. CASE Single \in DOMAIN x.sr \cup DOMAIN x.rib
  <2>1. Single \in DOMAIN Table(n, r) /\ FromNet(n).state[r] = Table(n, r)
    BY <1>0, <1>1, <1>3, FromNetState
  <2>2. Table(n, r)[Single] = GetNextHop(n, r, Single)
    BY <1>0, <1>1, <1>2, <2>1, FromNetState
  <2> QED
    BY <2>1, <2>2 DEF Entry
<1>4. CASE Single \notin DOMAIN x.sr \cup DOMAIN x.rib
  <2>1. DOMAIN x.sr = {} /\ DOMAIN x.rib = {}
    BY <1>1, <1>4
  <2>2. Longest(x.sr, Single) = {} /\ Longest(x.rib, Single) = {}
    BY <2>1 DEF Longest
  <2>3. Target(x, Single) = Drop
    BY <2>2 DEF Target
  <2>4. NextHopsTo(r, Drop) = << >>
    <3>1. Drop.kind = "Drop"
      BY DEF Drop
    <3>2. Drop.kind # "Direct" /\ Drop.kind # "Indirect"
      BY <3>1
    <3> HIDE DEF Drop
    <3> QED
      BY <3>2, Zenon DEF NextHopsTo
  <2>5. GetNextHop(n, r, Single) = << >>
    BY <2>3, <2>4 DEF GetNextHop
  <2>6. Entry(FromNet(n), r, Single) = << >>
    BY <1>0, <1>1, <1>4, FromNetState DEF Entry
  <2> QED
    BY <2>5, <2>6
<1> QED
  BY <1>3, <1>4

(* An event changes the entry that it records, and no other.               *)
LEMMA EventEntries ==
  ASSUME NEW n \in Recordable, NEW c \in Events, NEW m \in Recordable, m = Apply(n, c),
         NEW r \in Routers, NEW p \in AllPrefixes, ~(r = c.router /\ p = Single)
  PROVE  Entry(FromNet(n), r, p) = Entry(FromNet(m), r, p)
<1>0. c \in Edits /\ n \in Nets /\ m \in Nets
  BY NetworkAssumption DEF Recordable
<1>1. CASE r = c.router
  BY <1>1, OnlyOneEntry
<1>2. CASE r # c.router
  <2>1. m[r] = n[r]
    BY <1>0, <1>2, ApplyFacts
  <2> QED
    BY <1>0, <2>1, FromNetLocal
<1> QED
  BY <1>1, <1>2
-----------------------------------------------------------------------------
LEMMA FollowingInit == Init => Following
<1> SUFFICES ASSUME Init PROVE Following
  OBVIOUS
<1>1. net \in Nets /\ fs = FromNet(net) /\ phase = "live" /\ pointer = 0
  BY NetTypedInit DEF Init
<1>2. Sound(fs) /\ Says(fs, Full(Entries(FromNet(net))))
  BY <1>1, FromNetSound, FromNetSays
<1> QED
  BY <1>1, <1>2 DEF Following

LEMMA FollowKeeps ==
  ASSUME Following, NEW c \in Changes, Follow(c)
  PROVE  Following'
<1> DEFINE new == FromNet(net')
           D == {[router |-> c.router, prefix |-> p, new |-> Entry(new, c.router, p)] : p \in AllPrefixes}
           e == Full(Entries(new))
<1>1. /\ c \in Edits /\ c.router \in Routers
      /\ net \in Nets /\ Sound(fs) /\ pointer = 0 /\ Says(fs, Full(Entries(FromNet(net))))
      /\ phase = "live" /\ phase' = "live" /\ pointer' = pointer
      /\ net' = Apply(net, c) /\ fs' = Applied(fs, D, "new")
  BY EditCases, NetworkAssumption DEF Follow, Following
<1>2. net' \in Nets
  BY <1>1, ApplyFacts
<1>3. Shaped(new) /\ Shaped(FromNet(net))
  BY <1>1, <1>2, FromNetSound DEF Sound
<1>4. \A r \in Routers, p \in AllPrefixes : e[r][p] = Entry(new, r, p)
  BY <1>3, FullEntries
<1>5. IsFiniteSet(D)
  <2> DEFINE b == [p \in AllPrefixes |-> [router |-> c.router, prefix |-> p, new |-> Entry(new, c.router, p)]]
  <2>1. b \in Surjection(AllPrefixes, D)
    BY DEF Surjection
  <2> HIDE DEF b, D
  <2> QED
    BY <2>1, FS_Surjection, ForwardingAssumption
<1>6. \A d \in D : /\ d.router \in Routers /\ d.prefix \in AllPrefixes
                   /\ d["new"] = e[d.router][d.prefix]
  <2> HIDE DEF e, new
  <2> QED
    BY <1>1, <1>4
<1>7. ASSUME NEW r \in Routers, NEW p \in AllPrefixes
      PROVE  Entry(fs, r, p) = e[r][p] \/ \E d \in D : d.router = r /\ d.prefix = p
  <2>1. CASE r = c.router
    <3> DEFINE d == [router |-> c.router, prefix |-> p, new |-> Entry(new, c.router, p)]
    <3>1. d \in D /\ d.router = r /\ d.prefix = p
      BY <2>1
    <3> QED
      BY <3>1
  <2>2. CASE r # c.router
    <3>1. net'[r] = net[r]
      BY <1>1, <2>2, ApplyFacts
    <3>2. Entry(FromNet(net), r, p) = Entry(new, r, p)
      BY <1>1, <1>2, <3>1, FromNetLocal
    <3>3. Entry(fs, r, p) = Entry(FromNet(net), r, p)
      BY <1>1, <1>3, FullEntries DEF Says
    <3> QED
      BY <1>4, <3>2, <3>3
  <2> QED
    BY <2>1, <2>2
<1> HIDE DEF D, e
<1>8. Sound(Applied(fs, D, "new")) /\ Says(Applied(fs, D, "new"), e)
  BY ONLY <1>1, <1>5, <1>6, <1>7, AppliedFacts
<1>9. Sound(fs') /\ Says(fs', e)
  BY <1>1, <1>8
<1> QED
  BY <1>1, <1>2, <1>9 DEF Following, e, Sound, Shaped, Reversed, Says

LEMMA RecordKeeps ==
  ASSUME OwnersQuiet, Following, NEW op \in Operations, Record(op)
  PROVE  Following'
<1> DEFINE before == FromNet(net)
           after == FromNet(net')
           D == Diff(before, after, Single)
<1>1. /\ net \in Networks /\ net' = ApplyAll(net, op)
      /\ fs' = before /\ trace' = <<D>>
      /\ history' = <<Entries(before), Entries(after)>>
      /\ phase' = "recording" /\ pointer' = pointer /\ pointer = 0
  BY DEF Record, Following
<1>2. net \in Recordable /\ net' \in Recordable /\ Single \in AllPrefixes
  BY <1>1, NetworksRecordable, OperationsRecordable, SinglePrefixAssumption
<1>3. net \in Nets /\ net' \in Nets
  BY <1>2 DEF Recordable
<1>4. Sound(before) /\ Sound(after) /\ Entries(before) \in Tabulars /\ Entries(after) \in Tabulars
  BY <1>3, FromNetSound, FromNetTabular
<1>5. \A r \in Routers, p \in AllPrefixes :
        /\ Full(Entries(before))[r][p] = Entry(before, r, p)
        /\ Full(Entries(after))[r][p] = Entry(after, r, p)
  BY <1>4, FullEntries DEF Sound
<1>6. \A r \in Routers : Entry(before, r, Single) \in HopLists /\ Entry(after, r, Single) \in HopLists
  <2>1. << >> \in HopLists
    BY DEF HopLists
  <2> QED
    BY <1>3, <2>1, FromNetState DEF Entry
<1> HIDE DEF before, after
<1>7. D \in SUBSET Deltas
  BY <1>2, <1>6 DEF Diff, Deltas
<1>8. IsFiniteSet(D)
  <2> DEFINE R == {q \in Routers : Entry(before, q, Single) # Entry(after, q, Single)}
             b == [r \in R |-> [router |-> r, prefix |-> Single, old |-> Entry(before, r, Single),
                                new |-> Entry(after, r, Single)]]
  <2>1. b \in Surjection(R, D)
    BY DEF Surjection, Diff
  <2>2. IsFiniteSet(R)
    BY FS_Subset, ForwardingAssumption
  <2> HIDE DEF R, b, D
  <2> QED
    BY <2>1, <2>2, FS_Surjection
<1>9. Explains(Entries(before), D, Entries(after))
  <2>1. ASSUME NEW d \in D
        PROVE  /\ d.old = Full(Entries(before))[d.router][d.prefix]
               /\ d.new = Full(Entries(after))[d.router][d.prefix]
    <3>1. PICK r \in Routers : d = [router |-> r, prefix |-> Single, old |-> Entry(before, r, Single),
                                   new |-> Entry(after, r, Single)]
      BY DEF Diff
    <3> QED
      BY <1>2, <1>5, <3>1
  <2>2. ASSUME NEW r \in Routers, NEW p \in AllPrefixes
        PROVE  \/ Full(Entries(before))[r][p] = Full(Entries(after))[r][p]
               \/ \E d \in D : d.router = r /\ d.prefix = p
    <3>1. CASE p # Single
      BY <1>2, <1>5, <3>1, OnlyOneEntry DEF before, after
    <3>2. CASE p = Single /\ Entry(before, r, p) = Entry(after, r, p)
      BY <1>5, <3>2
    <3>3. CASE p = Single /\ Entry(before, r, p) # Entry(after, r, p)
      <4> DEFINE d == [router |-> r, prefix |-> Single, old |-> Entry(before, r, Single),
                       new |-> Entry(after, r, Single)]
      <4>1. d \in D /\ d.router = r /\ d.prefix = p
        BY <3>3 DEF Diff
      <4> QED
        BY <4>1
    <3> QED
      BY <3>1, <3>2, <3>3
  <2> QED
    BY <2>1, <2>2 DEF Explains
<1> HIDE DEF D
<1>10. Says(before, Full(Entries(before)))
  BY <1>5 DEF Says
<1>11. /\ trace' \in Seq(SUBSET Deltas) /\ history' \in Seq(Tabulars)
       /\ Len(trace') = 1 /\ Len(history') = 2 /\ trace'[1] = D
       /\ history'[1] = Entries(before) /\ history'[2] = Entries(after)
  BY <1>1, <1>4, <1>7
<1>12. Recording'
  <2>1. \A i \in 1 .. Len(trace') :
          IsFiniteSet(trace'[i]) /\ Explains(history'[i], trace'[i], history'[i + 1])
    <3> SUFFICES ASSUME NEW i \in 1 .. Len(trace')
                 PROVE  IsFiniteSet(trace'[i]) /\ Explains(history'[i], trace'[i], history'[i + 1])
      OBVIOUS
    <3>1. i = 1 /\ i + 1 = 2
      BY <1>11
    <3> QED
      BY <1>8, <1>9, <1>11, <3>1
  <2>2. pointer' \in 0 .. Len(trace') /\ Len(history') = Len(trace') + 1 /\ pointer' + 1 = 1
    BY <1>1, <1>11
  <2>3. Says(fs', Full(history'[pointer' + 1]))
    BY <1>1, <1>10, <1>11, <2>2
  <2> QED
    BY <1>11, <2>1, <2>2, <2>3 DEF Recording, Says, Entry
<1>13. Sound(fs')
  BY <1>1, <1>4
<1> QED
  BY <1>1, <1>2, <1>3, <1>11, <1>12, <1>13 DEF Following, after, Sound, Shaped, Reversed

LEMMA HandleEventKeeps ==
  ASSUME OwnersQuiet, Following, NEW c \in Events, HandleEvent(c)
  PROVE  Following'
<1> DEFINE r0 == c.router
           before == FromNet(net)
           after == FromNet(net')
           old == GetNextHop(net, r0, Single)
           new == GetNextHop(net', r0, Single)
           d == [router |-> r0, prefix |-> Single, old |-> old, new |-> new]
           L == Len(history)
<1>1. /\ c \in Edits /\ r0 \in Routers /\ c.prefix = Single /\ Single \in AllPrefixes /\ Imports(c)
      /\ phase = "recording" /\ phase' = "recording" /\ pointer' = pointer /\ pointer = 0 /\ fs' = fs
      /\ Sound(fs) /\ net \in Recordable /\ net' = Apply(net, c)
      /\ Recording /\ history[Len(history)] = Entries(before)
  BY EditCases, NetworkAssumption, SinglePrefixAssumption DEF HandleEvent, Following, OwnersQuiet
<1>2. net' \in Recordable /\ net \in Nets /\ net' \in Nets
  BY <1>1, RecordableEdits DEF Recordable
<1>3. Sound(before) /\ Sound(after) /\ Entries(before) \in Tabulars /\ Entries(after) \in Tabulars
  BY <1>2, FromNetSound, FromNetTabular
<1>4. \A r \in Routers, p \in AllPrefixes :
        /\ Full(Entries(before))[r][p] = Entry(before, r, p)
        /\ Full(Entries(after))[r][p] = Entry(after, r, p)
  BY <1>3, FullEntries DEF Sound
<1>5. old = Entry(before, r0, Single) /\ new = Entry(after, r0, Single)
  BY <1>1, <1>2, EntryIsNextHop
<1>6. \A r \in Routers, p \in AllPrefixes :
        ~(r = r0 /\ p = Single) => Entry(before, r, p) = Entry(after, r, p)
  BY <1>1, <1>2, EventEntries
<1>7. /\ trace \in Seq(SUBSET Deltas) /\ history \in Seq(Tabulars)
      /\ Len(history) = Len(trace) + 1 /\ Len(trace) \in Nat /\ L \in 1 .. L
      /\ \A i \in 1 .. Len(trace) : IsFiniteSet(trace[i]) /\ Explains(history[i], trace[i], history[i + 1])
      /\ Says(fs, Full(history[1]))
  BY <1>1 DEF Recording
<1>8. IF old = new THEN history' = [history EXCEPT ![Len(history)] = Entries(after)] /\ trace' = trace
      ELSE trace' = Append(trace, {d}) /\ history' = Append(history, Entries(after))
  BY <1>1 DEF HandleEvent
<1>9. old \in HopLists /\ new \in HopLists
  BY <1>1, <1>2, NextHopKnown DEF HopLists, Nets
<1> HIDE DEF before, after, old, new, L
<1>10. CASE old = new
  <2>1. \A r \in Routers, p \in AllPrefixes : Entry(after, r, p) = Full(Entries(before))[r][p]
    BY <1>4, <1>5, <1>6, <1>10
  <2>2. Entries(after) = Entries(before)
    BY <1>3, <2>1, EntriesEqual DEF Says, Sound
  <2>3. history' = history
    BY <1>1, <1>7, <1>8, <1>10, <2>2 DEF L
  <2>4. trace' = trace /\ history'[Len(history')] = Entries(after)
    BY <1>1, <1>8, <1>10, <2>2, <2>3
  <2> QED
    BY <1>1, <1>2, <2>3, <2>4 DEF Following, Recording, after
<1>11. CASE old # new
  <2>1. {d} \in SUBSET Deltas /\ IsFiniteSet({d})
    <3>1. d \in Deltas
      BY <1>1, <1>9 DEF Deltas
    <3> QED
      BY <3>1, FS_Singleton
  <2>2. /\ d \in {d} /\ d.router = r0 /\ d.prefix = Single
        /\ d.old = Entry(before, r0, Single) /\ d.new = Entry(after, r0, Single)
    BY <1>5
  <2> DEFINE D == {d}
             N == Len(trace)
  <2>3. Explains(Entries(before), D, Entries(after))
    <3>1. \A x \in D : /\ x.old = Full(Entries(before))[x.router][x.prefix]
                       /\ x.new = Full(Entries(after))[x.router][x.prefix]
      <4> HIDE DEF d
      <4> QED
        BY <1>1, <1>4, <2>2
    <3>2. ASSUME NEW r \in Routers, NEW p \in AllPrefixes
          PROVE  \/ Full(Entries(before))[r][p] = Full(Entries(after))[r][p]
                 \/ \E x \in D : x.router = r /\ x.prefix = p
      <4> HIDE DEF d
      <4> QED
        BY <1>4, <1>6, <2>2
    <3> QED
      BY <3>1, <3>2 DEF Explains
  <2>4. D \in SUBSET Deltas /\ IsFiniteSet(D) /\ N \in Nat /\ L = N + 1
    BY <1>7, <2>1 DEF L
  <2> HIDE DEF D, d
  <2>5. trace' = Append(trace, D) /\ history' = Append(history, Entries(after))
    BY <1>8, <1>11 DEF D
  <2>6. /\ trace' \in Seq(SUBSET Deltas) /\ Len(trace') = N + 1
        /\ trace'[N + 1] = D /\ \A i \in 1 .. N : trace'[i] = trace[i]
    BY <1>7, <2>4, <2>5
  <2>7. /\ history' \in Seq(Tabulars) /\ Len(history') = L + 1
        /\ history'[L + 1] = Entries(after) /\ \A i \in 1 .. L : history'[i] = history[i]
    BY <1>3, <1>7, <2>4, <2>5 DEF L
  <2>8. ASSUME NEW i \in 1 .. Len(trace')
        PROVE  IsFiniteSet(trace'[i]) /\ Explains(history'[i], trace'[i], history'[i + 1])
    <3>1. CASE i = N + 1
      <4>1. history'[i] = Entries(before) /\ history'[i + 1] = Entries(after) /\ trace'[i] = D
        BY <1>1, <2>4, <2>6, <2>7, <3>1 DEF L
      <4> QED
        BY <2>3, <2>4, <4>1
    <3>2. CASE i # N + 1
      <4>1. i \in 1 .. N /\ i \in 1 .. L /\ i + 1 \in 1 .. L
        BY <2>4, <2>6, <3>2
      <4> QED
        BY <1>7, <2>6, <2>7, <4>1
    <3> QED
      BY <3>1, <3>2
  <2>9. pointer' \in 0 .. Len(trace') /\ pointer' + 1 = 1 /\ Len(history') = Len(trace') + 1
        /\ history'[1] = history[1]
    BY <1>1, <2>4, <2>6, <2>7
  <2>10. Says(fs', Full(history'[pointer' + 1]))
    BY <1>1, <1>7, <2>9
  <2>11. Recording'
    BY <2>6, <2>7, <2>8, <2>9, <2>10 DEF Recording, Says, Entry
  <2>12. history'[Len(history')] = Entries(after)
    BY <2>4, <2>7
  <2> QED
    BY <1>1, <1>2, <2>11, <2>12 DEF Following, after
<1> QED
  BY <1>10, <1>11

(* One step of a replay: from one state of the history to the next, or     *)
(* back to the one before.                                                 *)
LEMMA Steps ==
  ASSUME NEW f, Sound(f), NEW h, NEW k, NEW D \in SUBSET Deltas, IsFiniteSet(D), Explains(h, D, k)
  PROVE  /\ Says(f, Full(h)) => /\ Sound(Applied(f, D, "new"))
                                /\ Says(Applied(f, D, "new"), Full(k))
         /\ Says(f, Full(k)) => /\ Sound(Applied(f, D, "old"))
                                /\ Says(Applied(f, D, "old"), Full(h))
<1> DEFINE H == Full(h)
           K == Full(k)
<1>1. \A d \in D : /\ d.router \in Routers /\ d.prefix \in AllPrefixes
                   /\ d["new"] = K[d.router][d.prefix] /\ d["old"] = H[d.router][d.prefix]
  BY DEF Explains, Deltas
<1>2. \A r \in Routers, p \in AllPrefixes :
        H[r][p] = K[r][p] \/ \E d \in D : d.router = r /\ d.prefix = p
  BY DEF Explains
<1> HIDE DEF H, K
<1>3. ASSUME Says(f, H)
      PROVE  Sound(Applied(f, D, "new")) /\ Says(Applied(f, D, "new"), K)
  <2>1. \A r \in Routers, p \in AllPrefixes :
          Entry(f, r, p) = K[r][p] \/ \E d \in D : d.router = r /\ d.prefix = p
    BY <1>2, <1>3 DEF Says
  <2>2. IsFiniteSet(D) /\ Sound(f)
    OBVIOUS
  <2>3. \A d \in D : /\ d.router \in Routers /\ d.prefix \in AllPrefixes
                     /\ d["new"] = K[d.router][d.prefix]
    BY <1>1
  <2> QED
    BY ONLY <2>1, <2>2, <2>3, AppliedFacts
<1>4. ASSUME Says(f, K)
      PROVE  Sound(Applied(f, D, "old")) /\ Says(Applied(f, D, "old"), H)
  <2>1. \A r \in Routers, p \in AllPrefixes :
          Entry(f, r, p) = H[r][p] \/ \E d \in D : d.router = r /\ d.prefix = p
    BY <1>2, <1>4 DEF Says
  <2>2. IsFiniteSet(D) /\ Sound(f)
    OBVIOUS
  <2>3. \A d \in D : /\ d.router \in Routers /\ d.prefix \in AllPrefixes
                     /\ d["old"] = H[d.router][d.prefix]
    BY <1>1
  <2> QED
    BY ONLY <2>1, <2>2, <2>3, AppliedFacts
<1> QED
  BY <1>3, <1>4 DEF H, K

LEMMA RecordingFacts ==
  ASSUME Recording
  PROVE  /\ pointer \in Nat /\ Len(trace) \in Nat /\ pointer <= Len(trace)
         /\ \A i \in 1 .. Len(trace) : /\ trace[i] \in SUBSET Deltas /\ IsFiniteSet(trace[i])
                                       /\ Explains(history[i], trace[i], history[i + 1])
BY DEF Recording

LEMMA StepForwardKeeps ==
  ASSUME Following, StepForward
  PROVE  Following'
<1> DEFINE D == trace[pointer + 1]
<1>1. /\ phase = "replay" /\ phase' = "replay" /\ pointer' = pointer + 1 /\ pointer < Len(trace)
      /\ trace' = trace /\ history' = history /\ net' = net
      /\ net \in Nets /\ Sound(fs) /\ Recording
      /\ fs' = Applied(fs, D, "new")
  BY DEF StepForward, Following
<1>2. pointer + 1 \in 1 .. Len(trace)
  BY <1>1, RecordingFacts
<1>3. D \in SUBSET Deltas /\ IsFiniteSet(D) /\ Explains(history[pointer + 1], D, history[pointer + 2])
  <2>1. pointer + 1 + 1 = pointer + 2
    BY <1>1, RecordingFacts
  <2> QED
    BY <1>1, <1>2, <2>1, RecordingFacts
<1> HIDE DEF D
<1>4. Says(fs, Full(history[pointer + 1]))
  BY <1>1 DEF Recording
<1>5. Sound(fs') /\ Says(fs', Full(history[pointer + 2]))
  BY <1>1, <1>3, <1>4, Steps
<1>6. Recording'
  <2>1. pointer' \in 0 .. Len(trace') /\ pointer' + 1 = pointer + 2
    BY <1>1, <1>2, RecordingFacts
  <2> QED
    BY <1>1, <1>5, <2>1 DEF Recording, Says, Entry
<1> QED
  BY <1>1, <1>5, <1>6 DEF Following, Sound, Shaped, Reversed

LEMMA BackKeeps ==
  ASSUME Following, Back
  PROVE  Following'
<1> DEFINE D == trace[pointer]
<1>1. /\ phase = "replay" /\ phase' = "replay" /\ pointer' = pointer - 1 /\ pointer > 0
      /\ trace' = trace /\ history' = history /\ net' = net
      /\ net \in Nets /\ Sound(fs) /\ Recording
      /\ fs' = Applied(fs, D, "old")
  BY DEF Back, Following
<1>2. pointer \in 1 .. Len(trace)
  BY <1>1, RecordingFacts
<1>3. D \in SUBSET Deltas /\ IsFiniteSet(D) /\ Explains(history[pointer], D, history[pointer + 1])
  BY <1>1, <1>2, RecordingFacts
<1> HIDE DEF D
<1>4. Says(fs, Full(history[pointer + 1]))
  BY <1>1 DEF Recording
<1>5. Sound(fs') /\ Says(fs', Full(history[pointer]))
  BY <1>1, <1>3, <1>4, Steps
<1>6. Recording'
  <2>1. pointer' \in 0 .. Len(trace') /\ pointer' + 1 = pointer
    BY <1>1, <1>2, RecordingFacts
  <2> QED
    BY <1>1, <1>5, <2>1 DEF Recording, Says, Entry
<1> QED
  BY <1>1, <1>5, <1>6 DEF Following, Sound, Shaped, Reversed

LEMMA IntoInitialKeeps ==
  ASSUME Following, IntoInitial
  PROVE  Following'
<1> DEFINE P == pointer
<1>1. /\ phase = "replay" /\ phase' = "released" /\ pointer' = 0
      /\ trace' = trace /\ history' = history /\ net' = net
      /\ net \in Nets /\ Sound(fs) /\ Recording
      /\ fs' = Undone(fs, trace, P)
  BY DEF IntoInitial, Following
<1>2. P \in Nat /\ Len(trace) \in Nat /\ P <= Len(trace)
  BY <1>1, RecordingFacts
<1>3. PICK g : Undoing(g, fs, trace, P) /\ Undone(fs, trace, P) = g[P]
  BY <1>2, UndoingExists
<1>4. g[0] = fs /\ \A k \in 0 .. P : k < P => g[k + 1] = Applied(g[k], trace[P - k], "old")
  <2>1. DOMAIN g = 0 .. P
        /\ \A i \in 0 .. P : g[i] = IF i = 0 THEN fs ELSE Applied(g[i - 1], trace[P + 1 - i], "old")
    BY <1>3 DEF Undoing
  <2> HIDE DEF P
  <2>2. ASSUME NEW k \in 0 .. P, k < P
        PROVE  g[k + 1] = Applied(g[k], trace[P - k], "old")
    <3>1. k + 1 \in 0 .. P /\ k + 1 # 0 /\ k + 1 - 1 = k /\ P + 1 - (k + 1) = P - k
      BY <1>2, <2>2
    <3> QED
      BY <2>1, <3>1
  <2> QED
    BY <1>2, <2>1, <2>2
<1> DEFINE A == {k \in 0 .. P : Sound(g[k]) /\ Says(g[k], Full(history[P + 1 - k]))}
<1>5. 0 \in A
  <2>1. Says(fs, Full(history[P + 1]))
    BY <1>1 DEF Recording
  <2>2. P + 1 - 0 = P + 1 /\ 0 \in 0 .. P
    BY <1>2
  <2> QED
    BY <1>1, <1>4, <2>1, <2>2
<1>6. ASSUME NEW k \in 0 .. P, k \in A, k < P
      PROVE  k + 1 \in A
  <2> DEFINE D == trace[P - k]
  <2>1. Sound(g[k]) /\ Says(g[k], Full(history[P + 1 - k]))
    BY <1>6
  <2> HIDE DEF P
  <2>2. P - k \in 1 .. Len(trace) /\ P - k + 1 = P + 1 - k /\ P + 1 - (k + 1) = P - k /\ k + 1 \in 0 .. P
    BY <1>2, <1>6
  <2>3. D \in SUBSET Deltas /\ IsFiniteSet(D) /\ Explains(history[P - k], D, history[P + 1 - k])
    BY <1>1, <2>2, RecordingFacts
  <2>4. g[k + 1] = Applied(g[k], D, "old")
    BY <1>4, <1>6
  <2> HIDE DEF D
  <2>5. Sound(g[k + 1]) /\ Says(g[k + 1], Full(history[P - k]))
    BY <2>1, <2>3, <2>4, Steps
  <2> QED
    BY <2>2, <2>5
<1> HIDE DEF A, P
<1>7. \A k \in 0 .. P : k \in A
  BY ONLY <1>2, <1>5, <1>6, UpTo
<1>8. P \in A /\ P + 1 - P = 1
  BY <1>2, <1>7
<1>9. Sound(fs') /\ Says(fs', Full(history[1]))
  BY <1>1, <1>3, <1>8 DEF A
<1>10. Recording'
  <2>1. pointer' \in 0 .. Len(trace') /\ pointer' + 1 = 1
    BY <1>1, <1>2
  <2> QED
    BY <1>1, <1>9, <2>1 DEF Recording, Says, Entry
<1> QED
  BY <1>1, <1>9, <1>10 DEF Following, Sound, Shaped, Reversed

LEMMA AskForPathsKeeps ==
  ASSUME Following, NEW r \in Routers, NEW p \in Queries, AskForPaths(r, p)
  PROVE  Following'
<1>1. /\ fs' = [fs EXCEPT !.cache = Explored(fs, r, p)]
      /\ net' = net /\ trace' = trace /\ pointer' = pointer /\ phase' = phase /\ history' = history
  BY DEF AskForPaths, GetPaths
<1>2. fs = [state |-> fs.state, reversed |-> fs.reversed, cache |-> fs.cache]
  BY DEF Following, Sound, Shaped
<1>3. fs'.state = fs.state /\ fs'.reversed = fs.reversed
      /\ fs' = [state |-> fs'.state, reversed |-> fs'.reversed, cache |-> fs'.cache]
  BY <1>1, <1>2
<1>4. \A x, q : Entry(fs', x, q) = Entry(fs, x, q) /\ Feeders(fs', x, q) = Feeders(fs, x, q)
  BY <1>3 DEF Entry, Feeders
<1>5. Sound(fs')
  <2>1. Shaped(fs) /\ Reversed(fs)
    BY DEF Following, Sound
  <2>2. Shaped(fs')
    BY <1>3, <2>1 DEF Shaped
  <2>3. Reversed(fs')
    BY <1>4, <2>1 DEF Reversed
  <2> QED
    BY <2>2, <2>3 DEF Sound
<1>6. \A e : Says(fs, e) => Says(fs', e)
  BY <1>3 DEF Says, Entry
<1> QED
  BY <1>1, <1>5, <1>6 DEF Following, Recording, Sound, Shaped, Reversed, Says, Entry, Feeders

LEMMA FollowingNext == OwnersQuiet /\ Following /\ [Next]_vars => Following'
<1> SUFFICES ASSUME OwnersQuiet, Following, [Next]_vars PROVE Following'
  OBVIOUS
<1>1. ASSUME UNCHANGED <<net, fs, trace, pointer, history>>
      PROVE  /\ Sound(fs)' <=> Sound(fs)
             /\ Recording' <=> Recording
             /\ Says(fs, Full(Entries(FromNet(net))))' <=> Says(fs, Full(Entries(FromNet(net))))
  <2>1. fs' = fs /\ net' = net /\ pointer' = pointer /\ trace' = trace /\ history' = history
    BY <1>1
  <2>2. Sound(fs)' <=> Sound(fs)
    BY <2>1 DEF Sound, Shaped, Reversed, Feeders, Entry
  <2>3. Says(fs, Full(Entries(FromNet(net))))' <=> Says(fs, Full(Entries(FromNet(net))))
    BY <2>1 DEF Says, Entry
  <2>4. Recording' <=> Recording
    BY <2>1 DEF Recording, Says, Entry
  <2> QED
    BY <2>2, <2>3, <2>4
<1>2. ASSUME Recorded PROVE Following'
  BY <1>1, <1>2 DEF Recorded, Following
<1>3. CASE UNCHANGED vars
  BY <1>1, <1>3 DEF vars, Following
<1> QED
  BY <1>2, <1>3, FollowKeeps, RecordKeeps, HandleEventKeeps, StepForwardKeeps, BackKeeps,
     IntoInitialKeeps, AskForPathsKeeps DEF Next

LEMMA FollowingIsFaithful == Following => StateFaithful
<1> SUFFICES ASSUME Following PROVE StateFaithful
  OBVIOUS
<1>1. Sound(fs) /\ net \in Nets
  BY DEF Following
<1>2. ReversedExact
  <2> SUFFICES ASSUME NEW n \in Routers \cup {Dst}, NEW p \in AllPrefixes
               PROVE  Feeders(fs, n, p) = {r \in Routers : p \in DOMAIN fs.state[r] /\ n \in ToSet(fs.state[r][p])}
    BY DEF ReversedExact
  <2>1. Feeders(fs, n, p) = {r \in Routers : n \in ToSet(Entry(fs, r, p))}
    BY <1>1 DEF Sound, Reversed
  <2>2. ToSet(<< >>) = {}
    BY DEF ToSet
  <2>3. \A r \in Routers : n \in ToSet(Entry(fs, r, p)) <=>
                           p \in DOMAIN fs.state[r] /\ n \in ToSet(fs.state[r][p])
    BY <2>2 DEF Entry
  <2> QED
    BY <2>1, <2>3
<1>3. ASSUME phase = "live"
      PROVE  Entries(fs) = Entries(FromNet(net))
  <2>1. Says(fs, Full(Entries(FromNet(net))))
    BY <1>3 DEF Following
  <2> QED
    BY <1>1, <2>1, EntriesEqual, FromNetTabular DEF Sound
<1>4. ASSUME phase \in {"replay", "released"}
      PROVE  Entries(fs) = history[pointer + 1]
  <2>1. Recording
    BY <1>4 DEF Following
  <2>2. history \in Seq(Tabulars) /\ pointer + 1 \in 1 .. Len(history)
    BY <2>1 DEF Recording
  <2>3. history[pointer + 1] \in Tabulars
    <3> HIDE DEF Tabulars
    <3> QED
      BY <2>2
  <2> QED
    BY <1>1, <2>1, <2>3, EntriesEqual DEF Sound, Recording
<1> QED
  BY <1>2, <1>3, <1>4 DEF StateFaithful

(* StateFaithful, for networks, prefixes, edits and recordings of any      *)
(* size, and whatever exploring paths leaves in the cache: a forwarding    *)
(* state that is updated (forwarding_state.rs:360) is what from_net makes  *)
(* of the network, and a recording (record.rs:157) is at any position what *)
(* the network was then; under the hypothesis that no event concerns a     *)
(* router that originates a route.                                         *)
THEOREM StatesAreFaithful == ASSUME OwnersQuiet PROVE Spec => []StateFaithful
<1>1. Init => Following
  BY FollowingInit
<1>2. Following /\ [Next]_vars => Following'
  BY FollowingNext
<1> QED
  BY <1>1, <1>2, FollowingIsFaithful, PTL DEF Spec
=============================================================================
