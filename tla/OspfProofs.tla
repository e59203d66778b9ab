------------------------------- MODULE OspfProofs -------------------------------
(***************************************************************************)
(* Theorem about local OSPF, for any network, changes and order of the     *)
(* messages: when simulate() has returned, every adjacency is up and no    *)
(* LSA is being flushed.                                                   *)
(***************************************************************************)
EXTENDS OspfProperties, FiniteSetTheorems, NaturalsInduction, WellFoundedInduction,
        TLAPS

IsRaw(m) ==
  /\ m = [kind |-> m.kind, lsas |-> m.lsas]
  /\ m.kind \in Kinds
  /\ m.kind \in Listed => IsSeq(m.lsas) /\ \A i \in 1 .. Len(m.lsas) : IsLsa(m.lsas[i])

IsFlood(f) == f = [lsa |-> f.lsa, area |-> f.area, except |-> f.except] /\ IsLsa(f.lsa)

IsLists(o, id) ==
  /\ IsSeq(o.flood) /\ \A i \in 1 .. Len(o.flood) : IsFlood(o.flood[i])
  /\ IsSeq(o.track) /\ \A i \in 1 .. Len(o.track) : IsTrack(o.track[i], id)

IsEvents(events) ==
  /\ events = [n \in Routers |-> events[n]]
  /\ \A n \in Routers : IsSeq(events[n]) /\ \A i \in 1 .. Len(events[n]) : IsRaw(events[n][i])

(* The outcome of a handler, if T was to be tracked before                 *)
IsOut(o, id, T) ==
  /\ o = [p |-> o.p, events |-> o.events, flood |-> o.flood, track |-> o.track]
  /\ IsProc(o.p, id)
  /\ IsEvents(o.events)
  /\ IsLists(o, id)
  /\ Awaited(o.p.areas, o.p.ext, o.p.track \cup T \cup Elems(o.track))
-----------------------------------------------------------------------------
(* A set of numbers that is not empty has a least one.                     *)
LEMMA NatMinimum ==
  ASSUME NEW T, T \subseteq Nat, T # {}
  PROVE  \E x \in T : \A y \in T : x <= y
<1> DEFINE R == OpToRel(<, Nat)
<1>1. IsWellFoundedOn(R, Nat)
  BY NatLessThanWellFounded
<1> HIDE DEF R
<1>2. PICK x \in T : \A y \in T : ~ (<<y, x>> \in R)
  BY <1>1, WFMin
<1>3. \A i, j \in Nat : i < j => <<i, j>> \in R
  BY DEF R, OpToRel
<1>4. ASSUME NEW y \in T
      PROVE  x <= y
  <2>1. x \in Nat /\ y \in Nat
    OBVIOUS
  <2>2. ~(y < x)
    BY <1>2, <1>3, <2>1
  <2> QED
    BY <2>1, <2>2
<1> QED
  BY <1>4

(* Induction, for a set of numbers.                                        *)
LEMMA UpTo ==
  ASSUME NEW N \in Nat, NEW A, 0 \in A, \A k \in 0 .. N : k \in A /\ k < N => k + 1 \in A
  PROVE  \A k \in 0 .. N : k \in A
<1> DEFINE T == {k \in 0 .. N : k \notin A}
<1> SUFFICES ASSUME T # {} PROVE FALSE
  OBVIOUS
<1>1. PICK k \in T : \A l \in T : k <= l
  <2>1. T \subseteq Nat
    OBVIOUS
  <2> HIDE DEF T
  <2> QED
    BY <2>1, NatMinimum
<1>2. k \in 0 .. N /\ k # 0
  OBVIOUS
<1>3. k - 1 \in 0 .. N /\ k - 1 < N /\ k - 1 \notin T
  BY <1>1, <1>2
<1>4. k - 1 \in A
  BY <1>3
<1>5. k - 1 + 1 \in A
  BY <1>3, <1>4
<1> QED
  BY <1>2, <1>5

(* The last of some positions.                                             *)
LEMMA LastOf ==
  ASSUME NEW N \in Nat, NEW T, T \subseteq 1 .. N, T # {}
  PROVE  \E x \in T : \A y \in T : y <= x
<1> DEFINE U == {N - x : x \in T}
<1>1. U \subseteq Nat /\ U # {}
  <2>1. \A x \in T : x \in 1 .. N
    OBVIOUS
  <2>2. \A x \in 1 .. N : N - x \in Nat
    OBVIOUS
  <2>3. \A x \in T : N - x \in Nat
    BY ONLY <2>1, <2>2
  <2>4. \A z \in U : z \in Nat
    BY ONLY <2>3
  <2>5. PICK x \in T : TRUE
    OBVIOUS
  <2>6. N - x \in U
    OBVIOUS
  <2> HIDE DEF U
  <2> QED
    BY ONLY <2>4, <2>6
<1>2. PICK u \in U : \A v \in U : u <= v
  <2> HIDE DEF U
  <2> QED
    BY <1>1, NatMinimum
<1>3. PICK x \in T : u = N - x
  BY <1>2
<1>4. ASSUME NEW y \in T
      PROVE  y <= x
  <2>1. N - x <= N - y
    BY <1>2, <1>3
  <2>2. x \in 1 .. N /\ y \in 1 .. N
    OBVIOUS
  <2> QED
    BY <2>1, <2>2
<1> QED
  BY <1>3, <1>4
-----------------------------------------------------------------------------
(* The elements of a sequence are its values.                              *)
LEMMA SeqElems ==
  ASSUME NEW s
  PROVE  /\ IsSeq(s) => s \in Seq(Elems(s)) /\ DOMAIN s = 1 .. Len(s)
         /\ \A S : s \in Seq(S) => IsSeq(s) /\ Elems(s) \subseteq S
<1>1. IsSeq(s) => s \in Seq(Elems(s)) /\ DOMAIN s = 1 .. Len(s)
  <2> SUFFICES ASSUME IsSeq(s) PROVE s \in Seq(Elems(s)) /\ DOMAIN s = 1 .. Len(s)
    OBVIOUS
  <2>1. Len(s) \in Nat /\ s = [i \in 1 .. Len(s) |-> s[i]]
    BY DEF IsSeq
  <2>2. s \in [1 .. Len(s) -> Elems(s)]
    BY <2>1 DEF Elems
  <2> QED
    BY <2>1, <2>2
<1>2. ASSUME NEW S, s \in Seq(S)
      PROVE  IsSeq(s) /\ Elems(s) \subseteq S
  BY <1>2 DEF IsSeq, Elems
<1> QED
  BY <1>1, <1>2

(* A function on 1 .. n is a sequence of length n.                         *)
LEMMA SeqMade ==
  ASSUME NEW N \in Nat, NEW f, f = [i \in 1 .. N |-> f[i]]
  PROVE  IsSeq(f) /\ Len(f) = N
<1>1. f \in [1 .. N -> {f[i] : i \in 1 .. N}]
  OBVIOUS
<1>2. f \in Seq({f[i] : i \in 1 .. N}) /\ Len(f) = N
  BY <1>1
<1> QED
  BY <1>2 DEF IsSeq

(* The empty sequence                                                      *)
LEMMA SeqEmpty == IsSeq(<< >>) /\ Len(<< >>) = 0 /\ Elems(<< >>) = {}
BY DEF IsSeq, Elems

(* A sequence of one element                                               *)
LEMMA SeqOne == \A x : IsSeq(<<x>>) /\ Len(<<x>>) = 1 /\ <<x>>[1] = x /\ Elems(<<x>>) = {x}
<1> SUFFICES ASSUME NEW x
             PROVE  IsSeq(<<x>>) /\ Len(<<x>>) = 1 /\ <<x>>[1] = x /\ Elems(<<x>>) = {x}
  OBVIOUS
<1>1. <<x>> \in Seq({x}) /\ Len(<<x>>) = 1 /\ <<x>>[1] = x
  OBVIOUS
<1>2. IsSeq(<<x>>)
  BY <1>1, SeqElems
<1>3. Elems(<<x>>) = {<<x>>[i] : i \in 1 .. 1}
  BY <1>1 DEF Elems
<1>4. \A i \in 1 .. 1 : i = 1
  OBVIOUS
<1> QED
  BY <1>1, <1>2, <1>3, <1>4

(* Two sequences joined have the elements of both.                         *)
LEMMA SeqJoin ==
  ASSUME NEW s, NEW t, IsSeq(s), IsSeq(t)
  PROVE  /\ IsSeq(s \o t)
         /\ Len(s \o t) = Len(s) + Len(t)
         /\ Elems(s \o t) = Elems(s) \cup Elems(t)
<1> DEFINE S == Elems(s) \cup Elems(t)
<1>1. s \in Seq(S) /\ t \in Seq(S)
  <2>1. s \in Seq(Elems(s)) /\ t \in Seq(Elems(t))
    BY SeqElems
  <2> QED
    BY <2>1
<1> HIDE DEF S
<1>2. /\ s \o t \in Seq(S) /\ Len(s \o t) = Len(s) + Len(t)
      /\ Len(s) \in Nat /\ Len(t) \in Nat
      /\ \A i \in 1 .. Len(s) + Len(t) :
           (s \o t)[i] = IF i <= Len(s) THEN s[i] ELSE t[i - Len(s)]
  BY <1>1
<1>3. Elems(s \o t) \subseteq Elems(s) \cup Elems(t)
  <2> SUFFICES ASSUME NEW i \in 1 .. Len(s \o t)
               PROVE  (s \o t)[i] \in Elems(s) \cup Elems(t)
    BY DEF Elems
  <2>1. CASE i <= Len(s)
    BY <1>2, <2>1 DEF Elems
  <2>2. CASE ~(i <= Len(s))
    <3>1. i - Len(s) \in 1 .. Len(t)
      BY <1>2, <2>2
    <3> QED
      BY <1>2, <2>2, <3>1 DEF Elems
  <2> QED
    BY <2>1, <2>2
<1>4. Elems(s) \subseteq Elems(s \o t)
  <2> SUFFICES ASSUME NEW i \in 1 .. Len(s)
               PROVE  s[i] \in Elems(s \o t)
    BY DEF Elems
  <2>1. i \in 1 .. Len(s \o t) /\ (s \o t)[i] = s[i]
    BY <1>2
  <2> QED
    BY <2>1 DEF Elems
<1>5. Elems(t) \subseteq Elems(s \o t)
  <2> SUFFICES ASSUME NEW i \in 1 .. Len(t)
               PROVE  t[i] \in Elems(s \o t)
    BY DEF Elems
  <2>1. i + Len(s) \in 1 .. Len(s \o t) /\ (s \o t)[i + Len(s)] = t[i]
    BY <1>2
  <2> QED
    BY <2>1 DEF Elems
<1> QED
  BY <1>2, <1>3, <1>4, <1>5, SeqElems

(* What is appended to a sequence is one of its elements.                  *)
LEMMA SeqAppend ==
  ASSUME NEW s, NEW x, IsSeq(s)
  PROVE  /\ IsSeq(Append(s, x))
         /\ Len(Append(s, x)) = Len(s) + 1
         /\ Elems(Append(s, x)) = Elems(s) \cup {x}
<1>1. s \in Seq(Elems(s) \cup {x})
  <2>1. s \in Seq(Elems(s))
    BY SeqElems
  <2> QED
    BY <2>1
<1>2. Append(s, x) = s \o <<x>>
  BY <1>1
<1>3. IsSeq(<<x>>) /\ Len(<<x>>) = 1 /\ Elems(<<x>>) = {x}
  BY SeqOne
<1> QED
  BY <1>2, <1>3, SeqJoin

(* A finite set as a sequence has its elements.                            *)
LEMMA SeqOfSet ==
  ASSUME NEW D, IsFiniteSet(D)
  PROVE  IsSeq(SetToSeq(D)) /\ Elems(SetToSeq(D)) = D
<1> DEFINE n == Cardinality(D)
           ds == SetToSeq(D)
<1>1. n \in Nat /\ ExistsBijection(1 .. n, D)
  BY FS_CardinalityType
<1>2. PICK b : b \in [1 .. n -> D] /\ \A x, y \in 1 .. n : b[x] = b[y] => x = y
  BY <1>1 DEF ExistsBijection, Bijection, Injection, IsInjective
<1>3. IsInjective(b)
  BY <1>2 DEF IsInjective
<1>4. ds \in [1 .. n -> D] /\ IsInjective(ds)
  BY <1>2, <1>3 DEF SetToSeq
<1> HIDE DEF ds, n
<1>5. ds \in Injection(1 .. n, D)
  BY <1>4 DEF Injection, IsInjective
<1>6. Cardinality(1 .. n) = n
  BY <1>1, FS_Interval
<1>7. ds \in Surjection(1 .. n, D)
  BY <1>5, <1>6, FS_Injection DEF n
<1>8. ds \in Seq(D) /\ Len(ds) = n
  BY <1>1, <1>4
<1>9. \A d \in D : \E i \in 1 .. n : ds[i] = d
  BY <1>7 DEF Surjection
<1>10. Elems(ds) = D
  BY <1>4, <1>8, <1>9 DEF Elems
<1> QED
  BY <1>8, <1>10, SeqElems DEF ds
-----------------------------------------------------------------------------
(* The member of a set that is not empty                                   *)
LEMMA TheOf == \A S : S # {} => The(S) \in S
BY DEF The

(* The image of a finite set is finite.                                    *)
LEMMA FiniteImage ==
  ASSUME NEW D, IsFiniteSet(D), NEW f
  PROVE  IsFiniteSet({f[x] : x \in D})
<1> DEFINE fn == [x \in D |-> f[x]]
           T == {f[x] : x \in D}
<1>1. fn \in Surjection(D, T)
  BY DEF Surjection
<1> HIDE DEF fn, T
<1>2. IsFiniteSet(T)
  BY <1>1, FS_Surjection
<1> QED
  BY <1>2 DEF T

(* A union of finitely many finite sets is finite.                         *)
LEMMA FiniteUnion ==
  ASSUME NEW D, IsFiniteSet(D), NEW f, \A x \in D : IsFiniteSet(f[x])
  PROVE  IsFiniteSet(UNION {f[x] : x \in D})
<1>1. IsFiniteSet({f[x] : x \in D})
  BY FiniteImage
<1>2. \A T \in {f[x] : x \in D} : IsFiniteSet(T)
  OBVIOUS
<1> QED
  BY <1>1, <1>2, FS_UNION

(* The empty set and singletons are finite.                                *)
LEMMA FewFinite == IsFiniteSet({}) /\ \A x : IsFiniteSet({x})
BY FS_EmptySet, FS_Singleton

(* A subset of a finite set is finite.                                     *)
LEMMA PartFinite == \A S, T : IsFiniteSet(S) /\ T \subseteq S => IsFiniteSet(T)
BY FS_Subset

(* A subset of LSAs is a set of LSAs.                                      *)
LEMMA LsasPart == \A S, T : IsLsas(S) /\ T \subseteq S => IsLsas(T)
BY PartFinite DEF IsLsas

(* No LSAs, and one                                                        *)
LEMMA LsasFew == IsLsas({}) /\ \A l : IsLsa(l) => IsLsas({l})
BY FewFinite DEF IsLsas

(* The LSAs of two sets                                                    *)
LEMMA LsasJoin == \A S, T : IsLsas(S) /\ IsLsas(T) => IsLsas(S \cup T)
BY FS_Union DEF IsLsas

(* An LSA replaces the instance of it.                                     *)
LEMMA LsasPut == \A S, l : IsLsas(S) /\ IsLsa(l) => IsLsas(Put(S, l))
<1> SUFFICES ASSUME NEW S, NEW l, IsLsas(S), IsLsa(l)
             PROVE  IsLsas(Put(S, l))
  OBVIOUS
<1>1. IsLsas(Drop(S, l.key))
  BY LsasPart DEF Drop
<1> QED
  BY <1>1, LsasFew, LsasJoin DEF Put

(* A new LSA is alive.                                                     *)
LEMMA NewLsaFacts ==
  \A key, edges : /\ IsLsa(NewLsa(key, edges))
                  /\ NewLsa(key, edges).key = key /\ NewLsa(key, edges).dead = FALSE
BY DEF IsLsa, NewLsa

(* The parts of a key; the types of LSAs differ.                           *)
LEMMA KeyFacts ==
  /\ \A type, r, t : Key(type, r, t).type = type /\ Key(type, r, t).router = r
  /\ \A r : RouterKey(r).type = Router /\ RouterKey(r).router = r
  /\ Router # External /\ Summary # External /\ Router # Summary
BY DEF Key, RouterKey, Router, Summary, External

(* A new data structure of an area has the own Router-LSA, and no dead     *)
(* LSA.                                                                    *)
LEMMA NewAreaFacts ==
  ASSUME NEW id, NEW a
  PROVE  IsArea(NewArea(id, a), id) /\ \A l \in NewArea(id, a).lsas : l.dead = FALSE
<1> DEFINE ds == NewArea(id, a)
           own == NewLsa(RouterKey(id), NoLinks)
<1>1. /\ ds = [lsas |-> ds.lsas, spt |-> ds.spt, recompute_intra |-> ds.recompute_intra,
               recompute_inter |-> ds.recompute_inter, redistributed |-> ds.redistributed]
      /\ ds.lsas = {own} /\ ds.redistributed = NoLinks
  BY DEF NewArea
<1>2. IsLsa(own) /\ own.key = RouterKey(id) /\ own.dead = FALSE
  BY NewLsaFacts
<1>3. IsFiniteSet(DOMAIN NoLinks)
  BY FewFinite DEF NoLinks
<1> HIDE DEF ds, own
<1>4. IsArea(ds, id)
  BY <1>1, <1>2, <1>3, LsasFew, KeyFacts DEF IsArea
<1> QED
  BY <1>1, <1>2, <1>4 DEF ds

(* An edited set of LSAs is a set of LSAs.                                 *)
LEMMA EditedFacts ==
  ASSUME NEW S, IsLsas(S), NEW es, IsFiniteSet(es), \A e \in es : IsLsas(e.after)
  PROVE  IsLsas(Edited(S, es))
<1> DEFINE f == [e \in es |-> e.after]
<1>1. IsFiniteSet(UNION {f[e] : e \in es})
  <2>1. \A e \in es : IsFiniteSet(f[e])
    BY DEF IsLsas
  <2> HIDE DEF f
  <2> QED
    BY <2>1, FiniteUnion
<1>2. UNION {f[e] : e \in es} = UNION {e.after : e \in es}
  <2>1. \A e \in es : f[e] = e.after
    OBVIOUS
  <2> HIDE DEF f
  <2> QED
    BY <2>1
<1>3. IsLsas(UNION {e.after : e \in es})
  BY <1>1, <1>2 DEF IsLsas
<1>4. IsLsas({l \in S : \A e \in es : l.key # e.key})
  BY LsasPart
<1> QED
  BY <1>3, <1>4, LsasJoin DEF Edited

(* An edited area keeps the own Router-LSA, since its removal is never     *)
(* tracked.                                                                *)
LEMMA EditAreaFacts ==
  ASSUME NEW id, NEW ds, IsArea(ds, id), NEW es, IsFiniteSet(es),
         \A e \in es : IsEdit(e, id) /\ e.key.type # External
  PROVE  IsArea(EditArea(ds, es), id) /\ EditArea(ds, es).lsas = Edited(ds.lsas, es)
<1> DEFINE new == EditArea(ds, es)
<1>1. /\ new = [lsas |-> new.lsas, spt |-> new.spt, recompute_intra |-> new.recompute_intra,
                recompute_inter |-> new.recompute_inter, redistributed |-> new.redistributed]
      /\ new.lsas = Edited(ds.lsas, es) /\ new.redistributed = ds.redistributed
  <2> DEFINE x == Edited(ds.lsas, es)
             y == ds.recompute_intra \/ \E e \in es : e.key.type = Router
             z == ds.recompute_inter \cup {e.key.target : e \in {f \in es : f.key.type # Router}}
  <2>1. new = [ds EXCEPT !.lsas = x, !.recompute_intra = y, !.recompute_inter = z]
    BY DEF EditArea
  <2>2. ds = [lsas |-> ds.lsas, spt |-> ds.spt, recompute_intra |-> ds.recompute_intra,
              recompute_inter |-> ds.recompute_inter, redistributed |-> ds.redistributed]
    BY DEF IsArea
  <2> HIDE DEF x, y, z, new
  <2>3. new = [lsas |-> x, spt |-> ds.spt, recompute_intra |-> y, recompute_inter |-> z,
               redistributed |-> ds.redistributed]
    BY <2>1, <2>2
  <2> QED
    BY <2>3 DEF x
<1>2. IsLsas(Edited(ds.lsas, es))
  <2>1. IsLsas(ds.lsas) /\ \A e \in es : IsLsas(e.after)
    BY DEF IsArea, IsEdit
  <2> QED
    BY <2>1, EditedFacts
<1>3. \A l \in Edited(ds.lsas, es) : l.key.type # External
  <2>1. \A l \in ds.lsas : l.key.type # External
    BY DEF IsArea
  <2>2. \A e \in es : e.key.type # External /\ \A l \in e.after : l.key = e.key
    BY DEF IsEdit
  <2> QED
    BY <2>1, <2>2 DEF Edited
<1>4. \E l \in Edited(ds.lsas, es) : l.key = RouterKey(id)
  <2>1. PICK l \in ds.lsas : l.key = RouterKey(id)
    BY DEF IsArea
  <2>2. CASE \A e \in es : l.key # e.key
    BY <2>1, <2>2 DEF Edited
  <2>3. CASE \E e \in es : l.key = e.key
    BY <2>1, <2>3 DEF Edited, IsEdit
  <2> QED
    BY <2>2, <2>3
<1> HIDE DEF new
<1>5. IsArea(new, id)
  BY <1>1, <1>2, <1>3, <1>4 DEF IsArea
<1> QED
  BY <1>1, <1>5 DEF new
-----------------------------------------------------------------------------
(* The database q, with LSAs of p replaced *)
IsDatabase(p, id) == IsShape(p, id) /\ IsBase(p.areas, p.ext, id)

SameRest(p, q) ==
  /\ q.nbrs = p.nbrs /\ q.track = p.track /\ q.rib = p.rib
  /\ DOMAIN p.areas \subseteq DOMAIN q.areas

Adds(h, f, x, v) ==
  /\ h = [y \in DOMAIN h |-> h[y]] /\ DOMAIN h = DOMAIN f \cup {x}
  /\ h[x] = v /\ \A y \in DOMAIN f : y # x => h[y] = f[y]

(* One entry is added to a function or replaced in it.                     *)
LEMMA ExtendedAdds == \A f, x, v : Adds(Extended(f, x, v), f, x, v)
BY DEF Extended, Adds

(* Where a dead LSA of q comes from, if LSAs E of p are replaced           *)
ExtFrom(p, q, E) ==
  \A l \in q.ext : l.dead = TRUE =>
    \/ l \in p.ext /\ \A e \in E : e.key # l.key
    \/ \E e \in E : l \in e.after

AreasFrom(p, q, E) ==
  \A a \in DOMAIN q.areas : \A l \in q.areas[a].lsas : l.dead = TRUE =>
    \/ /\ a \in DOMAIN p.areas /\ l \in p.areas[a].lsas
       /\ \A e \in E : e.area = a => e.key # l.key
    \/ \E e \in E : e.area = a /\ l \in e.after

(* The same, if l is inserted into area a                                  *)
DeadFrom(p, q, l, a) ==
  /\ \A m \in q.ext : m.dead = TRUE => m = l \/ m \in p.ext
  /\ \A b \in DOMAIN q.areas : \A m \in q.areas[b].lsas : m.dead = TRUE =>
       \/ m = l /\ b = a
       \/ b \in DOMAIN p.areas /\ m \in p.areas[b].lsas

(* What is acknowledged is replaced or removed; every LSA that is left was *)
(* there before, or took the place of one that was flushed.                *)
LEMMA EditFacts ==
  ASSUME NEW id, NEW p, IsDatabase(p, id),
         NEW E, IsFiniteSet(E), \A e \in E : IsEdit(e, id)
  PROVE  LET q == Edit(p, E)
         IN  /\ IsDatabase(q, id) /\ SameRest(p, q)
             /\ ExtFrom(p, q, E) /\ AreasFrom(p, q, E)
<1> DEFINE q == Edit(p, E)
           ext == {e \in E : e.key.type = External}
           in(a) == {e \in E \ ext : e.area = a}
           known == DOMAIN p.areas \cup {e.area : e \in E \ ext}
           base(a) == IF a \in DOMAIN p.areas THEN p.areas[a] ELSE NewArea(p.id, a)
           areas == [a \in known |-> EditArea(base(a), in(a))]
<1>0. /\ p.id = id /\ IsBase(p.areas, p.ext, id)
      /\ p = [id |-> id, areas |-> p.areas, ext |-> p.ext, ext_changed |-> p.ext_changed,
              rib |-> p.rib, links |-> p.links, nbrs |-> p.nbrs, track |-> p.track]
  BY DEF IsDatabase, IsShape
<1>1. q = [id |-> id, areas |-> areas, ext |-> Edited(p.ext, ext),
           ext_changed |-> p.ext_changed \/ ext # {},
           rib |-> p.rib, links |-> p.links, nbrs |-> p.nbrs, track |-> p.track]
  <2> DEFINE x == Edited(p.ext, ext)
             y == p.ext_changed \/ ext # {}
  <2>1. q = [p EXCEPT !.ext = x, !.ext_changed = y, !.areas = areas]
    BY DEF Edit
  <2> HIDE DEF x, y, q, areas
  <2>2. q = [id |-> id, areas |-> areas, ext |-> x, ext_changed |-> y, rib |-> p.rib,
             links |-> p.links, nbrs |-> p.nbrs, track |-> p.track]
    BY <1>0, <2>1
  <2> QED
    BY <2>2 DEF x, y
<1>2. /\ IsFiniteSet(ext) /\ \A a : IsFiniteSet(in(a))
      /\ \A e \in ext : IsEdit(e, id) /\ e.key.type = External /\ e \in E
      /\ \A a : \A e \in in(a) : IsEdit(e, id) /\ e.key.type # External /\ e.area = a /\ e \in E
  BY PartFinite
<1>3. \A a \in known : IsArea(base(a), id)
  BY <1>0, NewAreaFacts DEF IsBase
<1>4. /\ areas = [a \in DOMAIN areas |-> areas[a]] /\ DOMAIN areas = known
      /\ \A a \in known : areas[a] = EditArea(base(a), in(a))
  OBVIOUS
<1>5. \A a \in known : IsArea(areas[a], id) /\ areas[a].lsas = Edited(base(a).lsas, in(a))
  <2> SUFFICES ASSUME NEW a \in known
               PROVE  IsArea(areas[a], id) /\ areas[a].lsas = Edited(base(a).lsas, in(a))
    OBVIOUS
  <2> HIDE DEF areas, known, base, in
  <2> QED
    BY <1>2, <1>3, <1>4, EditAreaFacts
<1>6. known \subseteq Areas /\ DOMAIN p.areas \subseteq known
  BY <1>0 DEF IsBase, IsEdit
<1>7. IsLsas(Edited(p.ext, ext)) /\ \A l \in Edited(p.ext, ext) : l.key.type = External
  <2>1. IsLsas(p.ext) /\ \A l \in p.ext : l.key.type = External
    BY <1>0 DEF IsBase
  <2>2. \A e \in ext : IsLsas(e.after) /\ \A l \in e.after : l.key.type = External
    BY <1>2 DEF IsEdit
  <2> HIDE DEF ext
  <2>3. IsLsas(Edited(p.ext, ext))
    BY <1>2, <2>1, <2>2, EditedFacts
  <2> QED
    BY <2>1, <2>2, <2>3 DEF Edited
<1>8. IsDatabase(q, id) /\ SameRest(p, q)
  <2> HIDE DEF q, ext, areas, known, base, in
  <2>1. IsBase(areas, Edited(p.ext, ext), id)
    BY <1>4, <1>5, <1>6, <1>7 DEF IsBase
  <2> QED
    BY <1>1, <1>4, <1>6, <2>1 DEF IsDatabase, IsShape, SameRest
<1>9. ExtFrom(p, q, E)
  <2> SUFFICES ASSUME NEW l \in Edited(p.ext, ext)
               PROVE  \/ l \in p.ext /\ \A e \in E : e.key # l.key
                      \/ \E e \in E : l \in e.after
    BY <1>1 DEF ExtFrom
  <2>1. CASE l \in p.ext /\ \A e \in ext : l.key # e.key
    <3>1. l.key.type = External
      BY <1>0, <2>1 DEF IsBase
    <3> QED
      BY <2>1, <3>1
  <2>2. CASE \E e \in ext : l \in e.after
    BY <2>2
  <2> QED
    BY <2>1, <2>2 DEF Edited
<1>10. AreasFrom(p, q, E)
  <2> SUFFICES ASSUME NEW a \in known, NEW l \in areas[a].lsas, l.dead = TRUE
               PROVE  \/ /\ a \in DOMAIN p.areas /\ l \in p.areas[a].lsas
                         /\ \A e \in E : e.area = a => e.key # l.key
                      \/ \E e \in E : e.area = a /\ l \in e.after
    <3>1. q.areas = areas /\ DOMAIN areas = known
      BY <1>1
    <3> HIDE DEF areas, known, base, in, q
    <3> QED
      BY <3>1 DEF AreasFrom
  <2>0. l \in Edited(base(a).lsas, in(a))
    <3> HIDE DEF areas, known, base, in
    <3> QED
      BY <1>5
  <2>1. CASE l \in base(a).lsas /\ \A e \in in(a) : l.key # e.key
    <3>1. a \in DOMAIN p.areas
      BY <2>1, NewAreaFacts
    <3>2. l \in p.areas[a].lsas
      BY <2>1, <3>1
    <3>3. l.key.type # External
      BY <1>0, <3>1, <3>2 DEF IsBase, IsArea
    <3> QED
      BY <2>1, <3>1, <3>2, <3>3
  <2>2. CASE \E e \in in(a) : l \in e.after
    BY <2>2
  <2> QED
    BY <2>0, <2>1, <2>2 DEF Edited
<1> HIDE DEF q
<1> QED
  BY <1>8, <1>9, <1>10 DEF q

(* An LSA is inserted into the area a, of its router's keys.               *)
LEMMA InsertFacts ==
  ASSUME NEW id, NEW p, IsDatabase(p, id), NEW l, IsLsa(l), NEW a,
         l.key.type # External => a \in Areas
  PROVE  LET q == Insert(p, l, a)
         IN  /\ IsDatabase(q, id) /\ SameRest(p, q)
             /\ DeadFrom(p, q, l, a)
<1> DEFINE e == [area |-> a, key |-> l.key, after |-> {l}]
<1>1. /\ e.area = a /\ e.key = l.key /\ e.after = {l}
      /\ Insert(p, l, a) = Edit(p, {e})
  BY DEF Insert
<1> HIDE DEF e
<1>2. IsEdit(e, id)
  BY <1>1, LsasFew DEF IsEdit
<1> DEFINE es == {e}
           q == Edit(p, es)
<1>3. IsFiniteSet(es) /\ \A f \in es : IsEdit(f, id)
  BY <1>2, FewFinite
<1>4. \A f : f \in es <=> f = e
  OBVIOUS
<1>5. q = Insert(p, l, a)
  BY <1>1
<1> HIDE DEF es, q
<1>6. IsDatabase(Edit(p, es), id) /\ SameRest(p, Edit(p, es)) /\ ExtFrom(p, Edit(p, es), es)
      /\ AreasFrom(p, Edit(p, es), es)
  BY <1>3, EditFacts
<1>7. IsDatabase(q, id) /\ SameRest(p, q) /\ ExtFrom(p, q, es) /\ AreasFrom(p, q, es)
  BY <1>6 DEF q
<1>8. DeadFrom(p, q, l, a)
  BY <1>1, <1>4, <1>7 DEF DeadFrom, ExtFrom, AreasFrom
<1> QED
  BY <1>5, <1>7, <1>8

NoneDead(p, q) ==
  \A b \in DOMAIN q.areas : \A m \in q.areas[b].lsas : m.dead = TRUE =>
    b \in DOMAIN p.areas /\ m \in p.areas[b].lsas

(* The area's data structure is set, or created.                           *)
LEMMA WithAreaFacts ==
  ASSUME NEW id, NEW p, IsDatabase(p, id), NEW a \in Areas
  PROVE  LET q == WithArea(p, a)
         IN  /\ IsDatabase(q, id) /\ SameRest(p, q) /\ a \in DOMAIN q.areas /\ q.ext = p.ext
             /\ NoneDead(p, q)
<1>1. CASE a \in DOMAIN p.areas
  BY <1>1 DEF WithArea, SameRest, NoneDead
<1>2. CASE a \notin DOMAIN p.areas
  <2> DEFINE q == WithArea(p, a)
             areas == Extended(p.areas, a, NewArea(id, a))
  <2>1. /\ p.id = id /\ IsBase(p.areas, p.ext, id)
        /\ p = [id |-> id, areas |-> p.areas, ext |-> p.ext, ext_changed |-> p.ext_changed,
                rib |-> p.rib, links |-> p.links, nbrs |-> p.nbrs, track |-> p.track]
    BY DEF IsDatabase, IsShape
  <2>2. q = [p EXCEPT !.areas = areas]
    BY <1>2, <2>1 DEF WithArea
  <2>3. /\ DOMAIN areas = {a} \cup DOMAIN p.areas
        /\ areas[a] = NewArea(id, a)
        /\ \A b \in DOMAIN p.areas : areas[b] = p.areas[b]
        /\ areas = [b \in DOMAIN areas |-> areas[b]]
    <3>1. Adds(areas, p.areas, a, NewArea(id, a))
      BY ExtendedAdds
    <3> HIDE DEF areas
    <3> QED
      BY <1>2, <3>1 DEF Adds
  <2> HIDE DEF q, areas
  <2>0. IsArea(NewArea(id, a), id) /\ \A l \in NewArea(id, a).lsas : l.dead = FALSE
    BY NewAreaFacts
  <2>4. q = [id |-> id, areas |-> areas, ext |-> p.ext, ext_changed |-> p.ext_changed,
             rib |-> p.rib, links |-> p.links, nbrs |-> p.nbrs, track |-> p.track]
    BY <2>1, <2>2
  <2>5. IsBase(areas, p.ext, id)
    <3>1. \A b \in DOMAIN areas : IsArea(areas[b], id)
      BY <2>0, <2>1, <2>3 DEF IsBase
    <3>2. DOMAIN areas \subseteq Areas
      BY <2>1, <2>3 DEF IsBase
    <3> QED
      BY <2>1, <2>3, <3>1, <3>2 DEF IsBase
  <2>6. IsDatabase(q, id) /\ SameRest(p, q) /\ a \in DOMAIN q.areas /\ q.ext = p.ext
    BY <2>3, <2>4, <2>5 DEF IsDatabase, IsShape, SameRest
  <2>7. NoneDead(p, q)
    <3>1. q.areas = areas
      BY <2>4
    <3>2. \A m \in areas[a].lsas : m.dead = FALSE
      BY <2>0, <2>3
    <3> QED
      BY <2>3, <3>1, <3>2 DEF NoneDead
  <2> QED
    BY <2>6, <2>7 DEF q
<1> QED
  BY <1>1, <1>2
-----------------------------------------------------------------------------
(* Every dead LSA of q is one of p, or tracked by X.                       *)
Owes(p, q, X) ==
  /\ \A m \in q.ext : m.dead = TRUE =>
       \/ \E l \in p.ext : l.dead = TRUE /\ l.key = m.key
       \/ \E x \in X : x.key = m.key
  /\ \A b \in DOMAIN q.areas : \A m \in q.areas[b].lsas : m.dead = TRUE =>
       \/ b \in DOMAIN p.areas /\ \E l \in p.areas[b].lsas : l.dead = TRUE /\ l.key = m.key
       \/ \E x \in X : x.key = m.key /\ x.area = b

(* What is owed and is then tracked is awaited.                            *)
LEMMA OwesAwaited ==
  \A p, q, X, T : Owes(p, q, X) /\ Awaited(p.areas, p.ext, T) => Awaited(q.areas, q.ext, T \cup X)
<1> SUFFICES ASSUME NEW p, NEW q, NEW X, NEW T, Owes(p, q, X), Awaited(p.areas, p.ext, T)
             PROVE  Awaited(q.areas, q.ext, T \cup X)
  OBVIOUS
<1>1. ASSUME NEW m \in q.ext, m.dead = TRUE
      PROVE  \E t \in T \cup X : t.key = m.key
  BY <1>1 DEF Owes, Awaited
<1>2. ASSUME NEW b \in DOMAIN q.areas, NEW m \in q.areas[b].lsas, m.dead = TRUE
      PROVE  \E t \in T \cup X : t.key = m.key /\ t.area = b
  BY <1>2 DEF Owes, Awaited
<1> QED
  BY <1>1, <1>2 DEF Awaited

(* More may be tracked than has to be.                                     *)
LEMMA MoreAwaited ==
  \A areas, ext, T, U : Awaited(areas, ext, T) /\ T \subseteq U => Awaited(areas, ext, U)
BY DEF Awaited

(* Inserting an LSA owes that LSA only, if it is dead.                     *)
LEMMA InsertOwes ==
  ASSUME NEW id, NEW p, NEW q, IsDatabase(q, id), NEW l, NEW a, DeadFrom(p, q, l, a),
         NEW X, NEW b, l.key.type # External => b = a,
         l.dead = TRUE => \E x \in X : x.key = l.key /\ x.area = b
  PROVE  Owes(p, q, X)
<1>1. ASSUME NEW m \in q.ext, m.dead = TRUE
      PROVE  \/ \E k \in p.ext : k.dead = TRUE /\ k.key = m.key
             \/ \E x \in X : x.key = m.key
  BY <1>1 DEF DeadFrom
<1>2. ASSUME NEW c \in DOMAIN q.areas, NEW m \in q.areas[c].lsas, m.dead = TRUE
      PROVE  \/ c \in DOMAIN p.areas /\ \E k \in p.areas[c].lsas : k.dead = TRUE /\ k.key = m.key
             \/ \E x \in X : x.key = m.key /\ x.area = c
  <2>1. IsArea(q.areas[c], id)
    BY DEF IsDatabase, IsBase
  <2>2. m.key.type # External
    BY <2>1 DEF IsArea
  <2> QED
    BY <1>2, <2>2 DEF DeadFrom
<1> QED
  BY <1>1, <1>2 DEF Owes

(* An update of an own LSA, in area a                                      *)
IsUpdate(u, p, id, a) ==
  /\ IsDatabase(u.p, id) /\ SameRest(p, u.p)
  /\ \/ u.flood = {} /\ u.after = {} /\ Owes(p, u.p, {})
     \/ \E l : /\ IsLsa(l) /\ u.flood = {l}
               /\ \/ u.after = {} /\ Owes(p, u.p, {})
                  \/ \E x : LET t == [area |-> a, key |-> l.key, after |-> x]
                            IN  u.after = {x} /\ IsTrack(t, id) /\ Owes(p, u.p, {t})

(* Nothing is published.                                                   *)
LEMMA UnchangedUpdate ==
  ASSUME NEW id, NEW p, IsDatabase(p, id), NEW a
  PROVE  IsUpdate(Unchanged(p), p, id, a)
<1>1. /\ Unchanged(p).p = p /\ Unchanged(p).flood = {} /\ Unchanged(p).after = {}
  BY DEF Unchanged
<1>2. SameRest(p, p) /\ Owes(p, p, {})
  BY DEF SameRest, Owes
<1> QED
  BY <1>1, <1>2 DEF IsUpdate

(* The LSA l is issued: live, or in the place of a dead one, or tracked.   *)
LEMMA IssueUpdate ==
  ASSUME NEW id, NEW p, IsDatabase(p, id), NEW a, NEW l, IsLsa(l), NEW b,
         l.key.type # External => a \in Areas /\ b = a,
         l.dead = TRUE => Owes(p, Insert(p, l, a), {})
  PROVE  IsUpdate(Issue(p, l, a, {}), p, id, b)
<1> DEFINE u == Issue(p, l, a, {})
           q == Insert(p, l, a)
<1>1. u.p = q /\ u.flood = {l} /\ u.after = {}
  BY DEF Issue
<1>2. IsDatabase(q, id) /\ SameRest(p, q) /\ DeadFrom(p, q, l, a)
  BY InsertFacts
<1>3. Owes(p, q, {})
  BY <1>2 DEF DeadFrom, Owes
<1> HIDE DEF u, q
<1>4. IsUpdate(u, p, id, b)
  BY <1>1, <1>2, <1>3 DEF IsUpdate
<1> QED
  BY <1>4 DEF u

(* A dead LSA is issued, and is to be tracked.                             *)
LEMMA FlushUpdate ==
  ASSUME NEW id, NEW p, IsDatabase(p, id), NEW a, NEW l, IsLsa(l), NEW b,
         l.key.type # External => a \in Areas /\ b = a,
         NEW x, IsLsas(x), \A m \in x : m.key = l.key /\ m.dead = FALSE,
         l.key = RouterKey(id) => x # {}
  PROVE  IsUpdate(Issue(p, l, a, {x}), p, id, b)
<1> DEFINE u == Issue(p, l, a, {x})
           q == Insert(p, l, a)
           t == [area |-> b, key |-> l.key, after |-> x]
<1>1. u.p = q /\ u.flood = {l} /\ u.after = {x}
  BY DEF Issue
<1>2. IsDatabase(q, id) /\ SameRest(p, q) /\ DeadFrom(p, q, l, a)
  BY InsertFacts
<1>3. t.area = b /\ t.key = l.key /\ t.after = x /\ t = [area |-> t.area, key |-> t.key, after |-> t.after]
  OBVIOUS
<1>4. t \in {t}
  OBVIOUS
<1>5. u.after = {x} /\ u.flood = {l} /\ t = [area |-> b, key |-> l.key, after |-> x]
  BY <1>1
<1> HIDE DEF u, q, t
<1>6. IsTrack(t, id)
  BY <1>3 DEF IsTrack, IsEdit
<1>7. Owes(p, q, {t})
  BY <1>2, <1>3, <1>4, InsertOwes
<1>8. IsUpdate(u, p, id, b)
  BY <1>1, <1>2, <1>5, <1>6, <1>7 DEF IsUpdate
<1> QED
  BY <1>8 DEF u

LsaIs(m, key, s, d) == IsLsa(m) /\ m.key = key /\ m.seq = s /\ m.dead = d

(* An LSA of the given parts                                               *)
LEMMA LsaMade ==
  ASSUME NEW m, NEW key, NEW s, NEW d \in BOOLEAN, NEW k,
         m = [key |-> key, seq |-> s, dead |-> d, links |-> k]
  PROVE  LsaIs(m, key, s, d)
BY DEF IsLsa, LsaIs

(* New links of an own LSA: it is issued with the next number, or flushed  *)
(* if there is none left.                                                  *)
LEMMA SetLinksUpdate ==
  ASSUME NEW id, NEW p, IsDatabase(p, id), NEW a, NEW l, IsLsa(l), NEW edges, NEW b,
         l.key.type # External => a \in Areas /\ b = a /\ a \in DOMAIN p.areas /\ l \in p.areas[a].lsas,
         l.key.type = External => l \in p.ext
  PROVE  IsUpdate(SetLinks(p, l, edges, a), p, id, b)
<1>1. CASE edges = l.links
  BY <1>1, UnchangedUpdate DEF SetLinks
<1>2. CASE edges # l.links /\ l.seq < MaxSeq - 1
  <2> DEFINE m == [l EXCEPT !.links = edges, !.seq = @ + 1]
  <2>1. /\ l = [key |-> l.key, seq |-> l.seq, dead |-> l.dead, links |-> l.links]
        /\ l.dead \in BOOLEAN
    BY DEF IsLsa
  <2>2. m.key = l.key /\ m.dead = l.dead /\ IsLsa(m)
    <3>3. m = [l EXCEPT !.links = edges, !.seq = l.seq + 1]
      OBVIOUS
    <3> HIDE DEF m
    <3>1. m = [key |-> l.key, seq |-> l.seq + 1, dead |-> l.dead, links |-> edges]
      BY <2>1, <3>3
    <3>2. LsaIs(m, l.key, l.seq + 1, l.dead)
      BY <2>1, <3>1, LsaMade
    <3> QED
      BY <3>2 DEF LsaIs
  <2>3. SetLinks(p, l, edges, a) = Issue(p, m, a, {})
    BY <1>2 DEF SetLinks, NextInstance
  <2> HIDE DEF m
  <2>4. DeadFrom(p, Insert(p, m, a), m, a) /\ IsDatabase(Insert(p, m, a), id)
    BY <2>2, InsertFacts
  <2>5. ASSUME m.dead = TRUE
        PROVE  Owes(p, Insert(p, m, a), {})
    <3>1. \A k \in Insert(p, m, a).ext : k.key.type = External
      BY <2>4 DEF IsDatabase, IsBase
    <3>2. \A c \in DOMAIN Insert(p, m, a).areas : \A k \in Insert(p, m, a).areas[c].lsas :
            k.key.type # External
      <4>1. \A c \in DOMAIN Insert(p, m, a).areas : IsArea(Insert(p, m, a).areas[c], id)
        BY <2>4 DEF IsDatabase, IsBase
      <4> QED
        BY <4>1 DEF IsArea
    <3> QED
      BY <2>2, <2>4, <2>5, <3>1, <3>2 DEF DeadFrom, Owes
  <2> QED
    BY <2>2, <2>3, <2>5, IssueUpdate
<1>3. CASE edges # l.links /\ ~(l.seq < MaxSeq - 1)
  <2> DEFINE m == Aged(l)
             n == [l EXCEPT !.links = edges, !.seq = 0, !.dead = FALSE]
  <2>1. /\ l = [key |-> l.key, seq |-> l.seq, dead |-> l.dead, links |-> l.links]
        /\ l.dead \in BOOLEAN
    BY DEF IsLsa
  <2>2. m.key = l.key /\ IsLsa(m)
    <3>3. m = [l EXCEPT !.seq = MaxSeq, !.dead = TRUE]
      BY DEF Aged
    <3> HIDE DEF m
    <3>1. m = [key |-> l.key, seq |-> MaxSeq, dead |-> TRUE, links |-> l.links]
      BY <2>1, <3>3
    <3>2. LsaIs(m, l.key, MaxSeq, TRUE)
      BY <3>1, LsaMade
    <3> QED
      BY <3>2 DEF LsaIs
  <2>3. n.key = l.key /\ n.dead = FALSE /\ IsLsa(n)
    <3>3. n = [l EXCEPT !.links = edges, !.seq = 0, !.dead = FALSE]
      OBVIOUS
    <3> HIDE DEF n
    <3>1. n = [key |-> l.key, seq |-> 0, dead |-> FALSE, links |-> edges]
      BY <2>1, <3>3
    <3>2. LsaIs(n, l.key, 0, FALSE)
      BY <3>1, LsaMade
    <3> QED
      BY <3>2 DEF LsaIs
  <2>4. SetLinks(p, l, edges, a) = Issue(p, m, a, {{n}})
    BY <1>3 DEF SetLinks, NextInstance
  <2> HIDE DEF m, n
  <2> DEFINE x == {n}
  <2>5. IsLsas(x) /\ (\A k \in x : k.key = m.key /\ k.dead = FALSE) /\ x # {}
    <3>1. IsLsas(x)
      BY <2>3, LsasFew
    <3>2. \A k \in x : k = n
      OBVIOUS
    <3>3. x # {}
      OBVIOUS
    <3> HIDE DEF x
    <3> QED
      BY <2>2, <2>3, <3>1, <3>2, <3>3
  <2> HIDE DEF x
  <2>7. l.key = RouterKey(id) => x # {}
    BY <2>5
  <2>6. IsUpdate(Issue(p, m, a, {x}), p, id, b)
    BY <2>2, <2>5, <2>7, FlushUpdate
  <2> QED
    BY <2>4, <2>6 DEF x
<1> QED
  BY <1>1, <1>2, <1>3
-----------------------------------------------------------------------------
(* What two steps leave alone, both together leave alone.                  *)
LEMMA RestJoins ==
  \A p, q, r : SameRest(p, q) /\ SameRest(q, r) => SameRest(p, r)
BY DEF SameRest

(* What two steps owe, one after the other                                 *)
LEMMA OwesJoins ==
  ASSUME NEW p, NEW q, NEW r, NEW X, NEW Y, Owes(p, q, X), Owes(q, r, Y)
  PROVE  Owes(p, r, X \cup Y)
<1>1. ASSUME NEW m \in r.ext, m.dead = TRUE
      PROVE  \/ \E l \in p.ext : l.dead = TRUE /\ l.key = m.key
             \/ \E x \in X \cup Y : x.key = m.key
  <2>1. CASE \E x \in Y : x.key = m.key
    BY <2>1
  <2>2. CASE \E l \in q.ext : l.dead = TRUE /\ l.key = m.key
    BY <2>2 DEF Owes
  <2> QED
    BY <1>1, <2>1, <2>2 DEF Owes
<1>2. ASSUME NEW b \in DOMAIN r.areas, NEW m \in r.areas[b].lsas, m.dead = TRUE
      PROVE  \/ b \in DOMAIN p.areas /\ \E l \in p.areas[b].lsas : l.dead = TRUE /\ l.key = m.key
             \/ \E x \in X \cup Y : x.key = m.key /\ x.area = b
  <2>1. CASE \E x \in Y : x.key = m.key /\ x.area = b
    BY <2>1
  <2>2. CASE b \in DOMAIN q.areas /\ \E l \in q.areas[b].lsas : l.dead = TRUE /\ l.key = m.key
    BY <2>2 DEF Owes
  <2> QED
    BY <1>2, <2>1, <2>2 DEF Owes
<1> QED
  BY <1>1, <1>2 DEF Owes

(* An update that follows a harmless step                                  *)
LEMMA UpdateAfter ==
  ASSUME NEW id, NEW a, NEW p, NEW q, SameRest(p, q), Owes(p, q, {}), NEW u, IsUpdate(u, q, id, a)
  PROVE  IsUpdate(u, p, id, a)
<1>1. SameRest(p, u.p) /\ IsDatabase(u.p, id)
  BY RestJoins DEF IsUpdate
<1>2. \A X : Owes(q, u.p, X) => Owes(p, u.p, X)
  <2> SUFFICES ASSUME NEW X, Owes(q, u.p, X)
               PROVE  Owes(p, u.p, X)
    OBVIOUS
  <2>1. {} \cup X = X
    OBVIOUS
  <2> QED
    BY <2>1, OwesJoins
<1> QED
  BY <1>1, <1>2 DEF IsUpdate

(* The stored instance of an LSA                                           *)
LEMMA StoredFacts ==
  ASSUME NEW id, NEW p, IsDatabase(p, id), NEW key, NEW a
  PROVE  /\ \A l \in Stored(p, key, a) :
              /\ IsLsa(l) /\ l.key = key
              /\ key.type = External => l \in p.ext
              /\ key.type # External => a \in DOMAIN p.areas /\ a \in Areas /\ l \in p.areas[a].lsas
         /\ a \in DOMAIN p.areas => Stored(p, RouterKey(id), a) # {}
<1>1. /\ p.id = id /\ IsLsas(p.ext) /\ DOMAIN p.areas \subseteq Areas
      /\ \A b \in DOMAIN p.areas : IsArea(p.areas[b], id)
  BY DEF IsDatabase, IsBase, IsShape
<1>2. \A b \in DOMAIN p.areas : /\ IsLsas(p.areas[b].lsas)
                                /\ \E l \in p.areas[b].lsas : l.key = RouterKey(id)
  BY <1>1 DEF IsArea
<1>3. ASSUME NEW l \in Stored(p, key, a)
      PROVE  /\ IsLsa(l) /\ l.key = key
             /\ key.type = External => l \in p.ext
             /\ key.type # External => a \in DOMAIN p.areas /\ a \in Areas /\ l \in p.areas[a].lsas
  BY <1>1, <1>2 DEF Stored, Find, IsLsas
<1>4. a \in DOMAIN p.areas => Stored(p, RouterKey(id), a) # {}
  BY <1>2, KeyFacts DEF Stored, Find
<1> QED
  BY <1>3, <1>4

(* A new link in the own Router-LSA (update_local_lsa)                     *)
LEMMA LocalUpdate ==
  ASSUME NEW id, NEW p, IsDatabase(p, id), NEW n, NEW a \in Areas, NEW weight
  PROVE  IsUpdate(UpdateLocalLsa(p, n, a, weight), p, id, a)
<1> DEFINE q == WithArea(p, a)
           own == OwnLsa(q, a)
           edges == WithLink(own.links, n, weight)
<1>1. IsDatabase(q, id) /\ SameRest(p, q) /\ a \in DOMAIN q.areas /\ q.ext = p.ext /\ NoneDead(p, q)
  BY WithAreaFacts
<1>2. UpdateLocalLsa(p, n, a, weight) = SetLinks(q, own, edges, a)
  BY DEF UpdateLocalLsa
<1>3. own = The(Stored(q, RouterKey(q.id), a))
  BY DEF OwnLsa
<1> HIDE DEF q, own, edges
<1>4. q.id = id
  BY <1>1 DEF IsDatabase, IsShape
<1>5. own \in Stored(q, RouterKey(id), a)
  BY <1>1, <1>3, <1>4, StoredFacts, TheOf
<1>6. IsLsa(own) /\ own.key.type # External /\ own \in q.areas[a].lsas
  BY <1>1, <1>5, StoredFacts, KeyFacts
<1>7. IsUpdate(SetLinks(q, own, edges, a), q, id, a)
  BY <1>1, <1>6, SetLinksUpdate
<1>8. Owes(p, q, {})
  BY <1>1 DEF Owes, NoneDead
<1> QED
  BY <1>1, <1>2, <1>7, <1>8, UpdateAfter

(* An External-LSA is added, changed or withdrawn (update_external_lsa).   *)
LEMMA ExternalUpdate ==
  ASSUME NEW id, NEW p, IsDatabase(p, id), NEW x, NEW weight
  PROVE  IsUpdate(UpdateExternalLsa(p, x, weight), p, id, NoArea)
<1> DEFINE key == ExternalKey(p, x)
           old == Find(p.ext, key)
           edges == Only(x, The(weight))
           u == UpdateExternalLsa(p, x, weight)
<1>1. key.type = External
  BY KeyFacts DEF ExternalKey
<1>2. \A l \in old : IsLsa(l) /\ l.key = key /\ l \in p.ext
  BY DEF Find, IsDatabase, IsBase, IsLsas
<1>3. u = IF old = {} /\ weight = {} THEN Unchanged(p)
          ELSE IF old = {} THEN Issue(p, NewLsa(key, edges), External, {})
          ELSE IF weight = {} THEN Issue(p, [The(old) EXCEPT !.dead = TRUE], External, {{}})
          ELSE SetLinks(p, The(old), edges, External)
  BY DEF UpdateExternalLsa
<1> SUFFICES IsUpdate(u, p, id, NoArea)
  OBVIOUS
<1> HIDE DEF key, old, edges, u
<1>4. CASE old = {} /\ weight = {}
  BY <1>3, <1>4, UnchangedUpdate
<1>5. CASE old = {} /\ weight # {}
  <2> DEFINE l == NewLsa(key, edges)
  <2>1. IsLsa(l) /\ l.key = key /\ l.dead = FALSE
    BY NewLsaFacts
  <2> HIDE DEF l
  <2>2. IsUpdate(Issue(p, l, External, {}), p, id, NoArea)
    BY <1>1, <2>1, IssueUpdate
  <2> QED
    BY <1>3, <1>5, <2>2 DEF l
<1>6. CASE old # {} /\ weight = {}
  <2> DEFINE l == The(old)
             m == [l EXCEPT !.dead = TRUE]
             none == {}
  <2>1. IsLsa(l) /\ l.key = key
    BY <1>2, <1>6, TheOf
  <2> HIDE DEF l
  <2>2. m = [key |-> l.key, seq |-> l.seq, dead |-> TRUE, links |-> l.links]
    <3>1. m = [l EXCEPT !.dead = TRUE]
      OBVIOUS
    <3> HIDE DEF m
    <3> QED
      BY <2>1, <3>1 DEF IsLsa
  <2> HIDE DEF m
  <2>3. LsaIs(m, key, l.seq, TRUE)
    BY <2>1, <2>2, LsaMade
  <2>4. IsLsas(none) /\ m.key # RouterKey(id) /\ m.key.type = External /\ IsLsa(m)
        /\ \A k \in none : k.key = m.key /\ k.dead = FALSE
    BY <1>1, <2>3, LsasFew, KeyFacts DEF LsaIs
  <2> HIDE DEF none
  <2>5. IsUpdate(Issue(p, m, External, {none}), p, id, NoArea)
    BY <2>4, FlushUpdate
  <2> QED
    BY <1>3, <1>6, <2>5 DEF m, l, none
<1>7. CASE old # {} /\ weight # {}
  <2>1. IsLsa(The(old)) /\ The(old).key.type = External /\ The(old) \in p.ext
    BY <1>1, <1>2, <1>7, TheOf
  <2>2. IsUpdate(SetLinks(p, The(old), edges, External), p, id, NoArea)
    BY <2>1, SetLinksUpdate
  <2> QED
    BY <1>3, <1>7, <2>2
<1> QED
  BY <1>4, <1>5, <1>6, <1>7
-----------------------------------------------------------------------------
(* A process of the same neighbors with a new database                     *)
LEMMA RestProc ==
  ASSUME NEW id, NEW p, NEW q, IsProc(p, id), IsDatabase(q, id), SameRest(p, q)
  PROVE  IsProc(q, id)
<1>1. IsNbrs(q.nbrs, q.areas, id)
  BY DEF IsProc, IsNbrs, SameRest
<1> QED
  BY <1>1 DEF IsProc, IsDatabase, SameRest

(* A process has a database.                                               *)
LEMMA ProcDatabase == \A p, id : IsProc(p, id) => IsDatabase(p, id)
BY DEF IsProc, IsDatabase

(* The outcome of doing nothing                                            *)
LEMMA OutcomeOut ==
  ASSUME NEW id, NEW p, IsProc(p, id), NEW T, Awaited(p.areas, p.ext, p.track \cup T)
  PROVE  /\ IsOut(Outcome(p), id, T)
         /\ Outcome(p).p = p /\ \A n \in Routers : Outcome(p).events[n] = << >>
<1> DEFINE o == Outcome(p)
           none == [n \in Routers |-> << >>]
<1>1. o = [p |-> p, events |-> none, flood |-> << >>, track |-> << >>]
  BY DEF Outcome
<1>2. none = [n \in Routers |-> none[n]] /\ \A n \in Routers : none[n] = << >>
  OBVIOUS
<1> HIDE DEF o, none
<1>3. o.p = p /\ o.events = none /\ o.flood = << >> /\ o.track = << >>
  BY <1>1
<1>4. IsEvents(none)
  BY <1>2, SeqEmpty DEF IsEvents
<1>5. IsLists(o, id) /\ Elems(o.track) = {}
  BY <1>3, SeqEmpty DEF IsLists
<1>6. Awaited(p.areas, p.ext, p.track \cup T \cup Elems(o.track))
  BY <1>5, MoreAwaited
<1>7. IsOut(o, id, T)
  BY <1>1, <1>3, <1>4, <1>5, <1>6 DEF IsOut
<1> QED
  BY <1>2, <1>3, <1>7 DEF o

IsPublished(o, u, id, T) ==
  IsOut(o, id, T) /\ o.p = u.p /\ \A n \in Routers : o.events[n] = << >>

(* What an update publishes is flooded, and tracked if it is dead.         *)
LEMMA PublishedOut ==
  ASSUME NEW id, NEW p, IsProc(p, id), NEW T, Awaited(p.areas, p.ext, p.track \cup T),
         NEW a, NEW u, IsUpdate(u, p, id, a)
  PROVE  IsPublished(Published(u, a), u, id, T)
<1> DEFINE o == Published(u, a)
           none == [n \in Routers |-> << >>]
           F == Cardinality(u.flood)
           K == Cardinality(u.after)
           f == [lsa |-> The(u.flood), area |-> a, except |-> 0]
           t == [area |-> a, key |-> The(u.flood).key, after |-> The(u.after)]
           flood == [i \in 1 .. F |-> f]
           track == [i \in 1 .. K |-> t]
<1>1. o = [p |-> u.p, events |-> none, flood |-> flood, track |-> track]
  <2>1. o = [[p |-> u.p, events |-> none, flood |-> << >>, track |-> << >>]
               EXCEPT !.flood = flood, !.track = track]
    BY DEF Published, Outcome
  <2> HIDE DEF o, none, flood, track
  <2> QED
    BY <2>1
<1>2. none = [n \in Routers |-> none[n]] /\ \A n \in Routers : none[n] = << >>
  OBVIOUS
<1>3. IsFiniteSet(u.flood) /\ IsFiniteSet(u.after)
  BY FewFinite DEF IsUpdate
<1>4. F \in Nat /\ K \in Nat
  BY <1>3, FS_CardinalityType
<1>5. IsSeq(flood) /\ Len(flood) = F /\ \A i \in 1 .. F : flood[i] = f
  BY <1>4, SeqMade
<1>6. IsSeq(track) /\ Len(track) = K /\ \A i \in 1 .. K : track[i] = t
  BY <1>4, SeqMade
<1>7. F # 0 => IsFlood(f)
  <2> SUFFICES ASSUME F # 0 PROVE IsFlood(f)
    OBVIOUS
  <2>1. u.flood # {}
    BY FS_EmptySet
  <2>2. \A l \in u.flood : IsLsa(l)
    BY DEF IsUpdate
  <2> QED
    BY <2>1, <2>2, TheOf DEF IsFlood
<1>8. /\ K # 0 => IsTrack(t, id) /\ Owes(p, u.p, {t})
      /\ K = 0 => Owes(p, u.p, {})
  <2>1. CASE u.after = {}
    <3>1. K = 0
      BY <2>1, FS_EmptySet
    <3> QED
      BY <2>1, <3>1, FewFinite DEF IsUpdate
  <2>2. CASE u.after # {}
    <3>1. K # 0
      BY <1>3, <2>2, FS_EmptySet
    <3>2. PICK l, x : /\ u.flood = {l} /\ u.after = {x}
                      /\ IsTrack([area |-> a, key |-> l.key, after |-> x], id)
                      /\ Owes(p, u.p, {[area |-> a, key |-> l.key, after |-> x]})
      BY <2>2 DEF IsUpdate
    <3>3. The(u.flood) = l /\ The(u.after) = x
      BY <3>2, TheOf
    <3> QED
      BY <3>1, <3>2, <3>3
  <2> QED
    BY <2>1, <2>2
<1> HIDE DEF o, none, flood, track, f, t, F, K
<1>9. o.p = u.p /\ o.events = none /\ o.flood = flood /\ o.track = track
  BY <1>1
<1>10. IsEvents(none)
  BY <1>2, SeqEmpty DEF IsEvents
<1>11. IsLists(o, id)
  BY <1>4, <1>5, <1>6, <1>7, <1>8, <1>9 DEF IsLists
<1>12. Elems(track) = IF K = 0 THEN {} ELSE {t}
  <2>1. K # 0 => 1 \in 1 .. K
    BY <1>4
  <2> QED
    BY <1>4, <1>6, <2>1 DEF Elems
<1>13. Owes(p, u.p, Elems(track))
  BY <1>8, <1>12
<1>14. IsProc(u.p, id) /\ u.p.track = p.track
  BY RestProc DEF IsUpdate, SameRest
<1>15. Awaited(u.p.areas, u.p.ext, u.p.track \cup T \cup Elems(o.track))
  BY <1>9, <1>13, <1>14, OwesAwaited
<1>16. IsOut(o, id, T)
  BY <1>1, <1>9, <1>10, <1>11, <1>14, <1>15 DEF IsOut
<1>17. IsPublished(o, u, id, T)
  BY <1>2, <1>9, <1>16 DEF IsPublished
<1> QED
  BY <1>17 DEF o

(* One outcome after another: events, LSAs to flood and LSAs to track add  *)
(* up.                                                                     *)
LEMMA ThenOut ==
  ASSUME NEW id, NEW o, NEW next, NEW T, IsOut(o, id, T), IsOut(next, id, T \cup Elems(o.track))
  PROVE  /\ IsOut(Then(o, next), id, T) /\ Then(o, next).p = next.p
         /\ \A n \in Routers : Described(o.events[n]) \/ Described(next.events[n])
                               => Described(Then(o, next).events[n])
<1> DEFINE r == Then(o, next)
           events == [n \in Routers |-> o.events[n] \o next.events[n]]
<1>1. r = [p |-> next.p, events |-> events,
           flood |-> o.flood \o next.flood, track |-> o.track \o next.track]
  BY DEF Then
<1>2. /\ events = [n \in Routers |-> events[n]]
      /\ \A n \in Routers : events[n] = o.events[n] \o next.events[n]
  OBVIOUS
<1> HIDE DEF r, events
<1>3. /\ r.p = next.p /\ r.events = events
      /\ r.flood = o.flood \o next.flood /\ r.track = o.track \o next.track
  BY <1>1
<1>4. /\ IsSeq(o.flood) /\ IsSeq(next.flood) /\ IsSeq(o.track) /\ IsSeq(next.track)
      /\ \A f \in Elems(o.flood) \cup Elems(next.flood) : IsFlood(f)
      /\ \A t \in Elems(o.track) \cup Elems(next.track) : IsTrack(t, id)
  BY DEF IsOut, IsLists, Elems
<1>5. /\ IsSeq(r.flood) /\ Elems(r.flood) = Elems(o.flood) \cup Elems(next.flood)
      /\ IsSeq(r.track) /\ Elems(r.track) = Elems(o.track) \cup Elems(next.track)
  BY <1>3, <1>4, SeqJoin
<1>6. IsLists(r, id)
  BY <1>4, <1>5 DEF IsLists, Elems
<1>7. ASSUME NEW n \in Routers
      PROVE  /\ IsSeq(events[n]) /\ \A i \in 1 .. Len(events[n]) : IsRaw(events[n][i])
             /\ Described(o.events[n]) \/ Described(next.events[n]) => Described(events[n])
  <2>1. /\ IsSeq(o.events[n]) /\ IsSeq(next.events[n])
        /\ \A m \in Elems(o.events[n]) \cup Elems(next.events[n]) : IsRaw(m)
    BY DEF IsOut, IsEvents, Elems
  <2>2. IsSeq(events[n]) /\ Elems(events[n]) = Elems(o.events[n]) \cup Elems(next.events[n])
    <3>1. events[n] = o.events[n] \o next.events[n]
      BY <1>2
    <3> QED
      BY <2>1, <3>1, SeqJoin
  <2>3. \A m \in Elems(events[n]) : IsRaw(m)
    BY <2>1, <2>2
  <2>4. \A s : Described(s) <=> \E m \in Elems(s) : m.kind = "DatabaseDescription"
    <3> SUFFICES ASSUME NEW s
                 PROVE  Described(s) <=> \E m \in Elems(s) : m.kind = "DatabaseDescription"
      OBVIOUS
    <3>1. ASSUME NEW m \in Elems(s), m.kind = "DatabaseDescription"
          PROVE  Described(s)
      BY <3>1 DEF Described, Elems
    <3>2. ASSUME Described(s)
          PROVE  \E m \in Elems(s) : m.kind = "DatabaseDescription"
      <4>1. PICK i \in 1 .. Len(s) : s[i].kind = "DatabaseDescription"
        BY <3>2 DEF Described
      <4>2. s[i] \in Elems(s)
        BY DEF Elems
      <4> QED
        BY <4>1, <4>2
    <3> QED
      BY <3>1, <3>2
  <2>5. \A i \in 1 .. Len(events[n]) : events[n][i] \in Elems(events[n])
    BY DEF Elems
  <2> QED
    BY <2>2, <2>3, <2>4, <2>5
<1>8. IsEvents(r.events)
  BY <1>2, <1>3, <1>7 DEF IsEvents
<1>9. T \cup Elems(o.track) \cup Elems(next.track) = T \cup Elems(r.track)
  BY <1>5
<1>10. Awaited(r.p.areas, r.p.ext, r.p.track \cup T \cup Elems(r.track))
  <2>1. Awaited(next.p.areas, next.p.ext, next.p.track \cup (T \cup Elems(o.track)) \cup Elems(next.track))
    BY DEF IsOut
  <2>2. next.p.track \cup (T \cup Elems(o.track)) \cup Elems(next.track)
          = r.p.track \cup T \cup Elems(r.track)
    BY <1>3, <1>5
  <2> QED
    BY <1>3, <2>1, <2>2
<1>11. r = [p |-> r.p, events |-> r.events, flood |-> r.flood, track |-> r.track]
  BY <1>1, <1>3
<1>12. IsProc(r.p, id)
  BY <1>3 DEF IsOut
<1>13. IsOut(r, id, T)
  BY <1>6, <1>8, <1>10, <1>11, <1>12 DEF IsOut
<1> QED
  BY <1>3, <1>7, <1>13 DEF r
-----------------------------------------------------------------------------
(* A process of which the state of neighbor n is not looked at             *)
IsProcBut(p, id, n) ==
  /\ IsShape(p, id)
  /\ id \in Routers
  /\ IsBase(p.areas, p.ext, id)
  /\ DOMAIN p.nbrs \subseteq Routers
  /\ p.nbrs = [k \in DOMAIN p.nbrs |-> p.nbrs[k]]
  /\ \A k \in DOMAIN p.nbrs : k # n => IsNbr(p.nbrs[k], id, k) /\ p.nbrs[k].area \in DOMAIN p.areas
  /\ IsKept(p.track, id)
  /\ IsFiniteSet(DOMAIN p.rib)

(* A process is one but for the neighbor n.                                *)
LEMMA ProcBut == \A p, id, n : IsProc(p, id) => IsProcBut(p, id, n)
BY DEF IsProc, IsProcBut, IsNbrs

(* The neighbors of a process are set.                                     *)
LEMMA NbrsSet ==
  ASSUME NEW id, NEW p, IsShape(p, id), NEW nbrs, NEW q, q = [p EXCEPT !.nbrs = nbrs]
  PROVE  /\ IsShape(q, id) /\ q.nbrs = nbrs /\ q.areas = p.areas /\ q.ext = p.ext
         /\ q.track = p.track /\ q.rib = p.rib /\ q.id = id
<1>1. p = [id |-> id, areas |-> p.areas, ext |-> p.ext, ext_changed |-> p.ext_changed,
           rib |-> p.rib, links |-> p.links, nbrs |-> p.nbrs, track |-> p.track]
  BY DEF IsShape
<1>2. q = [id |-> id, areas |-> p.areas, ext |-> p.ext, ext_changed |-> p.ext_changed,
           rib |-> p.rib, links |-> p.links, nbrs |-> nbrs, track |-> p.track]
  BY <1>1
<1> QED
  BY <1>2 DEF IsShape

(* Other links of a process                                                *)
LEMMA LinksSet ==
  ASSUME NEW id, NEW p, IsProc(p, id), NEW links0, NEW q, q = [p EXCEPT !.links = links0]
  PROVE  IsProc(q, id) /\ q.nbrs = p.nbrs /\ q.areas = p.areas /\ q.ext = p.ext /\ q.track = p.track
<1>1. p = [id |-> id, areas |-> p.areas, ext |-> p.ext, ext_changed |-> p.ext_changed,
           rib |-> p.rib, links |-> p.links, nbrs |-> p.nbrs, track |-> p.track]
  BY DEF IsProc, IsShape
<1>2. q = [id |-> id, areas |-> p.areas, ext |-> p.ext, ext_changed |-> p.ext_changed,
           rib |-> p.rib, links |-> links0, nbrs |-> p.nbrs, track |-> p.track]
  BY <1>1
<1>3. IsShape(q, id) /\ q.rib = p.rib
  BY <1>2 DEF IsShape
<1> QED
  BY <1>2, <1>3 DEF IsProc

IsRaws(ms) == IsSeq(ms) /\ \A i \in 1 .. Len(ms) : IsRaw(ms[i])

(* Neighbor n is now nb, and is sent ms.                                   *)
Answered(o, p, n, nb, ms) ==
  /\ o.events[n] = ms /\ \A k \in Routers : k # n => o.events[k] = << >>
  /\ o.p.nbrs[n] = nb /\ DOMAIN o.p.nbrs = DOMAIN p.nbrs
  /\ \A k \in DOMAIN p.nbrs : k # n => o.p.nbrs[k] = p.nbrs[k]

(* An outcome that sets a neighbor and sends it messages                   *)
LEMMA AnswerOut ==
  ASSUME NEW id, NEW n \in Routers, NEW p, IsProcBut(p, id, n), n \in DOMAIN p.nbrs,
         NEW T, Awaited(p.areas, p.ext, p.track \cup T),
         NEW nb, IsNbr(nb, id, n), nb.area \in DOMAIN p.areas,
         NEW ms, IsRaws(ms)
  PROVE  IsOut(Answer(p, n, nb, ms), id, T) /\ Answered(Answer(p, n, nb, ms), p, n, nb, ms)
<1> DEFINE o == Answer(p, n, nb, ms)
           nbrs == [p.nbrs EXCEPT ![n] = nb]
           q == [p EXCEPT !.nbrs[n] = nb]
           none == [k \in Routers |-> << >>]
           events == [none EXCEPT ![n] = ms]
<1>1. q = [p EXCEPT !.nbrs = nbrs]
  OBVIOUS
<1>2. o = [[p |-> q, events |-> none, flood |-> << >>, track |-> << >>] EXCEPT !.events[n] = ms]
  BY DEF Answer, Outcome
<1>3. o = [p |-> q, events |-> events, flood |-> << >>, track |-> << >>]
  <2> HIDE DEF q, none, o
  <2> QED
    BY <1>2
<1>4. /\ DOMAIN nbrs = DOMAIN p.nbrs /\ nbrs[n] = nb
      /\ \A k \in DOMAIN p.nbrs : k # n => nbrs[k] = p.nbrs[k]
      /\ nbrs = [k \in DOMAIN nbrs |-> nbrs[k]]
  BY DEF IsProcBut
<1>5. /\ events = [k \in Routers |-> events[k]] /\ events[n] = ms
      /\ \A k \in Routers : k # n => events[k] = << >>
  OBVIOUS
<1> HIDE DEF o, nbrs, q, none, events
<1>6. /\ IsShape(q, id) /\ q.nbrs = nbrs /\ q.areas = p.areas /\ q.ext = p.ext
      /\ q.track = p.track /\ q.rib = p.rib
  BY <1>1, NbrsSet DEF IsProcBut
<1>7. IsNbrs(q.nbrs, q.areas, id)
  BY <1>4, <1>6 DEF IsProcBut, IsNbrs
<1>8. IsProc(q, id)
  BY <1>6, <1>7 DEF IsProc, IsProcBut
<1>9. o.p = q /\ o.events = events /\ o.flood = << >> /\ o.track = << >>
  BY <1>3
<1>10. IsEvents(events)
  BY <1>5, SeqEmpty DEF IsEvents, IsRaws
<1>11. IsLists(o, id) /\ Elems(o.track) = {}
  BY <1>9, SeqEmpty DEF IsLists
<1>12. Awaited(q.areas, q.ext, q.track \cup T \cup Elems(o.track))
  BY <1>6, <1>11, MoreAwaited
<1>13. IsOut(o, id, T)
  BY <1>3, <1>8, <1>9, <1>10, <1>11, <1>12 DEF IsOut
<1>14. Answered(o, p, n, nb, ms)
  BY <1>4, <1>5, <1>6, <1>9 DEF Answered
<1> QED
  BY <1>13, <1>14 DEF o

(* The description of a database is a set of LSAs.                         *)
LEMMA SummaryLsas ==
  ASSUME NEW id, NEW p, IsDatabase(p, id), NEW a \in DOMAIN p.areas
  PROVE  IsLsas(SummaryList(p, a))
<1>1. IsLsas(p.ext) /\ IsArea(p.areas[a], id)
  BY DEF IsDatabase, IsBase
<1>2. IsLsas(p.areas[a].lsas \cup p.ext)
  BY <1>1, LsasJoin DEF IsArea
<1> QED
  BY <1>2, LsasPart DEF SummaryList, Live

(* A database description is a message.                                    *)
LEMMA DescRaw == \A lsas : IsRaw(Desc(lsas)) /\ Desc(lsas).kind = "DatabaseDescription"
BY DEF IsRaw, Desc, Message, Kinds, Listed

(* A new neighbor is in Init, and waits if it is not the leader.           *)
LEMMA NewNeighborFacts ==
  ASSUME NEW id \in Routers, NEW n \in Routers, NEW a
  PROVE  LET nb == NewNeighbor(id, n, a)
         IN  /\ nb.area = a /\ nb.leader = (id < n) /\ nb.state = "Init" /\ nb.request = {}
             /\ nb.retransmission = {} /\ nb.summary = {}
             /\ nb = [area |-> nb.area, leader |-> nb.leader, state |-> nb.state,
                      retransmission |-> nb.retransmission, summary |-> nb.summary,
                      request |-> nb.request]
BY DEF NewNeighbor
-----------------------------------------------------------------------------
(* Neighbor n has joined the neighbors nbrs in area a, and if this router  *)
(* leads the exchange, it has described its database to n.                 *)
Joined(nbrs, o, id, n, a) ==
  /\ DOMAIN o.p.nbrs = DOMAIN nbrs \cup {n} /\ o.p.nbrs[n].area = a
  /\ \A k \in DOMAIN nbrs : k # n => o.p.nbrs[k] = nbrs[k]
  /\ id < n => Described(o.events[n])

(* The start of the exchange with the new neighbor n                       *)
LEMMA StartOut ==
  ASSUME NEW id \in Routers, NEW n \in Routers, NEW a, NEW q, IsProcBut(q, id, n),
         a \in DOMAIN q.areas, n \in DOMAIN q.nbrs, q.nbrs[n] = NewNeighbor(id, n, a),
         NEW T, Awaited(q.areas, q.ext, q.track \cup T)
  PROVE  /\ IsOut(Start(q, n), id, T)
         /\ DOMAIN Start(q, n).p.nbrs = DOMAIN q.nbrs /\ Start(q, n).p.nbrs[n].area = a
         /\ \A k \in DOMAIN q.nbrs : k # n => Start(q, n).p.nbrs[k] = q.nbrs[k]
         /\ id < n => Described(Start(q, n).events[n])
<1> DEFINE nb == NewNeighbor(id, n, a)
           summary == SummaryList(q, a)
           new == [nb EXCEPT !.summary = summary, !.state = "Exchange"]
           ms == <<Desc(summary)>>
<1>1. /\ nb.area = a /\ nb.leader = (id < n) /\ nb.state = "Init" /\ nb.request = {}
      /\ nb.retransmission = {} /\ nb.summary = {}
      /\ nb = [area |-> nb.area, leader |-> nb.leader, state |-> nb.state,
               retransmission |-> nb.retransmission, summary |-> nb.summary,
               request |-> nb.request]
  BY NewNeighborFacts
<1>2. IsLsas(summary) /\ IsLsas({})
  BY SummaryLsas, LsasFew DEF IsProcBut, IsDatabase
<1>3. Start(q, n) = IF nb.leader THEN Answer(q, n, new, ms) ELSE Outcome(q)
  BY <1>1 DEF Start
<1>4. new = [nb EXCEPT !.summary = summary, !.state = "Exchange"]
  OBVIOUS
<1>5. IsSeq(ms) /\ Len(ms) = 1 /\ ms[1] = Desc(summary)
  BY SeqOne
<1>6. \A i \in 1 .. Len(ms) : i = 1
  BY <1>5
<1>7. IsRaws(ms) /\ Described(ms)
  <2> HIDE DEF ms
  <2>1. 1 \in 1 .. Len(ms)
    BY <1>5
  <2> QED
    BY <1>5, <1>6, <2>1, DescRaw DEF Described, IsRaws
<1> HIDE DEF nb, summary, new, ms
<1>8. CASE nb.leader
  <2>1. new = [area |-> nb.area, leader |-> nb.leader, state |-> "Exchange",
               retransmission |-> nb.retransmission, summary |-> summary,
               request |-> nb.request]
    BY <1>1, <1>4
  <2>2. IsNbr(new, id, n) /\ new.area = a /\ new.area \in DOMAIN q.areas
    BY <1>1, <1>2, <1>8, <2>1 DEF IsNbr
  <2> DEFINE o == Answer(q, n, new, ms)
  <2>3. IsOut(o, id, T) /\ Answered(o, q, n, new, ms)
    BY <1>7, <2>2, AnswerOut
  <2>4. Start(q, n) = o
    BY <1>3, <1>8
  <2> HIDE DEF o
  <2> QED
    BY <1>7, <2>2, <2>3, <2>4 DEF Answered
<1>9. CASE ~nb.leader
  <2>1. IsNbr(nb, id, n)
    BY <1>1, <1>2, <1>9 DEF IsNbr
  <2>2. IsProc(q, id)
    BY <1>1, <2>1 DEF IsProcBut, IsProc, IsNbrs, nb
  <2>3. IsOut(Outcome(q), id, T) /\ Outcome(q).p = q
    BY <2>2, OutcomeOut
  <2>4. Start(q, n) = Outcome(q)
    BY <1>3, <1>9
  <2> QED
    BY <1>1, <1>9, <2>3, <2>4 DEF nb
<1> QED
  BY <1>8, <1>9

(* A neighbor is added, and sent the description of the database if we are *)
(* the leader.                                                             *)
LEMMA AdjoinOut ==
  ASSUME NEW id \in Routers, NEW n \in Routers, NEW a, NEW T, NEW o, IsOut(o, id, T),
         a \in DOMAIN o.p.areas
  PROVE  IsOut(Adjoin(o, n, a), id, T) /\ Joined(o.p.nbrs, Adjoin(o, n, a), id, n, a)
<1> DEFINE p == o.p
           nb == NewNeighbor(id, n, a)
           nbrs == Extended(p.nbrs, n, nb)
           q == [p EXCEPT !.nbrs = nbrs]
           next == Start(q, n)
           U == T \cup Elems(o.track)
<1>1. IsProc(p, id) /\ Awaited(p.areas, p.ext, p.track \cup U)
  <2>1. p.track \cup U = o.p.track \cup T \cup Elems(o.track)
    OBVIOUS
  <2> QED
    BY <2>1 DEF IsOut
<1>2. IsProcBut(p, id, n) /\ IsShape(p, id) /\ p.id = id
  BY <1>1, ProcBut DEF IsProc, IsShape
<1>3. Adjoin(o, n, a) = Then(o, next)
  BY <1>2 DEF Adjoin
<1>4. Adds(nbrs, p.nbrs, n, nb)
  BY ExtendedAdds
<1>5. q = [p EXCEPT !.nbrs = nbrs]
  OBVIOUS
<1>6. a \in DOMAIN p.areas
  OBVIOUS
<1> HIDE DEF nbrs, q, next, U, p
<1>7. /\ IsShape(q, id) /\ q.nbrs = nbrs /\ q.areas = p.areas /\ q.ext = p.ext
      /\ q.track = p.track /\ q.rib = p.rib
  BY <1>2, <1>5, NbrsSet
<1>8. IsProcBut(q, id, n)
  BY <1>2, <1>4, <1>7 DEF IsProcBut, Adds
<1>9. q.nbrs[n] = nb /\ n \in DOMAIN q.nbrs /\ a \in DOMAIN q.areas
      /\ DOMAIN q.nbrs = DOMAIN p.nbrs \cup {n}
      /\ \A k \in DOMAIN p.nbrs : k # n => q.nbrs[k] = p.nbrs[k]
  BY <1>4, <1>6, <1>7 DEF Adds
<1>10. /\ IsOut(next, id, U)
       /\ DOMAIN next.p.nbrs = DOMAIN q.nbrs /\ next.p.nbrs[n].area = a
       /\ \A k \in DOMAIN q.nbrs : k # n => next.p.nbrs[k] = q.nbrs[k]
       /\ id < n => Described(next.events[n])
  BY <1>1, <1>7, <1>8, <1>9, StartOut DEF next
<1>11. /\ IsOut(Then(o, next), id, T) /\ Then(o, next).p = next.p
       /\ \A k \in Routers : Described(o.events[k]) \/ Described(next.events[k])
                             => Described(Then(o, next).events[k])
  BY <1>10, ThenOut DEF U
<1>12. Joined(p.nbrs, Then(o, next), id, n, a)
  BY <1>9, <1>10, <1>11 DEF Joined
<1> QED
  BY <1>3, <1>11, <1>12 DEF p

(* The link of an own Router-LSA is set.                                   *)
LinkSet(o, p, id, T) ==
  IsOut(o, id, T) /\ o.p.nbrs = p.nbrs /\ DOMAIN p.areas \subseteq DOMAIN o.p.areas

(* The link to a neighbor is set in the own Router-LSA.                    *)
LEMMA ThenLinkOut ==
  ASSUME NEW id, NEW n, NEW a \in Areas, NEW weight, NEW T, NEW o, IsOut(o, id, T)
  PROVE  LinkSet(ThenLink(o, n, a, weight), o.p, id, T)
<1> DEFINE p == o.p
           u == UpdateLocalLsa(p, n, a, weight)
           next == Published(u, a)
           U == T \cup Elems(o.track)
<1>1. IsProc(p, id) /\ Awaited(p.areas, p.ext, p.track \cup U)
  <2>1. p.track \cup U = o.p.track \cup T \cup Elems(o.track)
    OBVIOUS
  <2> QED
    BY <2>1 DEF IsOut
<1>2. ThenLink(o, n, a, weight) = Then(o, next)
  BY DEF ThenLink
<1>3. IsUpdate(u, p, id, a)
  BY <1>1, ProcDatabase, LocalUpdate
<1> HIDE DEF u, U, p
<1>8. IsPublished(next, u, id, U)
  BY <1>1, <1>3, PublishedOut
<1> HIDE DEF next
<1>4. IsOut(next, id, U) /\ next.p = u.p
  BY <1>8 DEF IsPublished
<1>5. IsOut(Then(o, next), id, T) /\ Then(o, next).p = next.p
  BY <1>4, ThenOut DEF U
<1>6. u.p.nbrs = p.nbrs /\ DOMAIN p.areas \subseteq DOMAIN u.p.areas
  BY <1>3 DEF IsUpdate, SameRest
<1> QED
  BY <1>2, <1>4, <1>5, <1>6 DEF p, LinkSet

(* The weight of a link changes.                                           *)
LEMMA UpdateWeightOut ==
  ASSUME NEW id, NEW n, NEW a \in Areas, NEW weight, NEW T, NEW p, IsProc(p, id),
         Awaited(p.areas, p.ext, p.track \cup T)
  PROVE  LinkSet(UpdateWeight(p, n, a, weight), p, id, T)
<1> DEFINE u == UpdateLocalLsa(p, n, a, weight)
           o == Published(u, a)
           links0 == WithLink(o.p.links, n, weight)
           q == [o.p EXCEPT !.links = links0]
           r == [o EXCEPT !.p = q]
<1>1. IsUpdate(u, p, id, a)
  BY ProcDatabase, LocalUpdate
<1>2. UpdateWeight(p, n, a, weight) = IF o.flood = << >> THEN o ELSE r
  BY DEF UpdateWeight
<1>3. q = [o.p EXCEPT !.links = links0] /\ r = [o EXCEPT !.p = q]
  OBVIOUS
<1> HIDE DEF u, links0, q, r
<1>10. IsPublished(o, u, id, T)
  BY <1>1, PublishedOut
<1> HIDE DEF o
<1>4. IsOut(o, id, T) /\ o.p = u.p
  BY <1>10 DEF IsPublished
<1>5. o.p.nbrs = p.nbrs /\ DOMAIN p.areas \subseteq DOMAIN o.p.areas
  BY <1>1, <1>4 DEF IsUpdate, SameRest
<1>6. IsProc(q, id) /\ q.nbrs = o.p.nbrs /\ q.areas = o.p.areas /\ q.ext = o.p.ext /\ q.track = o.p.track
  BY <1>3, <1>4, LinksSet DEF IsOut
<1>7. /\ r = [p |-> q, events |-> o.events, flood |-> o.flood, track |-> o.track]
  <2>1. o = [p |-> o.p, events |-> o.events, flood |-> o.flood, track |-> o.track]
    BY <1>4 DEF IsOut
  <2> QED
    BY <1>3, <2>1
<1>8. r.p = q /\ r.events = o.events /\ r.flood = o.flood /\ r.track = o.track
  BY <1>7
<1>9. IsOut(r, id, T)
  BY <1>4, <1>6, <1>7, <1>8 DEF IsOut, IsLists
<1> QED
  BY <1>2, <1>4, <1>5, <1>6, <1>8, <1>9 DEF LinkSet
-----------------------------------------------------------------------------
(* An area that no neighbor is left in is dropped.                         *)
LEMMA LeaveFacts ==
  ASSUME NEW id, NEW a \in Areas, NEW p, IsProc(p, id), NEW T, Awaited(p.areas, p.ext, p.track \cup T)
  PROVE  LET q == LeaveArea(p, a)
         IN  IsProc(q, id) /\ q.nbrs = p.nbrs /\ Awaited(q.areas, q.ext, q.track \cup T)
<1>1. CASE \E n \in Neighbors(p) : p.nbrs[n].area = a
  BY <1>1 DEF LeaveArea
<1>2. CASE \A n \in DOMAIN p.nbrs : p.nbrs[n].area # a
  <2> DEFINE areas == Restricted(p.areas, DOMAIN p.areas \ {a})
             track == {t \in p.track : t.area # a}
             q == LeaveArea(p, a)
  <2>1. p = [id |-> id, areas |-> p.areas, ext |-> p.ext, ext_changed |-> p.ext_changed,
             rib |-> p.rib, links |-> p.links, nbrs |-> p.nbrs, track |-> p.track]
    BY DEF IsProc, IsShape
  <2> DEFINE w == WithoutArea(p, a)
  <2>2. w = [id |-> id, areas |-> areas, ext |-> p.ext, ext_changed |-> p.ext_changed,
             rib |-> p.rib, links |-> p.links, nbrs |-> p.nbrs, track |-> p.track]
    <3>1. w = [p EXCEPT !.areas = areas]
      BY DEF WithoutArea
    <3> HIDE DEF w, areas
    <3> QED
      BY <2>1, <3>1
  <2>3. q = [w EXCEPT !.track = track]
    <3>1. w.track = p.track
      BY <2>2
    <3> QED
      BY <1>2, <3>1 DEF LeaveArea, Neighbors
  <2>4. /\ DOMAIN areas = DOMAIN p.areas \ {a} /\ areas = [b \in DOMAIN areas |-> areas[b]]
        /\ \A b \in DOMAIN areas : areas[b] = p.areas[b]
    BY DEF Restricted
  <2>5. track \subseteq p.track
    OBVIOUS
  <2>6. \A t \in p.track : t.area # a => t \in track
    OBVIOUS
  <2> HIDE DEF w, q, areas, track
  <2>7. q = [id |-> id, areas |-> areas, ext |-> p.ext, ext_changed |-> p.ext_changed,
             rib |-> p.rib, links |-> p.links, nbrs |-> p.nbrs, track |-> track]
    BY <2>2, <2>3
  <2>8. /\ q.areas = areas /\ q.ext = p.ext /\ q.nbrs = p.nbrs /\ q.track = track
        /\ q.rib = p.rib /\ IsShape(q, id)
    BY <2>7 DEF IsShape
  <2>9. IsBase(areas, p.ext, id)
    BY <2>4 DEF IsBase, IsProc
  <2>10. IsKept(track, id)
    BY <2>5, PartFinite DEF IsKept, IsProc
  <2>11. IsNbrs(p.nbrs, areas, id)
    <3>1. \A n \in DOMAIN p.nbrs : p.nbrs[n].area \in DOMAIN areas
      BY <1>2, <2>4 DEF IsProc, IsNbrs
    <3> QED
      BY <3>1 DEF IsProc, IsNbrs
  <2>12. IsProc(q, id)
    BY <2>8, <2>9, <2>10, <2>11 DEF IsProc
  <2>13. ASSUME NEW l \in p.ext, l.dead = TRUE
         PROVE  \E t \in track \cup T : t.key = l.key
    <3>1. PICK t \in p.track \cup T : t.key = l.key
      BY <2>13 DEF Awaited
    <3>2. CASE t \in T
      BY <3>1, <3>2
    <3>3. CASE t \in p.track
      <4>1. l.key.type = External
        BY DEF IsProc, IsBase
      <4>2. t.area = NoArea
        BY <3>1, <3>3, <4>1 DEF IsProc, IsKept
      <4>3. NoArea # a
        BY OspfAssumption DEF NoArea
      <4> QED
        BY <2>6, <3>1, <3>3, <4>2, <4>3
    <3> QED
      BY <3>2, <3>3
  <2>14. ASSUME NEW b \in DOMAIN areas, NEW l \in areas[b].lsas, l.dead = TRUE
         PROVE  \E t \in track \cup T : t.key = l.key /\ t.area = b
    <3>1. b # a /\ b \in DOMAIN p.areas /\ l \in p.areas[b].lsas
      BY <2>4
    <3>2. PICK t \in p.track \cup T : t.key = l.key /\ t.area = b
      BY <2>14, <3>1 DEF Awaited
    <3> QED
      BY <2>6, <3>1, <3>2
  <2>15. Awaited(areas, p.ext, track \cup T)
    BY <2>13, <2>14 DEF Awaited
  <2> QED
    BY <2>8, <2>12, <2>15 DEF q
<1> QED
  BY <1>1, <1>2 DEF Neighbors

(* The outcome o, and then the state of the process is q.                  *)
LEMMA StateSet ==
  ASSUME NEW id, NEW T, NEW o, IsOut(o, id, T), NEW q, IsProc(q, id),
         Awaited(q.areas, q.ext, q.track \cup T \cup Elems(o.track)),
         NEW r, r = [o EXCEPT !.p = q]
  PROVE  IsOut(r, id, T) /\ r.p = q /\ r.events = o.events
<1>1. o = [p |-> o.p, events |-> o.events, flood |-> o.flood, track |-> o.track]
  BY DEF IsOut
<1>2. r = [p |-> q, events |-> o.events, flood |-> o.flood, track |-> o.track]
  BY <1>1
<1>3. r.p = q /\ r.events = o.events /\ r.flood = o.flood /\ r.track = o.track
  BY <1>2
<1> QED
  BY <1>2, <1>3 DEF IsOut, IsLists

(* The same as part of an outcome                                          *)
LEMMA LeavingOut ==
  ASSUME NEW id, NEW a \in Areas, NEW T, NEW o, IsOut(o, id, T)
  PROVE  LET r == [o EXCEPT !.p = LeaveArea(@, a)]
         IN  IsOut(r, id, T) /\ r.p.nbrs = o.p.nbrs /\ r.events = o.events
<1> DEFINE q == LeaveArea(o.p, a)
           r == [o EXCEPT !.p = q]
           U == T \cup Elems(o.track)
<1>1. r = [o EXCEPT !.p = q]
  OBVIOUS
<1>2. IsProc(o.p, id) /\ Awaited(o.p.areas, o.p.ext, o.p.track \cup U)
  <2>1. o.p.track \cup U = o.p.track \cup T \cup Elems(o.track)
    OBVIOUS
  <2> QED
    BY <2>1 DEF IsOut
<1> HIDE DEF q, r
<1>3. IsProc(q, id) /\ q.nbrs = o.p.nbrs /\ Awaited(q.areas, q.ext, q.track \cup U)
  <2> HIDE DEF U
  <2> QED
    BY <1>2, LeaveFacts DEF q
<1>4. q.track \cup U = q.track \cup T \cup Elems(o.track)
  OBVIOUS
<1>5. IsOut(r, id, T) /\ r.p = q /\ r.events = o.events
  BY <1>1, <1>3, <1>4, StateSet
<1> QED
  BY <1>3, <1>5 DEF r, q

(* add_neighbor: the neighbor joins in its area.                           *)
LEMMA AddNeighborOut ==
  ASSUME NEW id \in Routers, NEW n \in Routers, NEW a \in Areas, NEW weight,
         NEW T, NEW p, IsProc(p, id), Awaited(p.areas, p.ext, p.track \cup T)
  PROVE  LET o == AddNeighbor(p, n, a, weight)
         IN  IsOut(o, id, T) /\ Joined(p.nbrs, o, id, n, a)
<1> DEFINE q == WithArea(p, a)
           o == UpdateWeight(q, n, a, {weight})
<1>1. AddNeighbor(p, n, a, weight) = Adjoin(o, n, a)
  BY DEF AddNeighbor
<1>2. IsDatabase(q, id) /\ SameRest(p, q) /\ a \in DOMAIN q.areas /\ q.ext = p.ext /\ NoneDead(p, q)
  BY ProcDatabase, WithAreaFacts
<1>3. q.nbrs = p.nbrs /\ q.track = p.track
  BY <1>2 DEF SameRest
<1> HIDE DEF q, o
<1>4. IsProc(q, id)
  BY <1>2, RestProc
<1>5. Awaited(q.areas, q.ext, q.track \cup T)
  BY <1>2, <1>3 DEF Awaited, NoneDead
<1>9. LinkSet(o, q, id, T)
  BY <1>4, <1>5, UpdateWeightOut DEF o
<1>6. IsOut(o, id, T) /\ o.p.nbrs = q.nbrs /\ DOMAIN q.areas \subseteq DOMAIN o.p.areas
  BY <1>9 DEF LinkSet
<1>7. a \in DOMAIN o.p.areas
  BY <1>2, <1>6
<1>8. IsOut(Adjoin(o, n, a), id, T) /\ Joined(o.p.nbrs, Adjoin(o, n, a), id, n, a)
  BY <1>6, <1>7, AdjoinOut
<1> QED
  BY <1>1, <1>3, <1>6, <1>8

(* The process without neighbor n                                          *)
Gone(p, n) == [p EXCEPT !.nbrs = Restricted(p.nbrs, DOMAIN p.nbrs \ {n})]

IsGone(q, p, id, n) ==
  /\ IsProc(q, id) /\ DOMAIN q.nbrs = DOMAIN p.nbrs \ {n}
  /\ \A k \in DOMAIN q.nbrs : q.nbrs[k] = p.nbrs[k]
  /\ q.areas = p.areas /\ q.ext = p.ext /\ q.track = p.track

(* A process without the neighbor n                                        *)
LEMMA GoneFacts ==
  ASSUME NEW id, NEW n, NEW p, IsProc(p, id)
  PROVE  IsGone(Gone(p, n), p, id, n)
<1> DEFINE nbrs == Restricted(p.nbrs, DOMAIN p.nbrs \ {n})
           q == Gone(p, n)
<1>0. q = [p EXCEPT !.nbrs = nbrs]
  BY DEF Gone
<1>1. /\ DOMAIN nbrs = DOMAIN p.nbrs \ {n} /\ nbrs = [k \in DOMAIN nbrs |-> nbrs[k]]
      /\ \A k \in DOMAIN nbrs : nbrs[k] = p.nbrs[k]
  BY DEF Restricted
<1> HIDE DEF nbrs, q
<1>2. /\ IsShape(q, id) /\ q.nbrs = nbrs /\ q.areas = p.areas /\ q.ext = p.ext
      /\ q.track = p.track /\ q.rib = p.rib
  BY <1>0, NbrsSet DEF IsProc
<1>3. IsNbrs(nbrs, p.areas, id)
  BY <1>1 DEF IsProc, IsNbrs
<1>4. IsGone(q, p, id, n)
  BY <1>1, <1>2, <1>3 DEF IsProc, IsGone
<1> QED
  BY <1>4 DEF q

Left(o, p, id, n, T) ==
  /\ IsOut(o, id, T) /\ DOMAIN o.p.nbrs = DOMAIN p.nbrs \ {n}
  /\ \A k \in DOMAIN o.p.nbrs : o.p.nbrs[k] = p.nbrs[k]

(* remove_neighbor: what was tracked for the neighbor is not awaited from  *)
(* it any more.                                                            *)
LEMMA DelNeighborOut ==
  ASSUME NEW id, NEW p, IsProc(p, id), NEW n \in DOMAIN p.nbrs,
         NEW T, Awaited(p.areas, p.ext, p.track \cup T)
  PROVE  Left(DelNeighbor(p, n), p, id, n, T)
<1> DEFINE a == p.nbrs[n].area
           q == Gone(p, n)
           none == {}
           o == UpdateWeight(q, n, a, none)
           r == [o EXCEPT !.p = LeaveArea(@, a)]
<1>1. DelNeighbor(p, n) = r
  BY DEF DelNeighbor, Neighbors, Gone
<1>2. a \in Areas
  BY DEF IsProc, IsNbrs, IsBase
<1>3. IsGone(q, p, id, n)
  BY GoneFacts
<1> HIDE DEF a, q, o, r, none
<1>4. /\ IsProc(q, id) /\ DOMAIN q.nbrs = DOMAIN p.nbrs \ {n}
      /\ \A k \in DOMAIN q.nbrs : q.nbrs[k] = p.nbrs[k]
      /\ q.areas = p.areas /\ q.ext = p.ext /\ q.track = p.track
  BY <1>3 DEF IsGone
<1>5. Awaited(q.areas, q.ext, q.track \cup T)
  BY <1>4
<1>8. LinkSet(o, q, id, T)
  BY <1>2, <1>4, <1>5, UpdateWeightOut DEF o
<1>6. IsOut(o, id, T) /\ o.p.nbrs = q.nbrs
  BY <1>8 DEF LinkSet
<1>7. IsOut(r, id, T) /\ r.p.nbrs = o.p.nbrs
  BY <1>2, <1>6, LeavingOut DEF r
<1> QED
  BY <1>1, <1>4, <1>6, <1>7 DEF Left

(* update_area: the neighbor leaves, and joins in the new area.            *)
LEMMA ChangeAreaOut ==
  ASSUME NEW id \in Routers, NEW p, IsProc(p, id), NEW n \in DOMAIN p.nbrs, NEW a \in Areas,
         NEW T, Awaited(p.areas, p.ext, p.track \cup T)
  PROVE  LET o == ChangeArea(p, n, a)
         IN  /\ IsOut(o, id, T)
             /\ IF p.nbrs[n].area = a THEN o.p.nbrs = p.nbrs ELSE Joined(p.nbrs, o, id, n, a)
<1> DEFINE old == p.nbrs[n].area
           w == WithArea(p, a)
           q == Gone(w, n)
           none == {}
           left == ThenLink(Outcome(q), n, old, none)
           linked == ThenLink(left, n, a, {p.links[n]})
           o == Adjoin(linked, n, a)
           r == [o EXCEPT !.p = LeaveArea(@, old)]
<1>1. IsDatabase(w, id) /\ SameRest(p, w) /\ a \in DOMAIN w.areas /\ w.ext = p.ext /\ NoneDead(p, w)
  BY ProcDatabase, WithAreaFacts
<1>2. w.nbrs = p.nbrs /\ w.track = p.track /\ IsProc(w, id)
  BY <1>1, RestProc DEF SameRest
<1>3. Awaited(w.areas, w.ext, w.track \cup T)
  BY <1>1, <1>2 DEF Awaited, NoneDead
<1>4. ChangeArea(p, n, a) = IF old = a THEN Outcome(w) ELSE r
  BY <1>2 DEF ChangeArea, Neighbors, Gone
<1>5. IsGone(q, w, id, n)
  BY <1>2, GoneFacts
<1>6. old \in Areas /\ n \in Routers
  BY DEF IsProc, IsNbrs, IsBase
<1> HIDE DEF w, q, none, left, linked, o, r
<1>7. CASE old = a
  <2>1. IsOut(Outcome(w), id, T) /\ Outcome(w).p = w
    BY <1>2, <1>3, OutcomeOut
  <2> QED
    BY <1>2, <1>4, <1>7, <2>1
<1>8. CASE old # a
  <2> HIDE DEF old
  <2>1. /\ IsProc(q, id) /\ DOMAIN q.nbrs = DOMAIN w.nbrs \ {n}
        /\ \A k \in DOMAIN q.nbrs : q.nbrs[k] = w.nbrs[k]
        /\ q.areas = w.areas /\ q.ext = w.ext /\ q.track = w.track
    BY <1>5 DEF IsGone
  <2>2. Awaited(q.areas, q.ext, q.track \cup T)
    BY <1>3, <2>1
  <2>3. IsOut(Outcome(q), id, T) /\ Outcome(q).p = q
    BY <2>1, <2>2, OutcomeOut
  <2>10. LinkSet(left, Outcome(q).p, id, T)
    BY <1>6, <2>3, ThenLinkOut DEF left
  <2>4. IsOut(left, id, T) /\ left.p.nbrs = q.nbrs /\ DOMAIN q.areas \subseteq DOMAIN left.p.areas
    BY <2>3, <2>10 DEF LinkSet
  <2>11. LinkSet(linked, left.p, id, T)
    BY <2>4, ThenLinkOut DEF linked
  <2>5. IsOut(linked, id, T) /\ linked.p.nbrs = left.p.nbrs
        /\ DOMAIN left.p.areas \subseteq DOMAIN linked.p.areas
    BY <2>11 DEF LinkSet
  <2>6. a \in DOMAIN linked.p.areas
    BY <1>1, <2>1, <2>4, <2>5
  <2>7. IsOut(o, id, T) /\ Joined(linked.p.nbrs, o, id, n, a)
    BY <1>6, <2>5, <2>6, AdjoinOut DEF o
  <2>8. IsOut(r, id, T) /\ r.p.nbrs = o.p.nbrs /\ r.events = o.events
    BY <1>6, <2>7, LeavingOut DEF r
  <2>9. Joined(p.nbrs, r, id, n, a)
    BY <1>2, <2>1, <2>4, <2>5, <2>7, <2>8 DEF Joined
  <2> QED
    BY <1>4, <1>8, <2>8, <2>9 DEF old
<1> QED
  BY <1>7, <1>8

(* set_external_link                                                       *)
LEMMA SetExternalOut ==
  ASSUME NEW id, NEW p, IsProc(p, id), NEW x, NEW weight,
         NEW T, Awaited(p.areas, p.ext, p.track \cup T)
  PROVE  LET o == SetExternalLink(p, x, weight) IN IsOut(o, id, T) /\ o.p.nbrs = p.nbrs
<1> DEFINE links0 == WithLink(p.links, x, weight)
           q == [p EXCEPT !.links = links0]
           u == UpdateExternalLsa(q, x, weight)
           o == Published(u, NoArea)
<1>1. SetExternalLink(p, x, weight) = o
  BY DEF SetExternalLink
<1>2. q = [p EXCEPT !.links = links0]
  OBVIOUS
<1> HIDE DEF links0, q, u
<1>3. IsProc(q, id) /\ q.nbrs = p.nbrs /\ q.areas = p.areas /\ q.ext = p.ext /\ q.track = p.track
  BY <1>2, LinksSet
<1>4. IsUpdate(u, q, id, NoArea)
  BY <1>3, ProcDatabase, ExternalUpdate DEF u
<1>5. Awaited(q.areas, q.ext, q.track \cup T)
  BY <1>3
<1>6. IsPublished(o, u, id, T)
  BY <1>3, <1>4, <1>5, PublishedOut
<1> HIDE DEF o
<1>7. u.p.nbrs = q.nbrs
  BY <1>4 DEF IsUpdate, SameRest
<1> QED
  BY <1>1, <1>3, <1>6, <1>7 DEF IsPublished
-----------------------------------------------------------------------------
(* The links, and how a change leaves them                                 *)
Between(d, r, n) == (r = d.a /\ n = d.b) \/ (r = d.b /\ n = d.a)

Fits(ls, d) ==
  d.type \notin {"AddLink", "AddExternalNetwork", "RemoveExternalNetwork"}
    => <<d.a, d.b>> \in DOMAIN ls

Changed(ls, new, d) ==
  \A r, n \in Routers :
    /\ <<r, n>> \in DOMAIN new <=>
         IF Between(d, r, n) /\ d.type \in {"AddLink", "RemoveLink"}
         THEN d.type = "AddLink" ELSE <<r, n>> \in DOMAIN ls
    /\ <<r, n>> \in DOMAIN new =>
         new[<<r, n>>].area = IF Between(d, r, n) /\ d.type \in {"AddLink", "Area"}
                              THEN d.area ELSE ls[<<r, n>>].area

(* The parts of the changes of a user                                      *)
LEMMA ChangeTypes ==
  \A d \in Changes :
    /\ d.a \in Routers
    /\ d.type \in {"AddLink", "RemoveLink", "Weight", "Area", "AddExternalNetwork",
                   "RemoveExternalNetwork"}
    /\ d.type \in {"AddLink", "RemoveLink", "Weight", "Area"} => d.b \in Routers
    /\ d.type \in {"AddExternalNetwork", "RemoveExternalNetwork"} => d.b \in Externals
    /\ d.type \in {"AddLink", "Area"} => d.area \in Areas
    /\ d.type = "AddLink" => d.a # d.b
BY DEF Changes

(* Pairs are equal only if their parts are.                                *)
LEMMA PairsDiffer == \A a, b, c, d : <<a, b>> = <<c, d>> <=> a = c /\ b = d
OBVIOUS

(* Function new is ls, of which one value is set or two are.               *)
LEMMA NewLinksFacts ==
  ASSUME NEW ls, IsLinks(ls), NEW d \in Changes, Fits(ls, d)
  PROVE  IsLinks(NewLinks(ls, d)) /\ Changed(ls, NewLinks(ls, d), d)
<1> DEFINE ab == <<d.a, d.b>>
           ba == <<d.b, d.a>>
           new == NewLinks(ls, d)
           Rec(x) == x = [weight |-> x.weight, area |-> x.area]
<1>1. \A r, n : /\ <<r, n>> = ab <=> r = d.a /\ n = d.b
                /\ <<r, n>> = ba <=> r = d.b /\ n = d.a
  BY PairsDiffer
<1>2. \A e \in DOMAIN ls : Rec(ls[e])
  BY DEF IsLinks
<1>3. /\ new = [e \in DOMAIN new |-> new[e]]
      /\ \A e \in DOMAIN new : Rec(new[e])
      /\ Changed(ls, new, d)
  <2>1. CASE d.type = "AddLink"
    <3> DEFINE v == [weight |-> d.weight, area |-> d.area]
               w == [weight |-> d.back, area |-> d.area]
               half == Extended(ls, ba, w)
    <3>1. new = Extended(half, ab, v)
      BY <2>1 DEF NewLinks
    <3>2. Rec(v) /\ Rec(w) /\ v.area = d.area /\ w.area = d.area
      OBVIOUS
    <3> HIDE DEF new, v, w, half
    <3>3. Adds(half, ls, ba, w)
      BY ExtendedAdds DEF half
    <3>4. Adds(new, half, ab, v)
      BY <3>1, ExtendedAdds
    <3> HIDE DEF ab, ba
    <3>5. /\ new = [e \in DOMAIN new |-> new[e]]
          /\ DOMAIN new = (DOMAIN ls \cup {ab}) \cup {ba}
          /\ new[ab] = v /\ (ba # ab => new[ba] = w)
          /\ \A e \in DOMAIN ls : e # ab /\ e # ba => new[e] = ls[e]
      BY <3>3, <3>4 DEF Adds
    <3> HIDE DEF Rec
    <3>6. \A e \in DOMAIN new : Rec(new[e])
      BY <1>2, <3>2, <3>5
    <3>7. Changed(ls, new, d)
      BY <1>1, <2>1, <3>2, <3>5 DEF Changed, Between
    <3> QED
      BY <3>5, <3>6, <3>7
  <2>2. CASE d.type = "RemoveLink"
    <3>1. new = Restricted(ls, DOMAIN ls \ {ab, ba})
      BY <2>2 DEF NewLinks
    <3> HIDE DEF new
    <3>2. /\ new = [e \in DOMAIN new |-> new[e]] /\ DOMAIN new = DOMAIN ls \ {ab, ba}
          /\ \A e \in DOMAIN new : new[e] = ls[e]
      BY <3>1 DEF Restricted
    <3> HIDE DEF ab, ba, Rec
    <3>3. Changed(ls, new, d)
      BY <1>1, <2>2, <3>2 DEF Changed, Between
    <3> QED
      BY <1>2, <3>2, <3>3
  <2>3. CASE d.type = "Weight"
    <3>1. new = [ls EXCEPT ![ab].weight = d.weight] /\ ab \in DOMAIN ls
      BY <2>3 DEF NewLinks, Fits
    <3> HIDE DEF new
    <3>2. /\ new = [e \in DOMAIN new |-> new[e]] /\ DOMAIN new = DOMAIN ls
          /\ \A e \in DOMAIN ls : e # ab => new[e] = ls[e]
          /\ new[ab] = [ls[ab] EXCEPT !.weight = d.weight]
      BY <3>1 DEF IsLinks
    <3> HIDE DEF ab, ba
    <3>3. new[ab] = [weight |-> d.weight, area |-> ls[ab].area]
      BY <1>2, <3>1, <3>2
    <3>4. Rec(new[ab]) /\ new[ab].area = ls[ab].area
      BY <3>3
    <3> HIDE DEF Rec
    <3>5. \A e \in DOMAIN new : Rec(new[e]) /\ new[e].area = ls[e].area
      BY <1>2, <3>2, <3>4
    <3>6. Changed(ls, new, d)
      BY <2>3, <3>2, <3>5 DEF Changed
    <3> QED
      BY <3>2, <3>5, <3>6
  <2>4. CASE d.type = "Area"
    <3>1. new = [ls EXCEPT ![ab].area = d.area, ![ba].area = d.area] /\ ab \in DOMAIN ls
      BY <2>4 DEF NewLinks, Fits
    <3>0. ba \in DOMAIN ls /\ ab # ba
      BY <3>1, <2>4, ChangeTypes, PairsDiffer DEF IsLinks
    <3> HIDE DEF new
    <3>2. /\ new = [e \in DOMAIN new |-> new[e]] /\ DOMAIN new = DOMAIN ls
          /\ \A e \in DOMAIN ls : e # ab /\ e # ba => new[e] = ls[e]
          /\ new[ab] = [ls[ab] EXCEPT !.area = d.area]
          /\ new[ba] = [ls[ba] EXCEPT !.area = d.area]
      <4> HIDE DEF ab, ba
      <4>1. ls = [e \in DOMAIN ls |-> ls[e]]
        BY DEF IsLinks
      <4> QED
        BY <3>0, <3>1, <4>1
    <3> HIDE DEF ab, ba
    <3>3. /\ new[ab] = [weight |-> ls[ab].weight, area |-> d.area]
          /\ new[ba] = [weight |-> ls[ba].weight, area |-> d.area]
      BY <1>2, <3>0, <3>1, <3>2
    <3>4. Rec(new[ab]) /\ Rec(new[ba]) /\ new[ab].area = d.area /\ new[ba].area = d.area
      BY <3>3
    <3> HIDE DEF Rec
    <3>5. \A e \in DOMAIN new : Rec(new[e])
      BY <1>2, <3>2, <3>4
    <3>6. Changed(ls, new, d)
      BY <1>1, <2>4, <3>0, <3>1, <3>2, <3>4 DEF Changed, Between
    <3> QED
      BY <3>2, <3>5, <3>6
  <2>5. CASE d.type \in {"AddExternalNetwork", "RemoveExternalNetwork"}
    <3>1. new = ls
      BY <2>5 DEF NewLinks
    <3>2. Changed(ls, ls, d)
      BY <2>5 DEF Changed
    <3> QED
      BY <3>1, <3>2 DEF IsLinks
  <2> QED
    BY <2>1, <2>2, <2>3, <2>4, <2>5, ChangeTypes
<1>4. ASSUME NEW r \in Routers, NEW n \in Routers, <<r, n>> \in DOMAIN new
      PROVE  r # n /\ <<n, r>> \in DOMAIN new /\ new[<<n, r>>].area = new[<<r, n>>].area
  <2> HIDE DEF new
  <2>1. Between(d, r, n) <=> Between(d, n, r)
    BY DEF Between
  <2>2. d.type = "AddLink" /\ Between(d, r, n) => r # n
    BY ChangeTypes DEF Between
  <2>3. <<r, n>> \in DOMAIN ls => r # n /\ <<n, r>> \in DOMAIN ls /\ ls[<<n, r>>].area = ls[<<r, n>>].area
    BY DEF IsLinks
  <2> QED
    BY <1>3, <1>4, <2>1, <2>2, <2>3 DEF Changed
<1> HIDE DEF new
<1>5. IsLinks(new)
  BY <1>3, <1>4 DEF IsLinks
<1> QED
  BY <1>3, <1>5 DEF new
-----------------------------------------------------------------------------
(* The change d makes r and n start to exchange their databases.           *)
Joins(ls, d, r, n) ==
  /\ Between(d, r, n)
  /\ d.type = "AddLink" \/ (d.type = "Area" /\ ls[<<d.a, d.b>>].area # d.area)

Prepared(o, p, ls, d, r, T) ==
  /\ IsOut(o, r, T)
  /\ Matches(o.p.nbrs, NewLinks(ls, d), r)
  /\ \A n \in Routers : Joins(ls, d, r, n) /\ r < n => Described(o.events[n])
  /\ \A n \in DOMAIN o.p.nbrs : Joins(ls, d, r, n) \/ (n \in DOMAIN p.nbrs /\ o.p.nbrs[n] = p.nbrs[n])
  /\ LocalChange(d, r) = NoChange => o.p.nbrs = p.nbrs

(* A change that brings the router no other neighbor, and takes none away  *)
LEMMA SameNeighbors ==
  ASSUME NEW ls, NEW d, Changed(ls, NewLinks(ls, d), d), NEW r \in Routers, NEW p,
         Matches(p.nbrs, ls, r), NEW o, NEW T, IsOut(o, r, T), o.p.nbrs = p.nbrs,
         \A n \in Routers : Between(d, r, n) => d.type \notin {"AddLink", "RemoveLink", "Area"}
  PROVE  Prepared(o, p, ls, d, r, T)
<1>1. Matches(p.nbrs, NewLinks(ls, d), r)
  BY DEF Matches, Changed
<1>2. \A n \in Routers : ~Joins(ls, d, r, n)
  BY DEF Joins
<1> QED
  BY <1>1, <1>2 DEF Prepared

(* A change that brings the router a neighbor, or moves one to another     *)
(* area                                                                    *)
LEMMA OneJoined ==
  ASSUME NEW ls, NEW d, Changed(ls, NewLinks(ls, d), d), NEW r \in Routers, NEW p,
         Matches(p.nbrs, ls, r), NEW o, NEW T, IsOut(o, r, T),
         NEW n \in Routers, Between(d, r, n), d.a # d.b, d.type \in {"AddLink", "Area"},
         d.type = "Area" => <<r, n>> \in DOMAIN ls /\ ls[<<d.a, d.b>>].area # d.area,
         Joined(p.nbrs, o, r, n, d.area), LocalChange(d, r) # NoChange
  PROVE  Prepared(o, p, ls, d, r, T)
<1>1. \A k \in Routers : Between(d, r, k) <=> k = n
  BY DEF Between
<1>2. Matches(o.p.nbrs, NewLinks(ls, d), r)
  BY <1>1 DEF Matches, Changed, Joined
<1>3. \A k \in Routers : Joins(ls, d, r, k) <=> k = n
  BY <1>1 DEF Joins
<1>4. /\ \A k \in Routers : Joins(ls, d, r, k) /\ r < k => Described(o.events[k])
      /\ \A k \in DOMAIN o.p.nbrs : Joins(ls, d, r, k) \/ (k \in DOMAIN p.nbrs /\ o.p.nbrs[k] = p.nbrs[k])
  BY <1>3 DEF Joined
<1> QED
  BY <1>2, <1>4 DEF Prepared

(* What a router is told of a change (from_global)                         *)
LEMMA LocalChangeIs ==
  ASSUME NEW d \in Changes, NEW r \in Routers
  PROVE  LET c == LocalChange(d, r)
             n == IF r = d.a THEN d.b ELSE d.a
         IN  IF r \notin {d.a, d.b} \/ (d.type = "Weight" /\ r # d.a) THEN c.type = "None"
             ELSE /\ c # NoChange
                  /\ d.type = "AddLink" => c.type = "AddNeighbor" /\ c.neighbor = n /\ c.area = d.area
                  /\ d.type = "RemoveLink" => c.type = "DelNeighbor" /\ c.neighbor = n
                  /\ d.type = "Area" => c.type = "Area" /\ c.neighbor = n /\ c.area = d.area
                  /\ d.type = "Weight" => c.type = "Weight" /\ c.neighbor = n
                  /\ d.type \in {"AddExternalNetwork", "RemoveExternalNetwork"}
                       => c.type = "SetExternalLink"
<1> DEFINE c == LocalChange(d, r)
           n == IF r = d.a THEN d.b ELSE d.a
<1>0. NoChange.type = "None"
  BY DEF NoChange
<1>1. CASE r \notin {d.a, d.b} \/ (d.type = "Weight" /\ r # d.a)
  BY <1>0, <1>1 DEF LocalChange
<1>2. CASE ~(r \notin {d.a, d.b} \/ (d.type = "Weight" /\ r # d.a))
  <2>1. d.type = "AddLink" => c.type = "AddNeighbor" /\ c.neighbor = n /\ c.area = d.area
    BY <1>2 DEF LocalChange
  <2>2. d.type = "RemoveLink" => c.type = "DelNeighbor" /\ c.neighbor = n
    BY <1>2 DEF LocalChange
  <2>3. d.type = "Area" => c.type = "Area" /\ c.neighbor = n /\ c.area = d.area
    BY <1>2 DEF LocalChange
  <2>4. d.type = "Weight" => c.type = "Weight" /\ c.neighbor = n
    BY <1>2 DEF LocalChange
  <2>5. d.type \in {"AddExternalNetwork", "RemoveExternalNetwork"} => c.type = "SetExternalLink"
    BY <1>2 DEF LocalChange
  <2> HIDE DEF c, n
  <2>6. c # NoChange
    BY <1>0, <2>1, <2>2, <2>3, <2>4, <2>5, ChangeTypes
  <2> QED
    BY <1>2, <2>1, <2>2, <2>3, <2>4, <2>5, <2>6 DEF c, n
<1> QED
  BY <1>1, <1>2

(* prepare_neighborhood_change: afterwards the neighbors are those of the  *)
(* new links, and whoever waits for our description is sent one.           *)
LEMMA PreparedOut ==
  ASSUME NEW ls, IsLinks(ls), NEW d \in Changes, Fits(ls, d), NEW r \in Routers,
         NEW p, IsProc(p, r), Matches(p.nbrs, ls, r),
         NEW T, Awaited(p.areas, p.ext, p.track \cup T)
  PROVE  Prepared(Prepare(p, LocalChange(d, r)), p, ls, d, r, T)
<1> DEFINE c == LocalChange(d, r)
           n == IF r = d.a THEN d.b ELSE d.a
           o == Prepare(p, c)
<1>1. IF r \notin {d.a, d.b} \/ (d.type = "Weight" /\ r # d.a) THEN c.type = "None"
      ELSE /\ c # NoChange
           /\ d.type = "AddLink" => c.type = "AddNeighbor" /\ c.neighbor = n /\ c.area = d.area
           /\ d.type = "RemoveLink" => c.type = "DelNeighbor" /\ c.neighbor = n
           /\ d.type = "Area" => c.type = "Area" /\ c.neighbor = n /\ c.area = d.area
           /\ d.type = "Weight" => c.type = "Weight" /\ c.neighbor = n
           /\ d.type \in {"AddExternalNetwork", "RemoveExternalNetwork"}
                => c.type = "SetExternalLink"
  BY LocalChangeIs
<1>2. IsLinks(NewLinks(ls, d)) /\ Changed(ls, NewLinks(ls, d), d)
  BY NewLinksFacts
<1>3. o = CASE c.type = "AddNeighbor" -> AddNeighbor(p, c.neighbor, c.area, c.weight)
            [] c.type = "DelNeighbor" -> DelNeighbor(p, c.neighbor)
            [] c.type = "Area" -> ChangeArea(p, c.neighbor, c.area)
            [] c.type = "Weight" -> UpdateWeight(p, c.neighbor, p.nbrs[c.neighbor].area, {c.weight})
            [] c.type = "SetExternalLink" -> SetExternalLink(p, c.ext, c.weight)
            [] OTHER -> Outcome(p)
  BY DEF Prepare
<1>0. d.type \in {"AddLink", "RemoveLink", "Weight", "Area", "AddExternalNetwork",
                   "RemoveExternalNetwork"}
  BY ChangeTypes
<1> HIDE DEF c, o
<1>4. CASE c.type = "None"
  <2>1. o = Outcome(p)
    BY <1>3, <1>4
  <2>2. IsOut(Outcome(p), r, T) /\ Outcome(p).p = p
    BY OutcomeOut
  <2>3. r \notin {d.a, d.b} \/ d.type = "Weight"
    BY <1>0, <1>1, <1>4
  <2>4. \A k \in Routers : Between(d, r, k) => d.type \notin {"AddLink", "RemoveLink", "Area"}
    BY <2>3 DEF Between
  <2>5. Prepared(o, p, ls, d, r, T)
    BY <1>2, <2>1, <2>2, <2>4, SameNeighbors
  <2> QED
    BY <2>5 DEF o, c
<1>5. CASE c.type # "None"
  <2>0. (r = d.a \/ r = d.b) /\ (d.type = "Weight" => r = d.a)
    BY <1>1, <1>5
  <2>1. /\ c # NoChange
        /\ d.type = "AddLink" => c.type = "AddNeighbor" /\ c.neighbor = n /\ c.area = d.area
        /\ d.type = "RemoveLink" => c.type = "DelNeighbor" /\ c.neighbor = n
        /\ d.type = "Area" => c.type = "Area" /\ c.neighbor = n /\ c.area = d.area
        /\ d.type = "Weight" => c.type = "Weight" /\ c.neighbor = n
        /\ d.type \in {"AddExternalNetwork", "RemoveExternalNetwork"} => c.type = "SetExternalLink"
    BY <1>1, <1>5
  <2>2. d.type \in {"AddLink", "RemoveLink", "Weight", "Area"} => n \in Routers /\ Between(d, r, n)
    BY <2>0, ChangeTypes DEF Between
  <2>3. d.type \in {"RemoveLink", "Weight", "Area"} => <<r, n>> \in DOMAIN ls /\ n \in DOMAIN p.nbrs
                                       /\ p.nbrs[n].area = ls[<<d.a, d.b>>].area /\ d.a # d.b
    <3> SUFFICES ASSUME d.type \in {"RemoveLink", "Weight", "Area"}
                 PROVE  <<r, n>> \in DOMAIN ls /\ n \in DOMAIN p.nbrs
                        /\ p.nbrs[n].area = ls[<<d.a, d.b>>].area /\ d.a # d.b
      OBVIOUS
    <3>1. <<d.a, d.b>> \in DOMAIN ls /\ d.a \in Routers /\ d.b \in Routers
      BY ChangeTypes DEF Fits
    <3>2. <<d.b, d.a>> \in DOMAIN ls /\ ls[<<d.b, d.a>>].area = ls[<<d.a, d.b>>].area /\ d.a # d.b
      BY <3>1 DEF IsLinks
    <3>3. <<r, n>> \in DOMAIN ls /\ n \in Routers /\ ls[<<r, n>>].area = ls[<<d.a, d.b>>].area
      BY <2>0, <3>1, <3>2
    <3> HIDE DEF n
    <3> QED
      BY <3>2, <3>3 DEF Matches
  <2> HIDE DEF n
  <2>4. CASE d.type = "AddLink"
    <3>1. o = AddNeighbor(p, n, d.area, c.weight)
      BY <1>3, <2>1, <2>4
    <3>2. n \in Routers /\ d.area \in Areas /\ d.a # d.b /\ Between(d, r, n)
      BY <2>2, <2>4, ChangeTypes
    <3>3. IsOut(o, r, T) /\ Joined(p.nbrs, o, r, n, d.area)
      BY <3>1, <3>2, AddNeighborOut
    <3>4. Prepared(o, p, ls, d, r, T)
      BY <1>2, <2>1, <2>4, <3>2, <3>3, OneJoined DEF c
    <3> QED
      BY <3>4 DEF o, c
  <2>5. CASE d.type = "RemoveLink"
    <3>1. o = DelNeighbor(p, n)
      BY <1>3, <2>1, <2>5
    <3>2. n \in DOMAIN p.nbrs /\ n \in Routers /\ Between(d, r, n) /\ d.a # d.b
      BY <2>2, <2>3, <2>5
    <3>3. /\ IsOut(o, r, T) /\ DOMAIN o.p.nbrs = DOMAIN p.nbrs \ {n}
          /\ \A k \in DOMAIN o.p.nbrs : o.p.nbrs[k] = p.nbrs[k]
      <4>1. Left(o, p, r, n, T)
        BY <3>1, <3>2, DelNeighborOut
      <4> QED
        BY <4>1 DEF Left
    <3>4. \A k \in Routers : Between(d, r, k) <=> k = n
      BY <3>2 DEF Between
    <3>5. Matches(o.p.nbrs, NewLinks(ls, d), r)
      BY <1>2, <2>5, <3>3, <3>4 DEF Matches, Changed
    <3>6. \A k \in Routers : ~Joins(ls, d, r, k)
      BY <2>5 DEF Joins
    <3>7. Prepared(o, p, ls, d, r, T)
      BY <2>1, <3>3, <3>5, <3>6 DEF Prepared, c
    <3> QED
      BY <3>7 DEF o, c
  <2>6. CASE d.type = "Area"
    <3>1. o = ChangeArea(p, n, d.area)
      BY <1>3, <2>1, <2>6
    <3>2. n \in DOMAIN p.nbrs /\ n \in Routers /\ d.area \in Areas /\ Between(d, r, n) /\ d.a # d.b
          /\ <<r, n>> \in DOMAIN ls /\ p.nbrs[n].area = ls[<<d.a, d.b>>].area
      BY <2>2, <2>3, <2>6, ChangeTypes
    <3>3. /\ IsOut(o, r, T)
          /\ IF p.nbrs[n].area = d.area THEN o.p.nbrs = p.nbrs ELSE Joined(p.nbrs, o, r, n, d.area)
      BY <3>1, <3>2, ChangeAreaOut
    <3>4. CASE p.nbrs[n].area # d.area
      <4>1. Prepared(o, p, ls, d, r, T)
        BY <1>2, <2>1, <2>6, <3>2, <3>3, <3>4, OneJoined DEF c
      <4> QED
        BY <4>1 DEF o, c
    <3>5. CASE p.nbrs[n].area = d.area
      <4>1. \A k \in Routers : Between(d, r, k) <=> k = n
        BY <3>2 DEF Between
      <4>2. Matches(o.p.nbrs, NewLinks(ls, d), r)
        BY <1>2, <2>6, <3>2, <3>3, <3>5, <4>1 DEF Matches, Changed
      <4>3. \A k \in Routers : ~Joins(ls, d, r, k)
        BY <2>6, <3>2, <3>5 DEF Joins
      <4>4. Prepared(o, p, ls, d, r, T)
        BY <2>1, <3>3, <3>5, <4>2, <4>3 DEF Prepared, c
      <4> QED
        BY <4>4 DEF o, c
    <3> QED
      BY <3>4, <3>5
  <2>7. CASE d.type = "Weight"
    <3> DEFINE a == p.nbrs[n].area
               w == {c.weight}
    <3>1. o = UpdateWeight(p, n, a, w)
      BY <1>3, <2>1, <2>7
    <3>2. a \in Areas
      BY <2>3, <2>7 DEF IsProc, IsNbrs, IsBase
    <3> HIDE DEF a, w
    <3>3. LinkSet(o, p, r, T)
      BY <3>1, <3>2, UpdateWeightOut
    <3>4. Prepared(o, p, ls, d, r, T)
      BY <1>2, <2>7, <3>3, SameNeighbors DEF LinkSet
    <3> QED
      BY <3>4 DEF o, c
  <2>8. CASE d.type \in {"AddExternalNetwork", "RemoveExternalNetwork"}
    <3>1. o = SetExternalLink(p, c.ext, c.weight)
      BY <1>3, <2>1, <2>8
    <3>2. IsOut(o, r, T) /\ o.p.nbrs = p.nbrs
      BY <3>1, SetExternalOut
    <3>3. Prepared(o, p, ls, d, r, T)
      BY <1>2, <2>8, <3>2, SameNeighbors
    <3> QED
      BY <3>3 DEF o, c
  <2> QED
    BY <1>0, <2>4, <2>5, <2>6, <2>7, <2>8
<1> QED
  BY <1>4, <1>5
-----------------------------------------------------------------------------
OnUpTo(fn, n) == fn = [i \in 0 .. n |-> fn[i]]

(* A function on 0 .. 0                                                    *)
LEMMA FoldBase == \A b : \E fn : OnUpTo(fn, 0) /\ fn[0] = b
<1> SUFFICES ASSUME NEW b PROVE \E fn : OnUpTo(fn, 0) /\ fn[0] = b
  OBVIOUS
<1> DEFINE fn == [i \in 0 .. 0 |-> b]
<1>1. OnUpTo(fn, 0) /\ fn[0] = b
  BY DEF OnUpTo
<1> HIDE DEF fn
<1> QED
  BY <1>1

IsLonger(h, fn, n, v) ==
  OnUpTo(h, n + 1) /\ h[n + 1] = v /\ \A i \in 0 .. n : h[i] = fn[i]

(* A function on 0 .. n is extended to n + 1.                              *)
LEMMA FoldMore ==
  ASSUME NEW n \in Nat, NEW fn, NEW v
  PROVE  \E h : IsLonger(h, fn, n, v)
<1> DEFINE h == [i \in 0 .. n + 1 |-> IF i = n + 1 THEN v ELSE fn[i]]
<1>1. IsLonger(h, fn, n, v)
  <2>1. n + 1 \in 0 .. n + 1 /\ \A i \in 0 .. n : i \in 0 .. n + 1 /\ i # n + 1
    OBVIOUS
  <2> QED
    BY <2>1 DEF OnUpTo, IsLonger
<1> HIDE DEF h
<1> QED
  BY <1>1

(* The links after every change of op                                      *)
IsLinksFold(fn, ls, op, n) ==
  /\ OnUpTo(fn, n) /\ fn[0] = ls
  /\ \A i \in 1 .. n : fn[i] = NewLinks(fn[i - 1], op[i])

(* LinksAfter is the fold of NewLinks.                                     *)
LEMMA LinksFold ==
  ASSUME NEW ls, NEW op, Len(op) \in Nat
  PROVE  \E fn : IsLinksFold(fn, ls, op, Len(op)) /\ LinksAfter(ls, op) = fn
<1> DEFINE N == Len(op)
           A == {n \in Nat : \E fn : IsLinksFold(fn, ls, op, n)}
           Rec(fn) == fn = [i \in 0 .. N |-> IF i = 0 THEN ls ELSE NewLinks(fn[i - 1], op[i])]
<1> HIDE DEF N
<1>0. N \in Nat
  BY DEF N
<1>1. 0 \in A
  <2>1. PICK fn : OnUpTo(fn, 0) /\ fn[0] = ls
    BY FoldBase
  <2>2. \A i \in 1 .. 0 : FALSE
    OBVIOUS
  <2> QED
    BY <2>1, <2>2 DEF IsLinksFold
<1>2. ASSUME NEW n \in Nat, n \in A
      PROVE  n + 1 \in A
  <2>1. PICK fn : IsLinksFold(fn, ls, op, n)
    BY <1>2
  <2> DEFINE v == NewLinks(fn[n], op[n + 1])
  <2>2. PICK h : IsLonger(h, fn, n, v)
    <3> HIDE DEF v
    <3> QED
      BY FoldMore
  <2>3. ASSUME NEW i \in 1 .. n + 1
        PROVE  h[i] = NewLinks(h[i - 1], op[i])
    <3>1. CASE i = n + 1
      <4>1. i - 1 = n /\ n \in 0 .. n
        BY <3>1
      <4> QED
        BY <2>2, <3>1, <4>1 DEF IsLonger
    <3>2. CASE i \in 1 .. n
      <4>1. i \in 0 .. n /\ i - 1 \in 0 .. n
        BY <3>2
      <4>2. fn[i] = NewLinks(fn[i - 1], op[i])
        BY <2>1, <3>2 DEF IsLinksFold
      <4> QED
        BY <2>2, <4>1, <4>2 DEF IsLonger
    <3> QED
      BY <3>1, <3>2
  <2>4. 0 \in 0 .. n
    OBVIOUS
  <2>5. IsLinksFold(h, ls, op, n + 1)
    <3> HIDE DEF v
    <3> QED
      BY <2>1, <2>2, <2>3, <2>4 DEF IsLinksFold, IsLonger
  <2> QED
    BY <2>5 DEF A
<1>3. N \in A
  <2>1. \A k \in 0 .. N : k \in A /\ k < N => k + 1 \in A
    BY <1>2
  <2> HIDE DEF A
  <2>2. \A k \in 0 .. N : k \in A
    BY ONLY <1>0, <1>1, <2>1, UpTo
  <2> QED
    BY <1>0, <2>2
<1>4. PICK f : IsLinksFold(f, ls, op, N)
  BY <1>3
<1>5. \A fn : IsLinksFold(fn, ls, op, N) <=> Rec(fn)
  <2> SUFFICES ASSUME NEW fn PROVE IsLinksFold(fn, ls, op, N) <=> Rec(fn)
    OBVIOUS
  <2>1. /\ 0 \in 0 .. N /\ \A i \in 1 .. N : i \in 0 .. N /\ i # 0
        /\ \A i \in 0 .. N : i # 0 => i \in 1 .. N
    BY <1>0
  <2>2. ASSUME IsLinksFold(fn, ls, op, N) PROVE Rec(fn)
    BY <2>1, <2>2 DEF IsLinksFold, OnUpTo
  <2>3. ASSUME Rec(fn) PROVE IsLinksFold(fn, ls, op, N)
    <3>1. fn = [i \in 0 .. N |-> fn[i]] /\ fn[0] = ls
      BY <2>1, <2>3
    <3>2. \A i \in 1 .. N : fn[i] = NewLinks(fn[i - 1], op[i])
      BY <2>1, <2>3
    <3> QED
      BY <3>1, <3>2 DEF IsLinksFold, OnUpTo
  <2> QED
    BY <2>2, <2>3
<1> DEFINE c == CHOOSE fn : Rec(fn)
<1>6. Rec(c)
  BY <1>4, <1>5
<1>7. LinksAfter(ls, op) = c
  BY DEF LinksAfter, N
<1> HIDE DEF c, Rec
<1>8. IsLinksFold(c, ls, op, N)
  BY <1>5, <1>6
<1> QED
  BY <1>7, <1>8 DEF N

(* The outcomes of the changes of a batch                                  *)
IsChangeFold(fn, p, changes, n) ==
  /\ OnUpTo(fn, n) /\ fn[0] = Outcome(p)
  /\ \A i \in 1 .. n : fn[i] = Then(fn[i - 1], Prepare(fn[i - 1].p, changes[i]))

(* HandleChange folds the changes of a batch.                              *)
LEMMA ChangeFold ==
  ASSUME NEW p, NEW changes, Len(changes) \in Nat
  PROVE  \E fn : IsChangeFold(fn, p, changes, Len(changes)) /\ HandleChange(p, changes) = PerformActions(fn[Len(changes)])
<1> DEFINE N == Len(changes)
           A == {n \in Nat : \E fn : IsChangeFold(fn, p, changes, n)}
           Rec(fn) == fn = [i \in 0 .. N |-> IF i = 0 THEN Outcome(p) ELSE Then(fn[i - 1], Prepare(fn[i - 1].p, changes[i]))]
<1> HIDE DEF N
<1>0. N \in Nat
  BY DEF N
<1>1. 0 \in A
  <2>1. PICK fn : OnUpTo(fn, 0) /\ fn[0] = Outcome(p)
    BY FoldBase
  <2>2. \A i \in 1 .. 0 : FALSE
    OBVIOUS
  <2> QED
    BY <2>1, <2>2 DEF IsChangeFold
<1>2. ASSUME NEW n \in Nat, n \in A
      PROVE  n + 1 \in A
  <2>1. PICK fn : IsChangeFold(fn, p, changes, n)
    BY <1>2
  <2> DEFINE v == Then(fn[n], Prepare(fn[n].p, changes[n + 1]))
  <2>2. PICK h : IsLonger(h, fn, n, v)
    <3> HIDE DEF v
    <3> QED
      BY FoldMore
  <2>3. ASSUME NEW i \in 1 .. n + 1
        PROVE  h[i] = Then(h[i - 1], Prepare(h[i - 1].p, changes[i]))
    <3>1. CASE i = n + 1
      <4>1. i - 1 = n /\ n \in 0 .. n
        BY <3>1
      <4> QED
        BY <2>2, <3>1, <4>1 DEF IsLonger
    <3>2. CASE i \in 1 .. n
      <4>1. i \in 0 .. n /\ i - 1 \in 0 .. n
        BY <3>2
      <4>2. fn[i] = Then(fn[i - 1], Prepare(fn[i - 1].p, changes[i]))
        BY <2>1, <3>2 DEF IsChangeFold
      <4> QED
        BY <2>2, <4>1, <4>2 DEF IsLonger
    <3> QED
      BY <3>1, <3>2
  <2>4. 0 \in 0 .. n
    OBVIOUS
  <2>5. IsChangeFold(h, p, changes, n + 1)
    <3> HIDE DEF v
    <3> QED
      BY <2>1, <2>2, <2>3, <2>4 DEF IsChangeFold, IsLonger
  <2> QED
    BY <2>5 DEF A
<1>3. N \in A
  <2>1. \A k \in 0 .. N : k \in A /\ k < N => k + 1 \in A
    BY <1>2
  <2> HIDE DEF A
  <2>2. \A k \in 0 .. N : k \in A
    BY ONLY <1>0, <1>1, <2>1, UpTo
  <2> QED
    BY <1>0, <2>2
<1>4. PICK f : IsChangeFold(f, p, changes, N)
  BY <1>3
<1>5. \A fn : IsChangeFold(fn, p, changes, N) <=> Rec(fn)
  <2> SUFFICES ASSUME NEW fn PROVE IsChangeFold(fn, p, changes, N) <=> Rec(fn)
    OBVIOUS
  <2>1. /\ 0 \in 0 .. N /\ \A i \in 1 .. N : i \in 0 .. N /\ i # 0
        /\ \A i \in 0 .. N : i # 0 => i \in 1 .. N
    BY <1>0
  <2>2. ASSUME IsChangeFold(fn, p, changes, N) PROVE Rec(fn)
    BY <2>1, <2>2 DEF IsChangeFold, OnUpTo
  <2>3. ASSUME Rec(fn) PROVE IsChangeFold(fn, p, changes, N)
    <3>1. fn = [i \in 0 .. N |-> fn[i]] /\ fn[0] = Outcome(p)
      BY <2>1, <2>3
    <3>2. \A i \in 1 .. N : fn[i] = Then(fn[i - 1], Prepare(fn[i - 1].p, changes[i]))
      BY <2>1, <2>3
    <3> QED
      BY <3>1, <3>2 DEF IsChangeFold, OnUpTo
  <2> QED
    BY <2>2, <2>3
<1> DEFINE c == CHOOSE fn : Rec(fn)
<1>6. Rec(c)
  BY <1>4, <1>5
<1>7. HandleChange(p, changes) = PerformActions(c[N])
  BY DEF HandleChange, N
<1> HIDE DEF c, Rec
<1>8. IsChangeFold(c, p, changes, N)
  BY <1>5, <1>6
<1> QED
  BY <1>7, <1>8 DEF N

(* The neighbor nb to, and what it is sent, after every LSA of flood       *)
IsFloodFold(fn, nb, to, flood, n) ==
  /\ OnUpTo(fn, n) /\ fn[0] = [nb |-> nb, send |-> << >>]
  /\ \A i \in 1 .. n : fn[i] = FloodOne(fn[i - 1], to, flood[i])

(* Flood folds the LSAs that are flooded to a neighbor.                    *)
LEMMA FloodFold ==
  ASSUME NEW nb, NEW to, NEW flood, Len(flood) \in Nat
  PROVE  \E fn : IsFloodFold(fn, nb, to, flood, Len(flood)) /\ Flood(nb, to, flood) = fn[Len(flood)]
<1> DEFINE N == Len(flood)
           A == {n \in Nat : \E fn : IsFloodFold(fn, nb, to, flood, n)}
           Rec(fn) == fn = [i \in 0 .. N |-> IF i = 0 THEN [nb |-> nb, send |-> << >>] ELSE FloodOne(fn[i - 1], to, flood[i])]
<1> HIDE DEF N
<1>0. N \in Nat
  BY DEF N
<1>1. 0 \in A
  <2>1. PICK fn : OnUpTo(fn, 0) /\ fn[0] = [nb |-> nb, send |-> << >>]
    BY FoldBase
  <2>2. \A i \in 1 .. 0 : FALSE
    OBVIOUS
  <2> QED
    BY <2>1, <2>2 DEF IsFloodFold
<1>2. ASSUME NEW n \in Nat, n \in A
      PROVE  n + 1 \in A
  <2>1. PICK fn : IsFloodFold(fn, nb, to, flood, n)
    BY <1>2
  <2> DEFINE v == FloodOne(fn[n], to, flood[n + 1])
  <2>2. PICK h : IsLonger(h, fn, n, v)
    <3> HIDE DEF v
    <3> QED
      BY FoldMore
  <2>3. ASSUME NEW i \in 1 .. n + 1
        PROVE  h[i] = FloodOne(h[i - 1], to, flood[i])
    <3>1. CASE i = n + 1
      <4>1. i - 1 = n /\ n \in 0 .. n
        BY <3>1
      <4> QED
        BY <2>2, <3>1, <4>1 DEF IsLonger
    <3>2. CASE i \in 1 .. n
      <4>1. i \in 0 .. n /\ i - 1 \in 0 .. n
        BY <3>2
      <4>2. fn[i] = FloodOne(fn[i - 1], to, flood[i])
        BY <2>1, <3>2 DEF IsFloodFold
      <4> QED
        BY <2>2, <4>1, <4>2 DEF IsLonger
    <3> QED
      BY <3>1, <3>2
  <2>4. 0 \in 0 .. n
    OBVIOUS
  <2>5. IsFloodFold(h, nb, to, flood, n + 1)
    <3> HIDE DEF v
    <3> QED
      BY <2>1, <2>2, <2>3, <2>4 DEF IsFloodFold, IsLonger
  <2> QED
    BY <2>5 DEF A
<1>3. N \in A
  <2>1. \A k \in 0 .. N : k \in A /\ k < N => k + 1 \in A
    BY <1>2
  <2> HIDE DEF A
  <2>2. \A k \in 0 .. N : k \in A
    BY ONLY <1>0, <1>1, <2>1, UpTo
  <2> QED
    BY <1>0, <2>2
<1>4. PICK f : IsFloodFold(f, nb, to, flood, N)
  BY <1>3
<1>5. \A fn : IsFloodFold(fn, nb, to, flood, N) <=> Rec(fn)
  <2> SUFFICES ASSUME NEW fn PROVE IsFloodFold(fn, nb, to, flood, N) <=> Rec(fn)
    OBVIOUS
  <2>1. /\ 0 \in 0 .. N /\ \A i \in 1 .. N : i \in 0 .. N /\ i # 0
        /\ \A i \in 0 .. N : i # 0 => i \in 1 .. N
    BY <1>0
  <2>2. ASSUME IsFloodFold(fn, nb, to, flood, N) PROVE Rec(fn)
    BY <2>1, <2>2 DEF IsFloodFold, OnUpTo
  <2>3. ASSUME Rec(fn) PROVE IsFloodFold(fn, nb, to, flood, N)
    <3>1. fn = [i \in 0 .. N |-> fn[i]] /\ fn[0] = [nb |-> nb, send |-> << >>]
      BY <2>1, <2>3
    <3>2. \A i \in 1 .. N : fn[i] = FloodOne(fn[i - 1], to, flood[i])
      BY <2>1, <2>3
    <3> QED
      BY <3>1, <3>2 DEF IsFloodFold, OnUpTo
  <2> QED
    BY <2>2, <2>3
<1> DEFINE c == CHOOSE fn : Rec(fn)
<1>6. Rec(c)
  BY <1>4, <1>5
<1>7. Flood(nb, to, flood) = c[N]
  BY DEF Flood, N
<1> HIDE DEF c, Rec
<1>8. IsFloodFold(c, nb, to, flood, N)
  BY <1>5, <1>6
<1> QED
  BY <1>7, <1>8 DEF N

(* Of the messages, those that batch_events leaves alone and those it merges *)
Adding(sent, m) == IF m.kind \in Listed THEN sent ELSE Append(sent, m)
Batched(ms, kind) ==
  IF \E i \in DOMAIN ms : ms[i].kind = kind THEN <<Message(kind, Merged(ms, kind))>> ELSE << >>

(* The messages that batch_events leaves alone                             *)
IsBatchFold(fn, ms, n) ==
  /\ OnUpTo(fn, n) /\ fn[0] = << >>
  /\ \A i \in 1 .. n : fn[i] = Adding(fn[i - 1], ms[i])

(* Batch folds the messages that are left alone.                           *)
LEMMA BatchFold ==
  ASSUME NEW ms, Len(ms) \in Nat
  PROVE  \E fn : IsBatchFold(fn, ms, Len(ms)) /\ Batch(ms) = fn[Len(ms)] \o Batched(ms, "LinkStateAck") \o Batched(ms, "LinkStateUpdate")
<1> DEFINE N == Len(ms)
           A == {n \in Nat : \E fn : IsBatchFold(fn, ms, n)}
           Rec(fn) == fn = [i \in 0 .. N |-> IF i = 0 THEN << >> ELSE Adding(fn[i - 1], ms[i])]
<1> HIDE DEF N
<1>0. N \in Nat
  BY DEF N
<1>1. 0 \in A
  <2>1. PICK fn : OnUpTo(fn, 0) /\ fn[0] = << >>
    BY FoldBase
  <2>2. \A i \in 1 .. 0 : FALSE
    OBVIOUS
  <2> QED
    BY <2>1, <2>2 DEF IsBatchFold
<1>2. ASSUME NEW n \in Nat, n \in A
      PROVE  n + 1 \in A
  <2>1. PICK fn : IsBatchFold(fn, ms, n)
    BY <1>2
  <2> DEFINE v == Adding(fn[n], ms[n + 1])
  <2>2. PICK h : IsLonger(h, fn, n, v)
    <3> HIDE DEF v
    <3> QED
      BY FoldMore
  <2>3. ASSUME NEW i \in 1 .. n + 1
        PROVE  h[i] = Adding(h[i - 1], ms[i])
    <3>1. CASE i = n + 1
      <4>1. i - 1 = n /\ n \in 0 .. n
        BY <3>1
      <4> QED
        BY <2>2, <3>1, <4>1 DEF IsLonger
    <3>2. CASE i \in 1 .. n
      <4>1. i \in 0 .. n /\ i - 1 \in 0 .. n
        BY <3>2
      <4>2. fn[i] = Adding(fn[i - 1], ms[i])
        BY <2>1, <3>2 DEF IsBatchFold
      <4> QED
        BY <2>2, <4>1, <4>2 DEF IsLonger
    <3> QED
      BY <3>1, <3>2
  <2>4. 0 \in 0 .. n
    OBVIOUS
  <2>5. IsBatchFold(h, ms, n + 1)
    <3> HIDE DEF v
    <3> QED
      BY <2>1, <2>2, <2>3, <2>4 DEF IsBatchFold, IsLonger
  <2> QED
    BY <2>5 DEF A
<1>3. N \in A
  <2>1. \A k \in 0 .. N : k \in A /\ k < N => k + 1 \in A
    BY <1>2
  <2> HIDE DEF A
  <2>2. \A k \in 0 .. N : k \in A
    BY ONLY <1>0, <1>1, <2>1, UpTo
  <2> QED
    BY <1>0, <2>2
<1>4. PICK f : IsBatchFold(f, ms, N)
  BY <1>3
<1>5. \A fn : IsBatchFold(fn, ms, N) <=> Rec(fn)
  <2> SUFFICES ASSUME NEW fn PROVE IsBatchFold(fn, ms, N) <=> Rec(fn)
    OBVIOUS
  <2>1. /\ 0 \in 0 .. N /\ \A i \in 1 .. N : i \in 0 .. N /\ i # 0
        /\ \A i \in 0 .. N : i # 0 => i \in 1 .. N
    BY <1>0
  <2>2. ASSUME IsBatchFold(fn, ms, N) PROVE Rec(fn)
    BY <2>1, <2>2 DEF IsBatchFold, OnUpTo
  <2>3. ASSUME Rec(fn) PROVE IsBatchFold(fn, ms, N)
    <3>1. fn = [i \in 0 .. N |-> fn[i]] /\ fn[0] = << >>
      BY <2>1, <2>3
    <3>2. \A i \in 1 .. N : fn[i] = Adding(fn[i - 1], ms[i])
      BY <2>1, <2>3
    <3> QED
      BY <3>1, <3>2 DEF IsBatchFold, OnUpTo
  <2> QED
    BY <2>2, <2>3
<1> DEFINE c == CHOOSE fn : Rec(fn)
<1>6. Rec(c)
  BY <1>4, <1>5
<1>7. Batch(ms) = c[N] \o Batched(ms, "LinkStateAck") \o Batched(ms, "LinkStateUpdate")
  BY DEF Batch, Adding, Batched, Listed, N
<1> HIDE DEF c, Rec
<1>8. IsBatchFold(c, ms, N)
  BY <1>5, <1>6
<1> QED
  BY <1>7, <1>8 DEF N

(* Nothing received yet, and a further LSA                                 *)
Received(p) == [p |-> p, flood |-> << >>, track |-> << >>, acks |-> << >>, upds |-> << >>]
NextReceived(o, n, ls, partial) == IF ls = {} THEN o ELSE RecvLsa(o, n, The(ls), partial)

(* The outcomes of the LSAs of an update                                   *)
IsUpdateFold(fn, p, from, lsas, partial, n) ==
  /\ OnUpTo(fn, n) /\ fn[0] = Received(p)
  /\ \A i \in 1 .. n : fn[i] = NextReceived(fn[i - 1], from, Ranked(lsas, i), partial)

(* RecvUpdate folds the LSAs of the update.                                *)
LEMMA UpdateFold ==
  ASSUME NEW p, NEW from, NEW lsas, NEW partial, Cardinality(lsas) \in Nat
  PROVE  \E fn : IsUpdateFold(fn, p, from, lsas, partial, Cardinality(lsas)) /\ RecvUpdate(p, from, lsas, partial) = Reply(fn[Cardinality(lsas)], from)
<1> DEFINE N == Cardinality(lsas)
           A == {n \in Nat : \E fn : IsUpdateFold(fn, p, from, lsas, partial, n)}
           Rec(fn) == fn = [i \in 0 .. N |-> IF i = 0 THEN Received(p) ELSE NextReceived(fn[i - 1], from, Ranked(lsas, i), partial)]
<1> HIDE DEF N
<1>0. N \in Nat
  BY DEF N
<1>1. 0 \in A
  <2>1. PICK fn : OnUpTo(fn, 0) /\ fn[0] = Received(p)
    BY FoldBase
  <2>2. \A i \in 1 .. 0 : FALSE
    OBVIOUS
  <2> QED
    BY <2>1, <2>2 DEF IsUpdateFold
<1>2. ASSUME NEW n \in Nat, n \in A
      PROVE  n + 1 \in A
  <2>1. PICK fn : IsUpdateFold(fn, p, from, lsas, partial, n)
    BY <1>2
  <2> DEFINE v == NextReceived(fn[n], from, Ranked(lsas, n + 1), partial)
  <2>2. PICK h : IsLonger(h, fn, n, v)
    <3> HIDE DEF v
    <3> QED
      BY FoldMore
  <2>3. ASSUME NEW i \in 1 .. n + 1
        PROVE  h[i] = NextReceived(h[i - 1], from, Ranked(lsas, i), partial)
    <3>1. CASE i = n + 1
      <4>1. i - 1 = n /\ n \in 0 .. n
        BY <3>1
      <4> QED
        BY <2>2, <3>1, <4>1 DEF IsLonger
    <3>2. CASE i \in 1 .. n
      <4>1. i \in 0 .. n /\ i - 1 \in 0 .. n
        BY <3>2
      <4>2. fn[i] = NextReceived(fn[i - 1], from, Ranked(lsas, i), partial)
        BY <2>1, <3>2 DEF IsUpdateFold
      <4> QED
        BY <2>2, <4>1, <4>2 DEF IsLonger
    <3> QED
      BY <3>1, <3>2
  <2>4. 0 \in 0 .. n
    OBVIOUS
  <2>5. IsUpdateFold(h, p, from, lsas, partial, n + 1)
    <3> HIDE DEF v
    <3> QED
      BY <2>1, <2>2, <2>3, <2>4 DEF IsUpdateFold, IsLonger
  <2> QED
    BY <2>5 DEF A
<1>3. N \in A
  <2>1. \A k \in 0 .. N : k \in A /\ k < N => k + 1 \in A
    BY <1>2
  <2> HIDE DEF A
  <2>2. \A k \in 0 .. N : k \in A
    BY ONLY <1>0, <1>1, <2>1, UpTo
  <2> QED
    BY <1>0, <2>2
<1>4. PICK f : IsUpdateFold(f, p, from, lsas, partial, N)
  BY <1>3
<1>5. \A fn : IsUpdateFold(fn, p, from, lsas, partial, N) <=> Rec(fn)
  <2> SUFFICES ASSUME NEW fn PROVE IsUpdateFold(fn, p, from, lsas, partial, N) <=> Rec(fn)
    OBVIOUS
  <2>1. /\ 0 \in 0 .. N /\ \A i \in 1 .. N : i \in 0 .. N /\ i # 0
        /\ \A i \in 0 .. N : i # 0 => i \in 1 .. N
    BY <1>0
  <2>2. ASSUME IsUpdateFold(fn, p, from, lsas, partial, N) PROVE Rec(fn)
    BY <2>1, <2>2 DEF IsUpdateFold, OnUpTo
  <2>3. ASSUME Rec(fn) PROVE IsUpdateFold(fn, p, from, lsas, partial, N)
    <3>1. fn = [i \in 0 .. N |-> fn[i]] /\ fn[0] = Received(p)
      BY <2>1, <2>3
    <3>2. \A i \in 1 .. N : fn[i] = NextReceived(fn[i - 1], from, Ranked(lsas, i), partial)
      BY <2>1, <2>3
    <3> QED
      BY <3>1, <3>2 DEF IsUpdateFold, OnUpTo
  <2> QED
    BY <2>2, <2>3
<1> DEFINE c == CHOOSE fn : Rec(fn)
<1>6. Rec(c)
  BY <1>4, <1>5
<1>7. RecvUpdate(p, from, lsas, partial) = Reply(c[N], from)
  BY DEF RecvUpdate, Received, NextReceived, N
<1> HIDE DEF c, Rec
<1>8. IsUpdateFold(c, p, from, lsas, partial, N)
  BY <1>5, <1>6
<1> QED
  BY <1>7, <1>8 DEF N
-----------------------------------------------------------------------------
(* The changes op of a batch, with the links f before and after them       *)
IsBatch(f, ls, op) ==
  /\ Len(op) \in Nat /\ \A i \in 1 .. Len(op) : op[i] \in Changes
  /\ IsLinks(ls) /\ IsLinksFold(f, ls, op, Len(op))
  /\ \A i \in 1 .. Len(op) : Fits(f[i - 1], op[i])

(* The links are in both directions all through a batch.                   *)
LEMMA BatchLinks ==
  ASSUME NEW f, NEW ls, NEW op, IsBatch(f, ls, op)
  PROVE  \A k \in 0 .. Len(op) : IsLinks(f[k])
<1> DEFINE N == Len(op)
           A == {k \in 0 .. N : IsLinks(f[k])}
<1>0. N \in Nat
  BY DEF IsBatch
<1>1. 0 \in A
  BY <1>0 DEF IsBatch, IsLinksFold
<1>2. ASSUME NEW k \in 0 .. N, k \in A, k < N
      PROVE  k + 1 \in A
  <2>1. k + 1 \in 1 .. N /\ k + 1 \in 0 .. N /\ k + 1 - 1 = k
    BY <1>0, <1>2
  <2>2. f[k + 1] = NewLinks(f[k], op[k + 1]) /\ Fits(f[k], op[k + 1]) /\ op[k + 1] \in Changes
    BY <2>1 DEF IsBatch, IsLinksFold
  <2>3. IsLinks(NewLinks(f[k], op[k + 1]))
    BY <1>2, <2>2, NewLinksFacts
  <2> QED
    BY <2>1, <2>2, <2>3
<1> HIDE DEF A, N
<1>3. \A k \in 0 .. N : k \in A
  BY ONLY <1>0, <1>1, <1>2, UpTo
<1> QED
  BY <1>3 DEF A, N

Joining(f, op, r, n, k) == \E i \in 1 .. k : Joins(f[i - 1], op[i], r, n)

Changing(o, p, f, op, r, k) ==
  /\ IsOut(o, r, {}) /\ Matches(o.p.nbrs, f[k], r)
  /\ \A n \in Routers : Joining(f, op, r, n, k) /\ r < n => Described(o.events[n])
  /\ \A n \in DOMAIN o.p.nbrs :
       Joining(f, op, r, n, k) \/ (n \in DOMAIN p.nbrs /\ o.p.nbrs[n] = p.nbrs[n])
  /\ (\A i \in 1 .. k : LocalChange(op[i], r) = NoChange) => o.p.nbrs = p.nbrs

(* One more change of a batch                                              *)
LEMMA ChangingStep ==
  ASSUME NEW f, NEW ls, NEW op, IsBatch(f, ls, op), NEW r \in Routers, NEW p, NEW k \in Nat,
         k + 1 \in 1 .. Len(op), NEW o, Changing(o, p, f, op, r, k)
  PROVE  Changing(Then(o, Prepare(o.p, LocalChange(op[k + 1], r))), p, f, op, r, k + 1)
<1> DEFINE d == op[k + 1]
           next == Prepare(o.p, LocalChange(d, r))
           w == Then(o, next)
           U == {} \cup Elems(o.track)
           N == Len(op)
<1>1. N \in Nat /\ k \in 0 .. N /\ k + 1 - 1 = k /\ k + 1 \in 1 .. k + 1
      /\ (\A i \in 1 .. k : i \in 1 .. k + 1)
      /\ (\A i \in 1 .. k + 1 : i = k + 1 \/ i \in 1 .. k)
  BY DEF IsBatch
<1>2. f[k + 1] = NewLinks(f[k], d) /\ Fits(f[k], d) /\ d \in Changes /\ IsLinks(f[k])
  BY <1>1, BatchLinks DEF IsBatch, IsLinksFold
<1>3. IsProc(o.p, r) /\ Matches(o.p.nbrs, f[k], r) /\ IsOut(o, r, {})
  BY DEF Changing, IsOut
<1>4. Awaited(o.p.areas, o.p.ext, o.p.track \cup U)
  <2>1. o.p.track \cup U = o.p.track \cup {} \cup Elems(o.track)
    OBVIOUS
  <2> QED
    BY <1>3, <2>1 DEF IsOut
<1> HIDE DEF d, U, N
<1>5. Prepared(next, o.p, f[k], d, r, U)
  BY <1>2, <1>3, <1>4, PreparedOut
<1> HIDE DEF next
<1>6. IsOut(next, r, U)
  BY <1>5 DEF Prepared
<1>7. /\ IsOut(w, r, {}) /\ w.p = next.p
      /\ \A n \in Routers : Described(o.events[n]) \/ Described(next.events[n])
                            => Described(w.events[n])
  BY <1>3, <1>6, ThenOut DEF U
<1> HIDE DEF w
<1>8. \A n : Joining(f, op, r, n, k + 1) <=> Joining(f, op, r, n, k) \/ Joins(f[k], d, r, n)
  BY <1>1 DEF Joining, d
<1>9. Matches(w.p.nbrs, f[k + 1], r)
  BY <1>2, <1>5, <1>7 DEF Prepared
<1>10. \A n \in Routers : Joining(f, op, r, n, k + 1) /\ r < n => Described(w.events[n])
  BY <1>5, <1>7, <1>8 DEF Prepared, Changing
<1>11. \A n \in DOMAIN w.p.nbrs :
         Joining(f, op, r, n, k + 1) \/ (n \in DOMAIN p.nbrs /\ w.p.nbrs[n] = p.nbrs[n])
  BY <1>5, <1>7, <1>8 DEF Prepared, Changing
<1>12. (\A i \in 1 .. k + 1 : LocalChange(op[i], r) = NoChange) => w.p.nbrs = p.nbrs
  BY <1>1, <1>5, <1>7 DEF Prepared, Changing, d
<1>13. Changing(w, p, f, op, r, k + 1)
  BY <1>7, <1>9, <1>10, <1>11, <1>12 DEF Changing
<1> QED
  BY <1>13 DEF w, next, d

(* handle_neighborhood_change, up to perform_actions: all the changes of a *)
(* batch                                                                   *)
LEMMA ChangesOut ==
  ASSUME NEW f, NEW ls, NEW op, IsBatch(f, ls, op), NEW r \in Routers,
         NEW p, IsProc(p, r), Matches(p.nbrs, ls, r), Awaited(p.areas, p.ext, p.track),
         NEW changes, Len(changes) = Len(op),
         \A i \in 1 .. Len(op) : changes[i] = LocalChange(op[i], r)
  PROVE  \E o : Changing(o, p, f, op, r, Len(op)) /\ HandleChange(p, changes) = PerformActions(o)
<1> DEFINE N == Len(op)
           none == {}
<1>0. N \in Nat
  BY DEF IsBatch
<1>1. PICK h : IsChangeFold(h, p, changes, N) /\ HandleChange(p, changes) = PerformActions(h[N])
  BY <1>0, ChangeFold
<1> DEFINE A == {k \in 0 .. N : Changing(h[k], p, f, op, r, k)}
<1> HIDE DEF N
<1>2. 0 \in A
  <2>1. h[0] = Outcome(p) /\ f[0] = ls
    BY <1>1 DEF IsChangeFold, IsBatch, IsLinksFold
  <2>2. p.track \cup none = p.track
    OBVIOUS
  <2> HIDE DEF none
  <2>6. Awaited(p.areas, p.ext, p.track \cup none)
    BY <2>2
  <2>3. IsOut(Outcome(p), r, none) /\ Outcome(p).p = p
    BY <2>6, OutcomeOut
  <2>4. \A n : ~Joining(f, op, r, n, 0)
    BY DEF Joining
  <2>5. Changing(h[0], p, f, op, r, 0)
    BY <2>1, <2>3, <2>4 DEF Changing, none
  <2> QED
    BY <1>0, <2>5
<1>3. ASSUME NEW k \in 0 .. N, k \in A, k < N
      PROVE  k + 1 \in A
  <2>1. k + 1 \in 1 .. N /\ k + 1 \in 0 .. N /\ k + 1 - 1 = k /\ k \in Nat
    BY <1>0, <1>3
  <2>2. h[k + 1] = Then(h[k], Prepare(h[k].p, changes[k + 1]))
    BY <1>1, <2>1 DEF IsChangeFold
  <2>3. changes[k + 1] = LocalChange(op[k + 1], r)
    BY <2>1 DEF N
  <2>4. Changing(h[k], p, f, op, r, k) /\ k + 1 \in 1 .. Len(op)
    BY <1>3, <2>1 DEF N
  <2>5. Changing(Then(h[k], Prepare(h[k].p, LocalChange(op[k + 1], r))), p, f, op, r, k + 1)
    BY <2>1, <2>4, ChangingStep
  <2> QED
    BY <2>1, <2>2, <2>3, <2>5
<1> HIDE DEF A
<1>4. \A k \in 0 .. N : k \in A
  BY ONLY <1>0, <1>2, <1>3, UpTo
<1>5. Changing(h[N], p, f, op, r, N)
  BY <1>0, <1>4 DEF A
<1> QED
  BY <1>1, <1>5 DEF N
-----------------------------------------------------------------------------
(* A tracked External-LSA has no area.                                     *)
LEMMA TrackedFacts ==
  ASSUME NEW id, NEW t, IsTrack(t, id)
  PROVE  /\ IsTrack(Tracked(t), id) /\ Tracked(t).key = t.key
         /\ Tracked(t).area = IF t.key.type = External THEN NoArea ELSE t.area
<1> DEFINE b == IF t.key.type = External THEN NoArea ELSE t.area
           x == Tracked(t)
<1>1. t = [area |-> t.area, key |-> t.key, after |-> t.after]
  BY DEF IsTrack
<1>2. x = [t EXCEPT !.area = b]
  BY DEF Tracked
<1>3. t.key.type # External => b = t.area
  OBVIOUS
<1> HIDE DEF b, x
<1>4. x = [area |-> b, key |-> t.key, after |-> t.after]
  BY <1>1, <1>2
<1>5. x.area = b /\ x.key = t.key /\ x.after = t.after
  BY <1>4
<1>6. IsTrack(x, id)
  BY <1>3, <1>4, <1>5 DEF IsTrack, IsEdit
<1> QED
  BY <1>5, <1>6 DEF x, b

(* Every LSA that is in T is in U.                                         *)
Covers(U, T) ==
  \A t \in T : \E u \in U : u.key = t.key /\ (t.key.type # External => u.area = t.area)

(* What covers the tracked LSAs covers what is awaited.                    *)
LEMMA CoversAwaited ==
  ASSUME NEW id, NEW areas, NEW ext, IsBase(areas, ext, id),
         NEW T, Awaited(areas, ext, T), NEW U, Covers(U, T)
  PROVE  Awaited(areas, ext, U)
<1>1. ASSUME NEW l \in ext, l.dead = TRUE
      PROVE  \E u \in U : u.key = l.key
  BY <1>1 DEF Awaited, Covers
<1>2. ASSUME NEW a \in DOMAIN areas, NEW l \in areas[a].lsas, l.dead = TRUE
      PROVE  \E u \in U : u.key = l.key /\ u.area = a
  <2>1. PICK t \in T : t.key = l.key /\ t.area = a
    BY <1>2 DEF Awaited
  <2>2. l.key.type # External
    BY DEF IsBase, IsArea
  <2> QED
    BY <2>1, <2>2 DEF Covers
<1> QED
  BY <1>1, <1>2 DEF Awaited

(* Tracked LSAs replace those of the same LSA.                             *)
LEMMA PutTracksFacts ==
  ASSUME NEW id, NEW tracks, IsKept(tracks, id),
         NEW new, IsFiniteSet(new), \A t \in new : IsTrack(t, id)
  PROVE  IsKept(PutTracks(tracks, new), id) /\ Covers(PutTracks(tracks, new), tracks \cup new)
<1> DEFINE f == [t \in new |-> Tracked(t)]
           entries == {Tracked(t) : t \in new}
           old == {x \in tracks : \A t \in entries : ~SameLsa(x, t)}
<1>1. PutTracks(tracks, new) = old \cup entries
  BY DEF PutTracks
<1>2. entries = {f[t] : t \in new}
  OBVIOUS
<1>3. IsFiniteSet(entries)
  <2> HIDE DEF f, entries
  <2> QED
    BY <1>2, FiniteImage
<1>4. \A t \in new : /\ IsTrack(Tracked(t), id) /\ Tracked(t).key = t.key
                     /\ Tracked(t).area = IF t.key.type = External THEN NoArea ELSE t.area
  BY TrackedFacts
<1>5. \A x \in entries : IsTrack(x, id) /\ (x.key.type = External => x.area = NoArea)
  BY <1>4
<1>6. old \subseteq tracks /\ \A x \in tracks : x \in old \/ \E t \in entries : SameLsa(x, t)
  OBVIOUS
<1>7. \A t \in new : Tracked(t) \in entries
  OBVIOUS
<1> HIDE DEF entries, old
<1>8. IsKept(old \cup entries, id)
  <2>1. IsFiniteSet(old)
    BY <1>6, PartFinite DEF IsKept
  <2>2. IsFiniteSet(old \cup entries)
    BY <1>3, <2>1, FS_Union
  <2> QED
    BY <1>5, <1>6, <2>2 DEF IsKept
<1>9. Covers(old \cup entries, tracks \cup new)
  <2>1. \A x \in tracks : \E u \in old \cup entries : u.key = x.key /\ u.area = x.area
    BY <1>6 DEF SameLsa
  <2>2. \A x \in new : \E u \in old \cup entries :
          u.key = x.key /\ (x.key.type # External => u.area = x.area)
    BY <1>4, <1>7
  <2> QED
    BY <2>1, <2>2 DEF Covers
<1> QED
  BY <1>1, <1>8, <1>9

(* The last one of every LSA is kept.                                      *)
LEMMA LastTracksFacts ==
  ASSUME NEW id, NEW ts, IsSeq(ts), \A i \in 1 .. Len(ts) : IsTrack(ts[i], id)
  PROVE  /\ IsFiniteSet(LastTracks(ts)) /\ \A t \in LastTracks(ts) : IsTrack(t, id)
         /\ Covers(LastTracks(ts), Elems(ts))
<1> DEFINE N == Len(ts)
           last(j) == \A k \in 1 .. N : k > j => ~SameLsa(Tracked(ts[k]), Tracked(ts[j]))
           J == {j \in 1 .. N : last(j)}
<1>1. N \in Nat /\ DOMAIN ts = 1 .. N
  BY SeqElems DEF IsSeq
<1>2. LastTracks(ts) = {ts[j] : j \in J}
  BY <1>1 DEF LastTracks
<1>3. J \subseteq 1 .. N /\ \A j \in 1 .. N : last(j) => j \in J
  OBVIOUS
<1>4. IsFiniteSet({ts[j] : j \in J})
  <2>1. IsFiniteSet(1 .. N)
    BY <1>1, FS_Interval
  <2>2. IsFiniteSet(J)
    BY <1>3, <2>1, PartFinite
  <2> HIDE DEF J
  <2> QED
    BY <2>2, FiniteImage
<1>5. \A j \in J : ts[j] \in {ts[i] : i \in J}
  OBVIOUS
<1> HIDE DEF J, N
<1>6. ASSUME NEW i \in 1 .. N
      PROVE  \E j \in J : SameLsa(Tracked(ts[j]), Tracked(ts[i]))
  <2> DEFINE S == {j \in 1 .. N : SameLsa(Tracked(ts[j]), Tracked(ts[i]))}
  <2>1. S \subseteq 1 .. N /\ S # {}
    BY DEF SameLsa
  <2>2. PICK j \in S : \A k \in S : k <= j
    <3> HIDE DEF S
    <3> QED
      BY <1>1, <2>1, LastOf
  <2>3. last(j)
    <3> SUFFICES ASSUME NEW k \in 1 .. N, k > j, SameLsa(Tracked(ts[k]), Tracked(ts[j]))
                 PROVE  FALSE
      OBVIOUS
    <3>1. k \in S
      BY <2>2 DEF SameLsa
    <3>2. k <= j /\ j \in 1 .. N
      BY <2>2, <3>1
    <3> QED
      BY <1>1, <3>2
  <2>4. j \in 1 .. N /\ SameLsa(Tracked(ts[j]), Tracked(ts[i]))
    BY <2>2
  <2> HIDE DEF last
  <2> QED
    BY <1>3, <2>3, <2>4
<1>7. \A i \in 1 .. N : /\ Tracked(ts[i]).key = ts[i].key
                        /\ Tracked(ts[i]).area = IF ts[i].key.type = External THEN NoArea ELSE ts[i].area
  BY TrackedFacts DEF N
<1>8. \A i \in 1 .. N : \E j \in J :
        ts[j].key = ts[i].key /\ (ts[i].key.type # External => ts[j].area = ts[i].area)
  <2> SUFFICES ASSUME NEW i \in 1 .. N
               PROVE  \E j \in J : ts[j].key = ts[i].key
                                   /\ (ts[i].key.type # External => ts[j].area = ts[i].area)
    OBVIOUS
  <2>1. PICK j \in J : SameLsa(Tracked(ts[j]), Tracked(ts[i]))
    BY <1>6
  <2>2. j \in 1 .. N
    BY <1>3
  <2> QED
    BY <1>7, <2>1, <2>2 DEF SameLsa
<1>9. Covers(LastTracks(ts), Elems(ts))
  <2> SUFFICES ASSUME NEW t \in Elems(ts)
               PROVE  \E u \in LastTracks(ts) : u.key = t.key /\ (t.key.type # External => u.area = t.area)
    BY DEF Covers
  <2>1. PICK i \in 1 .. N : t = ts[i]
    BY DEF Elems, N
  <2>2. PICK j \in J : ts[j].key = ts[i].key /\ (ts[i].key.type # External => ts[j].area = ts[i].area)
    BY <1>8
  <2>3. ts[j] \in LastTracks(ts)
    BY <1>2, <1>5
  <2> QED
    BY <2>1, <2>2, <2>3
<1>10. \A t \in LastTracks(ts) : IsTrack(t, id)
  BY <1>2, <1>3 DEF N
<1> QED
  BY <1>2, <1>4, <1>9, <1>10

(* The process with the entries new tracked, too                           *)
AllTracks(new, id) == IsFiniteSet(new) /\ \A t \in new : IsTrack(t, id)

IsTracking(q, p, id) ==
  IsProc(q, id) /\ Awaited(q.areas, q.ext, q.track) /\ q.nbrs = p.nbrs

(* What was to be tracked is tracked.                                      *)
LEMMA TracksPut ==
  ASSUME NEW id, NEW p, IsProc(p, id), NEW new, AllTracks(new, id),
         Awaited(p.areas, p.ext, p.track \cup new),
         NEW tracks, tracks = PutTracks(p.track, new), NEW q, q = [p EXCEPT !.track = tracks]
  PROVE  IsTracking(q, p, id)
<1>1. IsKept(p.track, id) /\ IsBase(p.areas, p.ext, id)
  BY DEF IsProc
<1>2. IsKept(tracks, id) /\ Covers(tracks, p.track \cup new)
  BY <1>1, PutTracksFacts DEF AllTracks
<1>3. p = [id |-> id, areas |-> p.areas, ext |-> p.ext, ext_changed |-> p.ext_changed,
           rib |-> p.rib, links |-> p.links, nbrs |-> p.nbrs, track |-> p.track]
  BY DEF IsProc, IsShape
<1>4. q = [id |-> id, areas |-> p.areas, ext |-> p.ext, ext_changed |-> p.ext_changed,
           rib |-> p.rib, links |-> p.links, nbrs |-> p.nbrs, track |-> tracks]
  BY ONLY <1>3, q = [p EXCEPT !.track = tracks]
<1>5. /\ IsShape(q, id) /\ q.areas = p.areas /\ q.ext = p.ext /\ q.nbrs = p.nbrs
      /\ q.track = tracks /\ q.rib = p.rib
  BY ONLY <1>4 DEF IsShape
<1>6. Awaited(p.areas, p.ext, tracks)
  <2> DEFINE T == p.track \cup new
  <2>1. Awaited(p.areas, p.ext, T) /\ Covers(tracks, T)
    BY <1>2
  <2> HIDE DEF T
  <2> QED
    BY <1>1, <2>1, CoversAwaited
<1> QED
  BY <1>2, <1>5, <1>6 DEF IsProc, IsTracking
-----------------------------------------------------------------------------
(* The outcome x of redistributing a path as a Summary-LSA of this key     *)
Retold(x, key, lsas) ==
  /\ IsLsas(x.lsa) /\ \A l \in x.lsa : l.key = key
  /\ IsFiniteSet(x.after)
  /\ \A o \in x.after : IsLsas(o) /\ \A m \in o : m.key = key /\ m.dead = FALSE
  /\ \A l \in x.lsa : l.dead = TRUE => l \in lsas \/ x.after # {}

(* What Redistribute makes of a Summary-LSA has the key it is to have.     *)
LEMMA RetoldOf ==
  ASSUME NEW x, NEW key, NEW lsas, NEW S, NEW O, x.lsa = S, x.after = O,
         IsLsas(S), \A l \in S : l.key = key,
         \/ O = {} /\ \A l \in S : l.dead = TRUE => l \in lsas
         \/ \E o : O = {o} /\ IsLsas(o) /\ \A m \in o : m.key = key /\ m.dead = FALSE
  PROVE  Retold(x, key, lsas)
BY FewFinite DEF Retold

(* The same, with LSAs that are to be issued after the flush.              *)
LEMMA RetoldAfter ==
  ASSUME NEW x, NEW key, NEW lsas, NEW S, NEW o, x.lsa = S, x.after = {o},
         IsLsas(S), \A l \in S : l.key = key, IsLsas(o), \A m \in o : m.key = key /\ m.dead = FALSE
  PROVE  Retold(x, key, lsas)
<1>1. \E y : {o} = {y} /\ IsLsas(y) /\ \A m \in y : m.key = key /\ m.dead = FALSE
  OBVIOUS
<1> QED
  BY <1>1, RetoldOf

(* redistribute_from_paths: a Summary-LSA is issued, left alone or         *)
(* flushed.                                                                *)
LEMMA RedistributeFacts ==
  ASSUME NEW id, NEW p, p.id = id, NEW a, IsLsas(p.areas[a].lsas), NEW t, NEW cost, NEW old
  PROVE  Retold(Redistribute(p, a, t, cost, old), Key(Summary, id, t), p.areas[a].lsas)
<1> DEFINE key == Key(Summary, id, t)
           lsas == p.areas[a].lsas
           cur == Find(lsas, key)
           own == The(cur)
           links1 == Only(t, The(cost))
           links0 == Only(t, The(old))
           seq0 == IF cur = {} THEN MaxSeq ELSE own.seq
           fresh == NewLsa(key, links1)
           nothing == [lsa |-> cur, flood |-> FALSE, after |-> {}]
           retract == [key |-> key, links |-> links0, dead |-> TRUE, seq |-> seq0]
           next == [own EXCEPT !.seq = @ + 1, !.links = links1]
           x == Redistribute(p, a, t, cost, old)
           none == {}
<1>1. x = IF cost = old THEN nothing
          ELSE IF cost = {} THEN [lsa |-> {retract}, flood |-> TRUE, after |-> {none}]
          ELSE IF cur = {} THEN [lsa |-> {fresh}, flood |-> TRUE, after |-> {}]
          ELSE IF own.dead \/ old = {} THEN [nothing EXCEPT !.after = {{fresh}}]
          ELSE IF own.seq >= MaxSeq - 1
          THEN [lsa |-> {Aged(own)}, flood |-> TRUE, after |-> {{fresh}}]
          ELSE [lsa |-> {next}, flood |-> TRUE, after |-> {}]
  BY DEF Redistribute
<1>2. IsLsas(cur) /\ \A l \in cur : l \in lsas /\ l.key = key /\ IsLsa(l)
  BY LsasPart DEF Find, IsLsas
<1>3. IsLsa(fresh) /\ fresh.key = key /\ fresh.dead = FALSE
  BY NewLsaFacts
<1>4. LsaIs(retract, key, seq0, TRUE)
  <2>1. retract = [key |-> key, seq |-> seq0, dead |-> TRUE, links |-> links0]
    OBVIOUS
  <2> HIDE DEF retract, seq0, links0, key
  <2> QED
    BY <2>1, LsaMade
<1>5. cur # {} => own \in cur /\ IsLsa(own) /\ own.key = key
  BY <1>2, TheOf
<1>6. cur # {} => Aged(own).key = key /\ IsLsa(Aged(own))
  <2> SUFFICES ASSUME cur # {} PROVE Aged(own).key = key /\ IsLsa(Aged(own))
    OBVIOUS
  <2> HIDE DEF own, key, cur
  <2>0. own.key = key
    BY <1>5
  <2>1. own = [key |-> own.key, seq |-> own.seq, dead |-> own.dead, links |-> own.links]
    BY <1>5 DEF IsLsa
  <2>2. Aged(own) = [own EXCEPT !.seq = MaxSeq, !.dead = TRUE]
    BY DEF Aged
  <2>3. Aged(own) = [key |-> own.key, seq |-> MaxSeq, dead |-> TRUE, links |-> own.links]
    BY <2>1, <2>2
  <2>4. LsaIs(Aged(own), key, MaxSeq, TRUE)
    BY <2>0, <2>3, LsaMade
  <2> QED
    BY <2>4 DEF LsaIs
<1>7. cur # {} => next.key = key /\ IsLsa(next) /\ next.dead = own.dead
  <2> SUFFICES ASSUME cur # {} PROVE next.key = key /\ IsLsa(next) /\ next.dead = own.dead
    OBVIOUS
  <2>2. next = [own EXCEPT !.seq = own.seq + 1, !.links = links1]
    OBVIOUS
  <2> HIDE DEF own, key, cur, next, links1
  <2>0. own.key = key
    BY <1>5
  <2>1. own = [key |-> own.key, seq |-> own.seq, dead |-> own.dead, links |-> own.links]
        /\ own.dead \in BOOLEAN
    BY <1>5 DEF IsLsa
  <2>3. next = [key |-> own.key, seq |-> own.seq + 1, dead |-> own.dead, links |-> links1]
    BY <2>1, <2>2
  <2>4. LsaIs(next, key, own.seq + 1, own.dead)
    BY <2>0, <2>1, <2>3, LsaMade
  <2> QED
    BY <2>4 DEF LsaIs
<1>8. IsLsas(none) /\ \A m \in none : FALSE
  BY LsasFew
<1>13. IsLsas({fresh}) /\ \A m \in {fresh} : m = fresh
  BY <1>3, LsasFew
<1> SUFFICES Retold(x, key, lsas)
  OBVIOUS
<1> DEFINE freshes == {fresh}
<1> HIDE DEF key, lsas, own, x, next, retract, fresh, none
<1>9. CASE x = nothing
  BY <1>2, <1>9, RetoldOf
<1>10. CASE x = [lsa |-> {retract}, flood |-> TRUE, after |-> {none}]
  <2>1. x.lsa = {retract} /\ x.after = {none}
    BY <1>10
  <2>2. IsLsas({retract}) /\ \A l \in {retract} : l.key = key
    BY <1>4, LsasFew DEF LsaIs
  <2> QED
    BY <1>8, <2>1, <2>2, RetoldOf
<1>11. CASE x = [lsa |-> {fresh}, flood |-> TRUE, after |-> {}]
  <2>1. x.lsa = {fresh} /\ x.after = {}
    BY <1>11
  <2> QED
    BY <1>3, <1>13, <2>1, RetoldOf
<1>12. CASE x = [nothing EXCEPT !.after = {{fresh}}] /\ cur # {}
  <2>1. x.lsa = cur /\ x.after = {freshes}
    BY <1>12
  <2>2. IsLsas(freshes) /\ \A m \in freshes : m.key = key /\ m.dead = FALSE
    BY <1>3, <1>13
  <2> HIDE DEF freshes
  <2> QED
    <3>1. IsLsas(cur) /\ \A l \in cur : l.key = key
      BY ONLY <1>2
    <3> QED
      BY ONLY <2>1, <2>2, <3>1, RetoldAfter
<1>14. CASE x = [lsa |-> {Aged(own)}, flood |-> TRUE, after |-> {{fresh}}] /\ cur # {}
  <2>1. x.lsa = {Aged(own)} /\ x.after = {freshes}
    BY <1>14
  <2>2. IsLsas(freshes) /\ \A m \in freshes : m.key = key /\ m.dead = FALSE
    BY <1>3, <1>13
  <2>3. IsLsas({Aged(own)}) /\ \A l \in {Aged(own)} : l.key = key
    BY <1>6, <1>14, LsasFew
  <2> HIDE DEF freshes
  <2> QED
    BY ONLY <2>1, <2>2, <2>3, RetoldAfter
<1>15. CASE x = [lsa |-> {next}, flood |-> TRUE, after |-> {}] /\ cur # {} /\ ~own.dead
  <2>1. x.lsa = {next} /\ x.after = {}
    BY <1>15
  <2>2. IsLsas({next}) /\ \A l \in {next} : l.key = key /\ l.dead # TRUE
    BY <1>5, <1>7, <1>15, LsasFew DEF IsLsa
  <2> QED
    BY <2>1, <2>2, RetoldOf
<1> QED
  BY <1>1, <1>9, <1>10, <1>11, <1>12, <1>14, <1>15
-----------------------------------------------------------------------------
(* The process p was routed as u.                                          *)
IsRouted(u, p, id) ==
  /\ IsProc(u.p, id) /\ u.p.nbrs = p.nbrs
  /\ IsFiniteSet(u.flood) /\ \A f \in u.flood : IsLsa(f.lsa)
  /\ IsFiniteSet(u.track) /\ \A t \in u.track : IsTrack(t, id)
  /\ Awaited(u.p.areas, u.p.ext, u.p.track \cup u.track)

(* The outcomes new[a][t] of redistributing paths to t into area a         *)
IsRetold(new, p, id) ==
  /\ DOMAIN new = DOMAIN p.areas
  /\ \A a \in DOMAIN new : IsFiniteSet(DOMAIN new[a])
  /\ \A a \in DOMAIN new : \A t \in DOMAIN new[a] :
       Retold(new[a][t], Key(Summary, id, t), p.areas[a].lsas)

(* The pairs of an area and a target                                       *)
LEMMA PairsFacts ==
  ASSUME NEW new, IsFiniteSet(DOMAIN new), \A a \in DOMAIN new : IsFiniteSet(DOMAIN new[a]),
         NEW all, all = UNION {{a} \X DOMAIN new[a] : a \in DOMAIN new}
  PROVE  /\ IsFiniteSet(all)
         /\ \A x \in all : x[1] \in DOMAIN new /\ x[2] \in DOMAIN new[x[1]]
         /\ \A a \in DOMAIN new : \A t \in DOMAIN new[a] : <<a, t>> \in all
<1> DEFINE f == [a \in DOMAIN new |-> {a} \X DOMAIN new[a]]
<1>1. \A a \in DOMAIN new : IsFiniteSet(f[a])
  <2> SUFFICES ASSUME NEW a \in DOMAIN new PROVE IsFiniteSet({a} \X DOMAIN new[a])
    OBVIOUS
  <2>1. IsFiniteSet({a}) /\ IsFiniteSet(DOMAIN new[a])
    BY FewFinite
  <2> QED
    BY <2>1, FS_Product
<1>2. all = UNION {f[a] : a \in DOMAIN new}
  OBVIOUS
<1>3. IsFiniteSet(all)
  <2> HIDE DEF f
  <2> QED
    BY <1>1, <1>2, FiniteUnion
<1>4. \A x \in all : x[1] \in DOMAIN new /\ x[2] \in DOMAIN new[x[1]]
  OBVIOUS
<1>5. \A a \in DOMAIN new : \A t \in DOMAIN new[a] : <<a, t>> \in all
  OBVIOUS
<1> QED
  BY <1>3, <1>4, <1>5

(* The summaries in one area                                               *)
IsRetoldArea(outs, lsas, id) ==
  /\ IsFiniteSet(DOMAIN outs)
  /\ \A t \in DOMAIN outs : Retold(outs[t], Key(Summary, id, t), lsas)

StoredIn(lsas, outs, id) ==
  {l \in lsas : l.key \notin {Key(Summary, id, t) : t \in DOMAIN outs}}
  \cup UNION {outs[t].lsa : t \in DOMAIN outs}

IsStored(new, lsas, outs, id) ==
  /\ IsArea(new, id)
  /\ \A l \in new.lsas : l.dead = TRUE => l \in lsas \/
       \E t \in DOMAIN outs : l.key = Key(Summary, id, t) /\ outs[t].after # {}

(* An area after its Summary-LSAs are stored                               *)
LEMMA StoredArea ==
  ASSUME NEW id, NEW ds, IsArea(ds, id), NEW outs, IsRetoldArea(outs, ds.lsas, id),
         NEW routes, IsFiniteSet(DOMAIN routes), NEW new,
         NEW stored, stored = StoredIn(ds.lsas, outs, id),
         new = [ds EXCEPT !.lsas = stored, !.redistributed = routes]
  PROVE  IsStored(new, ds.lsas, outs, id)
<1> DEFINE f == [t \in DOMAIN outs |-> outs[t].lsa]
           added == UNION {outs[t].lsa : t \in DOMAIN outs}
           keys == {Key(Summary, id, t) : t \in DOMAIN outs}
           kept == {l \in ds.lsas : l.key \notin keys}
<1>1. /\ ds = [lsas |-> ds.lsas, spt |-> ds.spt, recompute_intra |-> ds.recompute_intra,
               recompute_inter |-> ds.recompute_inter, redistributed |-> ds.redistributed]
      /\ IsLsas(ds.lsas) /\ \A l \in ds.lsas : l.key.type # External
      /\ \E l \in ds.lsas : l.key = RouterKey(id)
  BY DEF IsArea
<1>2. new = [lsas |-> stored, spt |-> ds.spt, recompute_intra |-> ds.recompute_intra,
             recompute_inter |-> ds.recompute_inter, redistributed |-> routes]
  BY ONLY <1>1, new = [ds EXCEPT !.lsas = stored, !.redistributed = routes]
<1>0. IsFiniteSet(DOMAIN outs)
  BY DEF IsRetoldArea
<1>3. IsFiniteSet(UNION {f[t] : t \in DOMAIN outs})
  <2>1. \A t \in DOMAIN outs : IsFiniteSet(f[t])
    BY DEF Retold, IsLsas, IsRetoldArea
  <2> HIDE DEF f
  <2> QED
    BY <1>0, <2>1, FiniteUnion
<1>4. added = UNION {f[t] : t \in DOMAIN outs}
  OBVIOUS
<1>5. \A l \in added : IsLsa(l) /\ \E t \in DOMAIN outs : l \in outs[t].lsa /\ l.key = Key(Summary, id, t)
  BY DEF Retold, IsLsas, IsRetoldArea
<1>6. IsLsas(added)
  BY <1>3, <1>4, <1>5 DEF IsLsas
<1>7. kept \subseteq ds.lsas /\ stored = kept \cup added
  BY DEF StoredIn
<1>8. \A t : Key(Summary, id, t) # RouterKey(id) /\ Key(Summary, id, t).type # External
  BY KeyFacts
<1>9. \E l \in kept : l.key = RouterKey(id)
  BY <1>1, <1>8
<1> HIDE DEF added, kept, keys, f
<1>10. IsLsas(stored)
  <2>1. IsLsas(kept)
    BY <1>1, <1>7, LsasPart
  <2> QED
    BY <1>6, <1>7, <2>1, LsasJoin
<1>11. \A l \in stored : l.key.type # External
  BY <1>1, <1>5, <1>7, <1>8
<1>12. \E l \in stored : l.key = RouterKey(id)
  BY <1>7, <1>9
<1>13. IsArea(new, id) /\ new.lsas = stored
  <2>1. new.lsas = stored /\ new.redistributed = routes
    BY ONLY <1>2
  <2>2. new = [lsas |-> new.lsas, spt |-> new.spt, recompute_intra |-> new.recompute_intra,
               recompute_inter |-> new.recompute_inter, redistributed |-> new.redistributed]
    BY ONLY <1>2
  <2> QED
    BY <1>10, <1>11, <1>12, <2>1, <2>2 DEF IsArea
<1>14. ASSUME NEW l \in stored, l.dead = TRUE
       PROVE  l \in ds.lsas \/ \E t \in DOMAIN outs : l.key = Key(Summary, id, t) /\ outs[t].after # {}
  <2>1. CASE l \in kept
    BY <1>7, <2>1
  <2>2. CASE l \in added
    <3>1. PICK t \in DOMAIN outs : l \in outs[t].lsa /\ l.key = Key(Summary, id, t)
      BY <1>5, <2>2
    <3> QED
      BY <1>14, <3>1 DEF Retold, IsRetoldArea
  <2> QED
    BY <1>7, <2>1, <2>2
<1> QED
  BY <1>13, <1>14 DEF IsStored

(* The Summary-LSAs of all areas are stored; those that are dead are to be *)
(* tracked.                                                                *)
LEMMA StoreFacts ==
  ASSUME NEW id, NEW p, IsProc(p, id), Awaited(p.areas, p.ext, p.track),
         NEW paths, \A a \in DOMAIN p.areas : IsFiniteSet(DOMAIN paths[a]),
         NEW new, IsRetold(new, p, id)
  PROVE  IsRouted(StoreSummaries(p, paths, new), p, id)
<1> DEFINE u == StoreSummaries(p, paths, new)
           keys(a) == {Key(Summary, id, t) : t \in DOMAIN new[a]}
           all == UNION {{a} \X DOMAIN new[a] : a \in DOMAIN new}
           stored(a) == {l \in p.areas[a].lsas : l.key \notin keys(a)}
                        \cup UNION {new[a][t].lsa : t \in DOMAIN new[a]}
           area(a) == [p.areas[a] EXCEPT !.lsas = stored(a), !.redistributed = paths[a]]
           areas == [a \in DOMAIN p.areas |-> area(a)]
           some == {y \in all : new[y[1]][y[2]].flood}
           flooded == [x \in some |-> {[lsa |-> l, area |-> x[1]] : l \in new[x[1]][x[2]].lsa}]
           tracked == [x \in all |-> {[area |-> x[1], key |-> Key(Summary, id, x[2]), after |-> o] :
                                        o \in new[x[1]][x[2]].after}]
<1>0. /\ p.id = id /\ IsBase(p.areas, p.ext, id) /\ IsNbrs(p.nbrs, p.areas, id)
      /\ IsKept(p.track, id) /\ IsFiniteSet(DOMAIN p.rib) /\ id \in Routers
      /\ p = [id |-> id, areas |-> p.areas, ext |-> p.ext, ext_changed |-> p.ext_changed,
              rib |-> p.rib, links |-> p.links, nbrs |-> p.nbrs, track |-> p.track]
  BY DEF IsProc, IsShape
<1>1. /\ u.p = [p EXCEPT !.areas = areas]
      /\ u.flood = UNION {flooded[x] : x \in some}
      /\ u.track = UNION {tracked[x] : x \in all}
  <2>1. u.p = [p EXCEPT !.areas = areas]
    BY <1>0 DEF StoreSummaries
  <2>2. u.flood = UNION {{[lsa |-> l, area |-> x[1]] : l \in new[x[1]][x[2]].lsa} : x \in some}
    BY <1>0 DEF StoreSummaries
  <2>3. u.track = UNION {{[area |-> x[1], key |-> Key(Summary, id, x[2]), after |-> o] :
                                        o \in new[x[1]][x[2]].after} : x \in all}
    BY <1>0 DEF StoreSummaries
  <2> HIDE DEF u, areas, some, all
  <2>4. u.flood = UNION {flooded[x] : x \in some}
    BY <2>2
  <2>5. u.track = UNION {tracked[x] : x \in all}
    BY <2>3
  <2> QED
    BY <2>1, <2>4, <2>5
<1>2. IsFiniteSet(DOMAIN new) /\ \A a \in DOMAIN new : IsFiniteSet(DOMAIN new[a])
  BY <1>0, PartFinite, OspfAssumption DEF IsBase, IsRetold
<1>3. /\ IsFiniteSet(all)
      /\ \A x \in all : x[1] \in DOMAIN new /\ x[2] \in DOMAIN new[x[1]]
      /\ \A a \in DOMAIN new : \A t \in DOMAIN new[a] : <<a, t>> \in all
  BY <1>2, PairsFacts
<1>4. some \subseteq all /\ DOMAIN new = DOMAIN p.areas
  BY DEF IsRetold
<1>5. \A x \in all : Retold(new[x[1]][x[2]], Key(Summary, id, x[2]), p.areas[x[1]].lsas)
  <2> HIDE DEF all
  <2> QED
    BY <1>3 DEF IsRetold
<1> HIDE DEF all, some, areas, u
<1>6. \A x \in some : IsFiniteSet(flooded[x]) /\ \A f \in flooded[x] : IsLsa(f.lsa)
  <2> SUFFICES ASSUME NEW x \in some
               PROVE  IsFiniteSet(flooded[x]) /\ \A f \in flooded[x] : IsLsa(f.lsa)
    OBVIOUS
  <2> DEFINE S == new[x[1]][x[2]].lsa
             h == [l \in S |-> [lsa |-> l, area |-> x[1]]]
  <2>1. IsFiniteSet(S) /\ \A l \in S : IsLsa(l)
    BY <1>4, <1>5 DEF Retold, IsLsas
  <2>2. flooded[x] = {h[l] : l \in S} /\ \A l \in S : h[l].lsa = l
    OBVIOUS
  <2> HIDE DEF S, h, flooded
  <2> QED
    BY <2>1, <2>2, FiniteImage
<1>7. IsFiniteSet(u.flood) /\ \A f \in u.flood : IsLsa(f.lsa)
  <2> HIDE DEF flooded
  <2>1. IsFiniteSet(some)
    BY <1>3, <1>4, PartFinite
  <2>2. IsFiniteSet(UNION {flooded[x] : x \in some})
    BY <1>6, <2>1, FiniteUnion
  <2> QED
    BY <1>1, <1>6, <2>2
<1>8. \A x \in all : /\ IsFiniteSet(tracked[x]) /\ \A t \in tracked[x] : IsTrack(t, id)
                     /\ new[x[1]][x[2]].after # {} => \E t \in tracked[x] :
                          t.key = Key(Summary, id, x[2]) /\ t.area = x[1]
  <2> SUFFICES ASSUME NEW x \in all
               PROVE  /\ IsFiniteSet(tracked[x]) /\ \A t \in tracked[x] : IsTrack(t, id)
                      /\ new[x[1]][x[2]].after # {} => \E t \in tracked[x] :
                           t.key = Key(Summary, id, x[2]) /\ t.area = x[1]
    OBVIOUS
  <2> DEFINE S == new[x[1]][x[2]].after
             key == Key(Summary, id, x[2])
             h == [o \in S |-> [area |-> x[1], key |-> key, after |-> o]]
             a == x[1]
  <2>1. IsFiniteSet(S) /\ \A o \in S : IsLsas(o) /\ \A m \in o : m.key = key /\ m.dead = FALSE
    BY <1>5 DEF Retold
  <2>2. tracked[x] = {h[o] : o \in S}
    OBVIOUS
  <2>3. \A o \in S : h[o] = [area |-> a, key |-> key, after |-> o]
    OBVIOUS
  <2>4. key # RouterKey(id) /\ a \in Areas
    BY <1>0, <1>3, <1>4, KeyFacts DEF IsBase
  <2>6. new[x[1]][x[2]].after = S /\ key = Key(Summary, id, x[2]) /\ a = x[1]
    OBVIOUS
  <2> HIDE DEF S, h, tracked, key, a
  <2>5. \A o \in S : IsTrack(h[o], id) /\ h[o].key = key /\ h[o].area = a
    <3> SUFFICES ASSUME NEW o \in S
                 PROVE  IsTrack(h[o], id) /\ h[o].key = key /\ h[o].area = a
      OBVIOUS
    <3>2. h[o] = [area |-> a, key |-> key, after |-> o]
      BY <2>3
    <3>1. h[o].area = a /\ h[o].key = key /\ h[o].after = o
          /\ h[o] = [area |-> h[o].area, key |-> h[o].key, after |-> h[o].after]
      BY ONLY <3>2
    <3> QED
      BY <2>1, <2>4, <3>1 DEF IsTrack, IsEdit
  <2>7. IsFiniteSet(tracked[x])
    BY <2>1, <2>2, FiniteImage
  <2> QED
    BY <2>2, <2>5, <2>6, <2>7
<1>9. IsFiniteSet(u.track) /\ \A t \in u.track : IsTrack(t, id)
  <2> HIDE DEF tracked
  <2>1. IsFiniteSet(UNION {tracked[x] : x \in all})
    BY <1>3, <1>8, FiniteUnion
  <2> QED
    BY <1>1, <1>8, <2>1
<1>10. \A a \in DOMAIN new : \A t \in DOMAIN new[a] : new[a][t].after # {} =>
         \E s \in u.track : s.key = Key(Summary, id, t) /\ s.area = a
  <2> SUFFICES ASSUME NEW a \in DOMAIN new, NEW t \in DOMAIN new[a], new[a][t].after # {}
               PROVE  \E s \in u.track : s.key = Key(Summary, id, t) /\ s.area = a
    OBVIOUS
  <2> DEFINE x == <<a, t>>
  <2>1. x \in all /\ x[1] = a /\ x[2] = t
    BY <1>3
  <2> HIDE DEF x, tracked
  <2>2. PICK s \in tracked[x] : s.key = Key(Summary, id, t) /\ s.area = a
    BY <1>8, <2>1
  <2> QED
    BY <1>1, <2>1, <2>2
<1>11. \A a \in DOMAIN p.areas :
         /\ IsArea(area(a), id)
         /\ \A l \in area(a).lsas : l.dead = TRUE => l \in p.areas[a].lsas \/
              \E t \in DOMAIN new[a] : l.key = Key(Summary, id, t) /\ new[a][t].after # {}
  <2> SUFFICES ASSUME NEW a \in DOMAIN p.areas
               PROVE  /\ IsArea(area(a), id)
                      /\ \A l \in area(a).lsas : l.dead = TRUE => l \in p.areas[a].lsas \/
                           \E t \in DOMAIN new[a] : l.key = Key(Summary, id, t) /\ new[a][t].after # {}
    OBVIOUS
  <2> DEFINE ds == p.areas[a]
             outs == new[a]
             routes == paths[a]
             w == stored(a)
             v == area(a)
  <2>1. IsArea(ds, id) /\ IsFiniteSet(DOMAIN routes) /\ IsRetoldArea(outs, ds.lsas, id)
    BY <1>0, <1>2, <1>4 DEF IsBase, IsRetold, IsRetoldArea
  <2>2. /\ w = StoredIn(ds.lsas, outs, id)
        /\ v = [ds EXCEPT !.lsas = w, !.redistributed = routes]
    BY DEF StoredIn
  <2> HIDE DEF ds, outs, routes, w, v
  <2>3. IsStored(v, ds.lsas, outs, id)
    BY <2>1, <2>2, StoredArea
  <2> QED
    BY <2>3 DEF v, ds, outs, IsStored
<1>12. /\ DOMAIN areas = DOMAIN p.areas /\ areas = [a \in DOMAIN areas |-> areas[a]]
       /\ \A a \in DOMAIN p.areas : areas[a] = area(a)
  BY DEF areas
<1> HIDE DEF area, flooded, tracked
<1>13. u.p = [id |-> id, areas |-> areas, ext |-> p.ext, ext_changed |-> p.ext_changed,
              rib |-> p.rib, links |-> p.links, nbrs |-> p.nbrs, track |-> p.track]
  BY <1>0, <1>1
<1>14. u.p.areas = areas /\ u.p.ext = p.ext /\ u.p.rib = p.rib /\ u.p.nbrs = p.nbrs
       /\ u.p.track = p.track /\ IsShape(u.p, id)
  BY ONLY <1>13 DEF IsShape
<1>15. IsBase(areas, p.ext, id) /\ IsNbrs(p.nbrs, areas, id)
  BY <1>0, <1>11, <1>12 DEF IsBase, IsNbrs
<1>16. IsProc(u.p, id)
  BY <1>0, <1>14, <1>15 DEF IsProc
<1>17. ASSUME NEW a \in DOMAIN areas, NEW l \in areas[a].lsas, l.dead = TRUE
       PROVE  \E t \in p.track \cup u.track : t.key = l.key /\ t.area = a
  <2>1. a \in DOMAIN p.areas /\ a \in DOMAIN new /\ l \in area(a).lsas
    BY <1>4, <1>12
  <2>2. CASE l \in p.areas[a].lsas
    BY <1>17, <2>1, <2>2 DEF Awaited
  <2>3. CASE \E t \in DOMAIN new[a] : l.key = Key(Summary, id, t) /\ new[a][t].after # {}
    BY <1>10, <2>1, <2>3
  <2> QED
    BY <1>11, <1>17, <2>1, <2>2, <2>3
<1>18. Awaited(areas, p.ext, p.track \cup u.track)
  BY <1>17 DEF Awaited
<1>19. IsRouted(u, p, id)
  BY <1>7, <1>9, <1>14, <1>16, <1>18 DEF IsRouted
<1> QED
  BY <1>19 DEF u
-----------------------------------------------------------------------------
(* The trees of an area are computed again; its LSAs stay.                 *)
Rerooted(new, ds, id) ==
  IsArea(new, id) /\ new.lsas = ds.lsas /\ new.redistributed = ds.redistributed

(* A new tree does not touch the LSAs.                                     *)
LEMMA UpdateSptFacts ==
  ASSUME NEW id, NEW ds, IsArea(ds, id), NEW r, NEW a
  PROVE  Rerooted(UpdateSpt(r, ds, a), ds, id)
<1> DEFINE spt0 == IF ds.recompute_intra THEN IntraAreaRoutes(r, ds.lsas, a) ELSE ds.spt
           spt == InterAreaRoutes(r, ds.lsas, spt0, a, ds.recompute_intra, ds.recompute_inter)
           new == UpdateSpt(r, ds, a)
<1>1. new = [ds EXCEPT !.spt = spt, !.recompute_intra = FALSE, !.recompute_inter = {}]
  BY DEF UpdateSpt
<1>2. ds = [lsas |-> ds.lsas, spt |-> ds.spt, recompute_intra |-> ds.recompute_intra,
            recompute_inter |-> ds.recompute_inter, redistributed |-> ds.redistributed]
  BY DEF IsArea
<1> HIDE DEF spt, spt0, new
<1>3. new = [lsas |-> ds.lsas, spt |-> spt, recompute_intra |-> FALSE,
             recompute_inter |-> {}, redistributed |-> ds.redistributed]
  BY ONLY <1>1, <1>2
<1>4. /\ new.lsas = ds.lsas /\ new.redistributed = ds.redistributed
      /\ new = [lsas |-> new.lsas, spt |-> new.spt, recompute_intra |-> new.recompute_intra,
                recompute_inter |-> new.recompute_inter, redistributed |-> new.redistributed]
  BY ONLY <1>3
<1>5. Rerooted(new, ds, id)
  BY <1>4 DEF IsArea, Rerooted
<1> QED
  BY <1>5 DEF new

(* There are finitely many external targets,                               *)
LEMMA ExternalTargets ==
  ASSUME NEW r, NEW ext, IsFiniteSet(ext), NEW rib
  PROVE  IsFiniteSet(DOMAIN ExternalRoutes(r, ext, rib))
<1> DEFINE usable == {l \in Live(ext) : l.key.router \in DOMAIN rib}
           f == [l \in usable |-> l.key.target]
<1>1. DOMAIN ExternalRoutes(r, ext, rib) = {l.key.target : l \in usable}
  BY DEF ExternalRoutes
<1>2. usable \subseteq ext
  BY DEF Live
<1>3. {f[l] : l \in usable} = {l.key.target : l \in usable}
  OBVIOUS
<1>4. IsFiniteSet({f[l] : l \in usable})
  <2> HIDE DEF usable, f
  <2> QED
    BY <1>2, FiniteImage, PartFinite
<1> QED
  BY <1>1, <1>3, <1>4

(* and finitely many entries in a routing table.                           *)
LEMMA RoutingTableFinite ==
  ASSUME NEW r, NEW areas, NEW ext, IsFiniteSet(ext)
  PROVE  IsFiniteSet(DOMAIN RoutingTable(r, areas, ext))
<1> DEFINE paths(t) == (IF t = r THEN {Path({}, 0, FALSE, {})} ELSE {}) \cup
                       {areas[a].spt[t] : a \in {b \in DOMAIN areas : t \in DOMAIN areas[b].spt}}
           known == {t \in Routers : paths(t) # {}}
           internal == [t \in known |-> Merge(paths(t))]
           outer == ExternalRoutes(r, ext, internal)
<1>1. DOMAIN RoutingTable(r, areas, ext) = known \cup DOMAIN outer
  BY DEF RoutingTable
<1>2. known \subseteq Routers
  OBVIOUS
<1> HIDE DEF known, internal
<1>3. IsFiniteSet(DOMAIN outer)
  BY ExternalTargets
<1>4. IsFiniteSet(known)
  BY <1>2, PartFinite, OspfAssumption
<1> QED
  BY <1>1, <1>3, <1>4, FS_Union

IsTreed(q, p, id) ==
  /\ IsProc(q, id) /\ q.nbrs = p.nbrs /\ q.track = p.track
  /\ Awaited(q.areas, q.ext, q.track)

(* New trees in all areas leave the LSAs alone,                            *)
LEMMA TreesFacts ==
  ASSUME NEW id, NEW p, IsProc(p, id), Awaited(p.areas, p.ext, p.track),
         NEW areas, DOMAIN areas = DOMAIN p.areas, areas = [a \in DOMAIN areas |-> areas[a]],
         \A a \in DOMAIN areas : Rerooted(areas[a], p.areas[a], id)
  PROVE  IsTreed(WithTrees(p, areas), p, id)
<1> DEFINE rib == RoutingTable(id, areas, p.ext)
           q == WithTrees(p, areas)
<1>0. /\ p.id = id /\ IsBase(p.areas, p.ext, id) /\ IsNbrs(p.nbrs, p.areas, id)
      /\ IsKept(p.track, id) /\ id \in Routers
      /\ p = [id |-> id, areas |-> p.areas, ext |-> p.ext, ext_changed |-> p.ext_changed,
              rib |-> p.rib, links |-> p.links, nbrs |-> p.nbrs, track |-> p.track]
  BY DEF IsProc, IsShape
<1>1. q = [p EXCEPT !.areas = areas, !.ext_changed = FALSE, !.rib = rib]
  BY <1>0 DEF WithTrees
<1>2. IsFiniteSet(DOMAIN rib)
  BY <1>0, RoutingTableFinite DEF IsBase, IsLsas
<1> HIDE DEF rib, q
<1>3. q = [id |-> id, areas |-> areas, ext |-> p.ext, ext_changed |-> FALSE,
           rib |-> rib, links |-> p.links, nbrs |-> p.nbrs, track |-> p.track]
  BY ONLY <1>0, <1>1
<1>4. q.areas = areas /\ q.ext = p.ext /\ q.rib = rib /\ q.nbrs = p.nbrs /\ q.track = p.track
      /\ IsShape(q, id)
  BY ONLY <1>3 DEF IsShape
<1>5. IsBase(areas, p.ext, id) /\ IsNbrs(p.nbrs, areas, id)
  BY <1>0 DEF IsBase, IsNbrs, Rerooted
<1>6. IsProc(q, id)
  BY <1>0, <1>2, <1>4, <1>5 DEF IsProc
<1>7. Awaited(areas, p.ext, p.track)
  BY DEF Awaited, Rerooted
<1> QED
  BY <1>4, <1>6, <1>7 DEF IsTreed, q

(* and so does the routing table.                                          *)
LEMMA UpdateRoutingFacts ==
  ASSUME NEW id, NEW p, IsProc(p, id), Awaited(p.areas, p.ext, p.track)
  PROVE  IsTreed(UpdateRoutingTable(p), p, id)
<1> DEFINE stale(a) == p.areas[a].recompute_intra \/ p.areas[a].recompute_inter # {}
           areas == [a \in DOMAIN p.areas |->
                       IF stale(a) THEN UpdateSpt(p.id, p.areas[a], a) ELSE p.areas[a]]
<1>1. UpdateRoutingTable(p) = WithTrees(p, areas)
  BY DEF UpdateRoutingTable
<1>2. \A a \in DOMAIN p.areas : IsArea(p.areas[a], id)
  BY DEF IsProc, IsBase
<1>3. \A a \in DOMAIN areas : Rerooted(areas[a], p.areas[a], id)
  <2> SUFFICES ASSUME NEW a \in DOMAIN p.areas
               PROVE  Rerooted(areas[a], p.areas[a], id)
    OBVIOUS
  <2>1. CASE stale(a)
    BY <1>2, <2>1, UpdateSptFacts
  <2>2. CASE ~stale(a)
    BY <1>2, <2>2 DEF Rerooted
  <2> QED
    BY <2>1, <2>2
<1>4. DOMAIN areas = DOMAIN p.areas /\ areas = [a \in DOMAIN areas |-> areas[a]]
  OBVIOUS
<1> HIDE DEF areas
<1> QED
  BY <1>1, <1>3, <1>4, TreesFacts

(* Finitely many paths are redistributed into an area.                     *)
LEMMA PathsFinite ==
  ASSUME NEW id, NEW p, IsProc(p, id), NEW a \in DOMAIN p.areas
  PROVE  IsFiniteSet(DOMAIN RedistributedPaths(p, a))
<1> DEFINE neighbors == DOMAIN OwnLsa(p, a).links
           targets == {t \in DOMAIN p.rib : IsRedistributed(p.id, a, neighbors, t, p.rib[t])}
           costs == [t \in targets |-> p.rib[t].cost]
           new == RedistributedPaths(p, a)
<1>1. new = NoLinks \/ new = p.areas[a].redistributed \/ new = costs
  BY DEF RedistributedPaths
<1>2. DOMAIN NoLinks = {}
  BY DEF NoLinks
<1>3. IsFiniteSet(DOMAIN p.areas[a].redistributed)
  BY DEF IsProc, IsBase, IsArea
<1>4. DOMAIN costs = targets /\ targets \subseteq DOMAIN p.rib
  OBVIOUS
<1>5. IsFiniteSet(targets)
  BY <1>4, PartFinite DEF IsProc
<1> HIDE DEF costs, targets, new
<1>6. IsFiniteSet(DOMAIN new)
  BY <1>1, <1>2, <1>3, <1>4, <1>5, FewFinite
<1> QED
  BY <1>6 DEF new

(* Redistribution into all areas                                           *)
LEMMA RedistributedAll ==
  ASSUME NEW id, NEW p, IsProc(p, id), Awaited(p.areas, p.ext, p.track),
         NEW paths, \A a \in DOMAIN p.areas : IsFiniteSet(DOMAIN paths[a])
  PROVE  IsRouted(RedistributeAll(p, paths), p, id)
<1> DEFINE option(f, t) == IF t \in DOMAIN f THEN {f[t]} ELSE {}
           targets(a) == DOMAIN paths[a] \cup DOMAIN p.areas[a].redistributed
           area(a) == [t \in targets(a) |->
                        Redistribute(p, a, t, option(paths[a], t),
                                     option(p.areas[a].redistributed, t))]
           new == [a \in DOMAIN p.areas |-> area(a)]
<1>1. RedistributeAll(p, paths) = StoreSummaries(p, paths, new)
  BY DEF RedistributeAll
<1>2. p.id = id /\ \A a \in DOMAIN p.areas : IsArea(p.areas[a], id)
  BY DEF IsProc, IsShape, IsBase
<1>3. \A a \in DOMAIN p.areas : IsFiniteSet(targets(a)) /\ DOMAIN area(a) = targets(a)
  <2> SUFFICES ASSUME NEW a \in DOMAIN p.areas PROVE IsFiniteSet(targets(a))
    OBVIOUS
  <2>1. IsFiniteSet(DOMAIN p.areas[a].redistributed)
    BY <1>2 DEF IsArea
  <2> QED
    BY <2>1, FS_Union
<1>4. \A a \in DOMAIN p.areas : \A t \in targets(a) :
        Retold(area(a)[t], Key(Summary, id, t), p.areas[a].lsas)
  <2> SUFFICES ASSUME NEW a \in DOMAIN p.areas, NEW t \in targets(a)
               PROVE  Retold(area(a)[t], Key(Summary, id, t), p.areas[a].lsas)
    OBVIOUS
  <2> DEFINE cost == option(paths[a], t)
             old == option(p.areas[a].redistributed, t)
  <2>1. area(a)[t] = Redistribute(p, a, t, cost, old)
    OBVIOUS
  <2>2. IsLsas(p.areas[a].lsas)
    BY <1>2 DEF IsArea
  <2> HIDE DEF cost, old, area
  <2>3. Retold(Redistribute(p, a, t, cost, old), Key(Summary, id, t), p.areas[a].lsas)
    BY <1>2, <2>2, RedistributeFacts
  <2> QED
    BY <2>1, <2>3
<1>5. DOMAIN new = DOMAIN p.areas /\ \A a \in DOMAIN p.areas : new[a] = area(a)
  OBVIOUS
<1> HIDE DEF new, area, targets
<1>6. IsRetold(new, p, id)
  BY <1>3, <1>4, <1>5 DEF IsRetold
<1> QED
  BY <1>1, <1>6, StoreFacts

(* update_summary_lsas: what is flushed is tracked.                        *)
LEMMA SummariesRouted ==
  ASSUME NEW id, NEW p, IsProc(p, id), Awaited(p.areas, p.ext, p.track)
  PROVE  IsRouted(UpdateSummaryLsas(p), p, id)
<1> DEFINE paths == [a \in DOMAIN p.areas |-> RedistributedPaths(p, a)]
<1>1. UpdateSummaryLsas(p) = RedistributeAll(p, paths)
  BY DEF UpdateSummaryLsas
<1>2. \A a \in DOMAIN p.areas : IsFiniteSet(DOMAIN paths[a])
  BY PathsFinite
<1> HIDE DEF paths
<1> QED
  BY <1>1, <1>2, RedistributedAll

(* Routes and summaries are brought up to date, or need not be.            *)
LEMMA ReroutedFacts ==
  ASSUME NEW id, NEW p, IsProc(p, id), Awaited(p.areas, p.ext, p.track)
  PROVE  IsRouted(Rerouted(p), p, id)
<1>1. CASE Outdated(p)
  <2> DEFINE q == UpdateRoutingTable(p)
             u == UpdateSummaryLsas(q)
  <2>1. Rerouted(p) = u
    BY <1>1 DEF Rerouted
  <2>2. IsTreed(q, p, id)
    BY UpdateRoutingFacts
  <2> HIDE DEF q
  <2>3. IsRouted(u, q, id)
    BY <2>2, SummariesRouted DEF IsTreed
  <2> QED
    BY <2>1, <2>2, <2>3 DEF IsRouted, IsTreed
<1>2. CASE ~Outdated(p)
  <2> DEFINE none == {}
             u == [p |-> p, flood |-> none, track |-> none]
  <2>1. Rerouted(p) = u
    BY <1>2 DEF Rerouted
  <2>2. u.p = p /\ u.flood = none /\ u.track = none
    OBVIOUS
  <2>3. p.track \cup none = p.track /\ IsFiniteSet(none) /\ \A x : x \notin none
    BY FewFinite
  <2> HIDE DEF u, none
  <2>4. Awaited(p.areas, p.ext, p.track \cup none)
    BY <2>3
  <2> QED
    BY <2>1, <2>2, <2>3, <2>4 DEF IsRouted
<1> QED
  BY <1>1, <1>2
-----------------------------------------------------------------------------
(* Neighbor nb is still as it was, but for LSAs that it has to be sent, and *)
(* those that it is asked for.                                             *)
SameLinks(new, nb) == new.area = nb.area /\ new.state = nb.state

Kept(new, nb, id, n) ==
  /\ IsNbr(new, id, n) /\ SameLinks(new, nb)
  /\ \A key : WaitingForAck(nb, key) => WaitingForAck(new, key)

KeysIn(S, R) == \A m \in S : \E x \in R : x.key = m.key

Requests(nb, Q) == nb.state = "Full" => Q = {}

(* A neighbor that waits for at least the LSAs it waited for before        *)
LEMMA KeptOf ==
  ASSUME NEW id, NEW n, NEW nb, IsNbr(nb, id, n), NEW R, IsLsas(R),
         KeysIn(nb.retransmission, R),
         NEW Q, Requests(nb, Q), NEW new,
         new = [area |-> nb.area, leader |-> nb.leader, state |-> nb.state,
                retransmission |-> R, summary |-> nb.summary, request |-> Q]
  PROVE  Kept(new, nb, id, n)
<1>1. /\ new.area = nb.area /\ new.leader = nb.leader /\ new.state = nb.state
      /\ new.retransmission = R /\ new.summary = nb.summary /\ new.request = Q
      /\ new = [area |-> new.area, leader |-> new.leader, state |-> new.state,
                retransmission |-> new.retransmission, summary |-> new.summary,
                request |-> new.request]
  BY ONLY new = [area |-> nb.area, leader |-> nb.leader, state |-> nb.state,
                 retransmission |-> R, summary |-> nb.summary, request |-> Q]
<1>2. IsNbr(new, id, n)
  BY <1>1 DEF IsNbr, Requests
<1>3. \A key : WaitingForAck(nb, key) => WaitingForAck(new, key)
  BY <1>1 DEF WaitingForAck, Find, KeysIn
<1> QED
  BY <1>1, <1>2, <1>3 DEF Kept, SameLinks

(* One LSA is flooded to a neighbor: it is retransmitted until it is       *)
(* acknowledged.                                                           *)
LEMMA FloodLsaKept ==
  ASSUME NEW id, NEW n, NEW nb, IsNbr(nb, id, n), NEW l, IsLsa(l)
  PROVE  Kept(FloodLsa(nb, l), nb, id, n)
<1> DEFINE rest == Drop(nb.request, l.key)
           more == Put(nb.retransmission, l)
           rid == [nb EXCEPT !.request = rest]
           queued == IF \E m \in Find(nb.retransmission, l.key) : Newer(m, l) THEN nb
                     ELSE [nb EXCEPT !.retransmission = more]
           last == [queued EXCEPT !.request = rid.request]
           new == FloodLsa(nb, l)
<1>0. /\ nb = [area |-> nb.area, leader |-> nb.leader, state |-> nb.state,
               retransmission |-> nb.retransmission, summary |-> nb.summary,
               request |-> nb.request]
      /\ Requests(nb, nb.request) /\ IsLsas(nb.retransmission)
      /\ nb.state # "Full" => Requests(nb, rest)
  BY DEF IsNbr, Requests
<1>1. \/ new = nb \/ new = queued
      \/ nb.state # "Full" /\ (new = rid \/ new = last)
  BY DEF FloodLsa
<1>2. IsLsas(more) /\ KeysIn(nb.retransmission, more) /\ KeysIn(nb.retransmission, nb.retransmission)
  <2>1. IsLsas(more)
    BY <1>0, LsasPut
  <2>2. KeysIn(nb.retransmission, more)
    BY DEF Put, Drop, KeysIn
  <2> QED
    BY <2>1, <2>2 DEF KeysIn
<1>3. queued = nb \/ queued = [nb EXCEPT !.retransmission = more]
  OBVIOUS
<1>4. rid = [nb EXCEPT !.request = rest] /\ last = [queued EXCEPT !.request = rid.request]
  OBVIOUS
<1> SUFFICES Kept(new, nb, id, n)
  OBVIOUS
<1> HIDE DEF more, rest, rid, queued, last, new
<1>5. rid.request = rest
  BY ONLY <1>0, <1>4
<1>6. CASE new = nb
  BY <1>0, <1>2, <1>6, KeptOf
<1>7. CASE new = [nb EXCEPT !.retransmission = more]
  <2>1. new = [area |-> nb.area, leader |-> nb.leader, state |-> nb.state,
               retransmission |-> more, summary |-> nb.summary, request |-> nb.request]
    BY ONLY <1>0, <1>7
  <2> QED
    BY <1>0, <1>2, <2>1, KeptOf
<1>8. CASE nb.state # "Full" /\ new = [nb EXCEPT !.request = rest]
  <2>1. new = [area |-> nb.area, leader |-> nb.leader, state |-> nb.state,
               retransmission |-> nb.retransmission, summary |-> nb.summary, request |-> rest]
    BY ONLY <1>0, <1>8
  <2> QED
    BY <1>0, <1>2, <1>8, <2>1, KeptOf
<1>9. CASE nb.state # "Full" /\ new = last /\ queued = [nb EXCEPT !.retransmission = more]
  <2>1. queued = [area |-> nb.area, leader |-> nb.leader, state |-> nb.state,
                  retransmission |-> more, summary |-> nb.summary, request |-> nb.request]
    BY ONLY <1>0, <1>9
  <2>2. new = [area |-> nb.area, leader |-> nb.leader, state |-> nb.state,
               retransmission |-> more, summary |-> nb.summary, request |-> rest]
    BY ONLY <1>4, <1>5, <1>9, <2>1
  <2> QED
    BY <1>0, <1>2, <1>9, <2>2, KeptOf
<1>10. CASE new = last /\ queued = nb /\ nb.state # "Full"
  <2>1. new = [nb EXCEPT !.request = rest]
    BY <1>4, <1>5, <1>10
  <2> QED
    BY <1>8, <1>10, <2>1
<1> QED
  BY <1>1, <1>3, <1>4, <1>6, <1>7, <1>8, <1>9, <1>10

(* Keeping goes on from step to step.                                      *)
LEMMA KeptOn ==
  ASSUME NEW id, NEW n, NEW a, NEW b, NEW c, Kept(b, a, id, n), Kept(c, b, id, n)
  PROVE  Kept(c, a, id, n)
BY DEF Kept, SameLinks

(* What is left to send to a neighbor                                      *)
Sending(acc, nb, id, n) ==
  /\ Kept(acc.nb, nb, id, n)
  /\ IsSeq(acc.send) /\ \A l \in Elems(acc.send) : IsLsa(l)

(* One more LSA is flooded.                                                *)
LEMMA FloodOneSending ==
  ASSUME NEW id, NEW n, NEW nb, NEW acc, Sending(acc, nb, id, n), NEW f, IsFlood(f)
  PROVE  Sending(FloodOne(acc, n, f), nb, id, n)
<1> DEFINE x == FloodLsa(acc.nb, f.lsa)
           more == Append(acc.send, f.lsa)
           new == FloodOne(acc, n, f)
<1>1. \/ new = acc
      \/ \E s : new = [nb |-> x, send |-> s] /\ (s = acc.send \/ s = more)
  BY DEF FloodOne
<1>2. Kept(x, nb, id, n)
  <2>1. IsNbr(acc.nb, id, n) /\ IsLsa(f.lsa)
    BY DEF Sending, Kept, IsFlood
  <2>2. Kept(x, acc.nb, id, n)
    BY <2>1, FloodLsaKept
  <2> HIDE DEF x
  <2> QED
    BY <2>2, KeptOn DEF Sending
<1>3. IsSeq(more) /\ \A l \in Elems(more) : IsLsa(l)
  <2>1. IsSeq(acc.send) /\ (\A l \in Elems(acc.send) : IsLsa(l)) /\ IsLsa(f.lsa)
    BY DEF Sending, IsFlood
  <2> QED
    BY <2>1, SeqAppend
<1> HIDE DEF x, more, new
<1>4. Sending(new, nb, id, n)
  <2>1. CASE new = acc
    BY <2>1
  <2>2. CASE \E s : new = [nb |-> x, send |-> s] /\ (s = acc.send \/ s = more)
    <3>1. new.nb = x /\ (new.send = acc.send \/ new.send = more)
      BY ONLY <2>2
    <3> QED
      BY <1>2, <1>3, <3>1 DEF Sending
  <2> QED
    BY <1>1, <2>1, <2>2
<1> QED
  BY <1>4 DEF new

(* flood_to_neighbor: all LSAs that are flooded to the neighbor are        *)
(* awaited, if it is in touch.                                             *)
LEMMA FloodSending ==
  ASSUME NEW id, NEW n, NEW nb, IsNbr(nb, id, n),
         NEW flood, IsSeq(flood), \A i \in 1 .. Len(flood) : IsFlood(flood[i])
  PROVE  Sending(Flood(nb, n, flood), nb, id, n)
<1> DEFINE N == Len(flood)
<1>0. N \in Nat
  BY DEF IsSeq
<1>1. PICK fn : IsFloodFold(fn, nb, n, flood, N) /\ Flood(nb, n, flood) = fn[N]
  BY <1>0, FloodFold
<1> DEFINE A == {k \in 0 .. N : Sending(fn[k], nb, id, n)}
<1>2. 0 \in A
  <2> DEFINE none == << >>
             b == [nb |-> nb, send |-> none]
  <2>1. fn[0] = b /\ b.nb = nb /\ b.send = none
    BY <1>1 DEF IsFloodFold
  <2>2. IsSeq(none) /\ Elems(none) = {}
    BY SeqEmpty
  <2> HIDE DEF none, b
  <2>3. Kept(nb, nb, id, n)
    BY DEF Kept, SameLinks
  <2>4. Sending(fn[0], nb, id, n)
    BY <2>1, <2>2, <2>3 DEF Sending
  <2> QED
    BY <1>0, <2>4
<1>3. ASSUME NEW k \in 0 .. N, k \in A, k < N
      PROVE  k + 1 \in A
  <2>1. k + 1 \in 1 .. N /\ k + 1 - 1 = k /\ k + 1 \in 0 .. N
    BY <1>0, <1>3
  <2>2. fn[k + 1] = FloodOne(fn[k + 1 - 1], n, flood[k + 1])
    BY <1>1, <2>1 DEF IsFloodFold
  <2>3. Sending(FloodOne(fn[k], n, flood[k + 1]), nb, id, n)
    BY <1>3, <2>1, FloodOneSending
  <2> QED
    BY <2>1, <2>2, <2>3
<1>4. N \in A
  <2>1. \A k \in 0 .. N : k \in A /\ k < N => k + 1 \in A
    BY <1>3
  <2> HIDE DEF A, N
  <2>2. \A k \in 0 .. N : k \in A
    BY ONLY <1>0, <1>2, <2>1, UpTo
  <2> QED
    BY <1>0, <2>2
<1> QED
  BY <1>1, <1>4
-----------------------------------------------------------------------------
(* The actions of router id, of which the first were performed since s     *)
SameAll(nbrs, old) ==
  DOMAIN nbrs = DOMAIN old /\ \A n \in DOMAIN nbrs : SameLinks(nbrs[n], old[n])

StillDescribed(events, old) == \A n \in Routers : Described(old[n]) => Described(events[n])

IsFloods(flood) == IsSeq(flood) /\ \A i \in 1 .. Len(flood) : IsFlood(flood[i])

Performing(o, s, id) ==
  /\ o = [p |-> o.p, events |-> o.events, flood |-> o.flood, track |-> o.track]
  /\ IsProc(o.p, id) /\ Awaited(o.p.areas, o.p.ext, o.p.track)
  /\ IsEvents(o.events) /\ StillDescribed(o.events, s.events)
  /\ IsFloods(o.flood)
  /\ SameAll(o.p.nbrs, s.p.nbrs)

(* A description is among the elements of a sequence.                      *)
LEMMA DescribedElems ==
  \A ms : Described(ms) <=> \E m \in Elems(ms) : m.kind = "DatabaseDescription"
BY DEF Described, Elems

(* Messages, by their elements                                             *)
LEMMA RawsElems ==
  \A ms : IsRaws(ms) <=> IsSeq(ms) /\ \A m \in Elems(ms) : IsRaw(m)
BY DEF IsRaws, Elems

(* Floods, by their elements                                               *)
LEMMA FloodsElems ==
  \A flood : IsFloods(flood) <=> IsSeq(flood) /\ \A f \in Elems(flood) : IsFlood(f)
BY DEF IsFloods, Elems

(* Events, by their sequences                                              *)
LEMMA EventsRaws ==
  \A events : IsEvents(events) <=>
    /\ events = [n \in Routers |-> events[n]]
    /\ \A n \in Routers : IsRaws(events[n])
BY DEF IsEvents, IsRaws

(* What is flooded, of a finite set of LSAs                                *)
LEMMA FloodsOf ==
  ASSUME NEW D, IsFiniteSet(D), NEW lsa, \A x \in D : IsLsa(lsa[x]), NEW area
  PROVE  IsFloods(SetToSeq({[lsa |-> lsa[x], area |-> area[x], except |-> 0] : x \in D}))
<1> DEFINE f == [x \in D |-> [lsa |-> lsa[x], area |-> area[x], except |-> 0]]
           S == {[lsa |-> lsa[x], area |-> area[x], except |-> 0] : x \in D}
<1>1. S = {f[x] : x \in D}
  OBVIOUS
<1>2. \A x \in S : IsFlood(x)
  BY DEF IsFlood
<1> HIDE DEF f, S
<1>3. IsFiniteSet(S)
  BY <1>1, FiniteImage
<1>4. IsFloods(SetToSeq(S))
  BY <1>2, <1>3, SeqOfSet, FloodsElems
<1> QED
  BY <1>4 DEF S

(* The parts of an outcome of which some were set                          *)
LEMMA OutcomeSet ==
  ASSUME NEW o, o = [p |-> o.p, events |-> o.events, flood |-> o.flood, track |-> o.track],
         NEW q, NEW events, NEW flood, NEW r,
         r = [p |-> q, events |-> events, flood |-> flood, track |-> o.track]
  PROVE  /\ r.p = q /\ r.events = events /\ r.flood = flood
         /\ r = [p |-> r.p, events |-> r.events, flood |-> r.flood, track |-> r.track]
BY ONLY r = [p |-> q, events |-> events, flood |-> flood, track |-> o.track]
-----------------------------------------------------------------------------
(* What is to be tracked is tracked.                                       *)
LEMMA TrackingOut ==
  ASSUME NEW id, NEW o, IsOut(o, id, {}),
         NEW q, q = [o.p EXCEPT !.track = PutTracks(o.p.track, LastTracks(o.track))]
  PROVE  IsTracking(q, o.p, id)
<1> DEFINE p == o.p
           tracks == PutTracks(o.p.track, LastTracks(o.track))
           new == LastTracks(o.track)
           T == p.track \cup {} \cup Elems(o.track)
           U == p.track \cup new
<1>1. IsProc(p, id) /\ IsLists(o, id) /\ Awaited(p.areas, p.ext, T)
  BY DEF IsOut
<1>2. AllTracks(new, id) /\ Covers(new, Elems(o.track))
  BY <1>1, LastTracksFacts DEF IsLists, AllTracks
<1>3. Covers(U, T)
  BY <1>2 DEF Covers
<1>4. q = [p EXCEPT !.track = tracks] /\ tracks = PutTracks(p.track, new)
  OBVIOUS
<1>5. IsBase(p.areas, p.ext, id)
  BY <1>1 DEF IsProc
<1>6. p = o.p
  OBVIOUS
<1> HIDE DEF p, new, T, tracks
<1>7. Awaited(p.areas, p.ext, U)
  BY <1>1, <1>3, <1>5, CoversAwaited
<1>8. IsTracking(q, p, id)
  BY <1>1, <1>2, <1>4, <1>7, TracksPut
<1> QED
  BY <1>6, <1>8

(* The outcome after routing                                               *)
LEMMA RedistributedPerforming ==
  ASSUME NEW id, NEW o, IsOut(o, id, {}), NEW p, p.nbrs = o.p.nbrs,
         NEW u, IsRouted(u, p, id)
  PROVE  Performing(Redistributed(o, u), o, id)
<1> DEFINE tracks == PutTracks(u.p.track, u.track)
           q == [u.p EXCEPT !.track = tracks]
           fresh == SetToSeq({[lsa |-> f.lsa, area |-> f.area, except |-> 0] : f \in u.flood})
           flood == o.flood \o fresh
           r == Redistributed(o, u)
<1>0. /\ o = [p |-> o.p, events |-> o.events, flood |-> o.flood, track |-> o.track]
      /\ IsEvents(o.events) /\ IsFloods(o.flood)
  BY DEF IsOut, IsLists, IsFloods
<1>1. r = [o EXCEPT !.p = q, !.flood = flood]
  BY DEF Redistributed
<1>2. IsFloods(fresh)
  <2> DEFINE lsa == [f \in u.flood |-> f.lsa]
             area == [f \in u.flood |-> f.area]
             S == {[lsa |-> lsa[f], area |-> area[f], except |-> 0] : f \in u.flood}
  <2>1. IsFiniteSet(u.flood) /\ \A f \in u.flood : IsLsa(lsa[f])
    BY DEF IsRouted
  <2>2. fresh = SetToSeq(S)
    OBVIOUS
  <2> HIDE DEF lsa, area, fresh
  <2>3. IsFloods(SetToSeq(S))
    BY <2>1, FloodsOf
  <2> QED
    BY <2>2, <2>3
<1>3. q = [u.p EXCEPT !.track = tracks] /\ tracks = PutTracks(u.p.track, u.track)
  OBVIOUS
<1> HIDE DEF q, fresh, r, tracks
<1>4. IsProc(q, id) /\ Awaited(q.areas, q.ext, q.track) /\ q.nbrs = o.p.nbrs
  <2>1. IsTracking(q, u.p, id)
    BY <1>3, TracksPut DEF IsRouted, AllTracks
  <2> QED
    BY <2>1 DEF IsRouted, IsTracking
<1>5. IsFloods(flood)
  BY <1>0, <1>2, SeqJoin, FloodsElems
<1> HIDE DEF flood
<1>6. r = [p |-> q, events |-> o.events, flood |-> flood, track |-> o.track]
  BY ONLY <1>0, <1>1
<1>7. /\ r.p = q /\ r.events = o.events /\ r.flood = flood
      /\ r = [p |-> r.p, events |-> r.events, flood |-> r.flood, track |-> r.track]
  BY ONLY <1>6
<1>8. SameAll(q.nbrs, o.p.nbrs) /\ StillDescribed(o.events, o.events)
  BY <1>4 DEF SameAll, SameLinks, StillDescribed
<1> QED
  BY <1>0, <1>4, <1>5, <1>7, <1>8 DEF Performing, r
-----------------------------------------------------------------------------
(* The LSAs are flooded to all neighbors.                                  *)
LEMMA NbrsKept ==
  ASSUME NEW id, NEW p, IsProc(p, id), Awaited(p.areas, p.ext, p.track), NEW nbrs,
         nbrs = [n \in DOMAIN nbrs |-> nbrs[n]], DOMAIN nbrs = DOMAIN p.nbrs,
         \A n \in DOMAIN nbrs : Kept(nbrs[n], p.nbrs[n], id, n),
         NEW q, q = [p EXCEPT !.nbrs = nbrs]
  PROVE  /\ IsProc(q, id) /\ Awaited(q.areas, q.ext, q.track) /\ SameAll(q.nbrs, p.nbrs)
         /\ Pending(p) => Pending(q)
<1>1. /\ IsShape(p, id) /\ IsBase(p.areas, p.ext, id) /\ IsNbrs(p.nbrs, p.areas, id)
      /\ IsKept(p.track, id) /\ IsFiniteSet(DOMAIN p.rib) /\ id \in Routers
  BY DEF IsProc
<1>2. /\ IsShape(q, id) /\ q.nbrs = nbrs /\ q.areas = p.areas /\ q.ext = p.ext
      /\ q.track = p.track /\ q.rib = p.rib
  BY <1>1, NbrsSet
<1>3. IsNbrs(nbrs, p.areas, id)
  BY <1>1 DEF IsNbrs, Kept, SameLinks
<1>4. IsProc(q, id)
  BY <1>1, <1>2, <1>3 DEF IsProc
<1>5. SameAll(nbrs, p.nbrs)
  BY DEF SameAll, Kept
<1>6. Pending(p) => Pending(q)
  <2> SUFFICES ASSUME Pending(p), NEW t \in p.track
               PROVE  \E n \in DOMAIN nbrs :
                        t.area \in {NoArea, nbrs[n].area} /\ WaitingForAck(nbrs[n], t.key)
    BY <1>2 DEF Pending
  <2>1. PICK n \in DOMAIN p.nbrs :
          t.area \in {NoArea, p.nbrs[n].area} /\ WaitingForAck(p.nbrs[n], t.key)
    BY DEF Pending
  <2>2. WaitingForAck(nbrs[n], t.key) /\ nbrs[n].area = p.nbrs[n].area
    BY <2>1 DEF Kept, SameLinks
  <2> QED
    BY <2>1, <2>2
<1> QED
  BY <1>2, <1>4, <1>5, <1>6

(* Neighbors stay the same from step to step,                              *)
LEMMA SameOn == \A a, b, c : SameAll(b, a) /\ SameAll(c, b) => SameAll(c, a)
BY DEF SameAll, SameLinks

(* and so do descriptions that are sent.                                   *)
LEMMA DescribedOn ==
  \A a, b, c : StillDescribed(b, a) /\ StillDescribed(c, b) => StillDescribed(c, a)
BY DEF StillDescribed

(* flood: all neighbors; what is flooded to somebody who does not ignore   *)
(* it is awaited.                                                          *)
LEMMA FloodAllPerforming ==
  ASSUME NEW id, NEW s, NEW o, Performing(o, s, id)
  PROVE  Performing(FloodAll(o), s, id) /\ (Pending(o.p) => Pending(FloodAll(o).p))
<1> DEFINE p == o.p
           results == [n \in DOMAIN p.nbrs |-> Flood(p.nbrs[n], n, o.flood)]
           sent(n) == IF n \in DOMAIN results /\ results[n].send # << >>
                      THEN <<Message("LinkStateUpdate", results[n].send)>> ELSE << >>
           nbrs == [n \in DOMAIN results |-> results[n].nb]
           events == [n \in Routers |-> o.events[n] \o sent(n)]
           q == [p EXCEPT !.nbrs = nbrs]
           r == FloodAll(o)
<1>0. /\ o = [p |-> p, events |-> o.events, flood |-> o.flood, track |-> o.track]
      /\ IsProc(p, id) /\ Awaited(p.areas, p.ext, p.track)
      /\ IsEvents(o.events) /\ StillDescribed(o.events, s.events)
      /\ IsFloods(o.flood) /\ SameAll(p.nbrs, s.p.nbrs)
  BY DEF Performing
<1>1. r = [o EXCEPT !.p = q, !.events = events]
  BY DEF FloodAll, Flooded, Neighbors
<1>2. \A n \in DOMAIN p.nbrs : Sending(results[n], p.nbrs[n], id, n)
  <2> SUFFICES ASSUME NEW n \in DOMAIN p.nbrs
               PROVE  Sending(Flood(p.nbrs[n], n, o.flood), p.nbrs[n], id, n)
    OBVIOUS
  <2>1. IsNbr(p.nbrs[n], id, n)
    BY <1>0 DEF IsProc, IsNbrs
  <2> HIDE DEF p
  <2> QED
    BY <1>0, <2>1, FloodSending DEF IsFloods
<1>3. \A n \in Routers : IsRaws(sent(n))
  <2> SUFFICES ASSUME NEW n \in Routers PROVE IsRaws(sent(n))
    OBVIOUS
  <2> DEFINE m == Message("LinkStateUpdate", results[n].send)
  <2>1. sent(n) = << >> \/ (n \in DOMAIN p.nbrs /\ sent(n) = <<m>>)
    OBVIOUS
  <2>2. n \in DOMAIN p.nbrs => IsRaw(m)
    <3> SUFFICES ASSUME n \in DOMAIN p.nbrs PROVE IsRaw(m)
      OBVIOUS
    <3> DEFINE ls == results[n].send
    <3>1. IsSeq(ls) /\ \A l \in Elems(ls) : IsLsa(l)
      BY <1>2 DEF Sending
    <3>2. m = [kind |-> "LinkStateUpdate", lsas |-> ls]
      BY DEF Message
    <3> HIDE DEF ls, m
    <3>3. m.kind = "LinkStateUpdate" /\ m.lsas = ls /\ m = [kind |-> m.kind, lsas |-> m.lsas]
      BY ONLY <3>2
    <3>4. \A i \in 1 .. Len(ls) : IsLsa(ls[i])
      BY <3>1 DEF Elems
    <3> QED
      BY <3>1, <3>3, <3>4 DEF IsRaw, Kinds, Listed
  <2> HIDE DEF m, sent
  <2>3. IsRaws(sent(n))
    BY <2>1, <2>2, SeqEmpty, SeqOne, RawsElems
  <2> QED
    BY <2>3 DEF sent
<1>4. /\ nbrs = [n \in DOMAIN nbrs |-> nbrs[n]] /\ DOMAIN nbrs = DOMAIN p.nbrs
      /\ \A n \in DOMAIN nbrs : nbrs[n] = results[n].nb
  OBVIOUS
<1>5. /\ events = [n \in Routers |-> events[n]]
      /\ \A n \in Routers : events[n] = o.events[n] \o sent(n)
  OBVIOUS
<1>6. q = [p EXCEPT !.nbrs = nbrs] /\ p = o.p
  OBVIOUS
<1> HIDE DEF p, q, nbrs, events, sent, results, r
<1>7. \A n \in DOMAIN nbrs : Kept(nbrs[n], p.nbrs[n], id, n)
  BY <1>2, <1>4 DEF Sending
<1>8. /\ IsProc(q, id) /\ Awaited(q.areas, q.ext, q.track) /\ SameAll(q.nbrs, p.nbrs)
      /\ Pending(p) => Pending(q)
  BY <1>0, <1>4, <1>6, <1>7, NbrsKept
<1>9. \A n \in Routers : /\ IsRaws(events[n])
                         /\ Elems(events[n]) = Elems(o.events[n]) \cup Elems(sent(n))
  <2> SUFFICES ASSUME NEW n \in Routers
               PROVE  /\ IsRaws(events[n])
                      /\ Elems(events[n]) = Elems(o.events[n]) \cup Elems(sent(n))
    OBVIOUS
  <2>1. IsRaws(o.events[n]) /\ IsRaws(sent(n))
    BY <1>0, <1>3, EventsRaws
  <2> DEFINE x == o.events[n]
             y == sent(n)
  <2>3. events[n] = x \o y /\ IsSeq(x) /\ IsSeq(y)
    BY <1>5, <2>1 DEF IsRaws
  <2> HIDE DEF x, y
  <2>4. IsSeq(x \o y) /\ Elems(x \o y) = Elems(x) \cup Elems(y)
    BY <2>3, SeqJoin
  <2>2. /\ IsSeq(events[n])
        /\ Elems(events[n]) = Elems(o.events[n]) \cup Elems(sent(n))
    BY <2>3, <2>4 DEF x, y
  <2> QED
    BY <2>1, <2>2, RawsElems
<1>10. IsEvents(events)
  BY <1>5, <1>9, EventsRaws
<1>11. StillDescribed(events, o.events)
  BY <1>9, DescribedElems DEF StillDescribed
<1>12. r = [p |-> q, events |-> events, flood |-> o.flood, track |-> o.track]
  BY ONLY <1>0, <1>1
<1>13. /\ r.p = q /\ r.events = events /\ r.flood = o.flood
       /\ r = [p |-> r.p, events |-> r.events, flood |-> r.flood, track |-> r.track]
  BY ONLY <1>12
<1>14. SameAll(q.nbrs, s.p.nbrs) /\ StillDescribed(events, s.events)
  BY <1>0, <1>8, <1>11, SameOn, DescribedOn
<1>15. Performing(r, s, id)
  BY <1>0, <1>8, <1>10, <1>13, <1>14 DEF Performing
<1> QED
  BY <1>6, <1>8, <1>13, <1>15 DEF r
-----------------------------------------------------------------------------
(* What was acknowledged is no longer tracked.                             *)
LEMMA TrackMaxAgePerforming ==
  ASSUME NEW id, NEW s, NEW o, Performing(o, s, id)
  PROVE  Performing(TrackMaxAge(o), s, id) /\ Pending(TrackMaxAge(o).p)
<1> DEFINE p == o.p
           done == {t \in p.track : Acknowledged(p, t)}
           left == p.track \ done
           base == [p EXCEPT !.track = left]
           q == Edit(base, done)
           renewed == {t \in done : t.after # {}}
           flood == SetToSeq({[lsa |-> The(t.after), area |-> t.area, except |-> 0] : t \in renewed})
           r == TrackMaxAge(o)
<1>0. /\ o = [p |-> p, events |-> o.events, flood |-> o.flood, track |-> o.track]
      /\ IsProc(p, id) /\ Awaited(p.areas, p.ext, p.track)
      /\ IsEvents(o.events) /\ StillDescribed(o.events, s.events)
      /\ SameAll(p.nbrs, s.p.nbrs)
  BY DEF Performing
<1>1. r = [o EXCEPT !.p = q, !.flood = flood]
  BY DEF TrackMaxAge
<1>2. /\ p = [id |-> id, areas |-> p.areas, ext |-> p.ext, ext_changed |-> p.ext_changed,
              rib |-> p.rib, links |-> p.links, nbrs |-> p.nbrs, track |-> p.track]
      /\ IsBase(p.areas, p.ext, id) /\ IsNbrs(p.nbrs, p.areas, id)
      /\ IsKept(p.track, id) /\ IsFiniteSet(DOMAIN p.rib) /\ id \in Routers
  BY <1>0 DEF IsProc, IsShape
<1>3. /\ done \subseteq p.track /\ left \subseteq p.track /\ renewed \subseteq done
      /\ \A t \in p.track : t \notin done => t \in left
      /\ \A t \in left : ~Acknowledged(p, t)
      /\ \A t \in renewed : t.after # {}
  OBVIOUS
<1>4. base = [p EXCEPT !.track = left] /\ q = Edit(base, done) /\ p = o.p
  OBVIOUS
<1>5. flood = SetToSeq({[lsa |-> The(t.after), area |-> t.area, except |-> 0] : t \in renewed})
  OBVIOUS
<1> HIDE DEF p, done, left, base, q, renewed, flood, r
<1>6. /\ IsFiniteSet(done) /\ IsFiniteSet(left) /\ IsFiniteSet(renewed)
      /\ \A t \in p.track : IsTrack(t, id)
  <2>1. IsFiniteSet(p.track) /\ \A t \in p.track : IsTrack(t, id)
    BY <1>2 DEF IsKept
  <2>2. renewed \subseteq p.track
    BY <1>3
  <2> QED
    BY <1>3, <2>1, <2>2, PartFinite
<1>7. base = [id |-> id, areas |-> p.areas, ext |-> p.ext, ext_changed |-> p.ext_changed,
              rib |-> p.rib, links |-> p.links, nbrs |-> p.nbrs, track |-> left]
  BY ONLY <1>2, <1>4
<1>8. /\ base.areas = p.areas /\ base.ext = p.ext /\ base.nbrs = p.nbrs /\ base.rib = p.rib
      /\ base.track = left /\ IsShape(base, id)
  BY ONLY <1>7 DEF IsShape
<1>9. IsProc(base, id)
  <2>1. IsKept(left, id)
    BY <1>2, <1>3, <1>6 DEF IsKept
  <2> QED
    BY <1>2, <1>8, <2>1 DEF IsProc
<1>10. /\ IsDatabase(q, id) /\ SameRest(base, q)
       /\ ExtFrom(base, q, done) /\ AreasFrom(base, q, done)
  <2>1. \A e \in done : IsEdit(e, id)
    BY <1>3, <1>6 DEF IsTrack
  <2> QED
    BY <1>4, <1>6, <1>9, <2>1, ProcDatabase, EditFacts
<1>11. IsProc(q, id) /\ q.nbrs = p.nbrs /\ q.track = left
  BY <1>8, <1>9, <1>10, RestProc DEF SameRest
<1>12. \A t \in done : \A l \in t.after : l.dead = FALSE
  BY <1>3, <1>6 DEF IsTrack
<1>13. Awaited(q.areas, q.ext, left)
  <2>1. ASSUME NEW l \in q.ext, l.dead = TRUE
        PROVE  \E t \in left : t.key = l.key
    <3>1. l \in p.ext /\ \A e \in done : e.key # l.key
      BY <1>8, <1>10, <1>12, <2>1 DEF ExtFrom
    <3>2. PICK t \in p.track : t.key = l.key
      BY <1>0, <2>1, <3>1 DEF Awaited
    <3> QED
      BY <1>3, <3>1, <3>2
  <2>2. ASSUME NEW a \in DOMAIN q.areas, NEW l \in q.areas[a].lsas, l.dead = TRUE
        PROVE  \E t \in left : t.key = l.key /\ t.area = a
    <3>1. /\ a \in DOMAIN p.areas /\ l \in p.areas[a].lsas
          /\ \A e \in done : e.area = a => e.key # l.key
      BY <1>8, <1>10, <1>12, <2>2 DEF AreasFrom
    <3>2. PICK t \in p.track : t.key = l.key /\ t.area = a
      BY <1>0, <2>2, <3>1 DEF Awaited
    <3> QED
      BY <1>3, <3>1, <3>2
  <2> QED
    BY <2>1, <2>2 DEF Awaited
<1>14. IsFloods(flood)
  <2> DEFINE lsa == [t \in renewed |-> The(t.after)]
             area == [t \in renewed |-> t.area]
             S == {[lsa |-> lsa[t], area |-> area[t], except |-> 0] : t \in renewed}
  <2>1. \A t \in renewed : IsLsa(lsa[t])
    <3>1. \A t \in renewed : The(t.after) \in t.after /\ IsLsas(t.after)
      BY <1>3, <1>6, TheOf DEF IsTrack, IsEdit
    <3> QED
      BY <3>1 DEF IsLsas
  <2>2. flood = SetToSeq(S)
    BY <1>5
  <2> HIDE DEF lsa, area
  <2>3. IsFloods(SetToSeq(S))
    BY <1>6, <2>1, FloodsOf
  <2> QED
    BY <2>2, <2>3
<1>15. r = [p |-> q, events |-> o.events, flood |-> flood, track |-> o.track]
  BY ONLY <1>0, <1>1
<1>16. /\ r.p = q /\ r.events = o.events /\ r.flood = flood
       /\ r = [p |-> r.p, events |-> r.events, flood |-> r.flood, track |-> r.track]
  BY ONLY <1>15
<1>17. Pending(q)
  BY <1>3, <1>11 DEF Pending, Acknowledged, Neighbors
<1>18. Performing(r, s, id)
  BY <1>0, <1>11, <1>13, <1>14, <1>16 DEF Performing
<1> QED
  BY <1>16, <1>17, <1>18 DEF r
-----------------------------------------------------------------------------
(* The LSAs of the messages of a kind, merged                              *)
LEMMA MergedLsas ==
  ASSUME NEW ms, IsRaws(ms), NEW kind \in Listed
  PROVE  IsLsas(Merged(ms, kind))
<1> DEFINE J == {j \in DOMAIN ms : ms[j].kind = kind}
           f == [i \in J |-> {i} \X DOMAIN ms[i].lsas]
           places == UNION {{i} \X DOMAIN ms[i].lsas : i \in J}
           lsa(x) == ms[x[1]].lsas[x[2]]
           later(x, y) == x[1] > y[1] \/ (x[1] = y[1] /\ x[2] > y[2])
           last == {y \in places : \A z \in places : later(z, y) => lsa(z).key # lsa(y).key}
           fn == [x \in last |-> lsa(x)]
<1>1. Merged(ms, kind) = {lsa(x) : x \in last}
  BY DEF Merged
<1>2. /\ DOMAIN ms = 1 .. Len(ms) /\ Len(ms) \in Nat
      /\ \A i \in DOMAIN ms : IsRaw(ms[i])
  BY SeqElems DEF IsRaws, IsSeq
<1>3. \A i \in J : /\ DOMAIN ms[i].lsas = 1 .. Len(ms[i].lsas) /\ Len(ms[i].lsas) \in Nat
                   /\ \A k \in DOMAIN ms[i].lsas : IsLsa(ms[i].lsas[k])
  <2> SUFFICES ASSUME NEW i \in J
               PROVE  /\ DOMAIN ms[i].lsas = 1 .. Len(ms[i].lsas) /\ Len(ms[i].lsas) \in Nat
                      /\ \A k \in DOMAIN ms[i].lsas : IsLsa(ms[i].lsas[k])
    OBVIOUS
  <2> DEFINE ls == ms[i].lsas
  <2>1. IsSeq(ls) /\ \A k \in 1 .. Len(ls) : IsLsa(ls[k])
    BY <1>2 DEF IsRaw
  <2> HIDE DEF ls
  <2>2. DOMAIN ls = 1 .. Len(ls) /\ Len(ls) \in Nat
    BY <2>1, SeqElems DEF IsSeq
  <2> QED
    BY <2>1, <2>2 DEF ls
<1>4. \A x \in places : IsLsa(lsa(x))
  <2> SUFFICES ASSUME NEW x \in places PROVE IsLsa(lsa(x))
    OBVIOUS
  <2>1. PICK i \in J : x \in {i} \X DOMAIN ms[i].lsas
    OBVIOUS
  <2> QED
    BY <1>3, <2>1
<1>5. IsFiniteSet(places)
  <2>1. IsFiniteSet(J)
    <3>1. J \subseteq 1 .. Len(ms) /\ IsFiniteSet(1 .. Len(ms))
      BY <1>2, FS_Interval
    <3> QED
      BY <3>1, PartFinite
  <2>2. \A i \in J : IsFiniteSet(f[i])
    <3> SUFFICES ASSUME NEW i \in J PROVE IsFiniteSet({i} \X DOMAIN ms[i].lsas)
      OBVIOUS
    <3> DEFINE n == Len(ms[i].lsas)
    <3>2. DOMAIN ms[i].lsas = 1 .. n /\ n \in Nat
      BY <1>3
    <3>3. IsFiniteSet(1 .. n)
      BY <3>2, FS_Interval
    <3>1. IsFiniteSet({i}) /\ IsFiniteSet(DOMAIN ms[i].lsas)
      BY <3>2, <3>3, FewFinite
    <3> QED
      BY <3>1, FS_Product
  <2>3. places = UNION {f[i] : i \in J}
    OBVIOUS
  <2> HIDE DEF places, f, J
  <2> QED
    BY <2>1, <2>2, <2>3, FiniteUnion
<1>6. last \subseteq places /\ {lsa(x) : x \in last} = {fn[x] : x \in last}
  OBVIOUS
<1>7. \A x \in last : fn[x] = lsa(x)
  OBVIOUS
<1> HIDE DEF last, places, fn, J, f
<1>8. IsFiniteSet({fn[x] : x \in last})
  <2>1. IsFiniteSet(last)
    BY <1>5, <1>6, PartFinite
  <2> QED
    BY <2>1, FiniteImage
<1>9. \A l \in {fn[x] : x \in last} : IsLsa(l)
  BY <1>4, <1>6, <1>7
<1> QED
  BY <1>1, <1>6, <1>8, <1>9 DEF IsLsas

(* Merged messages are messages.                                           *)
LEMMA BatchedMsgs ==
  ASSUME NEW ms, IsRaws(ms), NEW kind \in Listed
  PROVE  IsMsgs(Batched(ms, kind))
<1> DEFINE ls == Merged(ms, kind)
           m == Message(kind, ls)
<1>1. Batched(ms, kind) = << >> \/ Batched(ms, kind) = <<m>>
  BY DEF Batched
<1>2. IsLsas(ls)
  BY MergedLsas
<1>3. m = [kind |-> kind, lsas |-> ls]
  BY DEF Message
<1> HIDE DEF m, ls
<1>4. m.kind = kind /\ m.lsas = ls /\ m = [kind |-> m.kind, lsas |-> m.lsas]
  BY ONLY <1>3
<1>5. IsMsg(m)
  BY <1>2, <1>4 DEF IsMsg, Listed, Kinds
<1> QED
  BY <1>1, <1>5, SeqEmpty, SeqOne DEF IsMsgs

(* Messages, and more messages                                             *)
LEMMA MsgsJoin ==
  ASSUME NEW s, NEW t, IsMsgs(s), IsMsgs(t)
  PROVE  IsMsgs(s \o t) /\ Elems(s \o t) = Elems(s) \cup Elems(t)
BY SeqJoin DEF IsMsgs

IsBatched(new, ms) == IsMsgs(new) /\ (Described(ms) => Described(new))

(* batch_events drops no description.                                      *)
LEMMA BatchFacts ==
  ASSUME NEW ms, IsRaws(ms)
  PROVE  IsBatched(Batch(ms), ms)
<1> DEFINE N == Len(ms)
           acks == Batched(ms, "LinkStateAck")
           upds == Batched(ms, "LinkStateUpdate")
<1>0. N \in Nat
  BY DEF IsRaws, IsSeq
<1>1. PICK fn : IsBatchFold(fn, ms, N) /\ Batch(ms) = fn[N] \o acks \o upds
  BY <1>0, BatchFold
<1> HIDE DEF N
<1> DEFINE In(k) == /\ IsMsgs(fn[k])
                    /\ \A i \in 1 .. k : ms[i].kind = "DatabaseDescription" => ms[i] \in Elems(fn[k])
           A == {k \in 0 .. N : In(k)}
<1>2. 0 \in A
  <2>1. fn[0] = << >>
    BY <1>1 DEF IsBatchFold
  <2>2. IsMsgs(fn[0])
    BY <2>1, SeqEmpty DEF IsMsgs
  <2>3. \A i \in 1 .. 0 : FALSE
    OBVIOUS
  <2> QED
    BY <1>0, <2>2, <2>3
<1>3. ASSUME NEW k \in 0 .. N, k \in A, k < N
      PROVE  k + 1 \in A
  <2> DEFINE m == ms[k + 1]
             s == fn[k]
             t == fn[k + 1]
  <2>1. k + 1 \in 1 .. N /\ k + 1 - 1 = k /\ k + 1 \in 0 .. N
        /\ \A i \in 1 .. k + 1 : i \in 1 .. k \/ i = k + 1
    BY <1>0, <1>3
  <2>2. t = Adding(s, m)
    BY <1>1, <2>1 DEF IsBatchFold
  <2>3. IsRaw(m)
    BY <2>1 DEF IsRaws, N
  <2>4. IsMsgs(s) /\ \A i \in 1 .. k : ms[i].kind = "DatabaseDescription" => ms[i] \in Elems(s)
    BY <1>3
  <2>5. IsMsgs(t) /\ Elems(s) \subseteq Elems(t)
        /\ (m.kind = "DatabaseDescription" => m \in Elems(t))
    <3> HIDE DEF m, s, t
    <3>1. CASE m.kind \in Listed
      <4>1. t = s
        BY <2>2, <3>1 DEF Adding
      <4>2. m.kind # "DatabaseDescription"
        BY <3>1 DEF Listed
      <4> QED
        BY <2>4, <4>1, <4>2
    <3>2. CASE m.kind \notin Listed
      <4>1. t = Append(s, m)
        BY <2>2, <3>2 DEF Adding
      <4>2. IsMsg(m)
        BY <2>3, <3>2 DEF IsRaw, IsMsg, Listed
      <4>3. IsSeq(t) /\ Elems(t) = Elems(s) \cup {m}
        BY <2>4, <4>1, SeqAppend DEF IsMsgs
      <4> QED
        BY <2>4, <4>2, <4>3 DEF IsMsgs
    <3> QED
      BY <3>1, <3>2
  <2>6. \A i \in 1 .. k + 1 : ms[i].kind = "DatabaseDescription" => ms[i] \in Elems(t)
    <3> SUFFICES ASSUME NEW i \in 1 .. k + 1, ms[i].kind = "DatabaseDescription"
                 PROVE  ms[i] \in Elems(t)
      OBVIOUS
    <3>1. CASE i \in 1 .. k
      BY <2>4, <2>5, <3>1
    <3>2. CASE i = k + 1
      BY <2>5, <3>2
    <3> QED
      BY <2>1, <3>1, <3>2
  <2> QED
    BY <2>1, <2>5, <2>6
<1>4. N \in A
  <2>1. \A k \in 0 .. N : k \in A /\ k < N => k + 1 \in A
    BY <1>3
  <2> HIDE DEF A
  <2>2. \A k \in 0 .. N : k \in A
    BY ONLY <1>0, <1>2, <2>1, UpTo
  <2> QED
    BY <1>0, <2>2
<1> DEFINE others == fn[N]
           new == others \o acks \o upds
<1>5. /\ IsMsgs(others)
      /\ \A i \in 1 .. N : ms[i].kind = "DatabaseDescription" => ms[i] \in Elems(others)
  BY <1>4
<1>6. IsMsgs(acks) /\ IsMsgs(upds)
  BY BatchedMsgs DEF Listed
<1> HIDE DEF others, acks, upds, A
<1>7. IsMsgs(others \o acks) /\ Elems(others \o acks) = Elems(others) \cup Elems(acks)
  BY <1>5, <1>6, MsgsJoin
<1>8. IsMsgs(new) /\ Elems(new) = Elems(others \o acks) \cup Elems(upds)
  BY <1>6, <1>7, MsgsJoin
<1> HIDE DEF new
<1>9. Described(ms) => Described(new)
  <2> SUFFICES ASSUME Described(ms) PROVE Described(new)
    OBVIOUS
  <2>1. PICK i \in 1 .. N : ms[i].kind = "DatabaseDescription"
    BY DEF Described, N
  <2>2. ms[i] \in Elems(new)
    BY <1>5, <1>7, <1>8, <2>1
  <2> QED
    BY <2>1, <2>2, DescribedElems
<1>10. IsBatched(new, ms)
  BY <1>8, <1>9 DEF IsBatched
<1> QED
  BY <1>1, <1>10 DEF new, others
-----------------------------------------------------------------------------
(* All actions of o were performed: the new state and the messages, w      *)
Performed(w, o, id) ==
  /\ IsProc(w.p, id) /\ Awaited(w.p.areas, w.p.ext, w.p.track) /\ Pending(w.p)
  /\ SameAll(w.p.nbrs, o.p.nbrs)
  /\ \A n \in Routers : IsMsgs(w.sent[n]) /\ (Described(o.events[n]) => Described(w.sent[n]))

(* The outcome as messages                                                 *)
LEMMA SentPerformed ==
  ASSUME NEW id, NEW s, NEW o, Performing(o, s, id), Pending(o.p)
  PROVE  Performed(Sent(o), s, id)
<1> DEFINE sent == [n \in Routers |-> Batch(o.events[n])]
           w == Sent(o)
<1>1. w = [p |-> o.p, sent |-> sent]
  BY DEF Sent
<1>2. \A n \in Routers : IsBatched(sent[n], o.events[n])
  <2>1. \A n \in Routers : IsRaws(o.events[n])
    BY EventsRaws DEF Performing
  <2> QED
    BY <2>1, BatchFacts
<1> HIDE DEF sent, w
<1>3. w.p = o.p /\ w.sent = sent
  BY ONLY <1>1
<1> QED
  BY <1>2, <1>3 DEF Performing, Performed, IsBatched, StillDescribed, w

(* perform_actions: what a router tracks in the end somebody has not       *)
(* acknowledged, and every dead LSA is tracked.                            *)
LEMMA PerformedOut ==
  ASSUME NEW id, NEW o, IsOut(o, id, {})
  PROVE  Performed(PerformActions(o), o, id)
<1> DEFINE tracks == PutTracks(o.p.track, LastTracks(o.track))
           p == [o.p EXCEPT !.track = tracks]
           u == Rerouted(p)
           o1 == Redistributed(o, u)
           o2 == FloodAll(o1)
           o3 == TrackMaxAge(o2)
           o4 == FloodAll(o3)
<1>1. PerformActions(o) = Sent(o4)
  BY DEF PerformActions
<1>2. p = [o.p EXCEPT !.track = PutTracks(o.p.track, LastTracks(o.track))]
  OBVIOUS
<1> HIDE DEF tracks, p
<1>3. IsTracking(p, o.p, id)
  BY <1>2, TrackingOut
<1>4. IsRouted(u, p, id)
  BY <1>3, ReroutedFacts DEF IsTracking
<1> HIDE DEF u
<1>5. Performing(o1, o, id)
  BY <1>3, <1>4, RedistributedPerforming DEF IsTracking
<1> HIDE DEF o1
<1>6. Performing(o2, o, id)
  BY <1>5, FloodAllPerforming
<1> HIDE DEF o2
<1>7. Performing(o3, o, id) /\ Pending(o3.p)
  BY <1>6, TrackMaxAgePerforming
<1> HIDE DEF o3
<1>8. Performing(o4, o, id) /\ Pending(o4.p)
  BY <1>7, FloodAllPerforming
<1> HIDE DEF o4
<1> QED
  BY <1>1, <1>8, SentPerformed
-----------------------------------------------------------------------------
(* The neighbors are those of before, in the same areas; a neighbor does    *)
(* not fall back to the start of the exchange.                             *)
NotBack(nb, old) == nb.area = old.area /\ (nb.state = "Init" => old.state = "Init")

Advanced(nbrs, old) ==
  DOMAIN nbrs = DOMAIN old /\ \A k \in DOMAIN nbrs : NotBack(nbrs[k], old[k])

(* Neighbors advance from step to step.                                    *)
LEMMA AdvancedOn == \A a, b, c : Advanced(b, a) /\ Advanced(c, b) => Advanced(c, a)
BY DEF Advanced, NotBack

IsLsaSeq(ls) == IsSeq(ls) /\ \A l \in Elems(ls) : IsLsa(l)
IsTracks(ts, id) == IsSeq(ts) /\ \A t \in Elems(ts) : IsTrack(t, id)

(* What a router has collected while it handles an update                  *)
Recv(o, p, id) ==
  /\ o = [p |-> o.p, flood |-> o.flood, track |-> o.track, acks |-> o.acks, upds |-> o.upds]
  /\ IsProc(o.p, id) /\ Advanced(o.p.nbrs, p.nbrs)
  /\ Awaited(o.p.areas, o.p.ext, o.p.track \cup Elems(o.track))
  /\ IsFloods(o.flood) /\ IsTracks(o.track, id) /\ IsLsaSeq(o.acks) /\ IsLsaSeq(o.upds)

(* The outcome of receiving an LSA, by its parts                           *)
LEMMA RecvOf ==
  ASSUME NEW id, NEW p, NEW o, Recv(o, p, id), NEW q, IsProc(q, id), Advanced(q.nbrs, o.p.nbrs),
         NEW flood, IsFloods(flood), NEW track, IsTracks(track, id),
         Awaited(q.areas, q.ext, q.track \cup Elems(track)),
         NEW acks, IsLsaSeq(acks), NEW upds, IsLsaSeq(upds), NEW r,
         r = [p |-> q, flood |-> flood, track |-> track, acks |-> acks, upds |-> upds]
  PROVE  Recv(r, p, id) /\ r.p = q
<1>1. /\ r.p = q /\ r.flood = flood /\ r.track = track /\ r.acks = acks /\ r.upds = upds
      /\ r = [p |-> r.p, flood |-> r.flood, track |-> r.track, acks |-> r.acks, upds |-> r.upds]
  BY ONLY r = [p |-> q, flood |-> flood, track |-> track, acks |-> acks, upds |-> upds]
<1>2. Advanced(q.nbrs, p.nbrs)
  BY AdvancedOn DEF Recv
<1> QED
  BY <1>1, <1>2 DEF Recv

(* LSAs to send back, and one more                                         *)
LEMMA LsaSeqFacts ==
  /\ IsLsaSeq(<< >>)
  /\ \A l : IsLsa(l) => IsLsaSeq(<<l>>)
  /\ \A s, t : IsLsaSeq(s) /\ IsLsaSeq(t) => IsLsaSeq(s \o t)
  /\ \A s, l : IsLsaSeq(s) /\ IsLsa(l) => IsLsaSeq(Append(s, l))
<1>1. IsLsaSeq(<< >>) /\ \A l : IsLsa(l) => IsLsaSeq(<<l>>)
  BY SeqEmpty, SeqOne DEF IsLsaSeq
<1>2. \A s, t : IsLsaSeq(s) /\ IsLsaSeq(t) => IsLsaSeq(s \o t)
  BY SeqJoin DEF IsLsaSeq
<1>3. \A s, l : IsLsaSeq(s) /\ IsLsa(l) => IsLsaSeq(Append(s, l))
  BY SeqAppend DEF IsLsaSeq
<1> QED
  BY <1>1, <1>2, <1>3

(* Doing nothing advances.                                                 *)
LEMMA SelfAdvanced == \A nbrs : Advanced(nbrs, nbrs)
BY DEF Advanced, NotBack

(* Our instance is newer: it is sent back.                                 *)
LEMMA SendBackRecv ==
  ASSUME NEW id, NEW p, NEW o, Recv(o, p, id), NEW ls, IsLsaSeq(ls)
  PROVE  Recv(SendBack(o, ls), p, id) /\ SendBack(o, ls).p = o.p
<1> DEFINE upds == o.upds \o ls
           r == SendBack(o, ls)
<1>1. r = [o EXCEPT !.upds = upds]
  BY DEF SendBack
<1>2. IsLsaSeq(upds)
  BY LsaSeqFacts DEF Recv
<1>3. o = [p |-> o.p, flood |-> o.flood, track |-> o.track, acks |-> o.acks, upds |-> o.upds]
  BY DEF Recv
<1> HIDE DEF upds, r
<1>4. r = [p |-> o.p, flood |-> o.flood, track |-> o.track, acks |-> o.acks, upds |-> upds]
  BY ONLY <1>1, <1>3
<1>5. Recv(r, p, id) /\ r.p = o.p
  BY <1>2, <1>4, RecvOf, SelfAdvanced DEF Recv
<1> QED
  BY <1>5 DEF r

(* The LSA is acknowledged.                                                *)
LEMMA AcknowledgeRecv ==
  ASSUME NEW id, NEW p, NEW o, Recv(o, p, id), NEW l, IsLsa(l)
  PROVE  Recv(Acknowledge(o, l), p, id)
<1> DEFINE acks == Append(o.acks, l)
           r == Acknowledge(o, l)
<1>1. r = [o EXCEPT !.acks = acks]
  BY DEF Acknowledge
<1>2. IsLsaSeq(acks)
  BY LsaSeqFacts DEF Recv
<1>3. o = [p |-> o.p, flood |-> o.flood, track |-> o.track, acks |-> o.acks, upds |-> o.upds]
  BY DEF Recv
<1> HIDE DEF acks, r
<1>4. r = [p |-> o.p, flood |-> o.flood, track |-> o.track, acks |-> acks, upds |-> o.upds]
  BY ONLY <1>1, <1>3
<1>5. Recv(r, p, id)
  BY <1>2, <1>4, RecvOf, SelfAdvanced DEF Recv
<1> QED
  BY <1>5 DEF r

(* Neighbor n is now nb.                                                   *)
IsNext(nb, old, id, n) == IsNbr(nb, id, n) /\ NotBack(nb, old)

NbrIs(q, p, id, n, nb) ==
  /\ IsProc(q, id) /\ Advanced(q.nbrs, p.nbrs) /\ q.nbrs[n] = nb
  /\ q.areas = p.areas /\ q.ext = p.ext /\ q.track = p.track

(* The neighbor n is set to a state that may follow.                       *)
LEMMA NbrSetIs ==
  ASSUME NEW id, NEW p, IsProc(p, id), NEW n \in DOMAIN p.nbrs, NEW nb,
         IsNext(nb, p.nbrs[n], id, n),
         NEW nbrs, nbrs = [p.nbrs EXCEPT ![n] = nb], NEW q, q = [p EXCEPT !.nbrs = nbrs]
  PROVE  NbrIs(q, p, id, n, nb)
<1>1. /\ IsShape(p, id) /\ IsBase(p.areas, p.ext, id) /\ IsNbrs(p.nbrs, p.areas, id)
      /\ IsKept(p.track, id) /\ IsFiniteSet(DOMAIN p.rib) /\ id \in Routers
  BY DEF IsProc
<1>2. /\ IsShape(q, id) /\ q.nbrs = nbrs /\ q.areas = p.areas /\ q.ext = p.ext
      /\ q.track = p.track /\ q.rib = p.rib
  BY <1>1, NbrsSet
<1>3. /\ DOMAIN nbrs = DOMAIN p.nbrs /\ nbrs = [k \in DOMAIN nbrs |-> nbrs[k]] /\ nbrs[n] = nb
      /\ \A k \in DOMAIN nbrs : k # n => nbrs[k] = p.nbrs[k]
  BY <1>1 DEF IsNbrs
<1>4. IsNbrs(nbrs, p.areas, id)
  BY <1>1, <1>3 DEF IsNbrs, IsNext, NotBack
<1>5. Advanced(nbrs, p.nbrs)
  BY <1>3 DEF Advanced, IsNext, NotBack
<1> QED
  BY <1>1, <1>2, <1>3, <1>4, <1>5 DEF IsProc, NbrIs

(* The neighbor that an LSA came from is set.                              *)
LEMMA NbrRecv ==
  ASSUME NEW id, NEW p, NEW o, Recv(o, p, id), NEW n \in DOMAIN p.nbrs, NEW nb,
         IsNext(nb, o.p.nbrs[n], id, n),
         NEW nbrs, nbrs = [o.p.nbrs EXCEPT ![n] = nb], NEW q, q = [o.p EXCEPT !.nbrs = nbrs],
         NEW r, r = [o EXCEPT !.p = q]
  PROVE  Recv(r, p, id) /\ NbrIs(r.p, o.p, id, n, nb)
<1>1. NbrIs(q, o.p, id, n, nb)
  <2> DEFINE a == o.p
  <2>1. /\ IsProc(a, id) /\ n \in DOMAIN a.nbrs /\ IsNext(nb, a.nbrs[n], id, n)
        /\ nbrs = [a.nbrs EXCEPT ![n] = nb] /\ q = [a EXCEPT !.nbrs = nbrs]
    BY DEF Recv, Advanced
  <2> HIDE DEF a
  <2>2. NbrIs(q, a, id, n, nb)
    BY <2>1, NbrSetIs
  <2> QED
    BY <2>2 DEF a
<1>2. o = [p |-> o.p, flood |-> o.flood, track |-> o.track, acks |-> o.acks, upds |-> o.upds]
  BY DEF Recv
<1>3. r = [p |-> q, flood |-> o.flood, track |-> o.track, acks |-> o.acks, upds |-> o.upds]
  BY ONLY <1>2, r = [o EXCEPT !.p = q]
<1>4. /\ IsFloods(o.flood) /\ IsTracks(o.track, id) /\ IsLsaSeq(o.acks) /\ IsLsaSeq(o.upds)
      /\ Awaited(q.areas, q.ext, q.track \cup Elems(o.track))
      /\ IsProc(q, id) /\ Advanced(q.nbrs, o.p.nbrs)
  BY <1>1 DEF Recv, NbrIs
<1>5. Recv(r, p, id) /\ r.p = q
  BY ONLY Recv(o, p, id), <1>3, <1>4, RecvOf
<1> QED
  BY <1>1, <1>5
-----------------------------------------------------------------------------
(* The LSA may be the last one that was requested.                         *)
SameBase(o, new) ==
  /\ new.p.areas = o.p.areas /\ new.p.ext = o.p.ext /\ new.p.track = o.p.track
  /\ new.p.id = o.p.id

(* The LSA was requested: it no longer is, and the adjacency is Full after *)
(* the last one.                                                           *)
LEMMA LoadedRecv ==
  ASSUME NEW id, NEW p, NEW o, Recv(o, p, id), NEW n \in DOMAIN p.nbrs, NEW l
  PROVE  Recv(Loaded(o, n, l), p, id) /\ SameBase(o, Loaded(o, n, l))
<1> DEFINE nb == o.p.nbrs[n]
           request == IF Requested(nb, l) THEN Drop(nb.request, l.key) ELSE nb.request
           full == [nb EXCEPT !.request = request, !.state = "Full"]
           less == [nb EXCEPT !.request = request]
           nbrs(x) == [o.p.nbrs EXCEPT ![n] = x]
           q(x) == [o.p EXCEPT !.nbrs = nbrs(x)]
           r(x) == [o EXCEPT !.p = q(x)]
           back == SetToSeq(nb.retransmission)
           new == Loaded(o, n, l)
<1>1. \/ new = o
      \/ nb.state = "Loading" /\ new = r(less)
      \/ nb.state = "Loading" /\ request = {} /\ new = SendBack(r(full), back)
  BY DEF Loaded
<1>2. /\ IsNbr(nb, id, n)
      /\ nb = [area |-> nb.area, leader |-> nb.leader, state |-> nb.state,
               retransmission |-> nb.retransmission, summary |-> nb.summary,
               request |-> nb.request]
  BY DEF Recv, IsProc, IsNbrs, Advanced, IsNbr
<1>3. less = [nb EXCEPT !.request = request] /\ full = [nb EXCEPT !.request = request, !.state = "Full"]
      /\ nb = o.p.nbrs[n]
  OBVIOUS
<1>4. /\ nbrs(less) = [o.p.nbrs EXCEPT ![n] = less] /\ q(less) = [o.p EXCEPT !.nbrs = nbrs(less)]
      /\ r(less) = [o EXCEPT !.p = q(less)]
  OBVIOUS
<1>5. /\ nbrs(full) = [o.p.nbrs EXCEPT ![n] = full] /\ q(full) = [o.p EXCEPT !.nbrs = nbrs(full)]
      /\ r(full) = [o EXCEPT !.p = q(full)]
  OBVIOUS
<1> SUFFICES Recv(new, p, id) /\ SameBase(o, new)
  OBVIOUS
<1>10. IsLsas(nb.retransmission)
  BY <1>2 DEF IsNbr
<1> HIDE DEF nb, request, full, less, nbrs, q, r, new
<1>6. less = [area |-> nb.area, leader |-> nb.leader, state |-> nb.state,
              retransmission |-> nb.retransmission, summary |-> nb.summary, request |-> request]
  BY ONLY <1>2, <1>3
<1>7. full = [area |-> nb.area, leader |-> nb.leader, state |-> "Full",
              retransmission |-> nb.retransmission, summary |-> nb.summary, request |-> request]
  BY ONLY <1>2, <1>3
<1>8. nb.state = "Loading" => IsNext(less, nb, id, n)
  <2>1. /\ less.area = nb.area /\ less.leader = nb.leader /\ less.state = nb.state
        /\ less.retransmission = nb.retransmission /\ less.summary = nb.summary
        /\ less.request = request
        /\ less = [area |-> less.area, leader |-> less.leader, state |-> less.state,
                   retransmission |-> less.retransmission, summary |-> less.summary,
                   request |-> less.request]
    BY ONLY <1>6
  <2> QED
    BY <1>2, <2>1 DEF IsNbr, IsNext, NotBack
<1>9. request = {} => IsNext(full, nb, id, n)
  <2>1. /\ full.area = nb.area /\ full.leader = nb.leader /\ full.state = "Full"
        /\ full.retransmission = nb.retransmission /\ full.summary = nb.summary
        /\ full.request = request
        /\ full = [area |-> full.area, leader |-> full.leader, state |-> full.state,
                   retransmission |-> full.retransmission, summary |-> full.summary,
                   request |-> full.request]
    BY ONLY <1>7
  <2> QED
    BY <1>2, <2>1 DEF IsNbr, IsNext, NotBack
<1>11. \A x : NbrIs(x.p, o.p, id, n, x.p.nbrs[n]) => SameBase(o, x)
  BY DEF NbrIs, SameBase, IsProc, IsShape, Recv
<1>12. CASE new = o
  BY <1>12 DEF SameBase
<1>13. CASE nb.state = "Loading" /\ new = r(less)
  <2>1. Recv(r(less), p, id) /\ NbrIs(r(less).p, o.p, id, n, less)
    BY <1>3, <1>4, <1>8, <1>13, NbrRecv
  <2> QED
    BY <1>11, <1>13, <2>1 DEF NbrIs
<1>14. CASE nb.state = "Loading" /\ request = {} /\ new = SendBack(r(full), back)
  <2>1. Recv(r(full), p, id) /\ NbrIs(r(full).p, o.p, id, n, full)
    BY <1>3, <1>5, <1>9, <1>14, NbrRecv
  <2>2. IsLsaSeq(back)
    BY <1>10, SeqOfSet DEF IsLsaSeq, IsLsas
  <2>3. Recv(new, p, id) /\ new.p = r(full).p
    BY <1>14, <2>1, <2>2, SendBackRecv
  <2> QED
    BY <1>11, <2>1, <2>3 DEF NbrIs, SameBase
<1> QED
  BY <1>1, <1>12, <1>13, <1>14
-----------------------------------------------------------------------------
(* The sequence number of an LSA is set.                                   *)
LEMMA SetSeqFacts ==
  ASSUME NEW id, NEW p, IsDatabase(p, id), NEW l, IsLsa(l), NEW a,
         l.key.type # External => a \in DOMAIN p.areas
  PROVE  LET q == SetSeq(p, l, a)
         IN  /\ IsDatabase(q, id) /\ SameRest(p, q)
             /\ DeadFrom(p, q, l, a)
<1> DEFINE q == SetSeq(p, l, a)
<1>0. /\ p = [id |-> id, areas |-> p.areas, ext |-> p.ext, ext_changed |-> p.ext_changed,
              rib |-> p.rib, links |-> p.links, nbrs |-> p.nbrs, track |-> p.track]
      /\ IsBase(p.areas, p.ext, id)
  BY DEF IsDatabase, IsShape
<1>1. CASE l.key.type = External
  <2> DEFINE ext == Put(p.ext, l)
  <2>1. q = [p EXCEPT !.ext = ext]
    BY <1>1 DEF SetSeq
  <2>2. IsLsas(ext) /\ \A m \in ext : m.key.type = External /\ (m = l \/ m \in p.ext)
    <3>1. IsLsas(p.ext) /\ \A m \in p.ext : m.key.type = External
      BY <1>0 DEF IsBase
    <3>2. IsLsas(ext)
      BY <3>1, LsasPut
    <3> QED
      BY <1>1, <3>1, <3>2 DEF Put, Drop
  <2> HIDE DEF q, ext
  <2>3. q = [id |-> id, areas |-> p.areas, ext |-> ext, ext_changed |-> p.ext_changed,
             rib |-> p.rib, links |-> p.links, nbrs |-> p.nbrs, track |-> p.track]
    BY ONLY <1>0, <2>1
  <2>4. /\ q.areas = p.areas /\ q.ext = ext /\ q.nbrs = p.nbrs /\ q.track = p.track
        /\ q.rib = p.rib /\ IsShape(q, id)
    BY ONLY <2>3 DEF IsShape
  <2>5. IsDatabase(q, id)
    BY <1>0, <2>2, <2>4 DEF IsDatabase, IsBase
  <2>6. SameRest(p, q)
    BY <2>4 DEF SameRest
  <2>7. DeadFrom(p, q, l, a)
    BY <2>2, <2>4 DEF DeadFrom
  <2> QED
    BY <2>5, <2>6, <2>7 DEF q
<1>2. CASE l.key.type # External
  <2> DEFINE lsas == Put(p.areas[a].lsas, l)
             ds == [p.areas[a] EXCEPT !.lsas = lsas]
             areas == [p.areas EXCEPT ![a] = ds]
  <2>0. WithArea(p, a) = p
    BY <1>2 DEF WithArea
  <2>1. q = [p EXCEPT !.areas = areas]
    BY <1>2, <2>0 DEF SetSeq
  <2>2. IsArea(p.areas[a], id)
    BY <1>0, <1>2 DEF IsBase
  <2>3. /\ IsLsas(lsas) /\ \A m \in lsas : m.key.type # External /\ (m = l \/ m \in p.areas[a].lsas)
        /\ \E m \in lsas : m.key = RouterKey(id)
    <3>1. IsLsas(p.areas[a].lsas)
      BY <2>2 DEF IsArea
    <3>2. IsLsas(lsas)
      BY <3>1, LsasPut
    <3>3. PICK m \in p.areas[a].lsas : m.key = RouterKey(id)
      BY <2>2 DEF IsArea
    <3>4. IF l.key = RouterKey(id) THEN l \in lsas ELSE m \in lsas
      BY <3>3 DEF Put, Drop
    <3>5. \E x \in lsas : x.key = RouterKey(id)
      BY <3>3, <3>4
    <3> QED
      BY <1>2, <2>2, <3>2, <3>5 DEF Put, Drop, IsArea
  <2>4. ds = [p.areas[a] EXCEPT !.lsas = lsas]
    OBVIOUS
  <2>5. /\ DOMAIN areas = DOMAIN p.areas /\ areas = [b \in DOMAIN areas |-> areas[b]]
        /\ areas[a] = ds /\ \A b \in DOMAIN areas : b # a => areas[b] = p.areas[b]
    BY <1>0, <1>2 DEF IsBase
  <2> HIDE DEF q, lsas, ds, areas
  <2>6. IsArea(ds, id) /\ ds.lsas = lsas
    <3>1. p.areas[a] = [lsas |-> p.areas[a].lsas, spt |-> p.areas[a].spt,
                        recompute_intra |-> p.areas[a].recompute_intra,
                        recompute_inter |-> p.areas[a].recompute_inter,
                        redistributed |-> p.areas[a].redistributed]
      BY <2>2 DEF IsArea
    <3>2. ds = [lsas |-> lsas, spt |-> p.areas[a].spt,
                recompute_intra |-> p.areas[a].recompute_intra,
                recompute_inter |-> p.areas[a].recompute_inter,
                redistributed |-> p.areas[a].redistributed]
      BY ONLY <2>4, <3>1
    <3>3. /\ ds.lsas = lsas /\ ds.redistributed = p.areas[a].redistributed
          /\ ds = [lsas |-> ds.lsas, spt |-> ds.spt, recompute_intra |-> ds.recompute_intra,
                   recompute_inter |-> ds.recompute_inter, redistributed |-> ds.redistributed]
      BY ONLY <3>2
    <3> QED
      BY <2>2, <2>3, <3>3 DEF IsArea
  <2>7. q = [id |-> id, areas |-> areas, ext |-> p.ext, ext_changed |-> p.ext_changed,
             rib |-> p.rib, links |-> p.links, nbrs |-> p.nbrs, track |-> p.track]
    BY ONLY <1>0, <2>1
  <2>8. /\ q.areas = areas /\ q.ext = p.ext /\ q.nbrs = p.nbrs /\ q.track = p.track
        /\ q.rib = p.rib /\ IsShape(q, id)
    BY ONLY <2>7 DEF IsShape
  <2>9. IsDatabase(q, id)
    BY <1>0, <2>5, <2>6, <2>8 DEF IsDatabase, IsBase
  <2>10. SameRest(p, q)
    BY <2>5, <2>8 DEF SameRest
  <2>11. DeadFrom(p, q, l, a)
    BY <2>3, <2>5, <2>6, <2>8 DEF DeadFrom
  <2> QED
    BY <2>9, <2>10, <2>11 DEF q
<1> QED
  BY <1>1, <1>2
-----------------------------------------------------------------------------
(* The database is q from now on; what q owes is tracked.                  *)
LEMMA DataRecv ==
  ASSUME NEW id, NEW p, NEW o, Recv(o, p, id), NEW q, IsDatabase(q, id), SameRest(o.p, q),
         NEW X, X \subseteq Elems(o.track), Owes(o.p, q, X), NEW r, r = [o EXCEPT !.p = q]
  PROVE  Recv(r, p, id)
<1>1. /\ IsFloods(o.flood) /\ IsTracks(o.track, id) /\ IsLsaSeq(o.acks) /\ IsLsaSeq(o.upds)
      /\ o = [p |-> o.p, flood |-> o.flood, track |-> o.track, acks |-> o.acks, upds |-> o.upds]
      /\ IsProc(o.p, id)
  BY DEF Recv
<1>2. IsProc(q, id)
  BY <1>1, RestProc
<1>3. Awaited(q.areas, q.ext, q.track \cup Elems(o.track))
  <2> DEFINE T == o.p.track \cup Elems(o.track)
  <2>1. Awaited(o.p.areas, o.p.ext, T)
    BY DEF Recv
  <2>2. T \cup X = q.track \cup Elems(o.track)
    BY DEF SameRest
  <2> HIDE DEF T
  <2>3. Awaited(q.areas, q.ext, T \cup X)
    BY <2>1, OwesAwaited
  <2> QED
    BY <2>2, <2>3
<1>4. Advanced(q.nbrs, o.p.nbrs)
  BY SelfAdvanced DEF SameRest
<1>5. r = [p |-> q, flood |-> o.flood, track |-> o.track, acks |-> o.acks, upds |-> o.upds]
  BY ONLY <1>1, r = [o EXCEPT !.p = q]
<1> QED
  BY <1>1, <1>2, <1>3, <1>4, <1>5, RecvOf

(* The LSA is flooded, but not back to where it came from.                 *)
LEMMA FloodFromRecv ==
  ASSUME NEW id, NEW p, NEW o, Recv(o, p, id), NEW n, NEW l, IsLsa(l)
  PROVE  Recv(FloodFrom(o, n, l), p, id) /\ FloodFrom(o, n, l).p = o.p
<1> DEFINE f == [lsa |-> l, area |-> o.p.nbrs[n].area, except |-> n]
           more == Append(o.flood, f)
           r == FloodFrom(o, n, l)
<1>1. r = [o EXCEPT !.flood = more]
  BY DEF FloodFrom
<1>2. IsFloods(more)
  <2>1. IsFlood(f)
    BY DEF IsFlood
  <2> HIDE DEF f
  <2> QED
    BY <2>1, SeqAppend, FloodsElems DEF Recv
<1>3. o = [p |-> o.p, flood |-> o.flood, track |-> o.track, acks |-> o.acks, upds |-> o.upds]
  BY DEF Recv
<1>7. /\ IsTracks(o.track, id) /\ IsLsaSeq(o.acks) /\ IsLsaSeq(o.upds) /\ IsProc(o.p, id)
      /\ Awaited(o.p.areas, o.p.ext, o.p.track \cup Elems(o.track))
  BY DEF Recv
<1> HIDE DEF more, r
<1>4. r = [p |-> o.p, flood |-> more, track |-> o.track, acks |-> o.acks, upds |-> o.upds]
  BY ONLY <1>1, <1>3
<1>6. Advanced(o.p.nbrs, o.p.nbrs)
  BY SelfAdvanced
<1>5. Recv(r, p, id) /\ r.p = o.p
  BY ONLY Recv(o, p, id), <1>2, <1>4, <1>6, <1>7, RecvOf
<1> QED
  BY <1>5 DEF r

(* The LSA of that key is waited for.                                      *)
TracksLsa(track, key, a) == \E t \in Elems(track) : t.key = key /\ t.area = a

(* The LSA is to be tracked.                                               *)
LEMMA TrackRecv ==
  ASSUME NEW id, NEW p, NEW o, Recv(o, p, id), NEW n, NEW key, NEW after,
         IsTrack([area |-> o.p.nbrs[n].area, key |-> key, after |-> after], id)
  PROVE  /\ Recv(Track(o, n, key, after), p, id) /\ Track(o, n, key, after).p = o.p
         /\ TracksLsa(Track(o, n, key, after).track, key, o.p.nbrs[n].area)
<1> DEFINE t == [area |-> o.p.nbrs[n].area, key |-> key, after |-> after]
           track == Append(o.track, t)
           r == Track(o, n, key, after)
<1>1. r = [o EXCEPT !.track = track]
  BY DEF Track
<1>2. IsTracks(track, id) /\ Elems(track) = Elems(o.track) \cup {t}
  <2>1. IsTrack(t, id)
    OBVIOUS
  <2> HIDE DEF t
  <2> QED
    BY <2>1, SeqAppend DEF Recv, IsTracks
<1>3. /\ o = [p |-> o.p, flood |-> o.flood, track |-> o.track, acks |-> o.acks, upds |-> o.upds]
      /\ IsFloods(o.flood) /\ IsLsaSeq(o.acks) /\ IsLsaSeq(o.upds) /\ IsProc(o.p, id)
      /\ Awaited(o.p.areas, o.p.ext, o.p.track \cup Elems(o.track))
  BY DEF Recv
<1>6. t \in Elems(track) /\ t.key = key /\ t.area = o.p.nbrs[n].area
  BY <1>2
<1> HIDE DEF track, r
<1>4. r = [p |-> o.p, flood |-> o.flood, track |-> track, acks |-> o.acks, upds |-> o.upds]
  BY ONLY <1>1, <1>3
<1>5. Awaited(o.p.areas, o.p.ext, o.p.track \cup Elems(track))
  <2> DEFINE T == o.p.track \cup Elems(o.track)
             U == o.p.track \cup Elems(track)
  <2>1. T \subseteq U /\ Awaited(o.p.areas, o.p.ext, T)
    BY <1>2, <1>3
  <2> HIDE DEF T, U
  <2>2. Awaited(o.p.areas, o.p.ext, U)
    BY <2>1, MoreAwaited
  <2> QED
    BY <2>2 DEF U
<1>7. Recv(r, p, id) /\ r.p = o.p
  BY <1>2, <1>3, <1>4, <1>5, RecvOf, SelfAdvanced
<1>8. r.track = track
  BY ONLY <1>4
<1> QED
  BY <1>6, <1>7, <1>8 DEF TracksLsa, r
-----------------------------------------------------------------------------
(* What a neighbor acknowledges is retransmitted no more.                  *)
Forgotten(r, o, p, id, n) ==
  Recv(r, p, id) /\ SameBase(o, r) /\ r.p.nbrs[n].area = o.p.nbrs[n].area

(* An LSA need not be retransmitted to the neighbor any more.              *)
LEMMA ForgetRecv ==
  ASSUME NEW id, NEW p, NEW o, Recv(o, p, id), NEW n \in DOMAIN p.nbrs, NEW key
  PROVE  Forgotten(Forget(o, n, key), o, p, id, n)
<1> DEFINE nb == o.p.nbrs[n]
           left == Drop(nb.retransmission, key)
           less == [nb EXCEPT !.retransmission = left]
           nbrs == [o.p.nbrs EXCEPT ![n] = less]
           q == [o.p EXCEPT !.nbrs = nbrs]
           r == [o EXCEPT !.p = q]
<1>1. Forget(o, n, key) = r
  BY DEF Forget
<1>2. /\ IsNbr(nb, id, n)
      /\ nb = [area |-> nb.area, leader |-> nb.leader, state |-> nb.state,
               retransmission |-> nb.retransmission, summary |-> nb.summary,
               request |-> nb.request]
  BY DEF Recv, IsProc, IsNbrs, Advanced, IsNbr
<1>3. less = [nb EXCEPT !.retransmission = left] /\ nb = o.p.nbrs[n]
  OBVIOUS
<1>4. nbrs = [o.p.nbrs EXCEPT ![n] = less] /\ q = [o.p EXCEPT !.nbrs = nbrs] /\ r = [o EXCEPT !.p = q]
  OBVIOUS
<1>5. IsLsas(left)
  BY <1>2, LsasPart DEF IsNbr, Drop
<1> SUFFICES Forgotten(r, o, p, id, n)
  BY <1>1
<1> HIDE DEF nb, left, less, nbrs, q, r
<1>6. less = [area |-> nb.area, leader |-> nb.leader, state |-> nb.state,
              retransmission |-> left, summary |-> nb.summary, request |-> nb.request]
  BY ONLY <1>2, <1>3
<1>7. /\ less.area = nb.area /\ less.leader = nb.leader /\ less.state = nb.state
      /\ less.retransmission = left /\ less.summary = nb.summary /\ less.request = nb.request
      /\ less = [area |-> less.area, leader |-> less.leader, state |-> less.state,
                 retransmission |-> less.retransmission, summary |-> less.summary,
                 request |-> less.request]
  BY ONLY <1>6
<1>8. IsNext(less, nb, id, n)
  BY <1>2, <1>5, <1>7 DEF IsNbr, IsNext, NotBack
<1>9. Recv(r, p, id) /\ NbrIs(r.p, o.p, id, n, less)
  <2>1. IsNext(less, o.p.nbrs[n], id, n)
    BY <1>3, <1>8
  <2>2. nbrs = [o.p.nbrs EXCEPT ![n] = less]
    BY <1>4
  <2>3. q = [o.p EXCEPT !.nbrs = nbrs]
    BY <1>4
  <2>4. r = [o EXCEPT !.p = q]
    BY <1>4
  <2> QED
    BY ONLY Recv(o, p, id), n \in DOMAIN p.nbrs, <2>1, <2>2, <2>3, <2>4, NbrRecv
<1>10. SameBase(o, r)
  BY <1>9 DEF NbrIs, SameBase, IsProc, IsShape, Recv
<1>11. nb = o.p.nbrs[n] /\ less.area = nb.area /\ r.p.nbrs[n] = less
  BY ONLY <1>3, <1>7, <1>9 DEF NbrIs
<1>12. r.p.nbrs[n].area = o.p.nbrs[n].area
  BY ONLY <1>11
<1> QED
  BY <1>9, <1>10, <1>12 DEF Forgotten

(* The neighbor's area is one of the router's areas.                       *)
LEMMA AreaOf ==
  ASSUME NEW id, NEW p, NEW o, Recv(o, p, id), NEW n \in DOMAIN p.nbrs
  PROVE  o.p.nbrs[n].area \in Areas /\ IsDatabase(o.p, id) /\ o.p.id = id
BY ProcDatabase DEF Recv, IsProc, IsNbrs, Advanced, IsBase, IsDatabase, IsShape

(* An LSA of another router is installed and flooded on, and tracked if it *)
(* is dead.                                                                *)
LEMMA InstallRecv ==
  ASSUME NEW id, NEW p, NEW o, Recv(o, p, id), NEW n \in DOMAIN p.nbrs,
         NEW l, IsLsa(l), l.key.router # id, NEW requested
  PROVE  Recv(Install(o, n, l, requested), p, id)
<1> DEFINE a == o.p.nbrs[n].area
           f == FloodFrom(o, n, l)
           fn == Forget(f, n, l.key)
           none == {}
           t == Track(fn, n, l.key, none)
           k == IF l.dead THEN t ELSE fn
           q == Insert(k.p, l, a)
           s == [k EXCEPT !.p = q]
           e == [area |-> a, key |-> l.key, after |-> none]
<1>1. Install(o, n, l, requested) = IF requested THEN s ELSE Acknowledge(s, l)
  BY DEF Install
<1>2. Recv(f, p, id) /\ f.p = o.p
  BY FloodFromRecv
<1>3. Forgotten(fn, f, p, id, n)
  BY <1>2, ForgetRecv
<1>4. fn.p.nbrs[n].area = a /\ Recv(fn, p, id)
  BY <1>2, <1>3 DEF Forgotten
<1>5. a \in Areas
  BY AreaOf
<1>6. IsTrack(e, id)
  BY <1>5, LsasFew, KeyFacts DEF IsTrack, IsEdit
<1>7. t = Track(fn, n, l.key, none) /\ e = [area |-> a, key |-> l.key, after |-> none]
      /\ k = (IF l.dead THEN t ELSE fn) /\ q = Insert(k.p, l, a) /\ s = [k EXCEPT !.p = q]
  OBVIOUS
<1> HIDE DEF a, f, fn, none, t, e, k, q, s
<1>8. Recv(t, p, id) /\ t.p = fn.p /\ TracksLsa(t.track, l.key, a)
  <2>1. IsTrack([area |-> fn.p.nbrs[n].area, key |-> l.key, after |-> none], id)
    BY <1>4, <1>6, <1>7
  <2>2. /\ Recv(Track(fn, n, l.key, none), p, id) /\ Track(fn, n, l.key, none).p = fn.p
        /\ TracksLsa(Track(fn, n, l.key, none).track, l.key, fn.p.nbrs[n].area)
    BY <1>4, <2>1, TrackRecv
  <2> QED
    BY <1>4, <1>7, <2>2
<1>9. Recv(k, p, id) /\ (l.dead = TRUE => TracksLsa(k.track, l.key, a))
  BY <1>4, <1>7, <1>8
<1>10. IsDatabase(k.p, id)
  BY <1>9, AreaOf
<1>11. IsDatabase(q, id) /\ SameRest(k.p, q) /\ DeadFrom(k.p, q, l, a)
  BY <1>5, <1>7, <1>10, InsertFacts
<1> DEFINE X == Elems(k.track)
<1>12. l.dead = TRUE => \E x \in X : x.key = l.key /\ x.area = a
  BY <1>9 DEF TracksLsa
<1>13. Owes(k.p, q, X)
  BY <1>11, <1>12, InsertOwes
<1>14. Recv(s, p, id)
  BY <1>7, <1>9, <1>11, <1>13, DataRecv
<1> QED
  BY <1>1, <1>14, AcknowledgeRecv
-----------------------------------------------------------------------------
(* It makes no difference whether the state changes first or last.         *)
IsRecord(o) ==
  o = [p |-> o.p, flood |-> o.flood, track |-> o.track, acks |-> o.acks, upds |-> o.upds]

RecordIs(o, p, flood, track, acks, upds) ==
  o = [p |-> p, flood |-> flood, track |-> track, acks |-> acks, upds |-> upds]

(* The parts of two records that agree                                     *)
LEMMA RecordParts ==
  ASSUME NEW o, NEW p, NEW flood, NEW track, NEW acks, NEW upds,
         RecordIs(o, p, flood, track, acks, upds)
  PROVE  /\ o.p = p /\ o.flood = flood /\ o.track = track /\ o.acks = acks /\ o.upds = upds
         /\ IsRecord(o)
         /\ \A q : RecordIs([o EXCEPT !.p = q], q, flood, track, acks, upds)
         /\ \A x : RecordIs([o EXCEPT !.flood = x], p, x, track, acks, upds)
         /\ \A x : RecordIs([o EXCEPT !.track = x], p, flood, x, acks, upds)
         /\ \A x : RecordIs([o EXCEPT !.upds = x], p, flood, track, acks, x)
<1>1. o.p = p /\ o.flood = flood /\ o.track = track /\ o.acks = acks /\ o.upds = upds
  BY DEF RecordIs
<1>2. IsRecord(o)
  BY DEF RecordIs, IsRecord
<1>3. \A q : RecordIs([o EXCEPT !.p = q], q, flood, track, acks, upds)
  BY DEF RecordIs
<1>4. \A x : RecordIs([o EXCEPT !.flood = x], p, x, track, acks, upds)
  BY DEF RecordIs
<1>5. \A x : RecordIs([o EXCEPT !.track = x], p, flood, x, acks, upds)
  BY DEF RecordIs
<1>6. \A x : RecordIs([o EXCEPT !.upds = x], p, flood, track, acks, x)
  BY DEF RecordIs
<1> QED
  BY <1>1, <1>2, <1>3, <1>4, <1>5, <1>6

Published3(o, n, m, key, after) ==
  Track(SendBack(FloodFrom(o, n, m), <<m>>), n, key, after)

(* A new instance of an own LSA is flooded, sent back and tracked.         *)
LEMMA PublishedIs ==
  ASSUME NEW o, IsRecord(o), NEW n, NEW m, NEW key, NEW after, NEW a, a = o.p.nbrs[n].area
  PROVE  RecordIs(Published3(o, n, m, key, after), o.p,
                  Append(o.flood, [lsa |-> m, area |-> a, except |-> n]),
                  Append(o.track, [area |-> a, key |-> key, after |-> after]),
                  o.acks, o.upds \o <<m>>)
<1> DEFINE F == Append(o.flood, [lsa |-> m, area |-> a, except |-> n])
           U == o.upds \o <<m>>
           T == Append(o.track, [area |-> a, key |-> key, after |-> after])
           f == FloodFrom(o, n, m)
           b == SendBack(f, <<m>>)
<1>1. f = [o EXCEPT !.flood = F]
  BY DEF FloodFrom
<1>2. b = [f EXCEPT !.upds = f.upds \o <<m>>]
  BY DEF SendBack
<1>3. Published3(o, n, m, key, after)
        = [b EXCEPT !.track = Append(b.track, [area |-> b.p.nbrs[n].area, key |-> key, after |-> after])]
  BY DEF Published3, Track
<1>4. U = o.upds \o <<m>> /\ T = Append(o.track, [area |-> a, key |-> key, after |-> after])
  OBVIOUS
<1> SUFFICES RecordIs(Published3(o, n, m, key, after), o.p, F, T, o.acks, U)
  OBVIOUS
<1> HIDE DEF F, U, T, f, b
<1>5. RecordIs(o, o.p, o.flood, o.track, o.acks, o.upds)
  BY DEF RecordIs, IsRecord
<1>6. RecordIs(f, o.p, F, o.track, o.acks, o.upds)
  BY <1>1, <1>5, RecordParts
<1>7. f.upds = o.upds
  BY <1>6, RecordParts
<1>8. RecordIs(b, o.p, F, o.track, o.acks, U)
  <2>1. b = [f EXCEPT !.upds = U]
    BY <1>2, <1>4, <1>7
  <2>2. RecordIs([f EXCEPT !.upds = U], o.p, F, o.track, o.acks, U)
    BY <1>6, RecordParts
  <2> QED
    BY ONLY <2>1, <2>2
<1>9. b.p = o.p /\ b.track = o.track
  BY <1>8, RecordParts
<1>10. Published3(o, n, m, key, after) = [b EXCEPT !.track = T]
  BY <1>3, <1>4, <1>9
<1>11. RecordIs([b EXCEPT !.track = T], o.p, F, T, o.acks, U)
  BY <1>8, RecordParts
<1> QED
  BY ONLY <1>10, <1>11

(* That does not depend on the database, which may be set before or after. *)
LEMMA PublishedLast ==
  ASSUME NEW o, IsRecord(o), NEW n, NEW m, NEW key, NEW after,
         NEW q, q.nbrs = o.p.nbrs, NEW x, x = [o EXCEPT !.p = q]
  PROVE  Published3(x, n, m, key, after) = [Published3(o, n, m, key, after) EXCEPT !.p = q]
<1> DEFINE a == o.p.nbrs[n].area
           F == Append(o.flood, [lsa |-> m, area |-> a, except |-> n])
           U == o.upds \o <<m>>
           T == Append(o.track, [area |-> a, key |-> key, after |-> after])
<1>1. RecordIs(o, o.p, o.flood, o.track, o.acks, o.upds)
  BY DEF RecordIs, IsRecord
<1>2. RecordIs(x, q, o.flood, o.track, o.acks, o.upds)
  BY <1>1, RecordParts
<1>3. IsRecord(x) /\ x.p = q /\ x.flood = o.flood /\ x.track = o.track /\ x.acks = o.acks /\ x.upds = o.upds
  BY <1>2, RecordParts
<1>4. RecordIs(Published3(o, n, m, key, after), o.p, F, T, o.acks, U)
  BY PublishedIs
<1>5. RecordIs(Published3(x, n, m, key, after), x.p, Append(x.flood, [lsa |-> m, area |-> a, except |-> n]),
               Append(x.track, [area |-> a, key |-> key, after |-> after]), x.acks, x.upds \o <<m>>)
  BY <1>3, PublishedIs
<1>6. RecordIs(Published3(x, n, m, key, after), q, F, T, o.acks, U)
  BY <1>3, <1>5
<1> HIDE DEF F, U, T
<1>7. RecordIs([Published3(o, n, m, key, after) EXCEPT !.p = q], q, F, T, o.acks, U)
  BY <1>4, RecordParts
<1> QED
  BY <1>6, <1>7 DEF RecordIs

(* An own LSA that is to be flushed is inserted and tracked.               *)
LEMMA FlushRecv ==
  ASSUME NEW id, NEW p, NEW o, Recv(o, p, id), NEW n \in DOMAIN p.nbrs, NEW a, a = o.p.nbrs[n].area,
         NEW m, IsLsa(m), NEW key, m.key = key, NEW after,
         IsTrack([area |-> a, key |-> key, after |-> after], id),
         NEW x, x = [o EXCEPT !.p = Insert(o.p, m, a)]
  PROVE  Recv(Published3(x, n, m, key, after), p, id)
<1> DEFINE q == Insert(o.p, m, a)
           f == FloodFrom(o, n, m)
           ls == <<m>>
           b == SendBack(f, ls)
           c == Track(b, n, key, after)
           d == [c EXCEPT !.p = q]
<1>1. Recv(f, p, id) /\ f.p = o.p
  BY FloodFromRecv
<1>2. IsLsaSeq(ls)
  BY LsaSeqFacts
<1>3. c = Published3(o, n, m, key, after) /\ d = [c EXCEPT !.p = q] /\ q = Insert(o.p, m, a)
      /\ x = [o EXCEPT !.p = q] /\ b = SendBack(f, ls) /\ c = Track(b, n, key, after)
  BY DEF Published3
<1> HIDE DEF q, f, ls, b, c, d
<1>4. Recv(b, p, id) /\ b.p = o.p
  BY <1>1, <1>2, <1>3, SendBackRecv
<1>5. Recv(c, p, id) /\ c.p = o.p /\ TracksLsa(c.track, key, a)
  <2>1. IsTrack([area |-> b.p.nbrs[n].area, key |-> key, after |-> after], id)
    BY <1>4
  <2>2. /\ Recv(Track(b, n, key, after), p, id) /\ Track(b, n, key, after).p = b.p
        /\ TracksLsa(Track(b, n, key, after).track, key, b.p.nbrs[n].area)
    BY <1>4, <2>1, TrackRecv
  <2> QED
    BY <1>3, <1>4, <2>2
<1>6. a \in Areas /\ IsDatabase(o.p, id)
  BY AreaOf
<1>7. IsDatabase(q, id) /\ SameRest(o.p, q) /\ DeadFrom(o.p, q, m, a)
  BY <1>3, <1>6, InsertFacts
<1> DEFINE X == Elems(c.track)
<1>8. m.dead = TRUE => \E t \in X : t.key = m.key /\ t.area = a
  BY <1>5 DEF TracksLsa
<1>9. Owes(c.p, q, X) /\ SameRest(c.p, q)
  <2>1. m.dead = TRUE => \E t \in X : t.key = m.key /\ t.area = a
    BY ONLY <1>8
  <2>3. IsDatabase(q, id) /\ DeadFrom(o.p, q, m, a)
    BY <1>7
  <2> HIDE DEF X
  <2>2. Owes(o.p, q, X)
    BY ONLY <2>1, <2>3, InsertOwes
  <2> QED
    BY <1>5, <1>7, <2>2
<1>10. Recv(d, p, id)
  BY <1>3, <1>5, <1>7, <1>9, DataRecv
<1>11. Published3(x, n, m, key, after) = d
  <2>1. IsRecord(o)
    BY DEF Recv, IsRecord
  <2>2. q.nbrs = o.p.nbrs /\ x = [o EXCEPT !.p = q]
    BY <1>3, <1>7 DEF SameRest
  <2>3. Published3(x, n, m, key, after) = [Published3(o, n, m, key, after) EXCEPT !.p = q]
    BY <2>1, <2>2, PublishedLast
  <2> QED
    BY <1>3, <2>3
<1> QED
  BY <1>10, <1>11
-----------------------------------------------------------------------------
(* Our own LSA came back: it is superseded, or flushed.                    *)
LEMMA SelfOriginatedRecv ==
  ASSUME NEW id, NEW p, NEW o, Recv(o, p, id), NEW n \in DOMAIN p.nbrs, NEW l, IsLsa(l),
         NEW old, old = Stored(o.p, l.key, o.p.nbrs[n].area)
  PROVE  Recv(SelfOriginated(o, n, l, old), p, id)
<1> DEFINE a == o.p.nbrs[n].area
           own == The(old)
           aged == Aged(own)
           next == [own EXCEPT !.seq = l.seq + 1]
           flushed == [l EXCEPT !.dead = TRUE]
           again == [own EXCEPT !.seq = 0, !.dead = FALSE]
           none == {}
           one == {again}
           x(q) == [o EXCEPT !.p = q]
           r == SelfOriginated(o, n, l, old)
<1>1. \/ old = {} /\ r = Published3(x(Insert(o.p, flushed, a)), n, flushed, l.key, none)
      \/ old # {} /\ r = Published3(x(Insert(o.p, aged, a)), n, aged, l.key, one)
      \/ old # {} /\ r = SendBack(FloodFrom(x(SetSeq(o.p, next, a)), n, next), <<next>>)
  BY DEF SelfOriginated, Published3
<1>2. a \in Areas /\ IsDatabase(o.p, id) /\ a \in DOMAIN o.p.areas
  BY AreaOf DEF Recv, IsProc, IsNbrs, Advanced
<1>3. \A q, y : y = q => x(q) = [o EXCEPT !.p = y]
  OBVIOUS
<1>4. /\ none = {} /\ one = {again} /\ own = The(old)
      /\ old = Stored(o.p, l.key, a) /\ a = o.p.nbrs[n].area
  OBVIOUS
<1>9. aged = [own EXCEPT !.seq = MaxSeq, !.dead = TRUE]
  BY DEF Aged
<1>10. next = [own EXCEPT !.seq = l.seq + 1]
  OBVIOUS
<1>11. flushed = [l EXCEPT !.dead = TRUE]
  OBVIOUS
<1>12. again = [own EXCEPT !.seq = 0, !.dead = FALSE]
  OBVIOUS
<1> SUFFICES Recv(r, p, id)
  OBVIOUS
<1> HIDE DEF a, own, aged, next, flushed, again, none, one, x, r
<1>5. CASE old = {} /\ r = Published3(x(Insert(o.p, flushed, a)), n, flushed, l.key, none)
  <2>1. l = [key |-> l.key, seq |-> l.seq, dead |-> l.dead, links |-> l.links]
    BY DEF IsLsa
  <2>2. flushed = [key |-> l.key, seq |-> l.seq, dead |-> TRUE, links |-> l.links]
    BY ONLY <1>11, <2>1
  <2>3. LsaIs(flushed, l.key, l.seq, TRUE)
    BY <2>2, LsaMade
  <2>4. l.key # RouterKey(id)
    BY <1>2, <1>4, <1>5, StoredFacts
  <2>5. IsTrack([area |-> a, key |-> l.key, after |-> none], id)
    <3>1. IsLsas(none) /\ \A m : m \notin none
      BY <1>4, LsasFew
    <3> QED
      BY <1>2, <2>4, <3>1 DEF IsTrack, IsEdit
  <2> DEFINE y == x(Insert(o.p, flushed, a))
  <2>6. y = [o EXCEPT !.p = Insert(o.p, flushed, a)]
    BY <1>3
  <2>8. IsLsa(flushed) /\ flushed.key = l.key /\ a = o.p.nbrs[n].area
    BY <1>4, <2>3 DEF LsaIs
  <2> HIDE DEF y
  <2>9. Recv(Published3(y, n, flushed, l.key, none), p, id)
    BY ONLY Recv(o, p, id), n \in DOMAIN p.nbrs, <2>5, <2>6, <2>8, FlushRecv
  <2>7. Recv(Published3(x(Insert(o.p, flushed, a)), n, flushed, l.key, none), p, id)
    BY <2>9 DEF y
  <2> QED
    BY <1>5, <2>7
<1>6. ASSUME old # {}
      PROVE  /\ IsLsa(own) /\ own.key = l.key /\ own.dead \in BOOLEAN
             /\ own = [key |-> l.key, seq |-> own.seq, dead |-> own.dead, links |-> own.links]
             /\ l.key.type = External => own \in o.p.ext
             /\ l.key.type # External => own \in o.p.areas[a].lsas
  <2>1. own \in old
    BY <1>4, <1>6, TheOf
  <2>2. \A m \in old : /\ IsLsa(m) /\ m.key = l.key /\ (l.key.type = External => m \in o.p.ext)
                      /\ (l.key.type # External => m \in o.p.areas[a].lsas)
    <3>2. IsDatabase(o.p, id)
      BY <1>2
    <3>1. \A m \in Stored(o.p, l.key, a) :
             /\ IsLsa(m) /\ m.key = l.key /\ (l.key.type = External => m \in o.p.ext)
             /\ (l.key.type # External => m \in o.p.areas[a].lsas)
      BY ONLY <3>2, StoredFacts
    <3> QED
      BY <1>4, <3>1
  <2>3. IsLsa(own) /\ own.key = l.key
    BY <2>1, <2>2
  <2> QED
    BY <2>1, <2>2, <2>3 DEF IsLsa
<1>7. CASE old # {} /\ r = Published3(x(Insert(o.p, aged, a)), n, aged, l.key, one)
  <2>1. own = [key |-> own.key, seq |-> own.seq, dead |-> own.dead, links |-> own.links]
    BY <1>6, <1>7 DEF IsLsa
  <2>10. own.key = l.key
    BY <1>6, <1>7
  <2>2. aged = [key |-> own.key, seq |-> MaxSeq, dead |-> TRUE, links |-> own.links]
    BY <1>9, <2>1
  <2>3. again = [key |-> own.key, seq |-> 0, dead |-> FALSE, links |-> own.links]
    BY <1>12, <2>1
  <2>4. LsaIs(aged, l.key, MaxSeq, TRUE) /\ LsaIs(again, l.key, 0, FALSE)
    BY <2>2, <2>3, <2>10, LsaMade
  <2>5. IsTrack([area |-> a, key |-> l.key, after |-> one], id)
    <3>1. IsLsas(one) /\ \A m \in one : m.key = l.key /\ m.dead = FALSE
      BY <1>4, <2>4, LsasFew DEF LsaIs
    <3>2. one # {}
      BY <1>4
    <3> QED
      BY <1>2, <3>1, <3>2 DEF IsTrack, IsEdit
  <2> DEFINE y == x(Insert(o.p, aged, a))
  <2>6. y = [o EXCEPT !.p = Insert(o.p, aged, a)]
    BY <1>3
  <2>8. IsLsa(aged) /\ aged.key = l.key /\ a = o.p.nbrs[n].area
    BY <1>4, <2>4 DEF LsaIs
  <2> HIDE DEF y
  <2>9. Recv(Published3(y, n, aged, l.key, one), p, id)
    BY ONLY Recv(o, p, id), n \in DOMAIN p.nbrs, <2>5, <2>6, <2>8, FlushRecv
  <2>7. Recv(Published3(x(Insert(o.p, aged, a)), n, aged, l.key, one), p, id)
    BY <2>9 DEF y
  <2> QED
    BY <1>7, <2>7
<1>8. CASE old # {} /\ r = SendBack(FloodFrom(x(SetSeq(o.p, next, a)), n, next), <<next>>)
  <2> DEFINE q == SetSeq(o.p, next, a)
  <2>1. own = [key |-> l.key, seq |-> own.seq, dead |-> own.dead, links |-> own.links]
        /\ own.dead \in BOOLEAN
    BY <1>6, <1>8
  <2>2. next = [key |-> l.key, seq |-> l.seq + 1, dead |-> own.dead, links |-> own.links]
    BY ONLY <1>10, <2>1
  <2>3. IsLsa(next) /\ next.key = l.key /\ next.dead = own.dead
    BY <2>1, <2>2, LsaMade DEF LsaIs
  <2>4. IsDatabase(q, id) /\ SameRest(o.p, q) /\ DeadFrom(o.p, q, next, a)
    BY <1>2, <2>3, SetSeqFacts
  <2> HIDE DEF q
  <2>5. (\A m \in q.ext : m.key.type = External)
        /\ \A b \in DOMAIN q.areas : \A m \in q.areas[b].lsas : m.key.type # External
    BY <2>4 DEF IsDatabase, IsBase, IsArea
  <2>6. Owes(o.p, q, none)
    BY <1>2, <1>6, <1>8, <2>3, <2>4, <2>5 DEF DeadFrom, Owes
  <2>7. Recv(x(q), p, id)
    BY <1>3, <1>4, <2>4, <2>6, DataRecv
  <2>8. Recv(FloodFrom(x(q), n, next), p, id)
    BY <2>3, <2>7, FloodFromRecv
  <2>9. IsLsaSeq(<<next>>)
    BY <2>3, LsaSeqFacts
  <2>10. Recv(SendBack(FloodFrom(x(q), n, next), <<next>>), p, id)
    BY <2>8, <2>9, SendBackRecv
  <2> QED
    BY <1>8, <2>10 DEF q
<1> QED
  BY <1>1, <1>5, <1>7, <1>8

(* The LSA is newer than ours, older, or the same.                         *)
LEMMA ComparedRecv ==
  ASSUME NEW id, NEW p, NEW o, Recv(o, p, id), NEW n \in DOMAIN p.nbrs, NEW l, IsLsa(l),
         NEW old, old = Stored(o.p, l.key, o.p.nbrs[n].area), NEW requested
  PROVE  Recv(Compared(o, n, l, old, requested), p, id)
<1> DEFINE r == Compared(o, n, l, old, requested)
           back == <<The(old)>>
<1>1. \/ r = SelfOriginated(o, n, l, old)
      \/ l.key.router # o.p.id /\ r = Install(o, n, l, requested)
      \/ r = o
      \/ r = Acknowledge(Forget(o, n, l.key), l)
      \/ old # {} /\ r = SendBack(o, back)
  BY DEF Compared
<1>2. o.p.id = id /\ IsDatabase(o.p, id)
  BY AreaOf
<1>3. old # {} => IsLsaSeq(back)
  BY <1>2, TheOf, StoredFacts, LsaSeqFacts
<1> SUFFICES Recv(r, p, id)
  OBVIOUS
<1> HIDE DEF r, back
<1>4. CASE r = SelfOriginated(o, n, l, old)
  BY <1>4, SelfOriginatedRecv
<1>5. CASE l.key.router # o.p.id /\ r = Install(o, n, l, requested)
  BY <1>2, <1>5, InstallRecv
<1>6. CASE r = Acknowledge(Forget(o, n, l.key), l)
  <2>1. Recv(Forget(o, n, l.key), p, id)
    BY ForgetRecv DEF Forgotten
  <2> QED
    BY <1>6, <2>1, AcknowledgeRecv
<1>7. CASE old # {} /\ r = SendBack(o, back)
  BY <1>3, <1>7, SendBackRecv
<1> QED
  BY <1>1, <1>4, <1>5, <1>6, <1>7

(* recv_lsa: whatever becomes of the LSA, the process is one that          *)
(* receives.                                                               *)
LEMMA RecvLsaRecv ==
  ASSUME NEW id, NEW p, NEW o, Recv(o, p, id), NEW n \in DOMAIN p.nbrs, NEW l, IsLsa(l), NEW partial
  PROVE  Recv(RecvLsa(o, n, l, partial), p, id)
<1> DEFINE nb == o.p.nbrs[n]
           old == Stored(o.p, l.key, nb.area)
           new == Loaded(o, n, l)
           c == Compared(new, n, l, old, Requested(nb, l))
<1>1. RecvLsa(o, n, l, partial) = Acknowledge(o, l) \/ RecvLsa(o, n, l, partial) = c
  BY DEF RecvLsa
<1>2. Recv(new, p, id) /\ SameBase(o, new)
  BY LoadedRecv
<1>3. old = Stored(new.p, l.key, new.p.nbrs[n].area)
  <2>1. new.p.nbrs[n].area = p.nbrs[n].area /\ nb.area = p.nbrs[n].area
    BY <1>2 DEF Recv, Advanced, NotBack
  <2> QED
    BY <1>2, <2>1 DEF SameBase, Stored
<1> HIDE DEF nb, old, new
<1>4. Recv(c, p, id)
  BY <1>2, <1>3, ComparedRecv
<1> QED
  BY <1>1, <1>4, AcknowledgeRecv
-----------------------------------------------------------------------------
(* The outcome of an event; a neighbor that is told more is not in Init.   *)
Moved(o, p, id) == IsOut(o, id, {}) /\ Advanced(o.p.nbrs, p.nbrs)

(* Acknowledgments and updates that are sent back are messages.            *)
LEMMA SendRaws ==
  ASSUME NEW kind \in Listed, NEW ls, IsLsaSeq(ls)
  PROVE  IsRaws(IF ls = << >> THEN << >> ELSE <<Message(kind, ls)>>)
<1> DEFINE m == Message(kind, ls)
<1>1. m.kind = kind /\ m.lsas = ls /\ m = [kind |-> m.kind, lsas |-> m.lsas]
  BY DEF Message
<1>2. IsSeq(ls) /\ \A i \in 1 .. Len(ls) : IsLsa(ls[i])
  BY DEF IsLsaSeq, Elems
<1>3. IsRaw(m)
  BY <1>1, <1>2 DEF IsRaw, Listed, Kinds
<1> HIDE DEF m
<1>4. IsRaws(<<m>>)
  BY <1>3, SeqOne DEF RawsElems, IsRaws
<1>5. IsRaws(<< >>)
  BY SeqEmpty DEF IsRaws
<1> QED
  BY <1>4, <1>5 DEF m

(* The replies to an update                                                *)
LEMMA ReplyMoved ==
  ASSUME NEW id, NEW p, NEW o, Recv(o, p, id), NEW n \in Routers
  PROVE  Moved(Reply(o, n), p, id)
<1> DEFINE acks == IF o.acks = << >> THEN << >> ELSE <<Message("LinkStateAck", o.acks)>>
           upds == IF o.upds = << >> THEN << >> ELSE <<Message("LinkStateUpdate", o.upds)>>
           ms == acks \o upds
           none == [k \in Routers |-> << >>]
           events == [none EXCEPT ![n] = ms]
           q == o.p
           flood == o.flood
           track == o.track
           base == [p |-> q, events |-> none, flood |-> << >>, track |-> << >>]
           r == Reply(o, n)
<1>1. r = [base EXCEPT !.flood = flood, !.track = track, !.events[n] = ms]
  BY DEF Reply, Outcome
<1>2. base = [p |-> q, events |-> none, flood |-> << >>, track |-> << >>]
      /\ events = [none EXCEPT ![n] = ms]
  OBVIOUS
<1>3. IsRaws(acks) /\ IsRaws(upds)
  BY SendRaws DEF Recv, Listed
<1>4. /\ events = [k \in Routers |-> events[k]] /\ events[n] = ms
      /\ \A k \in Routers : k # n => events[k] = << >>
  OBVIOUS
<1>5. ms = acks \o upds
  OBVIOUS
<1>6. IsProc(q, id) /\ Advanced(q.nbrs, p.nbrs) /\ IsFloods(flood) /\ IsTracks(track, id)
      /\ Awaited(q.areas, q.ext, q.track \cup Elems(track))
  BY DEF Recv
<1> SUFFICES Moved(r, p, id)
  OBVIOUS
<1> HIDE DEF acks, upds, ms, none, events, q, flood, track, base, r
<1>7. r = [p |-> q, events |-> events, flood |-> flood, track |-> track]
  BY <1>1, <1>2
<1>8. r.p = q /\ r.events = events /\ r.flood = flood /\ r.track = track
      /\ r = [p |-> r.p, events |-> r.events, flood |-> r.flood, track |-> r.track]
  BY ONLY <1>7
<1>9. IsRaws(ms)
  BY <1>3, <1>5, SeqJoin, RawsElems
<1>10. IsEvents(events)
  BY <1>4, <1>9, SeqEmpty DEF IsEvents, IsRaws
<1>11. IsLists(r, id)
  BY <1>6, <1>8 DEF IsLists, IsFloods, IsTracks, Elems
<1>12. Awaited(q.areas, q.ext, q.track \cup {} \cup Elems(track))
  BY <1>6, MoreAwaited
<1>13. IsOut(r, id, {})
  BY <1>6, <1>8, <1>10, <1>11, <1>12 DEF IsOut
<1> QED
  BY <1>6, <1>8, <1>13 DEF Moved

(* recv_update                                                             *)
LEMMA UpdateMoved ==
  ASSUME NEW id, NEW p, IsProc(p, id), Awaited(p.areas, p.ext, p.track),
         NEW n \in DOMAIN p.nbrs, NEW lsas, IsLsas(lsas), NEW partial
  PROVE  Moved(RecvUpdate(p, n, lsas, partial), p, id)
<1> DEFINE N == Cardinality(lsas)
<1>1. N \in Nat
  BY FS_CardinalityType DEF IsLsas
<1>2. PICK fn : IsUpdateFold(fn, p, n, lsas, partial, N) /\ RecvUpdate(p, n, lsas, partial) = Reply(fn[N], n)
  BY <1>1, UpdateFold
<1>3. Recv(fn[0], p, id)
  <2> DEFINE o == Received(p)
             empty == << >>
  <2>1. o = [p |-> p, flood |-> empty, track |-> empty, acks |-> empty, upds |-> empty]
    BY DEF Received
  <2>2. fn[0] = o
    BY <1>2 DEF IsUpdateFold
  <2>3. IsFloods(empty) /\ IsTracks(empty, id) /\ IsLsaSeq(empty) /\ Elems(empty) = {}
    BY SeqEmpty, LsaSeqFacts DEF IsFloods, IsTracks
  <2> HIDE DEF o, empty
  <2>4. o.p = p /\ o.flood = empty /\ o.track = empty /\ o.acks = empty /\ o.upds = empty
        /\ o = [p |-> o.p, flood |-> o.flood, track |-> o.track, acks |-> o.acks, upds |-> o.upds]
    BY ONLY <2>1
  <2>5. Awaited(p.areas, p.ext, p.track \cup Elems(empty))
    BY <2>3, MoreAwaited
  <2>6. Recv(o, p, id)
    BY <2>3, <2>4, <2>5, SelfAdvanced DEF Recv
  <2> QED
    BY <2>2, <2>6
<1>4. ASSUME NEW k \in 0 .. N, k < N, Recv(fn[k], p, id)
      PROVE  Recv(fn[k + 1], p, id)
  <2> DEFINE ls == Ranked(lsas, k + 1)
  <2>1. k + 1 \in 1 .. N /\ (k + 1) - 1 = k
    BY <1>1, <1>4
  <2>2. fn[k + 1] = NextReceived(fn[k], n, ls, partial)
    BY <1>2, <2>1 DEF IsUpdateFold
  <2>3. ls \subseteq lsas
    BY DEF Ranked
  <2> HIDE DEF ls
  <2>4. CASE ls = {}
    BY <1>4, <2>2, <2>4 DEF NextReceived
  <2>5. CASE ls # {}
    <3>1. IsLsa(The(ls))
      BY <2>3, <2>5, TheOf DEF IsLsas
    <3>2. Recv(RecvLsa(fn[k], n, The(ls), partial), p, id)
      BY <1>4, <3>1, RecvLsaRecv
    <3> QED
      BY <2>2, <2>5, <3>2 DEF NextReceived
  <2> QED
    BY <2>4, <2>5
<1>5. Recv(fn[N], p, id)
  <2> DEFINE A == {k \in 0 .. N : Recv(fn[k], p, id)}
  <2>1. 0 \in A
    BY <1>1, <1>3
  <2>2. \A k \in 0 .. N : k \in A /\ k < N => k + 1 \in A
    BY <1>1, <1>4
  <2> HIDE DEF N
  <2>3. N \in A
    <3> HIDE DEF A
    <3>1. \A k \in 0 .. N : k \in A
      BY ONLY <1>1, <2>1, <2>2, UpTo
    <3> QED
      BY <1>1, <3>1
  <2> QED
    BY <2>3
<1>6. n \in Routers
  BY DEF IsProc, IsNbrs
<1> QED
  BY <1>2, <1>5, <1>6, ReplyMoved

(* The neighbor n advances and is sent messages.                           *)
LEMMA AnswerMoved ==
  ASSUME NEW id, NEW p, IsProc(p, id), Awaited(p.areas, p.ext, p.track),
         NEW n \in DOMAIN p.nbrs, NEW nb, IsNext(nb, p.nbrs[n], id, n), NEW ms, IsRaws(ms)
  PROVE  /\ Moved(Answer(p, n, nb, ms), p, id)
         /\ Answered(Answer(p, n, nb, ms), p, n, nb, ms)
<1> DEFINE o == Answer(p, n, nb, ms)
           none == {}
<1>1. n \in Routers /\ IsProcBut(p, id, n) /\ p.nbrs[n].area \in DOMAIN p.areas
  BY ProcBut DEF IsProc, IsNbrs
<1>2. IsNbr(nb, id, n) /\ nb.area \in DOMAIN p.areas
  BY <1>1 DEF IsNext, NotBack
<1>3. Awaited(p.areas, p.ext, p.track \cup none)
  BY MoreAwaited
<1> HIDE DEF none
<1>4. IsOut(Answer(p, n, nb, ms), id, none) /\ Answered(Answer(p, n, nb, ms), p, n, nb, ms)
  BY <1>1, <1>2, <1>3, AnswerOut
<1>5. Advanced(o.p.nbrs, p.nbrs)
  BY <1>4 DEF Answered, Advanced, IsNext, NotBack
<1> QED
  BY <1>4, <1>5 DEF Moved, none

(* Nothing happens.                                                        *)
LEMMA OutcomeMoved ==
  ASSUME NEW id, NEW p, IsProc(p, id), Awaited(p.areas, p.ext, p.track)
  PROVE  Moved(Outcome(p), p, id) /\ Outcome(p).p = p
<1> DEFINE none == {}
<1>1. Awaited(p.areas, p.ext, p.track \cup none)
  BY MoreAwaited
<1> HIDE DEF none
<1>2. IsOut(Outcome(p), id, none) /\ Outcome(p).p = p
  BY <1>1, OutcomeOut
<1> QED
  BY <1>2, SelfAdvanced DEF Moved, none
-----------------------------------------------------------------------------
(* A neighbor whose fields are known                                       *)
NbrIsMade(nb, a, leader, state, R, S, Q) ==
  nb = [area |-> a, leader |-> leader, state |-> state, retransmission |-> R,
        summary |-> S, request |-> Q]

StateFits(state, old, Q) ==
  /\ state \in {"Init", "Exchange", "Loading", "Full"}
  /\ state = "Init" => old.state = "Init"
  /\ state = "Exchange" => old.state = "Exchange"
  /\ state = "Full" => Q = {}

(* A neighbor of the given parts                                           *)
LEMMA NbrMade ==
  ASSUME NEW id, NEW n, NEW old, IsNbr(old, id, n), NEW state, NEW R, IsLsas(R),
         NEW S, IsLsas(S), NEW Q, StateFits(state, old, Q), NEW nb, NbrIsMade(nb, old.area, old.leader, state, R, S, Q)
  PROVE  IsNext(nb, old, id, n) /\ nb.state = state /\ nb.area = old.area
         /\ nb.retransmission = R /\ nb.summary = S /\ nb.request = Q
<1>1. /\ nb.area = old.area /\ nb.leader = old.leader /\ nb.state = state
      /\ nb.retransmission = R /\ nb.summary = S /\ nb.request = Q
      /\ nb = [area |-> nb.area, leader |-> nb.leader, state |-> nb.state,
               retransmission |-> nb.retransmission, summary |-> nb.summary,
               request |-> nb.request]
  BY DEF NbrIsMade
<1>2. IsNbr(nb, id, n)
  BY <1>1 DEF IsNbr, StateFits
<1> QED
  BY <1>1, <1>2 DEF IsNext, NotBack, StateFits

(* An update is a message,                                                 *)
LEMMA UpdRaw ==
  ASSUME NEW S, IsLsas(S)
  PROVE  IsRaw(Upd(S))
<1> DEFINE s == SetToSeq(S)
<1>1. IsSeq(s) /\ Elems(s) = S
  BY SeqOfSet DEF IsLsas
<1> HIDE DEF s
<1>2. \A i \in 1 .. Len(s) : IsLsa(s[i])
  BY <1>1 DEF Elems, IsLsas
<1>3. Upd(S) = Message("LinkStateUpdate", s)
  BY DEF Upd, s
<1>4. Upd(S) = [kind |-> "LinkStateUpdate", lsas |-> s]
  BY <1>3 DEF Message
<1>5. Upd(S).kind = "LinkStateUpdate" /\ Upd(S).lsas = s
  BY <1>4
<1> QED
  BY <1>1, <1>2, <1>4, <1>5 DEF IsRaw, Kinds, Listed

(* and so is a request.                                                    *)
LEMMA ReqRaw == \A headers : IsRaw(Req(headers))
BY DEF IsRaw, Req, Message, Kinds, Listed

(* Few messages                                                            *)
LEMMA RawsFew ==
  ASSUME NEW x, IsRaw(x), NEW y, IsRaw(y)
  PROVE  IsRaws(<<x>>) /\ IsRaws(<<x, y>>)
<1>1. IsRaws(<<x>>)
  BY SeqOne DEF IsRaws
<1> DEFINE s == <<x>>
<1>2. IsSeq(s) /\ Elems(s) = {x} /\ <<x, y>> = Append(s, y)
  BY SeqOne
<1> HIDE DEF s
<1>3. IsSeq(<<x, y>>) /\ Elems(<<x, y>>) = {x} \cup {y}
  BY <1>2, SeqAppend
<1> QED
  BY <1>1, <1>3, RawsElems

IsTransit(t, nb, id, n) ==
  IsNext(t.nb, nb, id, n) /\ t.nb.state # "Init" /\ IsRaw(t.msg)

(* The transitions of a neighbor's state: from Init to Exchange, Loading   *)
(* or Full                                                                 *)
LEMMA TransitionFacts ==
  ASSUME NEW id, NEW n, NEW nb, IsNbr(nb, id, n), NEW headers
  PROVE  IsTransit(TransitionExchange(nb, headers), nb, id, n)
<1> DEFINE Q == RequestList(nb.summary, headers)
           t == TransitionExchange(nb, headers)
           none == {}
           full == [nb EXCEPT !.request = none, !.state = "Full"]
           less == [nb EXCEPT !.request = Q, !.state = "Loading"]
<1>1. nb = [area |-> nb.area, leader |-> nb.leader, state |-> nb.state,
            retransmission |-> nb.retransmission, summary |-> nb.summary,
            request |-> nb.request]
  BY DEF IsNbr
<1>2. IsLsas(nb.retransmission) /\ IsLsas(nb.summary)
  BY DEF IsNbr
<1>3. full = [nb EXCEPT !.request = none, !.state = "Full"]
  OBVIOUS
<1>4. less = [nb EXCEPT !.request = Q, !.state = "Loading"]
  OBVIOUS
<1>5. \/ t = [nb |-> full, msg |-> Upd(nb.retransmission)]
      \/ t = [nb |-> less, msg |-> Req(Q)]
  BY DEF TransitionExchange
<1>6. none = {}
  OBVIOUS
<1> SUFFICES IsTransit(t, nb, id, n)
  OBVIOUS
<1> HIDE DEF Q, t, none, full, less
<1>7. NbrIsMade(full, nb.area, nb.leader, "Full", nb.retransmission, nb.summary, none)
  BY ONLY <1>1, <1>3 DEF NbrIsMade
<1>8. NbrIsMade(less, nb.area, nb.leader, "Loading", nb.retransmission, nb.summary, Q)
  BY ONLY <1>1, <1>4 DEF NbrIsMade
<1>12. StateFits("Full", nb, none) /\ StateFits("Loading", nb, Q)
  BY <1>6 DEF StateFits
<1>9. IsNext(full, nb, id, n) /\ full.state = "Full"
  BY <1>2, <1>7, <1>12, NbrMade
<1>10. IsNext(less, nb, id, n) /\ less.state = "Loading"
  BY <1>2, <1>8, <1>12, NbrMade
<1>11. (t.nb = full /\ t.msg = Upd(nb.retransmission)) \/ (t.nb = less /\ t.msg = Req(Q))
  BY ONLY <1>5
<1> QED
  BY <1>2, <1>9, <1>10, <1>11, UpdRaw, ReqRaw DEF IsTransit

(* The same, with the neighbor as it was before named                      *)
LEMMA AnsweredMoved ==
  ASSUME NEW id, NEW p, IsProc(p, id), Awaited(p.areas, p.ext, p.track),
         NEW n \in DOMAIN p.nbrs, NEW old, old = p.nbrs[n], NEW nb, IsNext(nb, old, id, n),
         NEW ms, IsRaws(ms), NEW o, o = Answer(p, n, nb, ms)
  PROVE  Moved(o, p, id) /\ o.p.nbrs[n] = nb
<1>1. Moved(Answer(p, n, nb, ms), p, id) /\ Answered(Answer(p, n, nb, ms), p, n, nb, ms)
  BY AnswerMoved
<1>2. Answer(p, n, nb, ms).p.nbrs[n] = nb
  BY <1>1 DEF Answered
<1> QED
  BY <1>1, <1>2

(* recv_database_description: afterwards the neighbor is not in Init.      *)
LEMMA DescriptionMoved ==
  ASSUME NEW id, NEW p, IsProc(p, id), Awaited(p.areas, p.ext, p.track),
         NEW n \in DOMAIN p.nbrs, NEW headers
  PROVE  /\ Moved(RecvDescription(p, n, headers), p, id)
         /\ RecvDescription(p, n, headers).p.nbrs[n].state # "Init"
<1> DEFINE nb == p.nbrs[n]
           S == SummaryList(p, nb.area)
           described == [nb EXCEPT !.summary = S]
           leading == TransitionExchange(nb, headers)
           following == TransitionExchange(described, headers)
           shown == IF nb.state = "Full" THEN S ELSE nb.summary
           o == RecvDescription(p, n, headers)
           lead == <<leading.msg>>
           follow == <<Desc(S), following.msg>>
           again == <<Desc(shown)>>
<1>1. \/ o = Answer(p, n, leading.nb, lead)
      \/ nb.leader /\ o = Outcome(p)
      \/ o = Answer(p, n, following.nb, follow)
      \/ nb.state # "Init" /\ o = Answer(p, n, nb, again)
  BY DEF RecvDescription
<1>2. IsNbr(nb, id, n) /\ nb.area \in DOMAIN p.areas
  BY DEF IsProc, IsNbrs
<1>3. nb = [area |-> nb.area, leader |-> nb.leader, state |-> nb.state,
            retransmission |-> nb.retransmission, summary |-> nb.summary,
            request |-> nb.request]
  BY <1>2 DEF IsNbr
<1>4. described = [nb EXCEPT !.summary = S]
  OBVIOUS
<1>5. IsLsas(S)
  BY <1>2, ProcDatabase, SummaryLsas
<1> SUFFICES Moved(o, p, id) /\ o.p.nbrs[n].state # "Init"
  OBVIOUS
<1>6. IsTransit(leading, nb, id, n)
  BY <1>2, TransitionFacts
<1>7. IsNext(described, nb, id, n)
  <2> HIDE DEF nb, described, S
  <2>1. NbrIsMade(described, nb.area, nb.leader, nb.state, nb.retransmission, S, nb.request)
    BY ONLY <1>3, <1>4 DEF NbrIsMade
  <2>2. StateFits(nb.state, nb, nb.request) /\ IsLsas(nb.retransmission)
    BY <1>2 DEF IsNbr, StateFits
  <2> QED
    BY <1>2, <1>5, <2>1, <2>2, NbrMade
<1>8. IsTransit(following, described, id, n)
  BY <1>7, TransitionFacts DEF IsNext
<1>9. nb = p.nbrs[n] /\ lead = <<leading.msg>> /\ follow = <<Desc(S), following.msg>> /\ again = <<Desc(shown)>>
  OBVIOUS
<1> HIDE DEF nb, S, described, leading, following, shown, o, lead, follow, again
<1>10. IsRaws(lead) /\ IsRaws(follow) /\ IsRaws(again)
  BY <1>6, <1>8, <1>9, RawsFew, DescRaw DEF IsTransit
<1>11. CASE o = Answer(p, n, leading.nb, lead)
  BY <1>6, <1>9, <1>10, <1>11, AnsweredMoved DEF IsTransit
<1>12. CASE o = Answer(p, n, following.nb, follow)
  <2>1. IsNext(following.nb, nb, id, n) /\ following.nb.state # "Init"
    BY <1>7, <1>8 DEF IsTransit, IsNext, NotBack
  <2> QED
    BY <2>1, <1>9, <1>10, <1>12, AnsweredMoved
<1>13. CASE nb.state # "Init" /\ o = Answer(p, n, nb, again)
  <2>1. IsNext(nb, nb, id, n)
    BY <1>2 DEF IsNext, NotBack
  <2> QED
    BY <2>1, <1>9, <1>10, <1>13, AnsweredMoved
<1>14. CASE nb.leader /\ o = Outcome(p)
  <2>1. nb.state # "Init"
    BY <1>2, <1>14 DEF IsNbr
  <2> QED
    BY <1>9, <1>14, <2>1, OutcomeMoved
<1> QED
  BY <1>1, <1>11, <1>12, <1>13, <1>14

(* A description or request is repeated.                                   *)
LEMMA RepeatMoved ==
  ASSUME NEW id, NEW p, IsProc(p, id), Awaited(p.areas, p.ext, p.track),
         NEW n \in DOMAIN p.nbrs, NEW m, IsRaw(m), NEW nb, nb = p.nbrs[n]
  PROVE  Moved(Answer(p, n, nb, <<m>>), p, id)
<1>1. IsNext(nb, p.nbrs[n], id, n)
  BY DEF IsProc, IsNbrs, IsNext, NotBack
<1>2. IsRaws(<<m>>)
  BY RawsFew
<1> QED
  BY <1>1, <1>2, AnswerMoved

(* recv_link_state_request                                                 *)
LEMMA RequestMoved ==
  ASSUME NEW id, NEW p, IsProc(p, id), Awaited(p.areas, p.ext, p.track),
         NEW n \in DOMAIN p.nbrs, NEW headers
  PROVE  Moved(RecvRequest(p, n, headers), p, id)
<1> DEFINE nb == p.nbrs[n]
           found == {l \in nb.summary : \E h \in headers : h.key = l.key}
<1>1. RecvRequest(p, n, headers) \in {Outcome(p), Answer(p, n, nb, <<Upd(found)>>)}
  BY DEF RecvRequest
<1>2. IsLsas(found)
  <2>1. IsLsas(nb.summary)
    BY DEF IsProc, IsNbrs, IsNbr
  <2> QED
    BY <2>1, LsasPart
<1> HIDE DEF found
<1>3. Moved(Answer(p, n, nb, <<Upd(found)>>), p, id)
  BY <1>2, UpdRaw, RepeatMoved
<1> QED
  BY <1>1, <1>3, OutcomeMoved

(* The last message is repeated after a timeout.                           *)
LEMMA TimeoutMoved ==
  ASSUME NEW id, NEW p, IsProc(p, id), Awaited(p.areas, p.ext, p.track), NEW n \in DOMAIN p.nbrs
  PROVE  Moved(Timeout(p, n), p, id)
<1> DEFINE nb == p.nbrs[n]
<1>1. \/ Timeout(p, n) = Answer(p, n, nb, <<Desc(nb.summary)>>)
      \/ Timeout(p, n) = Answer(p, n, nb, <<Req(nb.request)>>)
      \/ Timeout(p, n) = Answer(p, n, nb, <<Upd(nb.retransmission)>>)
      \/ Timeout(p, n) = Outcome(p)
  BY DEF Timeout
<1>2. IsLsas(nb.retransmission)
  BY DEF IsProc, IsNbrs, IsNbr
<1>3. Moved(Answer(p, n, nb, <<Desc(nb.summary)>>), p, id)
  BY DescRaw, RepeatMoved
<1>4. Moved(Answer(p, n, nb, <<Req(nb.request)>>), p, id)
  BY ReqRaw, RepeatMoved
<1>5. Moved(Answer(p, n, nb, <<Upd(nb.retransmission)>>), p, id)
  BY <1>2, UpdRaw, RepeatMoved
<1> QED
  BY <1>1, <1>3, <1>4, <1>5, OutcomeMoved

(* recv_link_state_ack: what is acknowledged is not awaited from the       *)
(* neighbor any more.                                                      *)
LEMMA AckMoved ==
  ASSUME NEW id, NEW p, IsProc(p, id), Awaited(p.areas, p.ext, p.track),
         NEW n \in DOMAIN p.nbrs, NEW lsas, NEW q, q = [p EXCEPT !.nbrs[n] = RecvAck(@, lsas)]
  PROVE  Moved(Outcome(q), p, id)
<1> DEFINE nb == p.nbrs[n]
           R == {l \in nb.retransmission : \A ack \in Find(lsas, l.key) : ~Same(l, ack)}
           new == RecvAck(nb, lsas)
           nbrs == [p.nbrs EXCEPT ![n] = new]
<1>1. q = [p EXCEPT !.nbrs = nbrs]
  OBVIOUS
<1>2. new = [nb EXCEPT !.retransmission = R]
  BY DEF RecvAck
<1>3. IsNbr(nb, id, n) /\ nb = p.nbrs[n]
  BY DEF IsProc, IsNbrs
<1>4. IsLsas(R)
  BY <1>3, LsasPart DEF IsNbr
<1>5. nbrs = [p.nbrs EXCEPT ![n] = new]
  OBVIOUS
<1> HIDE DEF nb, R, new, nbrs
<1>6. nb = [area |-> nb.area, leader |-> nb.leader, state |-> nb.state,
            retransmission |-> nb.retransmission, summary |-> nb.summary,
            request |-> nb.request]
  BY <1>3 DEF IsNbr
<1>7. NbrIsMade(new, nb.area, nb.leader, nb.state, R, nb.summary, nb.request)
  BY ONLY <1>2, <1>6 DEF NbrIsMade
<1>8. StateFits(nb.state, nb, nb.request) /\ IsLsas(nb.summary)
  BY <1>3 DEF IsNbr, StateFits
<1>9. IsNext(new, nb, id, n)
  BY <1>3, <1>4, <1>7, <1>8, NbrMade
<1>10. IsNext(new, p.nbrs[n], id, n)
  BY <1>3, <1>9
<1>11. NbrIs(q, p, id, n, new)
  BY <1>1, <1>5, <1>10, NbrSetIs
<1>12. IsProc(q, id) /\ Awaited(q.areas, q.ext, q.track) /\ Advanced(q.nbrs, p.nbrs)
  BY <1>11 DEF NbrIs
<1>13. Moved(Outcome(q), q, id) /\ Outcome(q).p = q
  BY <1>12, OutcomeMoved
<1> QED
  BY <1>12, <1>13 DEF Moved
-----------------------------------------------------------------------------
(* A router that has handled an event or a timeout                         *)
Stepped(w, p, id) ==
  /\ IsProc(w.p, id) /\ Awaited(w.p.areas, w.p.ext, w.p.track) /\ Pending(w.p)
  /\ Advanced(w.p.nbrs, p.nbrs)
  /\ \A k \in Routers : IsMsgs(w.sent[k])

(* perform_actions after an event                                          *)
LEMMA MovedStepped ==
  ASSUME NEW id, NEW p, NEW o, Moved(o, p, id), NEW w, w = PerformActions(o)
  PROVE  /\ Stepped(w, p, id)
         /\ \A n \in DOMAIN p.nbrs : w.p.nbrs[n].state = o.p.nbrs[n].state
<1>1. Performed(w, o, id)
  BY PerformedOut DEF Moved
<1>2. SameAll(w.p.nbrs, o.p.nbrs) /\ Advanced(o.p.nbrs, p.nbrs)
  BY <1>1 DEF Performed, Moved
<1>3. Advanced(w.p.nbrs, p.nbrs)
  BY <1>2 DEF SameAll, SameLinks, Advanced, NotBack
<1> QED
  BY <1>1, <1>2, <1>3 DEF Stepped, Performed, SameAll, SameLinks, Advanced

(* handle_event; a description that arrives takes the neighbor out of      *)
(* Init.                                                                   *)
LEMMA EventStepped ==
  ASSUME NEW id, NEW p, IsProc(p, id), Awaited(p.areas, p.ext, p.track), NEW n, NEW m, IsMsg(m),
         NEW w, w = HandleEvent(p, n, m)
  PROVE  /\ Stepped(w, p, id)
         /\ n \in DOMAIN p.nbrs /\ m.kind = "DatabaseDescription" => w.p.nbrs[n].state # "Init"
<1>1. CASE n \notin DOMAIN p.nbrs
  <2>1. w = PerformActions(Outcome(p))
    BY <1>1 DEF HandleEvent, Neighbors
  <2> QED
    BY <1>1, <2>1, OutcomeMoved, MovedStepped
<1>2. CASE n \in DOMAIN p.nbrs /\ m.kind = "DatabaseDescription"
  <2> DEFINE o == RecvDescription(p, n, m.lsas)
  <2>1. w = PerformActions(o)
    BY <1>2 DEF HandleEvent, Neighbors
  <2>2. Moved(o, p, id) /\ o.p.nbrs[n].state # "Init"
    BY <1>2, DescriptionMoved
  <2> HIDE DEF o
  <2> QED
    BY <1>2, <2>1, <2>2, MovedStepped
<1>3. CASE n \in DOMAIN p.nbrs /\ m.kind = "LinkStateRequest"
  <2> DEFINE o == RecvRequest(p, n, m.lsas)
  <2>1. w = PerformActions(o)
    BY <1>3 DEF HandleEvent, Neighbors
  <2>2. Moved(o, p, id)
    BY <1>3, RequestMoved
  <2> HIDE DEF o
  <2> QED
    BY <1>3, <2>1, <2>2, MovedStepped
<1>4. CASE n \in DOMAIN p.nbrs /\ m.kind = "LinkStateAck"
  <2> DEFINE q == [p EXCEPT !.nbrs[n] = RecvAck(@, m.lsas)]
             o == Outcome(q)
  <2>1. w = PerformActions(o)
    BY <1>4 DEF HandleEvent, Neighbors
  <2>2. q = [p EXCEPT !.nbrs[n] = RecvAck(@, m.lsas)]
    OBVIOUS
  <2> HIDE DEF q
  <2>3. Moved(o, p, id)
    BY <1>4, <2>2, AckMoved
  <2> HIDE DEF o
  <2> QED
    BY <1>4, <2>1, <2>3, MovedStepped
<1>5. CASE n \in DOMAIN p.nbrs /\ m.kind = "LinkStateUpdate"
  <2> DEFINE partial == \E k \in Neighbors(p) : IsPartialSync(p.nbrs[k])
             o == RecvUpdate(p, n, m.lsas, partial)
  <2>1. w = PerformActions(o)
    BY <1>5 DEF HandleEvent, Neighbors
  <2>2. IsLsas(m.lsas)
    BY <1>5 DEF IsMsg
  <2> HIDE DEF partial
  <2>3. Moved(o, p, id)
    BY <1>5, <2>2, UpdateMoved
  <2> HIDE DEF o
  <2> QED
    BY <1>5, <2>1, <2>3, MovedStepped
<1> QED
  BY <1>1, <1>2, <1>3, <1>4, <1>5 DEF IsMsg, Kinds

(* trigger_timeout                                                         *)
LEMMA TimeoutStepped ==
  ASSUME NEW id, NEW p, IsProc(p, id), Awaited(p.areas, p.ext, p.track), NEW n \in DOMAIN p.nbrs,
         NEW w, w = TriggerTimeout(p, n)
  PROVE  Stepped(w, p, id)
<1>1. Moved(Timeout(p, n), p, id)
  BY TimeoutMoved
<1>2. w = PerformActions(Timeout(p, n))
  BY DEF TriggerTimeout
<1> QED
  BY <1>1, <1>2, MovedStepped

(* Messages are taken out.                                                 *)
LEMMA RemoveKeeps ==
  ASSUME NEW s, IsSeq(s), NEW i \in 1 .. Len(s)
  PROVE  /\ IsSeq(RemoveAt(s, i)) /\ Elems(RemoveAt(s, i)) \subseteq Elems(s)
         /\ \A j \in 1 .. Len(s) : j # i => s[j] \in Elems(RemoveAt(s, i))
<1> DEFINE x == SubSeq(s, 1, i - 1)
           y == SubSeq(s, i + 1, Len(s))
<1>1. RemoveAt(s, i) = x \o y
  BY DEF RemoveAt
<1>2. Len(s) \in Nat /\ s \in Seq(Elems(s))
  BY SeqElems DEF IsSeq
<1>3. x \in Seq(Elems(s)) /\ Len(x) = i - 1 /\ \A j \in 1 .. i - 1 : x[j] = s[j]
  BY <1>2
<1>4. y \in Seq(Elems(s)) /\ Len(y) = Len(s) - i /\ \A j \in 1 .. Len(s) - i : y[j] = s[i + j]
  BY <1>2
<1> HIDE DEF x, y
<1>5. IsSeq(x) /\ IsSeq(y) /\ Elems(x) \subseteq Elems(s) /\ Elems(y) \subseteq Elems(s)
  BY <1>3, <1>4, SeqElems
<1>6. IsSeq(x \o y) /\ Elems(x \o y) = Elems(x) \cup Elems(y)
  BY <1>5, SeqJoin
<1>7. ASSUME NEW j \in 1 .. Len(s), j # i
      PROVE  s[j] \in Elems(x) \cup Elems(y)
  <2>1. CASE j < i
    <3>1. j \in 1 .. Len(x) /\ x[j] = s[j]
      BY <1>2, <1>3, <2>1
    <3> QED
      BY <3>1 DEF Elems
  <2>2. CASE j > i
    <3>1. j - i \in 1 .. Len(y) /\ y[j - i] = s[j]
      BY <1>2, <1>4, <2>2
    <3> QED
      BY <3>1 DEF Elems
  <2> QED
    BY <1>2, <1>7, <2>1, <2>2
<1> QED
  BY <1>1, <1>5, <1>6, <1>7
-----------------------------------------------------------------------------
(* A router that has been told of a batch of changes                       *)
Rechanged(w, p, f, op, r) ==
  /\ RouterFits(w.p, f[Len(op)], r)
  /\ \A n \in Routers : IsMsgs(w.sent[n])
  /\ \A n \in Routers : Joining(f, op, r, n, Len(op)) /\ r < n => Described(w.sent[n])
  /\ \A n \in DOMAIN w.p.nbrs :
       Joining(f, op, r, n, Len(op)) \/ (n \in DOMAIN p.nbrs /\ w.p.nbrs[n].state = p.nbrs[n].state)

(* Neighbors that stay the same match the same links.                      *)
LEMMA MatchesSame ==
  \A nbrs, old, ls, r : Matches(old, ls, r) /\ SameAll(nbrs, old) => Matches(nbrs, ls, r)
BY DEF Matches, SameAll, SameLinks

(* A router that is told of a batch                                        *)
LEMMA ToldRouter ==
  ASSUME NEW f, NEW ls, NEW op, IsBatch(f, ls, op), NEW r \in Routers, NEW p, RouterFits(p, ls, r),
         NEW changes, Len(changes) = Len(op),
         \A i \in 1 .. Len(op) : changes[i] = LocalChange(op[i], r)
  PROVE  /\ Rechanged(HandleChange(p, changes), p, f, op, r)
         /\ (\A i \in 1 .. Len(op) : LocalChange(op[i], r) = NoChange)
              => Matches(p.nbrs, f[Len(op)], r)
<1> DEFINE N == Len(op)
           w == HandleChange(p, changes)
<1>1. PICK o : Changing(o, p, f, op, r, N) /\ w = PerformActions(o)
  BY ChangesOut DEF RouterFits
<1>2. Performed(w, o, r)
  BY <1>1, PerformedOut DEF Changing
<1> HIDE DEF N, w
<1>3. RouterFits(w.p, f[N], r)
  BY <1>1, <1>2, MatchesSame DEF RouterFits, Performed, Changing
<1>4. \A n \in Routers : Joining(f, op, r, n, N) /\ r < n => Described(w.sent[n])
  BY <1>1, <1>2 DEF Performed, Changing
<1>5. \A n \in DOMAIN w.p.nbrs :
        Joining(f, op, r, n, N) \/ (n \in DOMAIN p.nbrs /\ w.p.nbrs[n].state = p.nbrs[n].state)
  BY <1>1, <1>2 DEF Performed, Changing, SameAll, SameLinks
<1>6. (\A i \in 1 .. N : LocalChange(op[i], r) = NoChange) => Matches(p.nbrs, f[N], r)
  BY <1>1 DEF Changing
<1>7. \A n \in Routers : IsMsgs(w.sent[n])
  BY <1>2 DEF Performed
<1> QED
  BY <1>3, <1>4, <1>5, <1>6, <1>7 DEF Rechanged, N, w

(* If n joins r in a batch, r joins n, and is told of it.                  *)
LEMMA JoiningBoth ==
  ASSUME NEW f, NEW op, NEW r \in Routers, NEW n \in Routers, Joining(f, op, r, n, Len(op)),
         \A i \in 1 .. Len(op) : op[i] \in Changes
  PROVE  /\ Joining(f, op, n, r, Len(op))
         /\ \E i \in 1 .. Len(op) : LocalChange(op[i], r) # NoChange
<1>1. PICK i \in 1 .. Len(op) : Joins(f[i - 1], op[i], r, n)
  BY DEF Joining
<1>2. Joins(f[i - 1], op[i], n, r)
  BY <1>1 DEF Joins, Between
<1>3. r \in {op[i].a, op[i].b} /\ op[i].type \in {"AddLink", "Area"}
  BY <1>1 DEF Joins, Between
<1>4. LocalChange(op[i], r) # NoChange
  BY <1>3, LocalChangeIs
<1> QED
  BY <1>1, <1>2, <1>4 DEF Joining

(* Messages that are added take no description away.                       *)
LEMMA DescribedMore ==
  ASSUME NEW s, IsMsgs(s), NEW t, IsMsgs(t)
  PROVE  IsMsgs(s \o t) /\ (Described(s) \/ Described(t) => Described(s \o t))
BY MsgsJoin, DescribedElems

(* The channels new after the routers in R have sent something             *)
AreSent(new, cs, R, sent) ==
  new = [a \in Routers |-> IF a \in R THEN Send(cs, a, sent[a])[a] ELSE cs[a]]

AreMsgs(R, sent) == \A r \in Routers \cap R : \A n \in Routers : IsMsgs(sent[r][n])

(* The channels hold what was in them, and what was sent.                  *)
LEMMA SentChannels ==
  ASSUME NEW cs, IsChannels(cs), NEW R, NEW sent, AreMsgs(R, sent),
         NEW new, AreSent(new, cs, R, sent)
  PROVE  /\ IsChannels(new)
         /\ \A a, b \in Routers : Described(cs[a][b]) => Described(new[a][b])
         /\ \A a, b \in Routers : a \in R /\ Described(sent[a][b]) => Described(new[a][b])
<1>1. \A a \in Routers : new[a] = IF a \in R THEN [n \in Routers |-> cs[a][n] \o sent[a][n]] ELSE cs[a]
  BY DEF AreSent, Send, IsChannels
<1>2. \A a \in Routers : new[a] = [n \in Routers |-> new[a][n]]
  BY <1>1 DEF IsChannels
<1>3. new = [a \in Routers |-> new[a]]
  BY DEF AreSent
<1>4. ASSUME NEW a \in Routers, NEW b \in Routers
      PROVE  /\ IsMsgs(new[a][b]) /\ (Described(cs[a][b]) => Described(new[a][b]))
             /\ a \in R /\ Described(sent[a][b]) => Described(new[a][b])
  <2>1. IsMsgs(cs[a][b])
    BY DEF IsChannels
  <2>2. CASE a \in R
    <3> DEFINE s == cs[a][b]
               t == sent[a][b]
    <3>1. new[a][b] = s \o t /\ IsMsgs(s) /\ IsMsgs(t)
      BY <1>1, <2>1, <2>2 DEF AreMsgs
    <3> HIDE DEF s, t
    <3>2. IsMsgs(s \o t) /\ (Described(s) \/ Described(t) => Described(s \o t))
      BY <3>1, DescribedMore
    <3> QED
      BY <3>1, <3>2 DEF s, t
  <2>3. CASE a \notin R
    BY <1>1, <2>1, <2>3
  <2> QED
    BY <2>2, <2>3
<1> QED
  BY <1>2, <1>3, <1>4 DEF IsChannels

(* LocalOspfCoordinator::update keeps the domain in touch: of two new      *)
(* neighbors the leader sends the description that the other one waits     *)
(* for.                                                                    *)
LEMMA ToldInTouch ==
  ASSUME NEW ps, NEW cs, NEW ls, InTouch(ps, cs, ls), NEW f, NEW op, IsBatch(f, ls, op),
         DOMAIN op = 1 .. Len(op)
  PROVE  InTouch(Told(ps, cs, op).procs, Told(ps, cs, op).chan, f[Len(op)])
<1> DEFINE N == Len(op)
           changes(r) == [i \in DOMAIN op |-> LocalChange(op[i], r)]
           R == {r \in Routers : \E i \in DOMAIN op : changes(r)[i] # NoChange}
           w(r) == HandleChange(ps[r], changes(r))
           results == [r \in R |-> w(r)]
           new == Told(ps, cs, op).procs
           chans == Told(ps, cs, op).chan
<1>1. /\ new = [r \in Routers |-> IF r \in DOMAIN results THEN results[r].p ELSE ps[r]]
      /\ chans = [r \in Routers |-> IF r \in DOMAIN results THEN Send(cs, r, results[r].sent)[r] ELSE cs[r]]
  BY DEF Told, Handled
<1>2. /\ \A r \in Routers : new[r] = IF r \in R THEN w(r).p ELSE ps[r]
      /\ new = [r \in Routers |-> new[r]]
  BY <1>1
<1> DEFINE sent == [r \in R |-> w(r).sent]
<1>3. AreSent(chans, cs, R, sent)
  BY <1>1 DEF AreSent
<1>4. N \in Nat /\ \A i \in 1 .. N : op[i] \in Changes
  BY DEF IsBatch
<1>5. ASSUME NEW r \in Routers
      PROVE  /\ Rechanged(w(r), ps[r], f, op, r)
             /\ r \notin R => Matches(ps[r].nbrs, f[N], r)
             /\ r \notin R => \A i \in 1 .. N : LocalChange(op[i], r) = NoChange
  <2> DEFINE ch == changes(r)
             p == ps[r]
  <2>1. ch = [i \in 1 .. N |-> ch[i]] /\ \A i \in 1 .. N : ch[i] = LocalChange(op[i], r)
    OBVIOUS
  <2>2. RouterFits(p, ls, r)
    BY DEF InTouch
  <2>3. r \notin R => \A i \in 1 .. N : LocalChange(op[i], r) = NoChange
    OBVIOUS
  <2>4. w(r) = HandleChange(p, ch)
    OBVIOUS
  <2> HIDE DEF ch, p, R, w
  <2>5. Len(ch) = N
    BY <1>4, <2>1, SeqMade
  <2>6. /\ Rechanged(HandleChange(p, ch), p, f, op, r)
        /\ (\A i \in 1 .. N : LocalChange(op[i], r) = NoChange) => Matches(p.nbrs, f[N], r)
    BY <2>1, <2>2, <2>5, ToldRouter
  <2> QED
    BY <2>3, <2>4, <2>6 DEF p
<1>6. \A r \in R : sent[r] = w(r).sent
  OBVIOUS
<1>7. R \subseteq Routers
  OBVIOUS
<1> SUFFICES InTouch(new, chans, f[N])
  OBVIOUS
<1> HIDE DEF new, chans, R, w, changes, results, sent, N
<1>8. \A r \in Routers : RouterFits(new[r], f[N], r)
  BY <1>2, <1>5 DEF Rechanged, InTouch, RouterFits, N
<1>9. /\ IsChannels(chans)
      /\ \A a, b \in Routers : Described(cs[a][b]) => Described(chans[a][b])
      /\ \A a, b \in Routers : a \in R /\ Described(sent[a][b]) => Described(chans[a][b])
  <2>1. AreMsgs(R, sent)
    BY <1>5, <1>6 DEF Rechanged, AreMsgs
  <2>2. IsChannels(cs)
    BY DEF InTouch
  <2> QED
    BY <1>3, <2>1, <2>2, SentChannels
<1>10. ASSUME NEW a \in Routers, NEW b \in Routers, b < a, b \in DOMAIN new[a].nbrs,
              new[a].nbrs[b].state = "Init"
       PROVE  Described(chans[b][a])
  <2>1. CASE Joining(f, op, a, b, N)
    <3>1. Joining(f, op, b, a, N) /\ \E i \in 1 .. N : LocalChange(op[i], b) # NoChange
      <4>1. Joining(f, op, b, a, N)
        BY <1>4, <2>1, JoiningBoth DEF N
      <4>2. \E i \in 1 .. N : LocalChange(op[i], b) # NoChange
        BY <1>4, <4>1, JoiningBoth DEF N
      <4> QED
        BY <4>1, <4>2
    <3>2. b \in R
      BY <1>5, <3>1
    <3>3. Described(sent[b][a])
      BY <1>5, <1>6, <1>10, <3>1, <3>2 DEF Rechanged, N
    <3> QED
      BY <1>9, <3>2, <3>3
  <2>2. CASE ~Joining(f, op, a, b, N)
    <3>1. b \in DOMAIN ps[a].nbrs /\ ps[a].nbrs[b].state = "Init"
      BY <1>2, <1>5, <1>10, <2>2 DEF Rechanged, N
    <3>2. Described(cs[b][a])
      BY <1>10, <3>1 DEF InTouch, InitDescribed
    <3> QED
      BY <1>9, <3>2
  <2> QED
    BY <2>1, <2>2
<1> QED
  BY <1>2, <1>8, <1>9, <1>10 DEF InTouch, InitDescribed
-----------------------------------------------------------------------------
(* The links during a batch that is possible                               *)
LEMMA PossibleBatch ==
  ASSUME NEW ls, IsLinks(ls), NEW xs, NEW op \in Seq(Changes), AllPossible(ls, xs, op)
  PROVE  /\ IsBatch(LinksAfter(ls, op), ls, op) /\ DOMAIN op = 1 .. Len(op)
         /\ IsLinks(LinksAfter(ls, op)[Len(op)])
<1> DEFINE f == LinksAfter(ls, op)
           fn == ExternalAfter(xs, op)
<1>1. Len(op) \in Nat /\ DOMAIN op = 1 .. Len(op) /\ \A i \in 1 .. Len(op) : op[i] \in Changes
  OBVIOUS
<1>2. \A i \in 1 .. Len(op) : Possible(f[i - 1], fn[i - 1], op[i])
  BY <1>1 DEF AllPossible
<1>3. IsLinksFold(f, ls, op, Len(op))
  BY <1>1, LinksFold
<1> HIDE DEF f, fn
<1>4. ASSUME NEW i \in 1 .. Len(op)
      PROVE  Fits(f[i - 1], op[i])
  <2>1. op[i].type \in {"AddLink", "RemoveLink", "Weight", "Area", "AddExternalNetwork",
                        "RemoveExternalNetwork"}
    BY <1>1, ChangeTypes
  <2>2. Possible(f[i - 1], fn[i - 1], op[i])
    BY <1>2
  <2> QED
    BY <2>1, <2>2 DEF Possible, Fits
<1>5. IsBatch(f, ls, op)
  BY <1>1, <1>3, <1>4 DEF IsBatch
<1>6. IsLinks(f[Len(op)])
  BY <1>1, <1>5, BatchLinks
<1> QED
  BY <1>1, <1>5, <1>6 DEF f

(* The links of a domain                                                   *)
LEMMA DomainLinks ==
  ASSUME NEW ls, NEW xs, IsDomain(ls, xs)
  PROVE  /\ IsLinks(ls) /\ DOMAIN ls \subseteq Routers \X Routers
         /\ \A e \in DOMAIN ls : ls[e].area \in Areas /\ ls[e].weight \in Nat
<1>1. ls = [e \in DOMAIN ls |-> ls[e]] /\ \A e \in DOMAIN ls : ls[e] \in [weight : Nat, area : Areas]
  BY DEF IsDomain
<1>2. \A e \in DOMAIN ls : ls[e] = [weight |-> ls[e].weight, area |-> ls[e].area]
        /\ ls[e].area \in Areas /\ ls[e].weight \in Nat
  BY <1>1
<1>3. \A e \in DOMAIN ls : \E a, b \in Routers :
        a # b /\ e = <<a, b>> /\ <<b, a>> \in DOMAIN ls /\ ls[<<b, a>>].area = ls[<<a, b>>].area
  BY DEF IsDomain
<1>4. ASSUME NEW r \in Routers, NEW n \in Routers, <<r, n>> \in DOMAIN ls
      PROVE  r # n /\ <<n, r>> \in DOMAIN ls /\ ls[<<n, r>>].area = ls[<<r, n>>].area
  <2>1. PICK a \in Routers, b \in Routers : a # b /\ <<r, n>> = <<a, b>> /\ <<b, a>> \in DOMAIN ls
               /\ ls[<<b, a>>].area = ls[<<a, b>>].area
    BY <1>3, <1>4
  <2>2. a = r /\ b = n
    BY <2>1, PairsDiffer
  <2> QED
    BY <2>1, <2>2
<1>5. IsLinks(ls)
  BY <1>1, <1>2, <1>4 DEF IsLinks
<1>6. DOMAIN ls \subseteq Routers \X Routers
  <2>1. ASSUME NEW e \in DOMAIN ls
        PROVE  e \in Routers \X Routers
    <3>1. PICK a \in Routers, b \in Routers : e = <<a, b>>
      BY <1>3
    <3> QED
      BY <3>1
  <2> QED
    BY <2>1
<1> QED
  BY <1>2, <1>5, <1>6

(* The batch that restores a domain                                        *)
NoDomain == [e \in {} |-> 0]

Restored(ls, op) ==
  /\ Len(op) \in Nat /\ DOMAIN op = 1 .. Len(op)
  /\ \A i \in 1 .. Len(op) :
       /\ op[i] \in Changes /\ op[i].type \in {"AddLink", "AddExternalNetwork"}
       /\ op[i].type = "AddLink" =>
            <<op[i].a, op[i].b>> \in DOMAIN ls /\ op[i].area = ls[<<op[i].a, op[i].b>>].area
  /\ \A r, n \in Routers : <<r, n>> \in DOMAIN ls =>
       \E i \in 1 .. Len(op) : op[i].type = "AddLink" /\ Between(op[i], r, n)

(* A change is one of a user's that adds the link a-b in an area.          *)
IsAddLink(d, a, b, area) ==
  d \in Changes /\ d.type = "AddLink" /\ d.a = a /\ d.b = b /\ d.area = area

(* A change of the batch that adds a link is one of a user's.              *)
LEMMA LinkMade ==
  ASSUME NEW a \in Routers, NEW b \in Routers, a # b, NEW area \in Areas, NEW w \in Nat, NEW back \in Nat
  PROVE  IsAddLink(AddLink(a, b, area, w, back), a, b, area)
BY DEF Changes, AddLink, IsAddLink

(* A change of the batch that attaches an external router is one of a      *)
(* user's.                                                                 *)
LEMMA ChangeMade ==
  ASSUME NEW a \in Routers, NEW x \in Externals
  PROVE  Attach(a, x) \in Changes /\ Attach(a, x).type = "AddExternalNetwork"
BY DEF Changes, Attach

(* OspfDomain::reset adds every link, and changes nothing else of links.   *)
LEMMA ResetRestores ==
  ASSUME NEW ls, NEW xs, IsDomain(ls, xs)
  PROVE  Restored(ls, ResetBatch(ls, xs))
<1> DEFINE E == {f \in DOMAIN ls : f[1] < f[2]}
           add(e) == AddLink(e[1], e[2], ls[e].area, ls[e].weight, ls[e[2], e[1]].weight)
           A == {Attach(x[1], x[2]) : x \in xs}
           B == {add(e) : e \in E}
           s == SetToSeq(A)
           t == SetToSeq(B)
           op == ResetBatch(ls, xs)
<1>1. op = s \o t
  BY DEF ResetBatch
<1>2. IsFiniteSet(Routers \X Routers) /\ IsFiniteSet(Routers \X Externals)
  BY OspfAssumption, FS_Product
<1>3. IsLinks(ls) /\ DOMAIN ls \subseteq Routers \X Routers
      /\ \A e \in DOMAIN ls : ls[e].area \in Areas /\ ls[e].weight \in Nat
  BY DomainLinks
<1>4. IsFiniteSet(E) /\ IsFiniteSet(xs) /\ xs \subseteq Routers \X Externals
  BY <1>2, <1>3, PartFinite DEF IsDomain
<1>5. IsFiniteSet(A)
  <2> DEFINE fn == [x \in xs |-> Attach(x[1], x[2])]
  <2>1. A = {fn[x] : x \in xs}
    OBVIOUS
  <2> HIDE DEF fn, A
  <2> QED
    BY <1>4, <2>1, FiniteImage
<1>6. IsFiniteSet(B)
  <2> DEFINE fn == [e \in E |-> add(e)]
  <2>1. B = {fn[e] : e \in E}
    OBVIOUS
  <2> HIDE DEF fn, E, B
  <2> QED
    BY <1>4, <2>1, FiniteImage
<1>7. \A d \in A : d \in Changes /\ d.type = "AddExternalNetwork"
  BY <1>4, ChangeMade
<1>8. ASSUME NEW e \in E
      PROVE  /\ add(e) \in Changes /\ add(e).type = "AddLink" /\ add(e).a = e[1] /\ add(e).b = e[2]
             /\ <<e[1], e[2]>> \in DOMAIN ls /\ add(e).area = ls[<<e[1], e[2]>>].area
  <2>1. e \in Routers \X Routers /\ e = <<e[1], e[2]>> /\ e[1] \in Routers /\ e[2] \in Routers
    BY <1>3
  <2>2. e[1] # e[2] /\ <<e[2], e[1]>> \in DOMAIN ls
    BY <1>3, <2>1 DEF IsLinks
  <2>3. ls[e].area \in Areas /\ ls[e].weight \in Nat /\ ls[<<e[2], e[1]>>].weight \in Nat
    BY <1>3, <2>2
  <2> DEFINE x == e[1]
             y == e[2]
             c == ls[e].area
             w == ls[e].weight
             back == ls[<<e[2], e[1]>>].weight
             d == AddLink(x, y, c, w, back)
  <2>4. d = add(e) /\ ls[<<x, y>>].area = c /\ <<x, y>> \in DOMAIN ls
    BY <2>1
  <2>5. x \in Routers /\ y \in Routers /\ x # y /\ c \in Areas /\ w \in Nat /\ back \in Nat
    BY <2>1, <2>2, <2>3
  <2> HIDE DEF c, w, back, x, y
  <2>6. IsAddLink(d, x, y, c)
    BY ONLY <2>5, LinkMade
  <2> HIDE DEF d, add
  <2>7. add(e) \in Changes /\ add(e).type = "AddLink" /\ add(e).a = x /\ add(e).b = y
        /\ <<x, y>> \in DOMAIN ls /\ add(e).area = ls[<<x, y>>].area
    BY <2>4, <2>6 DEF IsAddLink
  <2> QED
    BY <2>7 DEF x, y
<1>9. ASSUME NEW r \in Routers, NEW n \in Routers, <<r, n>> \in DOMAIN ls
      PROVE  \E d \in B : d.type = "AddLink" /\ Between(d, r, n)
  <2>1. r # n /\ <<n, r>> \in DOMAIN ls /\ r \in Nat /\ n \in Nat
    BY <1>3, <1>9, OspfAssumption DEF IsLinks
  <2>2. CASE r < n
    <3> DEFINE e == <<r, n>>
    <3>1. e \in E /\ e[1] = r /\ e[2] = n
      BY <1>9, <2>2
    <3> QED
      BY <1>8, <3>1 DEF Between
  <2>3. CASE n < r
    <3> DEFINE e == <<n, r>>
    <3>1. e \in E /\ e[1] = n /\ e[2] = r
      BY <2>1, <2>3
    <3> QED
      BY <1>8, <3>1 DEF Between
  <2>4. r < n \/ n < r
    BY ONLY <2>1
  <2> QED
    BY <2>2, <2>3, <2>4
<1>10. \A d \in B : /\ d \in Changes /\ d.type = "AddLink" /\ <<d.a, d.b>> \in DOMAIN ls
                    /\ d.area = ls[<<d.a, d.b>>].area
  BY <1>8
<1>11. IsSeq(s) /\ Elems(s) = A /\ IsSeq(t) /\ Elems(t) = B
  <2> HIDE DEF A, B
  <2> QED
    BY <1>5, <1>6, SeqOfSet
<1> HIDE DEF E, add, A, B, s, t, op
<1>12. IsSeq(op) /\ Elems(op) = A \cup B
  BY <1>1, <1>11, SeqJoin
<1>13. Len(op) \in Nat /\ DOMAIN op = 1 .. Len(op)
  BY <1>12, SeqElems DEF IsSeq
<1>14. \A i \in 1 .. Len(op) : op[i] \in A \cup B
  BY <1>12 DEF Elems
<1>15. \A d \in B : \E i \in 1 .. Len(op) : op[i] = d
  BY <1>12 DEF Elems
<1>16. Restored(ls, op)
  BY <1>7, <1>9, <1>10, <1>13, <1>14, <1>15 DEF Restored
<1> QED
  BY <1>16 DEF op
-----------------------------------------------------------------------------
(* The links while the batch that restores those in ls is applied          *)
Restoring(f, ls, op, k) ==
  \A r, n \in Routers :
    /\ <<r, n>> \in DOMAIN f[k] <=> \E i \in 1 .. k : op[i].type = "AddLink" /\ Between(op[i], r, n)
    /\ <<r, n>> \in DOMAIN f[k] =>
         <<r, n>> \in DOMAIN ls /\ f[k][<<r, n>>].area = ls[<<r, n>>].area

(* One more change of that batch                                           *)
LEMMA RestoringStep ==
  ASSUME NEW f, NEW ls, IsLinks(ls), NEW op, Restored(ls, op), NEW k \in Nat,
         k + 1 \in 1 .. Len(op), Restoring(f, ls, op, k),
         NEW d, d = op[k + 1], Changed(f[k], f[k + 1], d)
  PROVE  Restoring(f, ls, op, k + 1)
<1>1. k + 1 \in 1 .. k + 1 /\ (\A i \in 1 .. k : i \in 1 .. k + 1)
      /\ \A i \in 1 .. k + 1 : i = k + 1 \/ i \in 1 .. k
  OBVIOUS
<1>2. /\ d \in Changes /\ d.type \in {"AddLink", "AddExternalNetwork"}
      /\ d.type = "AddLink" => <<d.a, d.b>> \in DOMAIN ls /\ d.area = ls[<<d.a, d.b>>].area
  BY DEF Restored
<1>3. ASSUME NEW r \in Routers, NEW n \in Routers
      PROVE  /\ <<r, n>> \in DOMAIN f[k + 1]
                  <=> \E i \in 1 .. k + 1 : op[i].type = "AddLink" /\ Between(op[i], r, n)
             /\ <<r, n>> \in DOMAIN f[k + 1] =>
                  <<r, n>> \in DOMAIN ls /\ f[k + 1][<<r, n>>].area = ls[<<r, n>>].area
  <2> DEFINE new == d.type = "AddLink" /\ Between(d, r, n)
  <2>1. (\E i \in 1 .. k + 1 : op[i].type = "AddLink" /\ Between(op[i], r, n))
          <=> new \/ \E i \in 1 .. k : op[i].type = "AddLink" /\ Between(op[i], r, n)
    BY <1>1
  <2>2. /\ <<r, n>> \in DOMAIN f[k + 1] <=> new \/ <<r, n>> \in DOMAIN f[k]
        /\ new /\ <<r, n>> \in DOMAIN f[k + 1] => f[k + 1][<<r, n>>].area = d.area
        /\ ~new /\ <<r, n>> \in DOMAIN f[k + 1] => f[k + 1][<<r, n>>].area = f[k][<<r, n>>].area
    BY <1>2 DEF Changed
  <2>3. new => <<r, n>> \in DOMAIN ls /\ ls[<<r, n>>].area = d.area
    BY <1>2 DEF Between, IsLinks
  <2> QED
    BY <2>1, <2>2, <2>3 DEF Restoring
<1> QED
  BY <1>3 DEF Restoring

(* The links ls and their areas are those of new.                          *)
SameAreas(new, ls) ==
  \A r, n \in Routers :
    /\ <<r, n>> \in DOMAIN new <=> <<r, n>> \in DOMAIN ls
    /\ <<r, n>> \in DOMAIN new => new[<<r, n>>].area = ls[<<r, n>>].area

(* The links after that batch are those of the domain, in their areas.     *)
LEMMA RestoredLinks ==
  ASSUME NEW ls, IsLinks(ls), NEW op, Restored(ls, op), NEW f, f = LinksAfter(NoDomain, op)
  PROVE  IsBatch(f, NoDomain, op) /\ SameAreas(f[Len(op)], ls)
<1> DEFINE N == Len(op)
           A == {k \in 0 .. N : Restoring(f, ls, op, k)}
<1>1. N \in Nat /\ \A i \in 1 .. N : op[i] \in Changes
  BY DEF Restored
<1>2. IsLinks(NoDomain) /\ DOMAIN NoDomain = {}
  BY DEF IsLinks, NoDomain
<1>3. IsLinksFold(f, NoDomain, op, N)
  BY <1>1, LinksFold
<1>4. \A i \in 1 .. N : Fits(f[i - 1], op[i])
  BY DEF Restored, Fits
<1>5. IsBatch(f, NoDomain, op)
  BY <1>1, <1>2, <1>3, <1>4 DEF IsBatch
<1> HIDE DEF N
<1>6. 0 \in A
  BY <1>1, <1>2, <1>3 DEF Restoring, IsLinksFold
<1>7. ASSUME NEW k \in 0 .. N, k \in A, k < N
      PROVE  k + 1 \in A
  <2> DEFINE d == op[k + 1]
  <2>1. k \in Nat /\ k + 1 \in 1 .. N /\ k + 1 \in 0 .. N /\ k + 1 - 1 = k
    BY <1>1, <1>7
  <2>2. f[k + 1] = NewLinks(f[k], d) /\ Fits(f[k], d) /\ d \in Changes
    BY <1>1, <1>3, <1>4, <2>1 DEF IsLinksFold
  <2>3. IsLinks(f[k])
    BY <1>5, <2>1, BatchLinks DEF N
  <2>4. Restoring(f, ls, op, k) /\ k + 1 \in 1 .. Len(op)
    BY <1>7, <2>1 DEF N
  <2> HIDE DEF d
  <2>5. Changed(f[k], f[k + 1], d)
    BY <2>2, <2>3, NewLinksFacts
  <2>6. d = op[k + 1]
    BY DEF d
  <2>7. Restoring(f, ls, op, k + 1)
    BY ONLY IsLinks(ls), Restored(ls, op), <2>1, <2>4, <2>5, <2>6, RestoringStep
  <2> QED
    BY <2>1, <2>7
<1> HIDE DEF A
<1>8. \A k \in 0 .. N : k \in A
  BY ONLY <1>1, <1>6, <1>7, UpTo
<1>9. Restoring(f, ls, op, N)
  BY <1>1, <1>8 DEF A
<1>10. SameAreas(f[N], ls)
  BY <1>9 DEF Restoring, SameAreas, Restored, N
<1> QED
  BY <1>5, <1>10 DEF N

(* A router right after it was created                                     *)
LEMMA FreshRouter ==
  ASSUME NEW r \in Routers
  PROVE  RouterFits(NewProcess(r), NoDomain, r) /\ NewProcess(r).nbrs = << >>
<1> DEFINE p == NewProcess(r)
<1>1. /\ p.id = r /\ p.areas = << >> /\ p.ext = {} /\ p.nbrs = << >> /\ p.track = {}
      /\ p.rib = Only(r, Path({}, 0, FALSE, {}))
  BY DEF NewProcess
<1>2. IsShape(p, r)
  BY DEF NewProcess, IsShape
<1>3. IsFiniteSet(DOMAIN p.rib)
  <2>1. DOMAIN p.rib = {r}
    BY <1>1 DEF Only
  <2> QED
    BY <2>1, FS_Singleton
<1> HIDE DEF p
<1> DEFINE none == {}
<1>4. IsFiniteSet(none)
  BY FS_EmptySet
<1>5. IsBase(p.areas, p.ext, r)
  BY <1>1, <1>4 DEF IsBase, IsLsas
<1>6. IsNbrs(p.nbrs, p.areas, r)
  BY <1>1 DEF IsNbrs
<1>7. IsKept(p.track, r)
  BY <1>1, <1>4 DEF IsKept
<1>8. IsProc(p, r)
  BY <1>2, <1>3, <1>5, <1>6, <1>7 DEF IsProc
<1>9. Awaited(p.areas, p.ext, p.track) /\ Pending(p)
  BY <1>1 DEF Awaited, Pending
<1>10. Matches(p.nbrs, NoDomain, r)
  BY <1>1 DEF Matches, NoDomain
<1>11. RouterFits(p, NoDomain, r) /\ p.nbrs = << >>
  BY <1>1, <1>8, <1>9, <1>10 DEF RouterFits
<1> QED
  BY <1>11 DEF p

(* A domain without links is in touch.                                     *)
LEMMA FreshInTouch ==
  InTouch([r \in Routers |-> NewProcess(r)], [a \in Routers |-> [b \in Routers |-> << >>]], NoDomain)
<1> DEFINE ps == [r \in Routers |-> NewProcess(r)]
           cs == [a \in Routers |-> [b \in Routers |-> << >>]]
<1>1. \A r \in Routers : RouterFits(ps[r], NoDomain, r) /\ ps[r].nbrs = << >>
  BY FreshRouter
<1>2. IsMsgs(<< >>)
  BY SeqEmpty DEF IsMsgs
<1>3. IsChannels(cs)
  BY <1>2 DEF IsChannels
<1>4. ps = [r \in Routers |-> ps[r]]
  OBVIOUS
<1> HIDE DEF ps, cs
<1>5. InitDescribed(ps, cs)
  BY <1>1 DEF InitDescribed
<1>6. InTouch(ps, cs, NoDomain)
  BY <1>1, <1>3, <1>4, <1>5 DEF InTouch
<1> QED
  BY <1>6 DEF ps, cs

(* Only the areas of the links matter.                                     *)
LEMMA SameInTouch ==
  ASSUME NEW ps, NEW cs, NEW new, NEW ls, InTouch(ps, cs, new), SameAreas(new, ls)
  PROVE  InTouch(ps, cs, ls)
<1>1. ASSUME NEW r \in Routers
      PROVE  RouterFits(ps[r], ls, r)
  <2>1. RouterFits(ps[r], new, r)
    BY DEF InTouch
  <2>2. Matches(ps[r].nbrs, new, r)
    BY <2>1 DEF RouterFits
  <2>3. Matches(ps[r].nbrs, ls, r)
    BY <2>2 DEF Matches, SameAreas
  <2> QED
    BY <2>1, <2>3 DEF RouterFits
<1> QED
  BY <1>1 DEF InTouch

(* The domain right after OspfDomain::reset                                *)
LEMMA ResetInTouch ==
  ASSUME NEW ls, NEW xs, IsDomain(ls, xs),
         NEW fresh, fresh = [r \in Routers |-> NewProcess(r)],
         NEW empty, empty = [a \in Routers |-> [b \in Routers |-> << >>]],
         NEW told, told = Told(fresh, empty, ResetBatch(ls, xs))
  PROVE  InTouch(told.procs, told.chan, ls)
<1> DEFINE op == ResetBatch(ls, xs)
           f == LinksAfter(NoDomain, op)
<1>1. Restored(ls, op)
  BY ResetRestores
<1>2. IsLinks(ls)
  BY DomainLinks
<1>3. InTouch(fresh, empty, NoDomain)
  BY FreshInTouch
<1>4. told = Told(fresh, empty, op)
  OBVIOUS
<1> HIDE DEF op
<1>5. IsBatch(f, NoDomain, op) /\ SameAreas(f[Len(op)], ls)
  BY <1>1, <1>2, RestoredLinks
<1>6. DOMAIN op = 1 .. Len(op)
  BY <1>1 DEF Restored
<1> HIDE DEF f
<1>7. InTouch(told.procs, told.chan, f[Len(op)])
  BY ONLY <1>3, <1>4, <1>5, <1>6, ToldInTouch
<1> DEFINE fn == f[Len(op)]
           ps == told.procs
           cs == told.chan
<1>8. InTouch(ps, cs, fn) /\ SameAreas(fn, ls)
  BY <1>5, <1>7
<1> HIDE DEF fn, ps, cs
<1>9. InTouch(ps, cs, ls)
  BY ONLY <1>8, SameInTouch
<1> QED
  BY <1>9 DEF ps, cs
-----------------------------------------------------------------------------
(* One router has handled something, after cs1 is left of the channels.    *)
LEMMA StepInTouch ==
  ASSUME NEW ps, NEW cs, NEW ls, InTouch(ps, cs, ls), NEW id \in Routers,
         NEW w, Stepped(w, ps[id], id), NEW new, new = [ps EXCEPT ![id] = w.p],
         NEW cs1, IsChannels(cs1), InitDescribed(new, cs1),
         NEW chans, chans = Send(cs1, id, w.sent)
  PROVE  InTouch(new, chans, ls)
<1> DEFINE R == {id}
           sent == [a \in R |-> w.sent]
<1>1. /\ new = [r \in Routers |-> new[r]] /\ new[id] = w.p
      /\ \A r \in Routers : r # id => new[r] = ps[r]
  BY DEF InTouch
<1>2. AreSent(chans, cs1, R, sent)
  BY DEF AreSent, Send, IsChannels
<1>3. AreMsgs(R, sent)
  BY DEF Stepped, AreMsgs
<1>4. RouterFits(ps[id], ls, id)
  BY DEF InTouch
<1>5. RouterFits(new[id], ls, id)
  <2>1. Matches(ps[id].nbrs, ls, id) /\ Advanced(w.p.nbrs, ps[id].nbrs)
    BY <1>4 DEF RouterFits, Stepped
  <2>2. Matches(w.p.nbrs, ls, id)
    BY <2>1 DEF Matches, Advanced, NotBack
  <2> QED
    BY <1>1, <2>2 DEF RouterFits, Stepped
<1> HIDE DEF R, sent
<1>6. /\ IsChannels(chans)
      /\ \A a, b \in Routers : Described(cs1[a][b]) => Described(chans[a][b])
      /\ \A a, b \in Routers : a \in R /\ Described(sent[a][b]) => Described(chans[a][b])
  BY <1>2, <1>3, SentChannels
<1>7. InitDescribed(new, chans)
  BY <1>6 DEF InitDescribed
<1>8. \A r \in Routers : RouterFits(new[r], ls, r)
  BY <1>1, <1>5 DEF InTouch
<1> QED
  BY <1>1, <1>6, <1>7, <1>8 DEF InTouch

(* A router that handles something leaves Init, it does not enter it.      *)
LEMMA StillInit ==
  ASSUME NEW ps, NEW cs, NEW ls, InTouch(ps, cs, ls), NEW b \in Routers,
         NEW w, Stepped(w, ps[b], b), NEW new, new = [ps EXCEPT ![b] = w.p],
         NEW x \in Routers, NEW y \in DOMAIN new[x].nbrs, new[x].nbrs[y].state = "Init"
  PROVE  y \in DOMAIN ps[x].nbrs /\ ps[x].nbrs[y].state = "Init"
<1>1. new[b] = w.p /\ (x # b => new[x] = ps[x])
  BY DEF InTouch
<1>2. CASE x = b
  BY <1>1, <1>2 DEF Stepped, Advanced, NotBack
<1>3. CASE x # b
  BY <1>1, <1>3
<1> QED
  BY <1>2, <1>3

(* simulate_step: a description that is handled is not needed any more.    *)
LEMMA DeliverInTouch ==
  ASSUME NEW ps, NEW cs, NEW ls, InTouch(ps, cs, ls), NEW a \in Routers, NEW b \in Routers,
         NEW i \in 1 .. Len(cs[a][b]), NEW w, w = HandleEvent(ps[b], a, cs[a][b][i]),
         NEW new, new = [ps EXCEPT ![b] = w.p],
         NEW chans, chans = Send([cs EXCEPT ![a][b] = RemoveAt(@, i)], b, w.sent)
  PROVE  InTouch(new, chans, ls)
<1> DEFINE s == cs[a][b]
           cs1 == [cs EXCEPT ![a][b] = RemoveAt(@, i)]
           m == s[i]
           p == ps[b]
<1>1. IsSeq(s) /\ (\A x \in Elems(s) : IsMsg(x)) /\ IsChannels(cs)
  BY DEF InTouch, IsChannels, IsMsgs
<1>2. IsMsg(m)
  BY <1>1 DEF Elems
<1>3. /\ IsSeq(RemoveAt(s, i)) /\ Elems(RemoveAt(s, i)) \subseteq Elems(s)
      /\ \A j \in 1 .. Len(s) : j # i => s[j] \in Elems(RemoveAt(s, i))
  <2> HIDE DEF s
  <2>1. i \in 1 .. Len(s)
    BY DEF s
  <2> QED
    BY <1>1, <2>1, RemoveKeeps
<1>4. /\ cs1 = [x \in Routers |-> cs1[x]]
      /\ \A x \in Routers : cs1[x] = [y \in Routers |-> cs1[x][y]]
      /\ cs1[a][b] = RemoveAt(s, i)
      /\ \A x, y \in Routers : x # a \/ y # b => cs1[x][y] = cs[x][y]
  BY <1>1 DEF IsChannels
<1>5. RouterFits(p, ls, b)
  BY DEF InTouch
<1>6. w = HandleEvent(p, a, m) /\ new = [ps EXCEPT ![b] = w.p] /\ chans = Send(cs1, b, w.sent)
  OBVIOUS
<1>0. i \in 1 .. Len(s) /\ m = s[i] /\ p = ps[b] /\ s = cs[a][b]
  OBVIOUS
<1> HIDE DEF s, cs1, m, p
<1>7. /\ Stepped(w, p, b)
      /\ a \in DOMAIN p.nbrs /\ m.kind = "DatabaseDescription" => w.p.nbrs[a].state # "Init"
  BY <1>2, <1>5, <1>6, EventStepped DEF RouterFits
<1>8. Stepped(w, ps[b], b)
  BY <1>0, <1>7
<1>9. IsChannels(cs1)
  <2>1. IsMsgs(cs1[a][b])
    BY <1>1, <1>3, <1>4 DEF IsMsgs
  <2>2. ASSUME NEW x \in Routers, NEW y \in Routers
        PROVE  IsMsgs(cs1[x][y])
    BY <1>1, <1>4, <2>1 DEF IsChannels
  <2> QED
    BY <1>4, <2>2 DEF IsChannels
<1>10. new[b] = w.p
  BY <1>6 DEF InTouch
<1>11. ASSUME NEW x \in Routers, NEW y \in Routers, y < x, y \in DOMAIN new[x].nbrs,
              new[x].nbrs[y].state = "Init"
       PROVE  Described(cs1[y][x])
  <2>1. y \in DOMAIN ps[x].nbrs /\ ps[x].nbrs[y].state = "Init"
    BY <1>6, <1>8, <1>11, StillInit
  <2>2. Described(cs[y][x])
    BY <1>11, <2>1 DEF InTouch, InitDescribed
  <2>3. CASE y = a /\ x = b
    <3>1. a \in DOMAIN p.nbrs /\ w.p.nbrs[a].state = "Init"
      BY <1>0, <1>10, <1>11, <2>1, <2>3
    <3>2. m.kind # "DatabaseDescription"
      BY <1>7, <3>1
    <3>3. PICK j \in 1 .. Len(s) : s[j].kind = "DatabaseDescription"
      BY <1>0, <2>2, <2>3 DEF Described
    <3>4. s[j] \in Elems(RemoveAt(s, i))
      BY <1>0, <1>3, <3>2, <3>3
    <3>5. Described(RemoveAt(s, i))
      BY <3>3, <3>4, DescribedElems
    <3> QED
      BY <1>4, <2>3, <3>5
  <2>4. CASE ~(y = a /\ x = b)
    BY <1>4, <2>2, <2>4
  <2> QED
    BY <2>3, <2>4
<1>12. InitDescribed(new, cs1)
  BY <1>11 DEF InitDescribed
<1> QED
  BY <1>6, <1>8, <1>9, <1>12, StepInTouch

(* trigger_timeout keeps the domain in touch.                              *)
LEMMA TimeOutInTouch ==
  ASSUME NEW ps, NEW cs, NEW ls, InTouch(ps, cs, ls), NEW b \in Routers, NEW n \in DOMAIN ps[b].nbrs,
         NEW w, w = TriggerTimeout(ps[b], n), NEW new, new = [ps EXCEPT ![b] = w.p],
         NEW chans, chans = Send(cs, b, w.sent)
  PROVE  InTouch(new, chans, ls)
<1>1. RouterFits(ps[b], ls, b)
  BY DEF InTouch
<1>2. Stepped(w, ps[b], b)
  BY <1>1, TimeoutStepped DEF RouterFits
<1>3. ASSUME NEW x \in Routers, NEW y \in Routers, y < x, y \in DOMAIN new[x].nbrs,
             new[x].nbrs[y].state = "Init"
      PROVE  Described(cs[y][x])
  <2>1. y \in DOMAIN ps[x].nbrs /\ ps[x].nbrs[y].state = "Init"
    BY <1>2, <1>3, StillInit
  <2> QED
    BY <1>3, <2>1 DEF InTouch, InitDescribed
<1>4. InitDescribed(new, cs) /\ IsChannels(cs)
  BY <1>3 DEF InitDescribed, InTouch
<1> QED
  BY <1>2, <1>4, StepInTouch

(* remove_unreachable_lsas spares the own LSAs.                            *)
LEMMA RemoveFacts ==
  ASSUME NEW r, NEW ls, NEW p, RouterFits(p, ls, r), NEW q, q = RemoveUnreachable(p)
  PROVE  RouterFits(q, ls, r) /\ q.nbrs = p.nbrs
<1> DEFINE kept(ds, x) == x = p.id \/ (x \in DOMAIN ds.spt /\ ~ds.spt[x].inter_area)
           left(a) == {l \in p.areas[a].lsas : kept(p.areas[a], l.key.router)}
           areas == [a \in DOMAIN p.areas |-> [p.areas[a] EXCEPT !.lsas = left(a)]]
<1>1. q = [p EXCEPT !.areas = areas]
  BY DEF RemoveUnreachable
<1>2. IsProc(p, r)
  BY DEF RouterFits
<1>3. \A a \in DOMAIN p.areas : left(a) \subseteq p.areas[a].lsas
  OBVIOUS
<1>4. ASSUME NEW a \in DOMAIN p.areas
      PROVE  IsArea(areas[a], r) /\ areas[a].lsas = left(a)
  <2> DEFINE ds == p.areas[a]
             new == areas[a]
  <2>1. IsArea(ds, r)
    BY <1>2 DEF IsProc, IsBase
  <2>2. PICK l \in ds.lsas : l.key = RouterKey(r)
    BY <2>1 DEF IsArea
  <2>3. l \in left(a)
    BY <1>2, <2>2, KeyFacts DEF IsProc, IsShape
  <2>4. new = [ds EXCEPT !.lsas = left(a)]
    OBVIOUS
  <2>5. left(a) \subseteq ds.lsas
    OBVIOUS
  <2> HIDE DEF ds, new, left
  <2>6. /\ new = [lsas |-> new.lsas, spt |-> new.spt, recompute_intra |-> new.recompute_intra,
                  recompute_inter |-> new.recompute_inter, redistributed |-> new.redistributed]
        /\ new.lsas = left(a) /\ new.redistributed = ds.redistributed
    BY <2>1, <2>4 DEF IsArea
  <2>7. IsLsas(left(a))
    BY <2>1, <2>5, LsasPart DEF IsArea
  <2>8. IsArea(new, r)
    BY <2>1, <2>2, <2>3, <2>5, <2>6, <2>7 DEF IsArea
  <2> QED
    BY <2>6, <2>8 DEF new
<1>5. areas = [a \in DOMAIN areas |-> areas[a]] /\ DOMAIN areas = DOMAIN p.areas
  OBVIOUS
<1> HIDE DEF areas, left
<1>6. /\ q = [id |-> p.id, areas |-> areas, ext |-> p.ext, ext_changed |-> p.ext_changed,
              rib |-> p.rib, links |-> p.links, nbrs |-> p.nbrs, track |-> p.track]
  BY <1>1, <1>2 DEF IsProc, IsShape
<1>7. /\ q.areas = areas /\ q.ext = p.ext /\ q.rib = p.rib /\ q.nbrs = p.nbrs /\ q.track = p.track
      /\ q = [id |-> r, areas |-> q.areas, ext |-> q.ext, ext_changed |-> q.ext_changed,
              rib |-> q.rib, links |-> q.links, nbrs |-> q.nbrs, track |-> q.track]
  BY <1>2, <1>6 DEF IsProc, IsShape
<1>8. IsBase(q.areas, q.ext, r)
  BY <1>2, <1>4, <1>5, <1>7 DEF IsProc, IsBase
<1>9. IsNbrs(q.nbrs, q.areas, r)
  BY <1>2, <1>5, <1>7 DEF IsProc, IsNbrs
<1>10. IsProc(q, r)
  BY <1>2, <1>7, <1>8, <1>9 DEF IsProc, IsShape
<1>11. Awaited(q.areas, q.ext, q.track)
  BY <1>3, <1>4, <1>5, <1>7 DEF RouterFits, Awaited
<1>12. Pending(q) /\ Matches(q.nbrs, ls, r)
  BY <1>7 DEF RouterFits, Pending
<1> QED
  BY <1>7, <1>10, <1>11, <1>12 DEF RouterFits

(* The same for all routers                                                *)
LEMMA SettledInTouch ==
  ASSUME NEW ps, NEW cs, NEW ls, InTouch(ps, cs, ls),
         NEW new, new = [r \in Routers |-> RemoveUnreachable(ps[r])]
  PROVE  InTouch(new, cs, ls) /\ \A r \in Routers : new[r].nbrs = ps[r].nbrs
<1>1. ASSUME NEW r \in Routers
      PROVE  RouterFits(new[r], ls, r) /\ new[r].nbrs = ps[r].nbrs
  <2> DEFINE p == ps[r]
             q == new[r]
  <2>1. q = RemoveUnreachable(p) /\ RouterFits(p, ls, r)
    BY DEF InTouch
  <2> HIDE DEF p, q
  <2>2. RouterFits(q, ls, r) /\ q.nbrs = p.nbrs
    BY <2>1, RemoveFacts
  <2> QED
    BY <2>2 DEF p, q
<1>2. new = [r \in Routers |-> new[r]]
  OBVIOUS
<1>3. InitDescribed(new, cs)
  BY <1>1 DEF InTouch, InitDescribed
<1> QED
  BY <1>1, <1>2, <1>3 DEF InTouch
-----------------------------------------------------------------------------
(* A sequence that is not empty has a first element.                       *)
LEMMA SeqNotEmpty == \A s : IsSeq(s) /\ s # << >> => 1 \in 1 .. Len(s)
<1> SUFFICES ASSUME NEW s, IsSeq(s), s # << >> PROVE 1 \in 1 .. Len(s)
  OBVIOUS
<1>1. Len(s) \in Nat /\ s = [i \in 1 .. Len(s) |-> s[i]]
  BY DEF IsSeq
<1>2. Len(s) # 0
  <2> SUFFICES ASSUME Len(s) = 0 PROVE FALSE
    OBVIOUS
  <2>1. s = << >>
    BY <1>1
  <2> QED
    BY <2>1
<1> QED
  BY <1>1, <1>2

(* The domains of Conversions start in touch, with all adjacencies up.     *)
LEMMA ConvertedInv ==
  ASSUME ConversionsFit, InitConverted, implementation = "local"
  PROVE  OspfInv
<1>1. PICK t \in Conversions :
        /\ procs = [r \in Routers |-> FromGlobal(Restarted(t.links, t.external), r)]
        /\ chan = NoChannels /\ links = t.links /\ external = t.external
        /\ script = t.script /\ settled = TRUE
  BY DEF InitConverted
<1>2. IsScenario(t)
  BY ConversionAssumption
<1>3. IsLinks(links) /\ script \in Seq(SUBSET [op : Seq(Changes), hasty : BOOLEAN])
  BY <1>1, <1>2, DomainLinks DEF IsScenario
<1>4. InTouch(procs, chan, links) /\ NobodyWaits(procs)
  BY <1>1 DEF ConversionsFit
<1>5. Quiet
  BY <1>1 DEF Quiet, NoChannels
<1> QED
  BY <1>1, <1>3, <1>4, <1>5 DEF OspfInv

(* The domain starts in touch, whichever way.                              *)
LEMMA OspfInvInit ==
  ASSUME ConversionsFit, OspfInit
  PROVE  OspfInv
<1>1. CASE implementation = "local" /\ Init
  <2>1. PICK t \in Scenarios :
          /\ \E told \in {Told([r \in Routers |-> NewProcess(r)],
                               [a \in Routers |-> [b \in Routers |-> << >>]],
                               ResetBatch(t.links, t.external))} :
               procs = told.procs /\ chan = told.chan
          /\ links = t.links /\ external = t.external /\ script = t.script /\ settled = FALSE
    BY <1>1 DEF Init
  <2>2. IsScenario(t)
    BY ScenarioAssumption
  <2>3. IsLinks(links) /\ script \in Seq(SUBSET [op : Seq(Changes), hasty : BOOLEAN])
    BY <2>1, <2>2, DomainLinks DEF IsScenario
  <2> DEFINE fresh == [r \in Routers |-> NewProcess(r)]
             empty == [a \in Routers |-> [b \in Routers |-> << >>]]
             ls == t.links
             xs == t.external
             told == Told(fresh, empty, ResetBatch(ls, xs))
  <2>4. procs = told.procs /\ chan = told.chan /\ links = ls
    BY <2>1
  <2>5. IsDomain(ls, xs)
    BY <2>2 DEF IsScenario
  <2>6. told = Told(fresh, empty, ResetBatch(ls, xs))
    OBVIOUS
  <2>7. fresh = [r \in Routers |-> NewProcess(r)]
    OBVIOUS
  <2>8. empty = [a \in Routers |-> [b \in Routers |-> << >>]]
    OBVIOUS
  <2> HIDE DEF fresh, empty, ls, xs, told
  <2>9. InTouch(told.procs, told.chan, ls)
    BY ONLY <2>5, <2>6, <2>7, <2>8, ResetInTouch
  <2>10. InTouch(procs, chan, links)
    BY <2>4, <2>9
  <2> QED
    BY <1>1, <2>1, <2>3, <2>10 DEF OspfInv
<1>2. CASE implementation = "local" /\ InitConverted
  BY <1>2, ConvertedInv
<1>3. CASE implementation = "global" /\ LocalUnused
  BY <1>3 DEF OspfInv, LocalUnused
<1> QED
  BY <1>1, <1>2, <1>3 DEF OspfInit

(* The invariant is kept by an operation,                                  *)
LEMMA OperateInv ==
  ASSUME OspfInv, implementation = "local", implementation' = "local",
         script # << >>, NEW o \in Head(script), Operate(o.op, o.hasty)
  PROVE  OspfInv'
<1> DEFINE S == [op : Seq(Changes), hasty : BOOLEAN]
           op == o.op
           told == Told(procs, chan, op)
<1>1. IsLinks(links) /\ script \in Seq(SUBSET S) /\ InTouch(procs, chan, links)
  BY DEF OspfInv
<1>2. Head(script) \in SUBSET S /\ Tail(script) \in Seq(SUBSET S)
  <2> HIDE DEF S
  <2> QED
    BY <1>1
<1>3. op \in Seq(Changes)
  BY <1>2
<1>4. /\ AllPossible(links, external, op)
      /\ links' = LinksAfter(links, op)[Len(op)]
      /\ procs' = told.procs /\ chan' = told.chan
      /\ script' = Tail(script) /\ settled' = FALSE
  BY DEF Operate
<1> HIDE DEF S, op
<1>5. /\ IsBatch(LinksAfter(links, op), links, op) /\ DOMAIN op = 1 .. Len(op)
      /\ IsLinks(LinksAfter(links, op)[Len(op)])
  BY <1>1, <1>3, <1>4, PossibleBatch
<1>6. InTouch(told.procs, told.chan, LinksAfter(links, op)[Len(op)])
  BY <1>1, <1>5, ToldInTouch
<1>7. InTouch(procs', chan', links') /\ IsLinks(links')
  BY <1>4, <1>5, <1>6
<1>8. script' \in Seq(SUBSET [op : Seq(Changes), hasty : BOOLEAN])
  BY <1>2, <1>4 DEF S
<1> QED
  BY <1>4, <1>7, <1>8 DEF OspfInv

(* by a message,                                                           *)
LEMMA DeliverInv ==
  ASSUME OspfInv, implementation = "local", implementation' = "local",
         NEW a \in Routers, NEW b \in Routers, Deliver(a, b)
  PROVE  OspfInv'
<1> DEFINE s == chan[a][b]
<1>1. InTouch(procs, chan, links) /\ IsSeq(s)
  BY DEF OspfInv, InTouch, IsChannels, IsMsgs
<1>2. PICK i \in 1 .. (IF Reorder THEN Len(s) ELSE IF s = << >> THEN 0 ELSE 1) :
        \E w \in {HandleEvent(procs[b], a, s[i])} :
          /\ procs' = [procs EXCEPT ![b] = w.p]
          /\ chan' = Send([chan EXCEPT ![a][b] = RemoveAt(@, i)], b, w.sent)
          /\ UNCHANGED <<links, external, script, settled>>
  BY DEF Deliver
<1> DEFINE w == HandleEvent(procs[b], a, s[i])
<1>3. /\ procs' = [procs EXCEPT ![b] = w.p]
      /\ chan' = Send([chan EXCEPT ![a][b] = RemoveAt(@, i)], b, w.sent)
      /\ links' = links /\ script' = script /\ settled' = settled
  BY <1>2
<1>4. w = HandleEvent(procs[b], a, chan[a][b][i]) /\ s = chan[a][b]
  OBVIOUS
<1> HIDE DEF w, s
<1>5. i \in 1 .. Len(s)
  <2>1. s # << >> => 1 \in 1 .. Len(s)
    BY <1>1, SeqNotEmpty
  <2>2. CASE Reorder
    BY <1>2, <2>2
  <2>3. CASE ~Reorder /\ s # << >>
    <3>1. i = 1
      BY <1>2, <2>3
    <3> QED
      BY <2>1, <2>3, <3>1
  <2>4. CASE ~Reorder /\ s = << >>
    BY <1>2, <2>4
  <2> QED
    BY <2>2, <2>3, <2>4
<1>6. i \in 1 .. Len(chan[a][b])
  BY <1>4, <1>5
<1>7. InTouch(procs', chan', links)
  BY ONLY a \in Routers, b \in Routers, <1>1, <1>3, <1>4, <1>6, DeliverInTouch
<1>8. settled # TRUE
  <2> SUFFICES ASSUME settled = TRUE PROVE FALSE
    OBVIOUS
  <2>1. s = << >>
    BY <1>4 DEF OspfInv, Quiet
  <2> QED
    BY <1>5, <2>1, SeqEmpty
<1> QED
  BY <1>3, <1>7, <1>8 DEF OspfInv

(* by a timeout,                                                           *)
LEMMA TimeOutInv ==
  ASSUME OspfInv, implementation = "local", implementation' = "local",
         NEW r \in Routers, NEW n \in Routers, TimeOut(r, n)
  PROVE  OspfInv'
<1> DEFINE w == TriggerTimeout(procs[r], n)
<1>1. InTouch(procs, chan, links)
  BY DEF OspfInv
<1>2. /\ procs' = [procs EXCEPT ![r] = w.p] /\ chan' = Send(chan, r, w.sent)
      /\ links' = links /\ script' = script /\ settled' = settled
      /\ n \in DOMAIN procs[r].nbrs /\ IsWaitingForTimeout(procs[r].nbrs[n])
  BY DEF TimeOut, Neighbors
<1>3. w = TriggerTimeout(procs[r], n)
  OBVIOUS
<1> HIDE DEF w
<1>4. InTouch(procs', chan', links)
  BY <1>1, <1>2, <1>3, TimeOutInTouch
<1>5. settled # TRUE
  BY <1>2 DEF OspfInv, NobodyWaits
<1> QED
  BY <1>2, <1>4, <1>5 DEF OspfInv

(* by the end of simulate(),                                               *)
LEMMA SettleInv ==
  ASSUME OspfInv, implementation = "local", implementation' = "local", Settle
  PROVE  OspfInv'
<1>1. InTouch(procs, chan, links)
  BY DEF OspfInv
<1>2. /\ procs' = [r \in Routers |-> RemoveUnreachable(procs[r])]
      /\ links' = links /\ script' = script /\ chan' = chan
  BY DEF Settle
<1>3. Quiet /\ Waiting = {}
  BY DEF Settle, Converged
<1>4. InTouch(procs', chan, links) /\ \A r \in Routers : procs'[r].nbrs = procs[r].nbrs
  BY <1>1, <1>2, SettledInTouch
<1>5. NobodyWaits(procs')
  <2>1. NobodyWaits(procs)
    BY <1>3 DEF Waiting, NobodyWaits, Neighbors
  <2> QED
    BY <1>4, <2>1 DEF NobodyWaits
<1>6. Quiet'
  BY <1>2, <1>3 DEF Quiet
<1> QED
  BY <1>2, <1>4, <1>5, <1>6 DEF OspfInv

(* and so by every step.                                                   *)
LEMMA OspfInvStep ==
  ASSUME OspfInv, [OspfNext]_allvars
  PROVE  OspfInv'
<1>1. CASE implementation = "local" /\ LocalStep
  <2>1. implementation' = "local" /\ Next
    BY <1>1 DEF LocalStep
  <2>2. CASE script # << >> /\ \E o \in Head(script) : Operate(o.op, o.hasty)
    BY <1>1, <2>1, <2>2, OperateInv
  <2>3. ASSUME NEW a \in Routers, NEW b \in Routers, Deliver(a, b)
        PROVE  OspfInv'
    BY <1>1, <2>1, <2>3, DeliverInv
  <2>4. ASSUME NEW r \in Routers, NEW n \in Routers, TimeOut(r, n)
        PROVE  OspfInv'
    BY <1>1, <2>1, <2>4, TimeOutInv
  <2>5. CASE Settle
    BY <1>1, <2>1, <2>5, SettleInv
  <2> QED
    BY <2>1, <2>2, <2>3, <2>4, <2>5 DEF Next, Simulate
<1>2. CASE implementation = "global" /\ GlobalStep
  BY <1>2 DEF GlobalStep, OspfInv
<1>3. CASE IntoGlobalOspf
  BY <1>3 DEF IntoGlobalOspf, OspfInv
<1>4. CASE UNCHANGED allvars
  BY <1>4 DEF allvars, vars, OspfInv, Quiet
<1> QED
  BY <1>1, <1>2, <1>3, <1>4 DEF OspfNext

(* The invariant implies that every adjacency is up once simulate()        *)
(* returns: a neighbor in Init is owed a message, one in Exchange or       *)
(* Loading a timeout, and one in Full a timeout as long as it has not      *)
(* acknowledged everything.                                                *)
LEMMA OspfInvFull ==
  ASSUME OspfInv
  PROVE  AdjacenciesFull
<1> SUFFICES ASSUME settled = TRUE, NEW r \in Routers
             PROVE  /\ \A n \in DOMAIN procs[r].nbrs :
                         /\ procs[r].nbrs[n].state = "Full"
                         /\ procs[r].nbrs[n].request = {} /\ procs[r].nbrs[n].retransmission = {}
                    /\ procs[r].track = {}
                    /\ \A l \in LsasOf(procs[r]) : ~l.dead
  BY DEF AdjacenciesFull, Neighbors
<1>1. /\ IsLinks(links) /\ InTouch(procs, chan, links) /\ Quiet /\ NobodyWaits(procs)
  BY DEF OspfInv
<1> DEFINE p == procs[r]
<1>2. RouterFits(p, links, r)
  BY <1>1 DEF InTouch
<1>3. ASSUME NEW n \in DOMAIN p.nbrs
      PROVE  /\ p.nbrs[n].state = "Full" /\ p.nbrs[n].request = {}
             /\ p.nbrs[n].retransmission = {}
  <2> DEFINE nb == p.nbrs[n]
  <2>1. IsNbr(nb, r, n) /\ n \in Routers /\ <<r, n>> \in DOMAIN links
    BY <1>2 DEF RouterFits, Matches, IsProc, IsNbrs
  <2>2. r # n /\ r \in Nat /\ n \in Nat
    BY <1>1, <2>1, OspfAssumption DEF IsLinks
  <2>3. ~IsWaitingForTimeout(nb)
    BY <1>1 DEF NobodyWaits
  <2>4. nb.state # "Init"
    <3> SUFFICES ASSUME nb.state = "Init" PROVE FALSE
      OBVIOUS
    <3>1. n < r
      <4>1. ~(r < n)
        BY <2>1 DEF IsNbr
      <4> QED
        BY <2>2, <4>1
    <3>2. Described(chan[n][r])
      BY <1>1, <2>1, <3>1 DEF InTouch, InitDescribed
    <3>3. chan[n][r] = << >>
      BY <1>1, <2>1 DEF Quiet
    <3> QED
      BY <3>2, <3>3 DEF Described
  <2> HIDE DEF nb
  <2>5. nb.state = "Full" /\ nb.request = {} /\ nb.retransmission = {}
    BY <2>1, <2>3, <2>4 DEF IsNbr, IsWaitingForTimeout
  <2> QED
    BY <2>5 DEF nb
<1>4. p.track = {}
  BY <1>2, <1>3 DEF RouterFits, Pending, WaitingForAck, Find
<1>5. \A l \in LsasOf(p) : ~l.dead
  <2>1. Awaited(p.areas, p.ext, p.track) /\ IsBase(p.areas, p.ext, r)
    BY <1>2 DEF RouterFits, IsProc
  <2> HIDE DEF p
  <2>2. \A l \in p.ext : l.dead \in BOOLEAN /\ l.dead # TRUE
    BY <1>4, <2>1 DEF Awaited, IsBase, IsLsas, IsLsa
  <2>3. \A a \in DOMAIN p.areas : \A l \in p.areas[a].lsas : l.dead \in BOOLEAN /\ l.dead # TRUE
    BY <1>4, <2>1 DEF Awaited, IsBase, IsArea, IsLsas, IsLsa
  <2>4. \A l \in LsasOf(p) : l.dead \in BOOLEAN /\ l.dead # TRUE
    BY <2>2, <2>3 DEF LsasOf
  <2> QED
    BY <2>4
<1> QED
  BY <1>3, <1>4, <1>5

(* When simulate() has returned, every adjacency is up in both directions  *)
(* and no LSA is being flushed or is dead, however the messages were       *)
(* ordered, whatever changed and whenever timeouts were triggered, for any *)
(* domain (process.rs, neighbor.rs, and the coordinator in                 *)
(* ospf/local/mod.rs).                                                     *)
THEOREM AdjacenciesAreFull ==
  ASSUME ConversionsFit
  PROVE  OspfSpec => []AdjacenciesFull
<1>1. OspfInit => OspfInv
  BY OspfInvInit
<1>2. OspfInv /\ [OspfNext]_allvars => OspfInv'
  BY OspfInvStep
<1>3. OspfInv => AdjacenciesFull
  BY OspfInvFull
<1> QED
  BY <1>1, <1>2, <1>3, PTL DEF OspfSpec
=============================================================================
