--------------------------- MODULE AddressorProofs ---------------------------
(***************************************************************************)
(* Theorem about the addresses of an exported network, for any routers,    *)
(* ASes, links and prefix lengths, and any order in which the addresses    *)
(* are asked for: they are unambiguous.                                    *)
(***************************************************************************)
EXTENDS Addressor, FiniteSetTheorems, NaturalsInduction, WellFoundedInduction, TLAPS

LEMMA Smallest ==
  ASSUME NEW T, T \subseteq Nat, T # {}
  PROVE  \E x \in T : \A y \in T : x <= y
<1> DEFINE R == OpToRel(<, Nat)
<1>1. IsWellFoundedOn(R, Nat)
  BY NatLessThanWellFounded
<1> HIDE DEF R
<1>2. PICK x \in T : \A y \in T : ~ (<<y, x>> \in R)
  BY <1>1, WFMin
<1>3. \A i, j \in Nat : i < j => <<i, j>> \in R
  BY DEF R, OpToRel
<1>4. ASSUME NEW y \in T
      PROVE  x <= y
  <2>1. x \in Nat /\ y \in Nat
    OBVIOUS
  <2>2. ~(y < x)
    BY <1>2, <1>3, <2>1
  <2> QED
    BY <2>1, <2>2
<1> QED
  BY <1>4
(* Induction up to a number, for a set: otherwise the numbers that are     *)
(* missing have a least one.                                               *)
LEMMA CountingUp ==
  ASSUME NEW N \in Nat, NEW A, 0 \in A, \A k \in 0 .. N : k \in A /\ k < N => k + 1 \in A
  PROVE  \A k \in 0 .. N : k \in A
<1> DEFINE T == {k \in 0 .. N : k \notin A}
<1> SUFFICES ASSUME T # {} PROVE FALSE
  OBVIOUS
<1>1. PICK k \in T : \A l \in T : k <= l
  <2>1. T \subseteq Nat
    OBVIOUS
  <2> HIDE DEF T
  <2> QED
    BY <2>1, Smallest
<1>2. k \in 0 .. N /\ k # 0
  OBVIOUS
<1>3. k - 1 \in 0 .. N /\ k - 1 < N /\ k - 1 \notin T
  BY <1>1, <1>2
<1>4. k - 1 \in A
  BY <1>3
<1>5. k - 1 + 1 \in A
  BY <1>3, <1>4
<1> QED
  BY <1>2, <1>5
-----------------------------------------------------------------------------
(* Powers of two, up to k                                                  *)
PowersTo(g, k) == g = [i \in 0 .. k |-> IF i = 0 THEN 1 ELSE 2 * g[i - 1]]

LEMMA PowersExist == PowersTo(Power, 32)
<1> DEFINE A == {k \in Nat : \E g : PowersTo(g, k)}
<1>1. 0 \in A
  <2> DEFINE g == [i \in 0 .. 0 |-> 1]
  <2>1. PowersTo(g, 0)
    BY DEF PowersTo
  <2> HIDE DEF g
  <2> QED
    BY <2>1
<1>2. ASSUME NEW k \in Nat, k \in A
      PROVE  k + 1 \in A
  <2>1. PICK g : PowersTo(g, k)
    BY <1>2
  <2> DEFINE h == [i \in 0 .. k + 1 |-> IF i = k + 1 THEN 2 * g[k] ELSE g[i]]
  <2>2. ASSUME NEW i \in 0 .. k + 1
        PROVE  h[i] = IF i = 0 THEN 1 ELSE 2 * h[i - 1]
    <3>0. \A j \in 0 .. k : g[j] = IF j = 0 THEN 1 ELSE 2 * g[j - 1]
      BY <2>1 DEF PowersTo
    <3>1. CASE i = k + 1
      BY <3>1
    <3>2. CASE i = 0
      BY <3>0, <3>2
    <3>3. CASE i # 0 /\ i # k + 1
      <4>1. i \in 0 .. k /\ i - 1 \in 0 .. k /\ i - 1 # k + 1
        BY <3>3
      <4> QED
        BY <3>0, <3>3, <4>1
    <3> QED
      BY <3>1, <3>2, <3>3
  <2>3. h = [i \in 0 .. k + 1 |-> h[i]]
    OBVIOUS
  <2> HIDE DEF h
  <2>4. PowersTo(h, k + 1)
    BY <2>2, <2>3 DEF PowersTo
  <2> QED
    BY <2>4
<1>3. 32 \in A
  <2>1. \A k \in 0 .. 32 : k \in A /\ k < 32 => k + 1 \in A
    BY <1>2
  <2> HIDE DEF A
  <2>2. \A k \in 0 .. 32 : k \in A
    BY ONLY <1>1, <2>1, CountingUp
  <2> QED
    BY <2>2
<1>4. PICK f : PowersTo(f, 32)
  BY <1>3
<1> DEFINE c == CHOOSE g : PowersTo(g, 32)
<1>5. PowersTo(c, 32)
  BY <1>4
<1>6. Power = c
  BY DEF Power, PowersTo
<1> QED
  BY <1>5, <1>6

LEMMA Powers ==
  /\ Power[0] = 1
  /\ \A n \in 0 .. 32 : Power[n] \in Nat /\ Power[n] > 0
  /\ \A n \in 0 .. 31 : Power[n + 1] = 2 * Power[n]
<1>1. \A n \in 0 .. 32 : Power[n] = IF n = 0 THEN 1 ELSE 2 * Power[n - 1]
  BY PowersExist DEF PowersTo
<1>2. Power[0] = 1
  BY <1>1
<1>3. ASSUME NEW n \in 0 .. 31
      PROVE  Power[n + 1] = 2 * Power[n]
  <2>1. n + 1 \in 0 .. 32 /\ n + 1 # 0 /\ n + 1 - 1 = n
    OBVIOUS
  <2> QED
    BY <1>1, <2>1
<1> DEFINE A == {n \in 0 .. 32 : Power[n] \in Nat /\ Power[n] > 0}
<1>4. 0 \in A
  BY <1>2
<1>5. ASSUME NEW k \in 0 .. 32, k \in A, k < 32
      PROVE  k + 1 \in A
  <2>1. k \in 0 .. 31 /\ Power[k] \in Nat /\ Power[k] > 0
    BY <1>5
  <2> QED
    BY <1>3, <2>1
<1> HIDE DEF A
<1>6. \A k \in 0 .. 32 : k \in A
  BY ONLY <1>4, <1>5, CountingUp
<1> QED
  BY <1>2, <1>3, <1>6 DEF A

LEMMA PowerSum ==
  ASSUME NEW a \in 0 .. 32, NEW b \in 0 .. 32 - a
  PROVE  Power[a + b] = Power[a] * Power[b]
<1> DEFINE N == 32 - a
           A == {k \in 0 .. N : Power[a + k] = Power[a] * Power[k]}
<1>0. N \in Nat /\ Power[a] \in Nat
  BY Powers
<1>1. 0 \in A
  BY <1>0, Powers
<1>2. ASSUME NEW k \in 0 .. N, k \in A, k < N
      PROVE  k + 1 \in A
  <2>1. k \in 0 .. 31 /\ a + k \in 0 .. 31 /\ a + (k + 1) = (a + k) + 1
    BY <1>2
  <2>2. Power[a + (k + 1)] = 2 * Power[a + k] /\ Power[k + 1] = 2 * Power[k] /\ Power[k] \in Nat
    BY <2>1, Powers
  <2>3. Power[a + k] = Power[a] * Power[k]
    BY <1>2
  <2>4. \A x, y \in Nat : 2 * (x * y) = x * (2 * y)
    OBVIOUS
  <2>5. Power[a + (k + 1)] = Power[a] * Power[k + 1]
    BY <1>0, <2>2, <2>3, <2>4
  <2> QED
    BY <1>2, <2>5
<1> HIDE DEF A, N
<1>3. \A k \in 0 .. N : k \in A
  BY ONLY <1>0, <1>1, <1>2, CountingUp
<1> QED
  BY <1>3 DEF A, N
-----------------------------------------------------------------------------
Networks == [base : Nat, len : 0 .. 32]

LEMMA SizeNat == \A len \in 0 .. 32 : Size(len) \in Nat /\ Size(len) > 0
<1> SUFFICES ASSUME NEW len \in 0 .. 32 PROVE Size(len) \in Nat /\ Size(len) > 0
  OBVIOUS
<1>1. 32 - len \in 0 .. 32
  OBVIOUS
<1> QED
  BY <1>1, Powers DEF Size

LEMMA SizeSplit ==
  ASSUME NEW len \in 0 .. 32, NEW d \in Nat, NEW sub \in 0 .. 32, sub = len + d
  PROVE  d \in 0 .. 32 /\ Size(len) = Power[d] * Size(sub)
<1> DEFINE b == 32 - sub
<1>1. d \in 0 .. 32 /\ b \in 0 .. 32 - d /\ d + b = 32 - len
  OBVIOUS
<1> HIDE DEF b
<1>2. Power[d + b] = Power[d] * Power[b]
  BY <1>1, PowerSum
<1> QED
  BY <1>1, <1>2 DEF Size, b

LEMMA SizeHalf == \A len \in 0 .. 31 : Size(len) = 2 * Size(len + 1)
<1> SUFFICES ASSUME NEW len \in 0 .. 31 PROVE Size(len) = 2 * Size(len + 1)
  OBVIOUS
<1> DEFINE n == 31 - len
<1>1. n \in 0 .. 31 /\ 32 - len = n + 1 /\ 32 - (len + 1) = n
  OBVIOUS
<1> HIDE DEF n
<1>2. Power[n + 1] = 2 * Power[n]
  BY <1>1, Powers
<1> QED
  BY <1>1, <1>2 DEF Size

LEMMA SizeSmall ==
  /\ Size(32) = 1 /\ Size(31) = 2
  /\ \A len \in 0 .. 30 : Size(len) >= 4
<1>1. Power[0] = 1 /\ Power[1] = 2 /\ Power[2] = 4
  BY Powers
<1>2. Size(32) = 1 /\ Size(31) = 2 /\ Size(30) = 4
  BY <1>1 DEF Size
<1>3. ASSUME NEW len \in 0 .. 30
      PROVE  Size(len) >= 4
  <2> DEFINE d == 30 - len
  <2>1. len \in 0 .. 32 /\ d \in Nat /\ 30 \in 0 .. 32 /\ 30 = len + d
    OBVIOUS
  <2> HIDE DEF d
  <2>2. d \in 0 .. 32 /\ Size(len) = Power[d] * Size(30)
    BY ONLY <2>1, SizeSplit
  <2>3. Power[d] \in Nat /\ Power[d] > 0
    BY ONLY <2>2, Powers
  <2>4. Size(len) = Power[d] * 4
    BY <1>2, <2>2
  <2> QED
    BY ONLY <2>3, <2>4
<1> QED
  BY <1>2, <1>3

LEMMA Monotone == \A i, j, s \in Nat : i <= j => i * s <= j * s
OBVIOUS

LEMMA Above == \A i, j, s \in Nat : i < j => i * s + s <= j * s
<1> SUFFICES ASSUME NEW i \in Nat, NEW j \in Nat, NEW s \in Nat, i < j PROVE i * s + s <= j * s
  OBVIOUS
<1>1. (i + 1) * s <= j * s
  BY Monotone
<1>2. (i + 1) * s = i * s + s
  OBVIOUS
<1> QED
  BY <1>1, <1>2

LEMMA SubnetType ==
  ASSUME NEW net \in Networks, NEW len \in 0 .. 32, NEW k \in Nat
  PROVE  /\ Subnet(net, len, k) \in Networks
         /\ Subnet(net, len, k).len = len
         /\ Subnet(net, len, k).base = net.base + k * Size(len)
<1>1. Size(len) \in Nat
  BY SizeNat
<1>2. k * Size(len) \in Nat
  BY <1>1
<1> QED
  BY <1>2 DEF Subnet, Networks

(* A subnet that there is lies within its network.                         *)
LEMMA SubnetInside ==
  ASSUME NEW net \in Networks, NEW d \in Nat, NEW len \in 0 .. 32, len = net.len + d,
         NEW k \in 0 .. Power[d] - 1
  PROVE  Contains(net, Subnet(net, len, k))
<1> DEFINE P == Power[d]
           s == Size(len)
           sub == Subnet(net, len, k)
<1>1. net.len \in 0 .. 32 /\ net.base \in Nat /\ len \in 0 .. 32
  BY DEF Networks
<1>2. P \in Nat /\ s \in Nat /\ k \in Nat /\ k < P
  <2>1. d \in 0 .. 32
    BY <1>1
  <2>2. P \in Nat /\ s \in Nat
    BY <1>1, <2>1, Powers, SizeNat
  <2> HIDE DEF s
  <2> QED
    BY <2>2
<1>3. Size(net.len) = P * s
  BY <1>1, SizeSplit
<1>4. sub.len = len /\ sub.base = net.base + k * s
  BY <1>1, <1>2, SubnetType
<1> HIDE DEF P, s, sub
<1>5. k * s + s <= P * s /\ k * s \in Nat /\ P * s \in Nat
  BY <1>2, Above
<1>6. net.base <= net.base + k * s /\ (net.base + k * s) + s <= net.base + P * s
  BY <1>1, <1>2, <1>5
<1>7. Size(sub.len) = s
  BY <1>4 DEF s
<1>8. Contains(net, sub)
  BY <1>3, <1>4, <1>6, <1>7 DEF Contains
<1> QED
  BY <1>8 DEF sub

LEMMA DisjointSymmetric == \A x, y : Disjoint(x, y) => Disjoint(y, x)
BY DEF Disjoint

LEMMA SubnetsApart ==
  ASSUME NEW net \in Networks, NEW len \in 0 .. 32, NEW j \in Nat, NEW k \in Nat, j < k
  PROVE  Disjoint(Subnet(net, len, j), Subnet(net, len, k))
<1> DEFINE s == Size(len)
<1>1. net.base \in Nat /\ s \in Nat
  BY SizeNat DEF Networks
<1>2. /\ Subnet(net, len, j).base = net.base + j * s /\ Subnet(net, len, j).len = len
      /\ Subnet(net, len, k).base = net.base + k * s
  BY SubnetType
<1>3. Size(Subnet(net, len, j).len) = s
  BY <1>2
<1> HIDE DEF s
<1>4. j * s + s <= k * s /\ j * s \in Nat /\ k * s \in Nat
  BY <1>1, Above
<1>5. (net.base + j * s) + s <= net.base + k * s
  BY <1>1, <1>4
<1> QED
  BY <1>2, <1>3, <1>5 DEF Disjoint

(* What lies within disjoint networks is disjoint.                         *)
LEMMA InsideApart ==
  ASSUME NEW x \in Networks, NEW y \in Networks, NEW u \in Networks, NEW v \in Networks,
         Disjoint(x, y), Contains(x, u), Contains(y, v)
  PROVE  Disjoint(u, v)
<1>1. /\ x.base \in Nat /\ y.base \in Nat /\ u.base \in Nat /\ v.base \in Nat
      /\ Size(x.len) \in Nat /\ Size(y.len) \in Nat /\ Size(u.len) \in Nat /\ Size(v.len) \in Nat
  BY SizeNat DEF Networks
<1> QED
  BY <1>1 DEF Disjoint, Contains

LEMMA InsideInside ==
  ASSUME NEW x \in Networks, NEW y \in Networks, NEW z \in Networks, Contains(x, y), Contains(y, z)
  PROVE  Contains(x, z)
<1>1. /\ x.base \in Nat /\ y.base \in Nat /\ z.base \in Nat
      /\ Size(x.len) \in Nat /\ Size(y.len) \in Nat /\ Size(z.len) \in Nat
  BY SizeNat DEF Networks
<1> QED
  BY <1>1 DEF Contains

(* No network has room for what disjoint networks have.                    *)
LEMMA NotInBoth ==
  ASSUME NEW x \in Networks, NEW y \in Networks, NEW z \in Networks,
         Disjoint(x, y), Contains(x, z)
  PROVE  ~Contains(y, z)
<1>1. /\ x.base \in Nat /\ y.base \in Nat /\ z.base \in Nat
      /\ Size(x.len) \in Nat /\ Size(y.len) \in Nat /\ Size(z.len) \in Nat /\ Size(z.len) > 0
  BY SizeNat DEF Networks
<1> QED
  BY <1>1 DEF Contains, Disjoint
-----------------------------------------------------------------------------
(* The prefix lengths, once they are accepted                              *)
Shaping ==
  /\ shape.as \in 8 .. 30
  /\ shape.router \in shape.as + 1 .. 32
  /\ shape.iface \in shape.as + 2 .. 32

LEMMA AsesFinite == IsFiniteSet(Ases) /\ Ases \subseteq Nat
<1>1. AsOf \in Surjection(Exported, Ases)
  BY ExportAssumption DEF Surjection, Exported, Ases
<1>2. IsFiniteSet(Exported)
  BY ExportAssumption DEF Exported
<1> QED
  BY <1>1, <1>2, FS_Surjection, ExportAssumption DEF Ases, Exported

LEMMA AsOrder ==
  ASSUME NEW i \in Ases, NEW j \in Ases, i < j
  PROVE  Cardinality({a \in Ases : a < i}) < Cardinality({a \in Ases : a < j})
<1> DEFINE S == {a \in Ases : a < i}
           T == {a \in Ases : a < j}
<1>0. i \in Nat /\ j \in Nat /\ Ases \subseteq Nat
  BY AsesFinite
<1>1. IsFiniteSet(T)
  BY AsesFinite, FS_Subset
<1>2. S \in SUBSET T /\ i \in T /\ i \notin S
  <2>1. \A a \in Ases : a < i => a < j
    BY <1>0
  <2>2. ~(i < i)
    BY <1>0
  <2> QED
    BY <2>1, <2>2
<1> HIDE DEF S, T
<1>3. Cardinality(S) <= Cardinality(T) /\ Cardinality(S) # Cardinality(T) /\ IsFiniteSet(S)
  BY <1>1, <1>2, FS_Subset
<1>4. Cardinality(S) \in Nat /\ Cardinality(T) \in Nat
  BY <1>1, <1>3, FS_CardinalityType
<1>5. Cardinality(S) < Cardinality(T)
  BY <1>3, <1>4
<1> QED
  BY <1>5 DEF S, T

LEMMA AsNetworks ==
  ASSUME Shaping, NEW i \in Ases, NEW j \in Ases
  PROVE  /\ AsNetwork(i) \in Networks /\ AsNetwork(i).len = shape.as
         /\ i # j => Disjoint(AsNetwork(i), AsNetwork(j))
<1> DEFINE all == [base |-> Power[24], len |-> 8]
           Place(a) == Cardinality({b \in Ases : b < a})
<1>1. all \in Networks /\ shape.as \in 0 .. 32
  BY Powers DEF Networks, Shaping
<1>2. \A a : Place(a) \in Nat
  <2> TAKE a
  <2>1. IsFiniteSet({b \in Ases : b < a})
    BY AsesFinite, FS_Subset
  <2> QED
    BY <2>1, FS_CardinalityType
<1>3. \A a : AsNetwork(a) = Subnet(all, shape.as, Place(a))
  BY DEF AsNetwork
<1>4. i \in Nat /\ j \in Nat
  BY AsesFinite
<1>5. /\ i < j => Place(i) < Place(j)
      /\ j < i => Place(j) < Place(i)
  BY AsOrder
<1> HIDE DEF all, Place
<1>6. AsNetwork(i) \in Networks /\ AsNetwork(i).len = shape.as
  BY <1>1, <1>2, <1>3, SubnetType
<1>7. CASE i < j
  BY <1>1, <1>2, <1>3, <1>5, <1>6, <1>7, SubnetsApart
<1>8. CASE j < i
  BY <1>1, <1>2, <1>3, <1>5, <1>6, <1>8, SubnetsApart, DisjointSymmetric
<1> QED
  BY <1>4, <1>6, <1>7, <1>8

(* The parts of the network of an AS                                       *)
Part(asn, k) ==
  IF k = 1 THEN RouterRange(asn) ELSE LinkRange(asn, k = 2)

LEMMA PartsInside ==
  ASSUME Shaping, NEW i \in Ases, NEW k \in 1 .. 3
  PROVE  /\ Part(i, k) \in Networks
         /\ Part(i, k).len = IF k = 1 THEN shape.as + 1 ELSE shape.as + 2
         /\ Contains(AsNetwork(i), Part(i, k))
         /\ Part(i, k).base = IF k = 1 THEN AsNetwork(i).base
                              ELSE AsNetwork(i).base + k * Size(shape.as + 2)
<1> DEFINE n == AsNetwork(i)
<1>1. n \in Networks /\ n.len = shape.as
  BY AsNetworks
<1>2. Power[1] = 2 /\ Power[2] = 4
  BY Powers
<1>3. CASE k = 1
  <2>1. Part(i, k) = Subnet(n, shape.as + 1, 0)
    BY <1>3 DEF Part, RouterRange
  <2>2. shape.as + 1 \in 0 .. 32 /\ shape.as + 1 = n.len + 1
        /\ 0 \in 0 .. Power[1] - 1
    BY <1>1, <1>2 DEF Shaping
  <2>3. Contains(n, Subnet(n, shape.as + 1, 0))
    <3> HIDE DEF n
    <3> QED
      BY <1>1, <2>2, SubnetInside
  <2>4. Size(shape.as + 1) \in Nat /\ n.base \in Nat
    BY <1>1, <2>2, SizeNat DEF Networks
  <2>5. /\ Subnet(n, shape.as + 1, 0) \in Networks
        /\ Subnet(n, shape.as + 1, 0).len = shape.as + 1
        /\ Subnet(n, shape.as + 1, 0).base = n.base + 0 * Size(shape.as + 1)
    BY <1>1, <2>2, SubnetType
  <2>6. n.base + 0 * Size(shape.as + 1) = n.base
    BY <2>4
  <2> QED
    BY <1>3, <2>1, <2>3, <2>5, <2>6
<1>4. CASE k # 1
  <2>1. Part(i, k) = Subnet(n, shape.as + 2, k)
    BY <1>4 DEF Part, LinkRange
  <2>2. shape.as + 2 \in 0 .. 32 /\ shape.as + 2 = n.len + 2
        /\ k \in 0 .. Power[2] - 1 /\ k \in Nat
    BY <1>1, <1>2 DEF Shaping
  <2>3. Contains(n, Subnet(n, shape.as + 2, k))
    <3> HIDE DEF n
    <3> QED
      BY <1>1, <2>2, SubnetInside
  <2>5. /\ Subnet(n, shape.as + 2, k) \in Networks
        /\ Subnet(n, shape.as + 2, k).len = shape.as + 2
        /\ Subnet(n, shape.as + 2, k).base = n.base + k * Size(shape.as + 2)
    BY <1>1, <2>2, SubnetType
  <2> QED
    BY <1>4, <2>1, <2>3, <2>5
<1> QED
  BY <1>3, <1>4

LEMMA PartsApart ==
  ASSUME Shaping, NEW i \in Ases, NEW j \in Ases, NEW k \in 1 .. 3, NEW l \in 1 .. 3,
         <<i, k>> # <<j, l>>
  PROVE  Disjoint(Part(i, k), Part(j, l))
<1>1. CASE i # j
  BY <1>1, AsNetworks, PartsInside, InsideApart
<1>2. ASSUME NEW m \in 1 .. 3, NEW n \in 1 .. 3, m < n
      PROVE  Disjoint(Part(i, m), Part(i, n))
  <2> DEFINE b == AsNetwork(i).base
             s == Size(shape.as + 2)
  <2>1. shape.as + 1 \in 0 .. 32 /\ shape.as + 2 \in 0 .. 32
        /\ shape.as + 2 = (shape.as + 1) + 1
    BY DEF Shaping
  <2>3. Size(shape.as + 1) = 2 * s
    <3>1. shape.as + 1 \in 0 .. 31
      BY DEF Shaping
    <3> QED
      BY <2>1, <3>1, SizeHalf
  <2>4. s \in Nat /\ b \in Nat
    BY <2>1, SizeNat, AsNetworks DEF Networks
  <2>5. /\ Part(i, m).base = IF m = 1 THEN b ELSE b + m * s
        /\ Part(i, n).base = IF n = 1 THEN b ELSE b + n * s
        /\ Part(i, m).len = IF m = 1 THEN shape.as + 1 ELSE shape.as + 2
    BY PartsInside
  <2>6. Size(Part(i, m).len) = IF m = 1 THEN 2 * s ELSE s
    BY <2>3, <2>5
  <2> HIDE DEF b, s
  <2>7. Part(i, m).base + Size(Part(i, m).len) <= Part(i, n).base
    <3>1. CASE m = 1 /\ n = 2
      BY <2>4, <2>5, <2>6, <3>1
    <3>2. CASE m = 1 /\ n = 3
      BY <2>4, <2>5, <2>6, <3>2
    <3>3. CASE m = 2 /\ n = 3
      BY <2>4, <2>5, <2>6, <3>3
    <3> QED
      BY <1>2, <3>1, <3>2, <3>3
  <2> QED
    BY <2>7 DEF Disjoint
<1>3. CASE i = j
  <2>1. k < l \/ l < k
    BY <1>3
  <2> QED
    BY <1>2, <1>3, <2>1, DisjointSymmetric
<1> QED
  BY <1>1, <1>3
-----------------------------------------------------------------------------
(* The inductive invariant.  A network that was given away is one of those *)
(* that its range had given away so far, and no two are the same one.      *)
Given(net, range, len, n) ==
  \E k \in 0 .. Power[len - range.len] - 1 : k < n /\ net = Subnet(range, len, k)

Peers(r) == {x \in DOMAIN router_addrs : AsOf[x] = AsOf[r]}

RoutersPlaced ==
  /\ DOMAIN router_addrs \subseteq Exported
  /\ \A r \in DOMAIN router_addrs :
       LET net == router_addrs[r].net
       IN  /\ Given(net, RouterRange(AsOf[r]), shape.router, Cardinality(Peers(r)))
           /\ router_addrs[r].addr = Host(net, 1)
           /\ \A x \in Peers(r) \ {r} : Disjoint(router_addrs[x].net, net)

(* The links that take their networks from the same range                  *)
Alike(l) ==
  {k \in DOMAIN link_addrs : LinkAs(k) = LinkAs(l) /\ (Internal(k) <=> Internal(l))}

LinksPlaced ==
  /\ DOMAIN link_addrs \subseteq Links
  /\ \A l \in DOMAIN link_addrs :
       /\ Given(link_addrs[l], LinkRange(LinkAs(l), Internal(l)), shape.iface,
                Cardinality(Alike(l)))
       /\ \A k \in Alike(l) \ {l} : Disjoint(link_addrs[k], link_addrs[l])

(* The interfaces of a router are numbered without gaps.                   *)
Mine(indices, r) == {x \in DOMAIN indices : x[1] = r}

Indexed(indices) ==
  /\ DOMAIN indices \subseteq Exported \X Exported
  /\ \A p \in DOMAIN indices : indices[p] \in 0 .. Cardinality(Mine(indices, p[1])) - 1
  /\ \A p, q \in DOMAIN indices : p[1] = q[1] /\ p # q => indices[p] # indices[q]

(* The end that asked first has the first address of the link, the other   *)
(* one the second, if there is one.                                        *)
Ended(l) ==
  \E a, b \in Exported :
    /\ a # b /\ l = {a, b}
    /\ <<a, b>> \in DOMAIN interfaces /\ interfaces[<<a, b>>].addr = Host(link_addrs[l], 1)
    /\ <<b, a>> \in DOMAIN interfaces <=> HasHost(link_addrs[l], 2)
    /\ HasHost(link_addrs[l], 2) => interfaces[<<b, a>>].addr = Host(link_addrs[l], 2)

InterfacesPlaced ==
  /\ \A p \in DOMAIN interfaces :
       /\ p \in DOMAIN interface_indices /\ interfaces[p].idx = interface_indices[p]
       /\ {p[1], p[2]} \in DOMAIN link_addrs
  /\ \A l \in DOMAIN link_addrs : Ended(l)

AddressInv ==
  /\ Shaping
  /\ RoutersPlaced
  /\ LinksPlaced
  /\ Indexed(interface_indices)
  /\ InterfacesPlaced

LEMMA MinOfTwo ==
  ASSUME NEW a \in Nat, NEW b \in Nat
  PROVE  Min({a, b}) = IF a <= b THEN a ELSE b
<1>1. CASE a <= b
  <2>1. a \in {a, b} /\ \A y \in {a, b} : a <= y
    BY <1>1
  <2>2. \A x \in {a, b} : (\A y \in {a, b} : x <= y) => x = a
    BY <1>1
  <2> QED
    BY <1>1, <2>1, <2>2 DEF Min
<1>2. CASE ~(a <= b)
  <2>1. b \in {a, b} /\ \A y \in {a, b} : b <= y
    BY <1>2
  <2>2. \A x \in {a, b} : (\A y \in {a, b} : x <= y) => x = b
    BY <1>2
  <2> QED
    BY <1>2, <2>1, <2>2 DEF Min
<1> QED
  BY <1>1, <1>2

LEMMA LinkAses ==
  ASSUME NEW a \in Exported, NEW b \in Exported
  PROVE  LinkAs({a, b}) \in Ases
<1>1. AsOf[a] \in Nat /\ AsOf[b] \in Nat /\ AsOf[a] \in Ases /\ AsOf[b] \in Ases
  BY ExportAssumption DEF Exported, Ases
<1>2. {AsOf[r] : r \in {a, b}} = {AsOf[a], AsOf[b]}
  OBVIOUS
<1>3. LinkAs({a, b}) = Min({AsOf[a], AsOf[b]})
  BY <1>2 DEF LinkAs
<1> QED
  BY <1>1, <1>3, MinOfTwo

LEMMA LinkPairs ==
  ASSUME NEW l \in Links
  PROVE  /\ LinkAs(l) \in Ases
         /\ \E a, b \in Exported : a # b /\ l = {a, b}
<1>1. PICK a \in Exported, b \in Exported : a # b /\ l = {a, b}
  BY ExportAssumption DEF Exported
<1> QED
  BY <1>1, LinkAses

LEMMA FiniteParts ==
  /\ IsFiniteSet(Exported) /\ IsFiniteSet(Links)
  /\ IsFiniteSet(Exported \X Exported)
<1>1. IsFiniteSet(Exported)
  BY ExportAssumption DEF Exported
<1>2. IsFiniteSet(SUBSET Exported)
  BY <1>1, FS_SUBSET
<1>3. Links \subseteq SUBSET Exported
  BY LinkPairs
<1>4. IsFiniteSet(Links)
  BY <1>2, <1>3, FS_Subset
<1>5. IsFiniteSet(Exported \X Exported)
  BY <1>1, FS_Product
<1> QED
  BY <1>1, <1>4, <1>5

(* The range of the network of a link                                      *)
Quarter(l) == IF Internal(l) THEN 2 ELSE 3

LEMMA LinkParts == \A l : LinkRange(LinkAs(l), Internal(l)) = Part(LinkAs(l), Quarter(l))
<1> TAKE l
<1>1. CASE Internal(l)
  BY <1>1 DEF LinkRange, Part, Quarter
<1>2. CASE ~Internal(l)
  BY <1>2 DEF LinkRange, Part, Quarter
<1> QED
  BY <1>1, <1>2

(* A network that was given lies in its range.                             *)
LEMMA GivenInside ==
  ASSUME NEW range \in Networks, NEW len \in range.len .. 32, NEW n, NEW net,
         Given(net, range, len, n)
  PROVE  net \in Networks /\ net.len = len /\ Contains(range, net)
<1>1. PICK k \in 0 .. Power[len - range.len] - 1 : net = Subnet(range, len, k)
  BY DEF Given
<1> DEFINE d == len - range.len
<1>2. d \in Nat /\ len \in 0 .. 32 /\ len = range.len + d
  BY DEF Networks
<1>3. k \in 0 .. Power[d] - 1 /\ k \in Nat
  OBVIOUS
<1> HIDE DEF d
<1> QED
  BY <1>1, <1>2, <1>3, SubnetInside, SubnetType

(* The next network that is given is none of the former ones.              *)
LEMMA NextGiven ==
  ASSUME NEW range \in Networks, NEW len \in range.len .. 32, NEW taken, IsFiniteSet(taken),
         NEW net \in NextSubnet(range, len, taken)
  PROVE  /\ Given(net, range, len, Cardinality(taken) + 1)
         /\ \A other : Given(other, range, len, Cardinality(taken)) => Disjoint(other, net)
<1> DEFINE n == Cardinality(taken)
<1>1. n \in Nat /\ n < n + 1
  BY FS_CardinalityType
<1>2. n \in 0 .. Power[len - range.len] - 1 /\ net = Subnet(range, len, n)
  BY DEF NextSubnet
<1>3. len \in 0 .. 32
  BY DEF Networks
<1> HIDE DEF n
<1>4. Given(net, range, len, n + 1)
  BY <1>1, <1>2 DEF Given
<1>5. ASSUME NEW other, Given(other, range, len, n)
      PROVE  Disjoint(other, net)
  <2>1. PICK k \in 0 .. Power[len - range.len] - 1 : k < n /\ other = Subnet(range, len, k)
    BY <1>5 DEF Given
  <2> QED
    BY <1>1, <1>2, <1>3, <2>1, SubnetsApart
<1> QED
  BY <1>4, <1>5 DEF n

LEMMA GivenMore ==
  ASSUME NEW net, NEW range, NEW len, NEW n \in Nat, NEW m \in Nat, n <= m,
         Given(net, range, len, n)
  PROVE  Given(net, range, len, m)
BY DEF Given

LEMMA RangesKept ==
  ASSUME UNCHANGED shape
  PROVE  \A i, b : RouterRange(i)' = RouterRange(i) /\ LinkRange(i, b)' = LinkRange(i, b)
BY DEF RouterRange, LinkRange, AsNetwork
-----------------------------------------------------------------------------
LEMMA AddressInvInit == AddressorInit => AddressInv
<1> SUFFICES ASSUME AddressorInit PROVE AddressInv
  OBVIOUS
<1>1. Shaping
  <2>1. PICK t \in Shapes : shape = [t EXCEPT !.as = IF @ < 8 THEN 8 ELSE @] /\ Accepted(shape)
    BY DEF AddressorInit
  <2>2. t \in [as : Nat, router : Nat, iface : Nat]
    BY ExportAssumption
  <2>3. shape.as \in Nat /\ shape.as >= 8
    BY <2>1, <2>2
  <2> QED
    BY <2>1, <2>3 DEF Accepted, Shaping
<1>2. /\ DOMAIN router_addrs = {} /\ DOMAIN link_addrs = {}
      /\ DOMAIN interfaces = {} /\ DOMAIN interface_indices = {}
  BY DEF AddressorInit
<1> QED
  BY <1>1, <1>2 DEF AddressInv, RoutersPlaced, LinksPlaced, Indexed, InterfacesPlaced

LEMMA RouterKeeps ==
  ASSUME AddressInv, NEW r \in Exported, Router(r)
  PROVE  AddressInv'
<1> DEFINE range == RouterRange(AsOf[r])
           taken == {x \in DOMAIN router_addrs : AsOf[x] = AsOf[r]}
<1>0. UNCHANGED <<shape, interface_indices, link_addrs, interfaces>> /\ r \notin DOMAIN router_addrs
  BY DEF Router
<1>1. PICK net \in NextSubnet(range, shape.router, taken) :
        router_addrs' = Put(router_addrs, r, [net |-> net, addr |-> Host(net, 1)])
  BY DEF Router
<1>2. /\ DOMAIN router_addrs' = DOMAIN router_addrs \cup {r}
      /\ router_addrs'[r] = [net |-> net, addr |-> Host(net, 1)]
      /\ \A x \in DOMAIN router_addrs : router_addrs'[x] = router_addrs[x]
  BY <1>0, <1>1 DEF Put
<1>3. Shaping /\ RoutersPlaced
  BY DEF AddressInv
<1>4. range \in Networks /\ shape.router \in range.len .. 32 /\ IsFiniteSet(taken)
  <2>1. AsOf[r] \in Ases
    BY DEF Ases
  <2>2. Part(AsOf[r], 1) = range
    BY DEF Part
  <2>3. range \in Networks /\ range.len = shape.as + 1
    BY <1>3, <2>1, <2>2, PartsInside
  <2>4. IsFiniteSet(taken)
    BY <1>3, FiniteParts, FS_Subset DEF RoutersPlaced
  <2> QED
    BY <1>3, <2>3, <2>4 DEF Shaping
<1>5. /\ Given(net, range, shape.router, Cardinality(taken) + 1)
      /\ \A other : Given(other, range, shape.router, Cardinality(taken)) => Disjoint(other, net)
  BY <1>1, <1>4, NextGiven
<1>6. \A x \in DOMAIN router_addrs' :
        Peers(x)' = IF AsOf[x] = AsOf[r] THEN taken \cup {r}
                    ELSE {y \in DOMAIN router_addrs : AsOf[y] = AsOf[x]}
  BY <1>2 DEF Peers
<1>7. Cardinality(taken) \in Nat /\ Cardinality(taken \cup {r}) = Cardinality(taken) + 1
  BY <1>0, <1>4, FS_AddElement, FS_CardinalityType
<1> HIDE DEF taken, range
<1>8. RoutersPlaced'
  <2>1. DOMAIN router_addrs' \subseteq Exported
    BY <1>2, <1>3 DEF RoutersPlaced
  <2>2. ASSUME NEW x \in DOMAIN router_addrs', x = r
        PROVE  /\ Given(router_addrs'[x].net, RouterRange(AsOf[x]), shape.router, Cardinality(Peers(x)'))
               /\ router_addrs'[x].addr = Host(router_addrs'[x].net, 1)
               /\ \A y \in Peers(x)' \ {x} : Disjoint(router_addrs'[y].net, router_addrs'[x].net)
    <3>1. Peers(x)' = taken \cup {r}
      BY <1>6, <2>2
    <3>2. \A y \in taken : Given(router_addrs'[y].net, range, shape.router, Cardinality(taken))
      <4> SUFFICES ASSUME NEW y \in taken
                   PROVE  Given(router_addrs'[y].net, range, shape.router, Cardinality(taken))
        OBVIOUS
      <4>1. y \in DOMAIN router_addrs /\ AsOf[y] = AsOf[r] /\ Peers(y) = taken
        BY DEF Peers, taken
      <4> QED
        BY <1>2, <1>3, <4>1 DEF RoutersPlaced, range
    <3> QED
      BY <1>2, <1>5, <1>7, <2>2, <3>1, <3>2 DEF range
  <2>3. ASSUME NEW x \in DOMAIN router_addrs', x # r
        PROVE  /\ Given(router_addrs'[x].net, RouterRange(AsOf[x]), shape.router, Cardinality(Peers(x)'))
               /\ router_addrs'[x].addr = Host(router_addrs'[x].net, 1)
               /\ \A y \in Peers(x)' \ {x} : Disjoint(router_addrs'[y].net, router_addrs'[x].net)
    <3>0. x \in DOMAIN router_addrs /\ router_addrs'[x] = router_addrs[x]
      BY <1>2, <2>3
    <3>1. /\ Given(router_addrs[x].net, RouterRange(AsOf[x]), shape.router, Cardinality(Peers(x)))
          /\ router_addrs[x].addr = Host(router_addrs[x].net, 1)
          /\ \A y \in Peers(x) \ {x} : Disjoint(router_addrs[y].net, router_addrs[x].net)
      BY <1>3, <3>0 DEF RoutersPlaced
    <3>2. CASE AsOf[x] = AsOf[r]
      <4>1. Peers(x) = taken /\ Peers(x)' = taken \cup {r}
        BY <1>6, <3>2 DEF Peers, taken
      <4>2. Given(router_addrs[x].net, range, shape.router, Cardinality(taken))
        BY <3>1, <3>2, <4>1 DEF range
      <4>3. Disjoint(net, router_addrs[x].net)
        BY <1>5, <4>2, DisjointSymmetric
      <4>4. Given(router_addrs[x].net, range, shape.router, Cardinality(taken) + 1)
        BY <1>7, <4>2, GivenMore
      <4>5. \A y \in taken : router_addrs'[y] = router_addrs[y]
        BY <1>2 DEF taken
      <4> QED
        BY <1>2, <1>7, <3>0, <3>1, <3>2, <4>1, <4>3, <4>4, <4>5 DEF range
    <3>3. CASE AsOf[x] # AsOf[r]
      <4>1. Peers(x)' = Peers(x)
        BY <1>6, <3>3 DEF Peers
      <4>2. \A y \in Peers(x) : router_addrs'[y] = router_addrs[y]
        BY <1>2 DEF Peers
      <4> QED
        BY <3>0, <3>1, <4>1, <4>2
    <3> QED
      BY <3>2, <3>3
  <2>4. \A i : RouterRange(i)' = RouterRange(i)
    BY <1>0, RangesKept
  <2> QED
    BY <1>0, <2>1, <2>2, <2>3, <2>4 DEF RoutersPlaced
<1>9. Shaping' /\ LinksPlaced' /\ Indexed(interface_indices)' /\ InterfacesPlaced'
  <2>1. \A i, b : LinkRange(i, b)' = LinkRange(i, b)
    BY <1>0, RangesKept
  <2>2. shape' = shape /\ link_addrs' = link_addrs /\ interfaces' = interfaces
        /\ interface_indices' = interface_indices
    BY <1>0
  <2>3. Shaping'
    BY <1>3, <2>2 DEF Shaping
  <2>4. LinksPlaced'
    BY <2>1, <2>2 DEF AddressInv, LinksPlaced, Alike
  <2>5. Indexed(interface_indices)'
    BY <2>2 DEF AddressInv, Indexed
  <2>6. InterfacesPlaced'
    <3>1. \A l : Ended(l)' <=> Ended(l)
      BY <2>2 DEF Ended
    <3> QED
      BY <2>2, <3>1 DEF AddressInv, InterfacesPlaced
  <2> QED
    BY <2>3, <2>4, <2>5, <2>6
<1> QED
  BY <1>8, <1>9 DEF AddressInv

LEMMA IndexedKept ==
  ASSUME NEW ix, Indexed(ix), NEW r \in Exported, NEW n \in Exported
  PROVE  /\ Indexed(WithIndex(ix, r, n))
         /\ <<r, n>> \in DOMAIN WithIndex(ix, r, n)
         /\ \A p \in DOMAIN ix : p \in DOMAIN WithIndex(ix, r, n) /\ WithIndex(ix, r, n)[p] = ix[p]
<1> DEFINE m == WithIndex(ix, r, n)
           mine == {x \in DOMAIN ix : x[1] = r}
           c == Cardinality(mine)
<1>1. CASE <<r, n>> \in DOMAIN ix
  BY <1>1 DEF WithIndex
<1>2. CASE <<r, n>> \notin DOMAIN ix
  <2>1. m = Put(ix, <<r, n>>, c)
    BY <1>2 DEF WithIndex
  <2>2. /\ DOMAIN m = DOMAIN ix \cup {<<r, n>>} /\ m[<<r, n>>] = c
        /\ \A p \in DOMAIN ix : m[p] = ix[p]
    BY <1>2, <2>1 DEF Put
  <2>3. IsFiniteSet(mine) /\ <<r, n>> \notin mine
    BY <1>2, FiniteParts, FS_Subset DEF Indexed
  <2>4. c \in Nat /\ Cardinality(mine \cup {<<r, n>>}) = c + 1
    BY <2>3, FS_CardinalityType, FS_AddElement
  <2>5. /\ Mine(m, r) = mine \cup {<<r, n>>} /\ Mine(ix, r) = mine
        /\ \A x : x # r => Mine(m, x) = Mine(ix, x)
    BY <2>2 DEF Mine
  <2> HIDE DEF m, c
  <2>6. DOMAIN m \subseteq Exported \X Exported
    BY <2>2 DEF Indexed
  <2>7. ASSUME NEW p \in DOMAIN m
        PROVE  m[p] \in 0 .. Cardinality(Mine(m, p[1])) - 1
    <3>1. CASE p = <<r, n>>
      <4>1. Mine(m, p[1]) = mine \cup {<<r, n>>} /\ m[p] = c
        BY <2>2, <2>5, <3>1
      <4> QED
        BY <2>4, <4>1
    <3>2. CASE p # <<r, n>> /\ p[1] = r
      <4>1. p \in DOMAIN ix /\ m[p] = ix[p] /\ ix[p] \in 0 .. Cardinality(mine) - 1
        BY <2>2, <2>5, <3>2 DEF Indexed
      <4>2. Cardinality(Mine(m, p[1])) = c + 1
        BY <2>4, <2>5, <3>2
      <4> QED
        BY <2>4, <4>1, <4>2 DEF c
    <3>3. CASE p # <<r, n>> /\ p[1] # r
      BY <2>2, <2>5, <3>3 DEF Indexed
    <3> QED
      BY <3>1, <3>2, <3>3
  <2>8. ASSUME NEW p \in DOMAIN ix, p[1] = r
        PROVE  m[p] # c
    <3>1. m[p] \in 0 .. c - 1
      BY <2>2, <2>5, <2>8 DEF Indexed, c
    <3> QED
      BY <2>4, <3>1
  <2>9. \A p, q \in DOMAIN m : p[1] = q[1] /\ p # q => m[p] # m[q]
    BY <2>2, <2>8 DEF Indexed
  <2>10. Indexed(m)
    BY <2>6, <2>7, <2>9 DEF Indexed
  <2> QED
    BY <2>2, <2>10 DEF m
<1> QED
  BY <1>1, <1>2

LEMMA RoutersKept ==
  ASSUME RoutersPlaced, UNCHANGED <<shape, router_addrs>>
  PROVE  RoutersPlaced'
<1>1. \A i : RouterRange(i)' = RouterRange(i)
  BY RangesKept
<1> QED
  BY <1>1 DEF RoutersPlaced, Peers

LEMMA LinksKept ==
  ASSUME LinksPlaced, UNCHANGED <<shape, link_addrs>>
  PROVE  LinksPlaced'
<1>1. \A i, b : LinkRange(i, b)' = LinkRange(i, b)
  BY RangesKept
<1> QED
  BY <1>1 DEF LinksPlaced, Alike

(* A new link gets a network that no other one has.                        *)
LEMMA LinkAdded ==
  ASSUME Shaping, LinksPlaced, NEW l \in Links, l \notin DOMAIN link_addrs,
         NEW net \in NextSubnet(LinkRange(LinkAs(l), Internal(l)), shape.iface,
                                {k \in DOMAIN link_addrs :
                                   LinkAs(k) = LinkAs(l) /\ (Internal(k) <=> Internal(l))}),
         shape' = shape, link_addrs' = Put(link_addrs, l, net)
  PROVE  LinksPlaced'
<1> DEFINE range == LinkRange(LinkAs(l), Internal(l))
           taken == {k \in DOMAIN link_addrs :
                       LinkAs(k) = LinkAs(l) /\ (Internal(k) <=> Internal(l))}
<1>2. /\ DOMAIN link_addrs' = DOMAIN link_addrs \cup {l}
      /\ link_addrs'[l] = net
      /\ \A x \in DOMAIN link_addrs : link_addrs'[x] = link_addrs[x]
  BY DEF Put
<1>4. range \in Networks /\ shape.iface \in range.len .. 32 /\ IsFiniteSet(taken)
  <2>1. LinkAs(l) \in Ases
    BY LinkPairs
  <2>2. range = Part(LinkAs(l), Quarter(l)) /\ Quarter(l) \in 1 .. 3 /\ Quarter(l) # 1
    BY LinkParts DEF Quarter
  <2>3. range \in Networks /\ range.len = shape.as + 2
    BY <2>1, <2>2, PartsInside
  <2>4. IsFiniteSet(taken)
    BY FiniteParts, FS_Subset DEF LinksPlaced
  <2> QED
    BY <2>3, <2>4 DEF Shaping
<1>5. /\ Given(net, range, shape.iface, Cardinality(taken) + 1)
      /\ \A other : Given(other, range, shape.iface, Cardinality(taken)) => Disjoint(other, net)
  BY <1>4, NextGiven
<1>6. \A x : Alike(x)' = IF LinkAs(x) = LinkAs(l) /\ (Internal(x) <=> Internal(l))
                         THEN Alike(x) \cup {l} ELSE Alike(x)
  BY <1>2 DEF Alike
<1>6a. \A x : LinkAs(x) = LinkAs(l) /\ (Internal(x) <=> Internal(l))
              => Alike(x) = taken /\ LinkRange(LinkAs(x), Internal(x)) = range
  BY DEF Alike, LinkRange
<1>6b. \A x : Alike(x) \subseteq DOMAIN link_addrs
  BY DEF Alike
<1>7. Cardinality(taken) \in Nat /\ Cardinality(taken \cup {l}) = Cardinality(taken) + 1
  BY <1>4, FS_AddElement, FS_CardinalityType
<1>8. taken \subseteq DOMAIN link_addrs
  OBVIOUS
<1> HIDE DEF taken, range
<1>9. \A y \in taken : Given(link_addrs[y], range, shape.iface, Cardinality(taken))
  <2> SUFFICES ASSUME NEW y \in taken
               PROVE  Given(link_addrs[y], range, shape.iface, Cardinality(taken))
    OBVIOUS
  <2>1. y \in DOMAIN link_addrs /\ LinkAs(y) = LinkAs(l) /\ (Internal(y) <=> Internal(l))
    BY DEF taken
  <2>2. Alike(y) = taken /\ LinkRange(LinkAs(y), Internal(y)) = range
    BY <1>6a, <2>1
  <2>3. Given(link_addrs[y], LinkRange(LinkAs(y), Internal(y)), shape.iface, Cardinality(Alike(y)))
    BY <2>1 DEF LinksPlaced
  <2> QED
    BY <2>2, <2>3
<1>10. ASSUME NEW x \in DOMAIN link_addrs'
       PROVE  /\ Given(link_addrs'[x], LinkRange(LinkAs(x), Internal(x)), shape.iface,
                       Cardinality(Alike(x)'))
              /\ \A k \in Alike(x)' \ {x} : Disjoint(link_addrs'[k], link_addrs'[x])
  <2>1. CASE x = l
    <3>1. Alike(x)' = taken \cup {l} /\ LinkRange(LinkAs(x), Internal(x)) = range
      BY <1>6, <1>6a, <2>1
    <3>2. \A y \in taken : Disjoint(link_addrs'[y], net)
      BY <1>2, <1>5, <1>8, <1>9
    <3> QED
      BY <1>2, <1>5, <1>7, <2>1, <3>1, <3>2
  <2>2. CASE x # l /\ LinkAs(x) = LinkAs(l) /\ (Internal(x) <=> Internal(l))
    <3>0. x \in DOMAIN link_addrs /\ link_addrs'[x] = link_addrs[x]
      BY <1>2, <2>2
    <3>1. Alike(x) = taken /\ Alike(x)' = taken \cup {l} /\ LinkRange(LinkAs(x), Internal(x)) = range
      BY <1>6, <1>6a, <2>2
    <3>2. Given(link_addrs[x], range, shape.iface, Cardinality(taken))
      BY <3>0, <3>1 DEF LinksPlaced
    <3>3. Given(link_addrs[x], range, shape.iface, Cardinality(taken) + 1)
      BY <1>7, <3>2, GivenMore
    <3>4. Disjoint(net, link_addrs[x])
      BY <1>5, <3>2, DisjointSymmetric
    <3>5. \A y \in taken \ {x} : Disjoint(link_addrs'[y], link_addrs[x])
      BY <1>2, <1>8, <3>0, <3>1 DEF LinksPlaced
    <3> QED
      BY <1>2, <1>7, <3>0, <3>1, <3>3, <3>4, <3>5
  <2>3. CASE x # l /\ ~(LinkAs(x) = LinkAs(l) /\ (Internal(x) <=> Internal(l)))
    <3>0. x \in DOMAIN link_addrs /\ link_addrs'[x] = link_addrs[x]
      BY <1>2, <2>3
    <3>1. Alike(x)' = Alike(x)
      BY <1>6, <2>3
    <3>2. \A y \in Alike(x) : link_addrs'[y] = link_addrs[y]
      BY <1>2, <1>6b
    <3> QED
      BY <3>0, <3>1, <3>2 DEF LinksPlaced
  <2> QED
    BY <2>1, <2>2, <2>3
<1>11. \A i, b : LinkRange(i, b)' = LinkRange(i, b)
  BY RangesKept
<1>12. DOMAIN link_addrs' \subseteq Links
  BY <1>2 DEF LinksPlaced
<1> QED
  BY <1>10, <1>11, <1>12 DEF LinksPlaced

LEMMA IfaceKeeps ==
  ASSUME AddressInv, NEW r \in Exported, NEW n \in Exported, {r, n} \in Links, r # n, Iface(r, n)
  PROVE  AddressInv'
<1> DEFINE l == {r, n}
           one == WithIndex(interface_indices, r, n)
           ix == WithIndex(one, n, r)
           taken == {k \in DOMAIN link_addrs :
                       LinkAs(k) = LinkAs(l) /\ (Internal(k) <=> Internal(l))}
           free == NextSubnet(LinkRange(LinkAs(l), Internal(l)), shape.iface, taken)
<1>0. /\ shape' = shape /\ router_addrs' = router_addrs
      /\ l \notin DOMAIN link_addrs /\ interface_indices' = ix
  BY DEF Iface
<1>1. Shaping /\ RoutersPlaced /\ LinksPlaced /\ Indexed(interface_indices) /\ InterfacesPlaced
  BY DEF AddressInv
<1>2. Shaping' /\ RoutersPlaced'
  BY <1>0, <1>1, RoutersKept DEF Shaping
<1>3. /\ Indexed(ix) /\ <<r, n>> \in DOMAIN ix /\ <<n, r>> \in DOMAIN ix
      /\ \A p \in DOMAIN interface_indices : p \in DOMAIN ix /\ ix[p] = interface_indices[p]
  <2>1. /\ Indexed(one) /\ <<r, n>> \in DOMAIN one
        /\ \A p \in DOMAIN interface_indices : p \in DOMAIN one /\ one[p] = interface_indices[p]
    BY <1>1, IndexedKept
  <2> HIDE DEF one
  <2> QED
    BY <2>1, IndexedKept
<1> HIDE DEF ix
<1>4. Indexed(interface_indices)'
  BY <1>0, <1>3 DEF Indexed
<1>5. CASE free = {}
  <2>1. link_addrs' = link_addrs /\ interfaces' = interfaces
    BY <1>5 DEF Iface
  <2>2. LinksPlaced'
    BY <1>0, <1>1, <2>1, LinksKept
  <2>3. \A k : Ended(k)' <=> Ended(k)
    BY <2>1 DEF Ended
  <2>4. InterfacesPlaced'
    BY <1>0, <1>1, <1>3, <2>1, <2>3 DEF InterfacesPlaced
  <2> QED
    BY <1>2, <1>4, <2>2, <2>4 DEF AddressInv
<1>6. CASE free # {}
  <2> DEFINE here(net) == Put(interfaces, <<r, n>>, [idx |-> ix[<<r, n>>], addr |-> Host(net, 1)])
  <2>1. PICK net \in free :
          /\ link_addrs' = Put(link_addrs, l, net)
          /\ interfaces' = IF ~HasHost(net, 2) THEN here(net)
                           ELSE Put(here(net), <<n, r>>, [idx |-> ix[<<n, r>>], addr |-> Host(net, 2)])
    BY <1>6 DEF Iface, ix
  <2>2. LinksPlaced'
    <3> HIDE DEF l
    <3>1. l \in Links
      BY DEF l
    <3> QED
      BY <1>0, <1>1, <2>1, <3>1, LinkAdded
  <2>3. /\ DOMAIN link_addrs' = DOMAIN link_addrs \cup {l}
        /\ link_addrs'[l] = net
        /\ \A x \in DOMAIN link_addrs : link_addrs'[x] = link_addrs[x]
    BY <1>0, <2>1 DEF Put
  <2>4. <<r, n>> \notin DOMAIN interfaces /\ <<n, r>> \notin DOMAIN interfaces /\ <<r, n>> # <<n, r>>
    <3>1. \A p \in DOMAIN interfaces : {p[1], p[2]} \in DOMAIN link_addrs
      BY <1>1 DEF InterfacesPlaced
    <3>2. {<<r, n>>[1], <<r, n>>[2]} = l /\ {<<n, r>>[1], <<n, r>>[2]} = l
      OBVIOUS
    <3> QED
      BY <1>0, <3>1, <3>2
  <2>5. /\ DOMAIN interfaces' = DOMAIN interfaces \cup {<<r, n>>}
                                  \cup (IF HasHost(net, 2) THEN {<<n, r>>} ELSE {})
        /\ \A p \in DOMAIN interfaces : interfaces'[p] = interfaces[p]
        /\ interfaces'[<<r, n>>] = [idx |-> ix[<<r, n>>], addr |-> Host(net, 1)]
        /\ HasHost(net, 2) => interfaces'[<<n, r>>] = [idx |-> ix[<<n, r>>], addr |-> Host(net, 2)]
    <3>1. /\ DOMAIN here(net) = DOMAIN interfaces \cup {<<r, n>>}
          /\ \A p \in DOMAIN interfaces : here(net)[p] = interfaces[p]
          /\ here(net)[<<r, n>>] = [idx |-> ix[<<r, n>>], addr |-> Host(net, 1)]
      BY <2>4 DEF Put
    <3> HIDE DEF here
    <3>2. CASE HasHost(net, 2)
      BY <2>1, <2>4, <3>1, <3>2 DEF Put
    <3>3. CASE ~HasHost(net, 2)
      BY <2>1, <3>1, <3>3
    <3> QED
      BY <3>2, <3>3
  <2>6. ASSUME NEW p \in DOMAIN interfaces'
        PROVE  /\ p \in DOMAIN ix /\ interfaces'[p].idx = ix[p]
               /\ {p[1], p[2]} \in DOMAIN link_addrs'
    <3>1. CASE p \in DOMAIN interfaces
      BY <1>1, <1>3, <2>3, <2>5, <3>1 DEF InterfacesPlaced
    <3>2. CASE p = <<r, n>>
      BY <1>3, <2>3, <2>5, <3>2
    <3>3. CASE p = <<n, r>> /\ HasHost(net, 2)
      BY <1>3, <2>3, <2>5, <3>3
    <3> QED
      BY <2>5, <3>1, <3>2, <3>3
  <2>7. ASSUME NEW k \in DOMAIN link_addrs'
        PROVE  Ended(k)'
    <3>1. CASE k = l
      <4>1. <<n, r>> \in DOMAIN interfaces' <=> HasHost(net, 2)
        BY <2>4, <2>5
      <4>2. interfaces'[<<r, n>>].addr = Host(net, 1)
            /\ (HasHost(net, 2) => interfaces'[<<n, r>>].addr = Host(net, 2))
        BY <2>5
      <4> QED
        BY <2>3, <2>5, <3>1, <4>1, <4>2 DEF Ended
    <3>2. CASE k # l
      <4>1. k \in DOMAIN link_addrs /\ link_addrs'[k] = link_addrs[k]
        BY <2>3, <3>2
      <4>2. PICK a \in Exported, b \in Exported :
              /\ a # b /\ k = {a, b}
              /\ <<a, b>> \in DOMAIN interfaces /\ interfaces[<<a, b>>].addr = Host(link_addrs[k], 1)
              /\ <<b, a>> \in DOMAIN interfaces <=> HasHost(link_addrs[k], 2)
              /\ HasHost(link_addrs[k], 2) => interfaces[<<b, a>>].addr = Host(link_addrs[k], 2)
        BY <1>1, <4>1 DEF InterfacesPlaced, Ended
      <4>3. <<a, b>> # <<r, n>> /\ <<a, b>> # <<n, r>> /\ <<b, a>> # <<r, n>> /\ <<b, a>> # <<n, r>>
        BY <3>2, <4>2
      <4>4. /\ <<a, b>> \in DOMAIN interfaces' /\ interfaces'[<<a, b>>] = interfaces[<<a, b>>]
            /\ <<b, a>> \in DOMAIN interfaces' <=> <<b, a>> \in DOMAIN interfaces
            /\ <<b, a>> \in DOMAIN interfaces => interfaces'[<<b, a>>] = interfaces[<<b, a>>]
        BY <2>5, <4>2, <4>3
      <4> QED
        BY <4>1, <4>2, <4>4 DEF Ended
    <3> QED
      BY <3>1, <3>2
  <2>8. InterfacesPlaced'
    BY <1>0, <2>6, <2>7 DEF InterfacesPlaced
  <2> QED
    BY <1>2, <1>4, <2>2, <2>8 DEF AddressInv
<1> QED
  BY <1>5, <1>6

LEMMA AddressInvNext == AddressInv /\ [AddressorNext]_address_vars => AddressInv'
<1> SUFFICES ASSUME AddressInv, [AddressorNext]_address_vars PROVE AddressInv'
  OBVIOUS
<1>1. CASE UNCHANGED address_vars
  <2>1. /\ shape' = shape /\ router_addrs' = router_addrs /\ link_addrs' = link_addrs
        /\ interfaces' = interfaces /\ interface_indices' = interface_indices
    BY <1>1 DEF address_vars
  <2>2. Shaping' /\ RoutersPlaced' /\ LinksPlaced'
    BY <2>1, RoutersKept, LinksKept DEF AddressInv, Shaping
  <2>3. \A k : Ended(k)' <=> Ended(k)
    BY <2>1 DEF Ended
  <2>4. Indexed(interface_indices)' /\ InterfacesPlaced'
    BY <2>1, <2>3 DEF AddressInv, Indexed, InterfacesPlaced
  <2> QED
    BY <2>2, <2>4 DEF AddressInv
<1>2. CASE AddressorNext
  BY <1>2, RouterKeeps, IfaceKeeps DEF AddressorNext
<1> QED
  BY <1>1, <1>2
-----------------------------------------------------------------------------
LEMMA NetsTyped ==
  ASSUME AddressInv
  PROVE  /\ \A r \in DOMAIN router_addrs :
              /\ r \in Exported /\ AsOf[r] \in Ases
              /\ router_addrs[r].net \in Networks
              /\ Contains(Part(AsOf[r], 1), router_addrs[r].net)
         /\ \A l \in DOMAIN link_addrs :
              /\ l \in Links /\ LinkAs(l) \in Ases /\ Quarter(l) \in 2 .. 3
              /\ link_addrs[l] \in Networks /\ link_addrs[l].len = shape.iface
              /\ Contains(Part(LinkAs(l), Quarter(l)), link_addrs[l])
<1>1. Shaping /\ RoutersPlaced /\ LinksPlaced
  BY DEF AddressInv
<1>2. ASSUME NEW r \in DOMAIN router_addrs
      PROVE  /\ r \in Exported /\ AsOf[r] \in Ases
             /\ router_addrs[r].net \in Networks
             /\ Contains(Part(AsOf[r], 1), router_addrs[r].net)
  <2>1. r \in Exported /\ AsOf[r] \in Ases
    BY <1>1 DEF RoutersPlaced, Ases
  <2>2. Part(AsOf[r], 1) = RouterRange(AsOf[r])
    BY DEF Part
  <2>3. RouterRange(AsOf[r]) \in Networks /\ shape.router \in RouterRange(AsOf[r]).len .. 32
    BY <1>1, <2>1, <2>2, PartsInside DEF Shaping
  <2>4. Given(router_addrs[r].net, RouterRange(AsOf[r]), shape.router, Cardinality(Peers(r)))
    BY <1>1 DEF RoutersPlaced
  <2> QED
    BY <2>1, <2>2, <2>3, <2>4, GivenInside
<1>3. ASSUME NEW l \in DOMAIN link_addrs
      PROVE  /\ l \in Links /\ LinkAs(l) \in Ases /\ Quarter(l) \in 2 .. 3
             /\ link_addrs[l] \in Networks /\ link_addrs[l].len = shape.iface
             /\ Contains(Part(LinkAs(l), Quarter(l)), link_addrs[l])
  <2>1. l \in Links /\ LinkAs(l) \in Ases /\ Quarter(l) \in 2 .. 3 /\ Quarter(l) \in 1 .. 3
    BY <1>1, LinkPairs DEF LinksPlaced, Quarter
  <2> DEFINE range == LinkRange(LinkAs(l), Internal(l))
  <2>2. Part(LinkAs(l), Quarter(l)) = range
    BY LinkParts
  <2>3. range \in Networks /\ shape.iface \in range.len .. 32
    BY <1>1, <2>1, <2>2, PartsInside DEF Shaping
  <2>4. Given(link_addrs[l], range, shape.iface, Cardinality(Alike(l)))
    BY <1>1 DEF LinksPlaced
  <2> HIDE DEF range
  <2> QED
    BY <2>1, <2>2, <2>3, <2>4, GivenInside
<1> QED
  BY <1>2, <1>3

LEMMA NetsApart ==
  ASSUME AddressInv
  PROVE  /\ \A a, b \in DOMAIN router_addrs :
              a # b => Disjoint(router_addrs[a].net, router_addrs[b].net)
         /\ \A k, l \in DOMAIN link_addrs : k # l => Disjoint(link_addrs[k], link_addrs[l])
         /\ \A a \in DOMAIN router_addrs, l \in DOMAIN link_addrs :
              Disjoint(router_addrs[a].net, link_addrs[l])
<1>1. Shaping /\ RoutersPlaced /\ LinksPlaced
  BY DEF AddressInv
<1>2. ASSUME NEW a \in DOMAIN router_addrs, NEW b \in DOMAIN router_addrs, a # b
      PROVE  Disjoint(router_addrs[a].net, router_addrs[b].net)
  <2>1. CASE AsOf[a] = AsOf[b]
    BY <1>1, <1>2, <2>1 DEF RoutersPlaced, Peers
  <2>2. CASE AsOf[a] # AsOf[b]
    <3>1. /\ AsOf[a] \in Ases /\ AsOf[b] \in Ases
          /\ Part(AsOf[a], 1) \in Networks /\ Part(AsOf[b], 1) \in Networks
      BY <1>1, NetsTyped, PartsInside
    <3>2. Disjoint(Part(AsOf[a], 1), Part(AsOf[b], 1))
      BY <1>1, <2>2, <3>1, PartsApart
    <3> QED
      BY <3>1, <3>2, NetsTyped, InsideApart
  <2> QED
    BY <2>1, <2>2
<1>3. ASSUME NEW k \in DOMAIN link_addrs, NEW l \in DOMAIN link_addrs, k # l
      PROVE  Disjoint(link_addrs[k], link_addrs[l])
  <2>1. CASE LinkAs(k) = LinkAs(l) /\ (Internal(k) <=> Internal(l))
    BY <1>1, <1>3, <2>1 DEF LinksPlaced, Alike
  <2>2. CASE ~(LinkAs(k) = LinkAs(l) /\ (Internal(k) <=> Internal(l)))
    <3>1. /\ LinkAs(k) \in Ases /\ LinkAs(l) \in Ases
          /\ Quarter(k) \in 1 .. 3 /\ Quarter(l) \in 1 .. 3
      BY NetsTyped
    <3>2. <<LinkAs(k), Quarter(k)>> # <<LinkAs(l), Quarter(l)>>
      BY <2>2 DEF Quarter
    <3>3. /\ Disjoint(Part(LinkAs(k), Quarter(k)), Part(LinkAs(l), Quarter(l)))
          /\ Part(LinkAs(k), Quarter(k)) \in Networks /\ Part(LinkAs(l), Quarter(l)) \in Networks
      BY <1>1, <3>1, <3>2, PartsApart, PartsInside
    <3> QED
      BY <3>3, NetsTyped, InsideApart
  <2> QED
    BY <2>1, <2>2
<1>4. ASSUME NEW a \in DOMAIN router_addrs, NEW l \in DOMAIN link_addrs
      PROVE  Disjoint(router_addrs[a].net, link_addrs[l])
  <2>1. AsOf[a] \in Ases /\ LinkAs(l) \in Ases /\ Quarter(l) \in 1 .. 3 /\ Quarter(l) # 1
    BY NetsTyped
  <2>2. /\ Disjoint(Part(AsOf[a], 1), Part(LinkAs(l), Quarter(l)))
        /\ Part(AsOf[a], 1) \in Networks /\ Part(LinkAs(l), Quarter(l)) \in Networks
    BY <1>1, <2>1, PartsApart, PartsInside
  <2> QED
    BY <2>2, NetsTyped, InsideApart
<1> QED
  BY <1>2, <1>3, <1>4

LEMMA Hosts ==
  ASSUME NEW net \in Networks
  PROVE  /\ Alone(Host(net, 1)) \in Networks /\ Contains(net, Alone(Host(net, 1)))
         /\ HasHost(net, 2) => /\ Alone(Host(net, 2)) \in Networks
                               /\ Contains(net, Alone(Host(net, 2)))
         /\ Host(net, 1) # Host(net, 2)
         /\ net.len < 32 => HasHost(net, 2)
<1> DEFINE b == net.base
           s == Size(net.len)
<1>1. b \in Nat /\ net.len \in 0 .. 32 /\ s \in Nat /\ s > 0
  BY SizeNat DEF Networks
<1>3. Size(32) = 1 /\ Size(31) = 2
  BY SizeSmall
<1>4. net.len < 31 => s >= 4
  <2> SUFFICES ASSUME net.len < 31 PROVE s >= 4
    OBVIOUS
  <2>1. net.len \in 0 .. 30
    BY <1>1
  <2> HIDE DEF s
  <2> QED
    BY <2>1, SizeSmall DEF s
<1>5. \A x : Alone(x).base = x /\ Alone(x).len = 32 /\ (x \in Nat => Alone(x) \in Networks)
  BY DEF Alone, Networks
<1>6. net.len >= 31 => (net.len = 31 /\ s = 2) \/ (net.len = 32 /\ s = 1)
  <2>1. CASE net.len = 31
    BY <1>3, <2>1
  <2>2. CASE net.len = 32
    BY <1>3, <2>2
  <2> QED
    BY <1>1, <2>1, <2>2
<1>7. /\ Host(net, 1) = IF net.len >= 31 THEN b ELSE b + 1
      /\ Host(net, 2) = IF net.len >= 31 THEN b + 1 ELSE b + 2
      /\ HasHost(net, 2) <=> 2 <= IF net.len >= 31 THEN s ELSE s - 2
  BY <1>1 DEF Host, HasHost
<1> HIDE DEF b, s
<1>8. /\ Host(net, 1) \in Nat /\ b <= Host(net, 1) /\ Host(net, 1) + 1 <= b + s
      /\ Host(net, 2) \in Nat
      /\ HasHost(net, 2) => b <= Host(net, 2) /\ Host(net, 2) + 1 <= b + s
      /\ Host(net, 1) # Host(net, 2)
      /\ net.len < 32 => HasHost(net, 2)
  <2>1. CASE net.len >= 31
    BY <1>1, <1>6, <1>7, <2>1
  <2>2. CASE net.len < 31
    BY <1>1, <1>4, <1>7, <2>2
  <2> QED
    BY <1>1, <2>1, <2>2
<1> QED
  BY <1>3, <1>5, <1>8 DEF Contains, b, s

(* The address of an interface is one of its link, and of no other one.    *)
LEMMA InterfaceFacts ==
  ASSUME AddressInv, NEW p \in DOMAIN interfaces
  PROVE  /\ p = <<p[1], p[2]>> /\ {p[1], p[2]} \in DOMAIN link_addrs
         /\ Alone(interfaces[p].addr) \in Networks
         /\ Contains(link_addrs[{p[1], p[2]}], Alone(interfaces[p].addr))
         /\ \A q \in DOMAIN interfaces :
              {q[1], q[2]} = {p[1], p[2]} /\ interfaces[q].addr = interfaces[p].addr => q = p
<1> DEFINE l == {p[1], p[2]}
           net == link_addrs[l]
<1>1. Indexed(interface_indices) /\ InterfacesPlaced
  BY DEF AddressInv
<1>2. \A q \in DOMAIN interfaces :
        q = <<q[1], q[2]>> /\ {q[1], q[2]} \in DOMAIN link_addrs
  BY <1>1 DEF Indexed, InterfacesPlaced
<1>3. PICK a \in Exported, b \in Exported :
        /\ a # b /\ l = {a, b}
        /\ <<a, b>> \in DOMAIN interfaces /\ interfaces[<<a, b>>].addr = Host(net, 1)
        /\ <<b, a>> \in DOMAIN interfaces <=> HasHost(net, 2)
        /\ HasHost(net, 2) => interfaces[<<b, a>>].addr = Host(net, 2)
  BY <1>1, <1>2 DEF InterfacesPlaced, Ended
<1>4. \A q \in DOMAIN interfaces : {q[1], q[2]} = l => q = <<a, b>> \/ q = <<b, a>>
  <2> SUFFICES ASSUME NEW q \in DOMAIN interfaces, {q[1], q[2]} = l
               PROVE  q = <<a, b>> \/ q = <<b, a>>
    OBVIOUS
  <2>1. (q[1] = a /\ q[2] = b) \/ (q[1] = b /\ q[2] = a)
    BY <1>3
  <2> QED
    BY <1>2, <2>1
<1>5. net \in Networks
  BY <1>2, NetsTyped
<1> HIDE DEF net
<1>6. /\ Alone(Host(net, 1)) \in Networks /\ Contains(net, Alone(Host(net, 1)))
      /\ HasHost(net, 2) => Alone(Host(net, 2)) \in Networks /\ Contains(net, Alone(Host(net, 2)))
      /\ Host(net, 1) # Host(net, 2)
  BY <1>5, Hosts
<1>7. CASE p = <<a, b>>
  <2>1. interfaces[p].addr = Host(net, 1)
    BY <1>3, <1>7
  <2>2. \A q \in DOMAIN interfaces : {q[1], q[2]} = l /\ interfaces[q].addr = Host(net, 1) => q = p
    BY <1>3, <1>4, <1>6, <1>7
  <2> QED
    BY <1>2, <1>6, <2>1, <2>2 DEF net
<1>8. CASE p = <<b, a>>
  <2>1. HasHost(net, 2) /\ interfaces[p].addr = Host(net, 2)
    BY <1>3, <1>8
  <2>2. \A q \in DOMAIN interfaces : {q[1], q[2]} = l /\ interfaces[q].addr = Host(net, 2) => q = p
    BY <1>3, <1>4, <1>6, <1>8
  <2> QED
    BY <1>2, <1>6, <2>1, <2>2 DEF net
<1> QED
  BY <1>4, <1>7, <1>8

LEMMA DisjointFromInv == AddressInv => AddressesDisjoint
<1> SUFFICES ASSUME AddressInv PROVE AddressesDisjoint
  OBVIOUS
<1>1. ASSUME shape.iface < 32, NEW l \in DOMAIN link_addrs, NEW r \in l, NEW n \in l \ {r}
      PROVE  /\ Contains(link_addrs[l], Alone(interfaces[<<r, n>>].addr))
             /\ interfaces[<<r, n>>].addr # interfaces[<<n, r>>].addr
  <2>1. link_addrs[l] \in Networks /\ link_addrs[l].len < 32
    BY <1>1, NetsTyped
  <2>2. HasHost(link_addrs[l], 2)
    BY <2>1, Hosts
  <2>3. Ended(l)
    BY DEF AddressInv, InterfacesPlaced
  <2>4. PICK a, b : l = {a, b} /\ <<a, b>> \in DOMAIN interfaces /\ <<b, a>> \in DOMAIN interfaces
    BY <2>2, <2>3 DEF Ended
  <2>5. (r = a /\ n = b) \/ (r = b /\ n = a)
    BY <1>1, <2>4
  <2>6. <<r, n>> \in DOMAIN interfaces /\ <<n, r>> \in DOMAIN interfaces /\ l = {r, n} /\ r # n
    BY <1>1, <2>4, <2>5
  <2> DEFINE p == <<r, n>>
             q == <<n, r>>
  <2>7. p[1] = r /\ p[2] = n /\ q[1] = n /\ q[2] = r /\ p # q
    BY <2>6
  <2>8. {q[1], q[2]} = {p[1], p[2]} /\ {p[1], p[2]} = l
    BY <2>6, <2>7
  <2> HIDE DEF p, q
  <2>9. /\ Contains(link_addrs[{p[1], p[2]}], Alone(interfaces[p].addr))
        /\ interfaces[q].addr # interfaces[p].addr
    BY <2>6, <2>7, <2>8, InterfaceFacts DEF p, q
  <2> QED
    BY <2>8, <2>9 DEF p, q
<1> QED
  BY <1>1, NetsApart DEF AddressesDisjoint
-----------------------------------------------------------------------------
(* An address that one AS finds, and no other one, is found.               *)
LEMMA FoundOnce ==
  ASSUME NEW x, NEW A \in Ases, NEW r, FoundIn(A, x) = {r},
         \A i \in Ases : i # A => FoundIn(i, x) = {}
  PROVE  FindAddress(x) = {r}
<1>1. {i \in Ases : FoundIn(i, x) # {}} = {A}
  OBVIOUS
<1>2. {A, A} = {A} /\ A \in Nat
  BY AsesFinite
<1>3. Min({A}) = A
  BY <1>2, MinOfTwo
<1> QED
  BY <1>1, <1>3 DEF FindAddress

(* An address in the network of a router is in no other network.           *)
LEMMA RouterAddressAlone ==
  ASSUME AddressInv, NEW r \in DOMAIN router_addrs
  PROVE  LET x == Alone(router_addrs[r].addr)
         IN  /\ Contains(router_addrs[r].net, x)
             /\ \A y \in DOMAIN router_addrs : Contains(router_addrs[y].net, x) => y = r
             /\ \A l \in DOMAIN link_addrs : ~Contains(link_addrs[l], x)
             /\ \A q \in DOMAIN interfaces : interfaces[q].addr # x.base
<1> DEFINE x == Alone(router_addrs[r].addr)
           net == router_addrs[r].net
<1>1. net \in Networks /\ router_addrs[r].addr = Host(net, 1)
  BY NetsTyped DEF AddressInv, RoutersPlaced
<1>2. x \in Networks /\ Contains(net, x)
  BY <1>1, Hosts
<1>3. ASSUME NEW y \in DOMAIN router_addrs, Contains(router_addrs[y].net, x)
      PROVE  y = r
  <2>1. router_addrs[y].net \in Networks
    BY NetsTyped
  <2>2. y # r => Disjoint(router_addrs[y].net, net)
    BY NetsApart
  <2> HIDE DEF x, net
  <2> QED
    BY <1>1, <1>2, <1>3, <2>1, <2>2, NotInBoth
<1>4. ASSUME NEW l \in DOMAIN link_addrs
      PROVE  ~Contains(link_addrs[l], x)
  <2>1. link_addrs[l] \in Networks /\ Disjoint(net, link_addrs[l])
    BY NetsTyped, NetsApart
  <2> HIDE DEF x, net
  <2> QED
    BY <1>1, <1>2, <2>1, NotInBoth
<1>5. ASSUME NEW q \in DOMAIN interfaces, interfaces[q].addr = x.base
      PROVE  FALSE
  <2>1. x = Alone(x.base)
    BY DEF Alone
  <2>2. /\ {q[1], q[2]} \in DOMAIN link_addrs
        /\ Contains(link_addrs[{q[1], q[2]}], Alone(interfaces[q].addr))
    BY InterfaceFacts
  <2> HIDE DEF x
  <2> QED
    BY <1>4, <1>5, <2>1, <2>2
<1> QED
  BY <1>2, <1>3, <1>4, <1>5

LEMMA RoutersFound ==
  ASSUME AddressInv, NEW r \in DOMAIN router_addrs
  PROVE  FindAddress(Alone(router_addrs[r].addr)) = {r}
<1> DEFINE x == Alone(router_addrs[r].addr)
           owners(i) == {y \in DOMAIN router_addrs : AsOf[y] = i /\ Contains(router_addrs[y].net, x)}
           ends(i) == {q \in DOMAIN interfaces : LinkAs({q[1], q[2]}) = i /\ interfaces[q].addr = x.base}
           ways(i) == {k \in DOMAIN link_addrs : LinkAs(k) = i /\ Contains(link_addrs[k], x)}
<1>1. /\ Contains(router_addrs[r].net, x)
      /\ \A y \in DOMAIN router_addrs : Contains(router_addrs[y].net, x) => y = r
      /\ \A l \in DOMAIN link_addrs : ~Contains(link_addrs[l], x)
      /\ \A q \in DOMAIN interfaces : interfaces[q].addr # x.base
  BY RouterAddressAlone
<1>2. AsOf[r] \in Ases
  BY NetsTyped
<1> HIDE DEF x
<1>3. \A i : FoundIn(i, x) = IF owners(i) # {} THEN owners(i)
                            ELSE IF ends(i) # {} THEN {q[1] : q \in ends(i)}
                            ELSE {Min(k) : k \in ways(i)}
  BY DEF FoundIn
<1>4. /\ owners(AsOf[r]) = {r}
      /\ \A i : ends(i) = {} /\ ways(i) = {} /\ (i # AsOf[r] => owners(i) = {})
  BY <1>1
<1> HIDE DEF owners, ends, ways
<1>5. FoundIn(AsOf[r], x) = {r} /\ \A i \in Ases : i # AsOf[r] => FoundIn(i, x) = {}
  BY <1>3, <1>4
<1>6. FindAddress(x) = {r}
  BY <1>2, <1>5, FoundOnce
<1> QED
  BY <1>6 DEF x

(* An address of a link is in no other network, and of one interface.      *)
LEMMA InterfaceAddressAlone ==
  ASSUME AddressInv, NEW p \in DOMAIN interfaces
  PROVE  LET x == Alone(interfaces[p].addr)
             l == {p[1], p[2]}
         IN  /\ l \in DOMAIN link_addrs /\ p = <<p[1], p[2]>>
             /\ \A y \in DOMAIN router_addrs : ~Contains(router_addrs[y].net, x)
             /\ \A k \in DOMAIN link_addrs : Contains(link_addrs[k], x) <=> k = l
             /\ \A q \in DOMAIN interfaces : interfaces[q].addr = x.base => q = p
<1> DEFINE x == Alone(interfaces[p].addr)
           l == {p[1], p[2]}
<1>1. /\ p = <<p[1], p[2]>> /\ l \in DOMAIN link_addrs /\ x \in Networks
      /\ Contains(link_addrs[l], x)
  BY InterfaceFacts
<1>2. x.base = interfaces[p].addr
  BY DEF Alone
<1>3. ASSUME NEW y \in DOMAIN router_addrs
      PROVE  ~Contains(router_addrs[y].net, x)
  <2>1. /\ router_addrs[y].net \in Networks /\ link_addrs[l] \in Networks
        /\ Disjoint(link_addrs[l], router_addrs[y].net)
    BY <1>1, NetsTyped, NetsApart, DisjointSymmetric
  <2> HIDE DEF x, l
  <2> QED
    BY <1>1, <2>1, NotInBoth
<1>4. ASSUME NEW k \in DOMAIN link_addrs, Contains(link_addrs[k], x)
      PROVE  k = l
  <2>1. /\ link_addrs[k] \in Networks /\ link_addrs[l] \in Networks
        /\ k # l => Disjoint(link_addrs[l], link_addrs[k])
    BY <1>1, NetsTyped, NetsApart
  <2> HIDE DEF x, l
  <2> QED
    BY <1>1, <1>4, <2>1, NotInBoth
<1>5. ASSUME NEW q \in DOMAIN interfaces, interfaces[q].addr = x.base
      PROVE  q = p
  <2>1. Alone(interfaces[q].addr) = x
    BY <1>2, <1>5
  <2>2. {q[1], q[2]} \in DOMAIN link_addrs /\ Contains(link_addrs[{q[1], q[2]}], x)
    BY <2>1, InterfaceFacts
  <2> HIDE DEF x
  <2>3. {q[1], q[2]} = l
    BY <1>4, <2>2
  <2> QED
    BY <1>2, <1>5, <2>3, InterfaceFacts
<1> QED
  BY <1>1, <1>3, <1>4, <1>5

LEMMA InterfacesFound ==
  ASSUME AddressInv, NEW p \in DOMAIN interfaces
  PROVE  FindAddress(Alone(interfaces[p].addr)) = {p[1]}
<1> DEFINE x == Alone(interfaces[p].addr)
           l == {p[1], p[2]}
           owners(i) == {y \in DOMAIN router_addrs : AsOf[y] = i /\ Contains(router_addrs[y].net, x)}
           ends(i) == {q \in DOMAIN interfaces : LinkAs({q[1], q[2]}) = i /\ interfaces[q].addr = x.base}
           ways(i) == {k \in DOMAIN link_addrs : LinkAs(k) = i /\ Contains(link_addrs[k], x)}
<1>1. /\ l \in DOMAIN link_addrs
      /\ \A y \in DOMAIN router_addrs : ~Contains(router_addrs[y].net, x)
      /\ \A k \in DOMAIN link_addrs : Contains(link_addrs[k], x) <=> k = l
      /\ \A q \in DOMAIN interfaces : interfaces[q].addr = x.base => q = p
  BY InterfaceAddressAlone
<1>2. LinkAs(l) \in Ases
  BY <1>1, NetsTyped
<1>3. x.base = interfaces[p].addr
  BY DEF Alone
<1> HIDE DEF x
<1>4. \A i : FoundIn(i, x) = IF owners(i) # {} THEN owners(i)
                            ELSE IF ends(i) # {} THEN {q[1] : q \in ends(i)}
                            ELSE {Min(k) : k \in ways(i)}
  BY DEF FoundIn
<1>5. \A i : owners(i) = {}
  BY <1>1
<1>6. ends(LinkAs(l)) = {p} /\ \A i : i # LinkAs(l) => ends(i) = {}
  BY <1>1, <1>3
<1>7. \A i : i # LinkAs(l) => ways(i) = {}
  BY <1>1
<1> HIDE DEF owners, ends, ways, l
<1>8. FoundIn(LinkAs(l), x) = {q[1] : q \in {p}}
  BY <1>4, <1>5, <1>6
<1>9. {q[1] : q \in {p}} = {p[1]}
  OBVIOUS
<1>10. \A i \in Ases : i # LinkAs(l) => FoundIn(i, x) = {}
  BY <1>4, <1>5, <1>6, <1>7
<1>11. FindAddress(x) = {p[1]}
  BY <1>2, <1>8, <1>9, <1>10, FoundOnce
<1> QED
  BY <1>11 DEF x

LEMMA NeighborsFound ==
  ASSUME AddressInv, NEW p \in DOMAIN interfaces, p \in InterfacesSeen(p[1])
  PROVE  /\ FindNeighbor(p[1], interfaces[p].idx) = {p[2]}
         /\ FindNextHop(p[1], Alone(interfaces[p].addr)) = {p[2]}
<1> DEFINE x == Alone(interfaces[p].addr)
           l == {p[1], p[2]}
           seen == InterfacesSeen(p[1])
           numbered == {q \in seen : interfaces[q].idx = interfaces[p].idx}
           near == {q \in seen : Contains(link_addrs[{q[1], q[2]}], x)}
           owners == {y \in DOMAIN router_addrs : AsOf[y] = AsOf[p[1]] /\ Contains(router_addrs[y].net, x)}
<1>1. /\ l \in DOMAIN link_addrs
      /\ \A y \in DOMAIN router_addrs : ~Contains(router_addrs[y].net, x)
      /\ \A k \in DOMAIN link_addrs : Contains(link_addrs[k], x) <=> k = l
  BY InterfaceAddressAlone
<1>2. \A q \in seen : q \in DOMAIN interfaces /\ q[1] = p[1]
  BY DEF InterfacesSeen
<1>3. \A q \in DOMAIN interfaces : q = <<q[1], q[2]>> /\ {q[1], q[2]} \in DOMAIN link_addrs
  BY InterfaceFacts
<1>4. numbered = {p}
  <2>1. \A q \in seen : interfaces[q].idx = interface_indices[q] /\ q \in DOMAIN interface_indices
    BY <1>2 DEF AddressInv, InterfacesPlaced
  <2>2. ASSUME NEW q \in numbered
        PROVE  q = p
    BY <1>2, <2>1, <2>2 DEF AddressInv, Indexed
  <2> QED
    BY <2>2
<1>5. near = {p}
  <2>1. ASSUME NEW q \in near
        PROVE  q = p
    <3>1. q \in DOMAIN interfaces /\ q[1] = p[1] /\ {q[1], q[2]} = l
      BY <1>1, <1>2, <1>3
    <3>2. q[2] = p[2]
      BY <3>1
    <3> QED
      BY <1>3, <3>1, <3>2
  <2>2. p \in near
    BY <1>1
  <2> QED
    BY <2>1, <2>2
<1>6. owners = {}
  BY <1>1
<1>7. {q[2] : q \in {p}} = {p[2]}
  OBVIOUS
<1>8. FindNeighbor(p[1], interfaces[p].idx) = {q[2] : q \in numbered}
  BY DEF FindNeighbor
<1>9. FindNextHop(p[1], x) = IF owners # {} THEN {y \in owners : <<p[1], y>> \in seen}
                             ELSE {q[2] : q \in near}
  BY DEF FindNextHop
<1> HIDE DEF numbered, near, owners
<1>10. FindNeighbor(p[1], interfaces[p].idx) = {p[2]}
  BY <1>4, <1>7, <1>8
<1>11. FindNextHop(p[1], x) = {p[2]}
  BY <1>5, <1>6, <1>7, <1>9
<1> QED
  BY <1>10, <1>11

LEMMA LookupsFromInv == AddressInv => LookupsInverse
BY RoutersFound, InterfacesFound, NeighborsFound DEF LookupsInverse

(* The addresses of an exported network are unambiguous, and lead back to  *)
(* their routers, whatever addresses are asked for and in which order, and *)
(* also when the subnets of a range run out (router, iface, find_address,  *)
(* find_next_hop and find_neighbor of DefaultAddressor).                   *)
THEOREM AddressesUnique == AddressorSpec => []AddressesUnambiguous
<1>1. AddressInv => AddressesUnambiguous
  BY DisjointFromInv, LookupsFromInv DEF AddressesUnambiguous
<1> QED
  BY <1>1, AddressInvInit, AddressInvNext, PTL DEF AddressorSpec
=============================================================================
