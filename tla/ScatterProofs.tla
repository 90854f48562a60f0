--------------------------- MODULE ScatterProofs ---------------------------
(***************************************************************************)
(* Scattering loses nothing, for arrays of any length under any number of  *)
(* keys: the odometer of gridCoordinates passes every combination once,    *)
(* in the order linearOffset counts them, and nest puts what stands at an  *)
(* offset at the coordinates it came from.                                 *)
(*                                                                         *)
(* Induction is over sets of naturals: what holds of 0 and of every        *)
(* successor, or fails at some least number, holds of all.                 *)
(***************************************************************************)
EXTENDS Scatter, FiniteSetTheorems, SequenceTheorems, TLAPS

-----------------------------------------------------------------------------
(* Induction.                                                              *)

\* The initial segments of Nat are ordered by inclusion as their ends are.
LEMMA LeastMember ==
    ASSUME NEW T \in SUBSET Nat, T # {}
    PROVE  \E m \in T : \A k \in T : m <= k
<1> DEFINE Segments == {0 .. n : n \in T}
<1>1. Segments \subseteq FiniteSubsetsOf(Nat)
  <2> SUFFICES ASSUME NEW n \in T PROVE 0 .. n \in FiniteSubsetsOf(Nat)
    OBVIOUS
  <2>1. IsFiniteSet(0 .. n)
    BY FS_Interval
  <2>2. 0 .. n \subseteq Nat
    OBVIOUS
  <2> QED
    BY <2>1, <2>2 DEF FiniteSubsetsOf
<1>2. Segments # {}
  OBVIOUS
<1>3. IsWellFoundedOn(StrictSubsetOrdering(Nat), FiniteSubsetsOf(Nat))
  BY FS_StrictSubsetOrderingWellFounded
<1>4. PICK u \in Segments : \A v \in Segments : <<v, u>> \notin StrictSubsetOrdering(Nat)
  <2> HIDE DEF Segments
  <2> QED
    BY <1>1, <1>2, <1>3, WFMin
<1>5. PICK m \in T : u = 0 .. m
  OBVIOUS
<1>6. ASSUME NEW k \in T, k < m
      PROVE  FALSE
  <2>1. \A i \in 0 .. k : i \in 0 .. m
    BY <1>6
  <2>2. m \in 0 .. m /\ m \notin 0 .. k
    BY <1>6
  <2>3. 0 .. k \subseteq 0 .. m /\ 0 .. k # 0 .. m
    BY <2>1, <2>2
  <2>4. 0 .. k \in SUBSET Nat /\ 0 .. m \in SUBSET Nat
    OBVIOUS
  <2>5. <<0 .. k, 0 .. m>> \in StrictSubsetOrdering(Nat)
    BY <2>3, <2>4 DEF StrictSubsetOrdering
  <2> QED
    BY <1>4, <1>5, <2>5
<1> QED
  BY <1>6

\* Induction: a set of naturals that holds 0 and successors holds all.
LEMMA InductionOn ==
    ASSUME NEW S, 0 \in S, \A n \in Nat : n \in S => n + 1 \in S
    PROVE  \A n \in Nat : n \in S
<1> SUFFICES ASSUME NEW n \in Nat, n \notin S PROVE FALSE
  OBVIOUS
<1>1. PICK m \in Nat \ S : \A k \in Nat \ S : m <= k
  BY LeastMember
<1>2. m # 0 /\ m - 1 \in Nat
  OBVIOUS
<1>3. m - 1 \in S
  BY <1>1, <1>2
<1> QED BY <1>2, <1>3

LEMMA InductionUpTo ==
    ASSUME NEW n \in Nat, NEW S, 0 \in S, \A d \in 1..n : d - 1 \in S => d \in S
    PROVE  \A d \in 0..n : d \in S
<1> DEFINE T == {d \in Nat : d > n \/ d \in S}
<1>1. 0 \in T /\ \A d \in Nat : d \in T => d + 1 \in T
  <2>1. ASSUME NEW d \in Nat, d \in T
        PROVE  d + 1 \in T
    <3>1. CASE d + 1 > n
      BY <3>1
    <3>2. CASE d + 1 <= n
      <4>1. d \in S /\ d + 1 \in 1..n /\ (d + 1) - 1 = d
        BY <2>1, <3>2
      <4> QED
        BY <4>1
    <3> QED
      BY <3>1, <3>2
  <2> QED
    BY <2>1
<1> HIDE DEF T
<1>2. \A d \in Nat : d \in T
  BY <1>1, InductionOn
<1> QED
  BY <1>2 DEF T

\* Sequences are functions on 1..n.
LEMMA LengthOf ==
    ASSUME NEW n \in Nat, NEW f, DOMAIN f = 1..n
    PROVE  Len(f) = n
BY DEF Len

-----------------------------------------------------------------------------
(* Shapes and offsets.                                                     *)

LEMMA SizesExist ==
    ASSUME NEW n \in Nat, NEW dims
    PROVE  \E g : g = [d \in 0..n |-> IF d = 0 THEN 1 ELSE g[d - 1] * dims[d]]
<1> DEFINE S == {m \in Nat : \E g : g = [d \in 0..m |-> IF d = 0 THEN 1 ELSE g[d - 1] * dims[d]]}
<1>1. 0 \in S
  <2> DEFINE g == [d \in 0..0 |-> 1]
  <2>1. g = [d \in 0..0 |-> IF d = 0 THEN 1 ELSE g[d - 1] * dims[d]]
    OBVIOUS
  <2> QED
    BY <2>1
<1>2. ASSUME NEW m \in Nat, m \in S
      PROVE  m + 1 \in S
  <2>1. PICK g : g = [d \in 0..m |-> IF d = 0 THEN 1 ELSE g[d - 1] * dims[d]]
    BY <1>2
  <2> DEFINE h == [d \in 0..m + 1 |-> IF d = m + 1 THEN g[m] * dims[d] ELSE g[d]]
  <2>2. \A d \in 0..m + 1 : h[d] = IF d = 0 THEN 1 ELSE h[d - 1] * dims[d]
    BY <2>1
  <2>3. h = [d \in 0..m + 1 |-> h[d]]
    OBVIOUS
  <2> HIDE DEF h
  <2>4. h = [d \in 0..m + 1 |-> IF d = 0 THEN 1 ELSE h[d - 1] * dims[d]]
    BY <2>2, <2>3
  <2> QED
    BY <2>4
<1> HIDE DEF S
<1>3. \A m \in Nat : m \in S
  BY <1>1, <1>2, InductionOn
<1> QED
  BY <1>3 DEF S

LEMMA SizesAre ==
    ASSUME NEW n \in Nat, NEW dims, DOMAIN dims = 1..n
    PROVE  /\ Sizes(dims)[0] = 1
           /\ \A d \in 1..n : Sizes(dims)[d] = Sizes(dims)[d - 1] * dims[d]
<1> DEFINE G == CHOOSE g : g = [d \in 0..n |-> IF d = 0 THEN 1 ELSE g[d - 1] * dims[d]]
<1>1. Sizes(dims) = G
  BY LengthOf DEF Sizes
<1>2. G = [d \in 0..n |-> IF d = 0 THEN 1 ELSE G[d - 1] * dims[d]]
  BY SizesExist
<1> HIDE DEF G
<1> QED
  BY <1>1, <1>2

LEMMA OffsetsAre ==
    ASSUME NEW n \in Nat, NEW idx, DOMAIN idx = 1..n, NEW dims
    PROVE  /\ Offsets(idx, dims)[0] = 0
           /\ \A d \in 1..n : Offsets(idx, dims)[d] = Offsets(idx, dims)[d - 1] * dims[d] + idx[d]
<1> DEFINE S == {m \in Nat : \E g : g = [d \in 0..m |->
                                IF d = 0 THEN 0 ELSE g[d - 1] * dims[d] + idx[d]]}
<1>1. 0 \in S
  <2> DEFINE g == [d \in 0..0 |-> 0]
  <2>1. g = [d \in 0..0 |-> IF d = 0 THEN 0 ELSE g[d - 1] * dims[d] + idx[d]]
    OBVIOUS
  <2> QED
    BY <2>1
<1>2. ASSUME NEW m \in Nat, m \in S
      PROVE  m + 1 \in S
  <2>1. PICK g : g = [d \in 0..m |-> IF d = 0 THEN 0 ELSE g[d - 1] * dims[d] + idx[d]]
    BY <1>2
  <2> DEFINE h == [d \in 0..m + 1 |-> IF d = m + 1 THEN g[m] * dims[d] + idx[d] ELSE g[d]]
  <2>2. \A d \in 0..m + 1 : h[d] = IF d = 0 THEN 0 ELSE h[d - 1] * dims[d] + idx[d]
    BY <2>1
  <2>3. h = [d \in 0..m + 1 |-> h[d]]
    OBVIOUS
  <2> HIDE DEF h
  <2>4. h = [d \in 0..m + 1 |-> IF d = 0 THEN 0 ELSE h[d - 1] * dims[d] + idx[d]]
    BY <2>2, <2>3
  <2> QED
    BY <2>4
<1> HIDE DEF S
<1>3. n \in S
  BY <1>1, <1>2, InductionOn
<1> DEFINE G == CHOOSE g : g = [d \in 0..n |-> IF d = 0 THEN 0 ELSE g[d - 1] * dims[d] + idx[d]]
<1>4. Offsets(idx, dims) = G
  BY LengthOf DEF Offsets
<1>5. G = [d \in 0..n |-> IF d = 0 THEN 0 ELSE G[d - 1] * dims[d] + idx[d]]
  BY <1>3 DEF S
<1> HIDE DEF G
<1> QED
  BY <1>4, <1>5

\* The coordinates within a shape.
Coordinates(dims) ==
    {c \in [DOMAIN dims -> Nat] : \A k \in DOMAIN dims : c[k] < dims[k]}

\* One digit: a group of m more than outweighs any place within a group.
LEMMA Groups ==
    ASSUME NEW i \in Nat, NEW j \in Nat, NEW m \in Nat, i < j
    PROVE  i * m \in Nat /\ j * m \in Nat /\ i * m + m <= j * m
<1>1. PICK k \in Nat : j = i + 1 + k
  <2>1. j - i - 1 \in Nat /\ j = i + 1 + (j - i - 1)
    OBVIOUS
  <2> QED
    BY <2>1
<1>2. (i + 1 + k) * m = i * m + m + k * m /\ k * m \in Nat /\ i * m \in Nat
  OBVIOUS
<1> QED
  BY <1>1, <1>2

LEMMA Digits ==
    ASSUME NEW a \in Nat, NEW b \in Nat, NEW m \in Nat, NEW x \in Nat, NEW y \in Nat, x < m, y < m
    PROVE  /\ a * m + x \in Nat
           /\ a < b => a * m + x < b * m + y
           /\ a * m + x = b * m + y => a = b /\ x = y
<1>1. a * m \in Nat /\ b * m \in Nat
  OBVIOUS
<1>2. a < b => a * m + m <= b * m
  BY Groups
<1>3. b < a => b * m + m <= a * m
  BY Groups
<1>4. ASSUME NEW p \in Nat, NEW q \in Nat, a < b => p + m <= q, b < a => q + m <= p
      PROVE  /\ p + x \in Nat
             /\ a < b => p + x < q + y
             /\ p + x = q + y => a = b
             /\ p = q /\ p + x = q + y => x = y
  BY <1>4
<1> QED
  BY <1>1, <1>2, <1>3, <1>4

LEMMA DigitInRange ==
    ASSUME NEW o \in Nat, NEW z \in Nat, o < z, NEW m \in Nat, NEW x \in Nat, x < m
    PROVE  o * m + x \in Nat /\ o * m + x < z * m
<1>1. o * m \in Nat /\ z * m \in Nat /\ o * m + m <= z * m
  BY Groups
<1>2. ASSUME NEW p \in Nat, NEW q \in Nat, p + m <= q
      PROVE  p + x \in Nat /\ p + x < q
  BY <1>2
<1> QED
  BY <1>1, <1>2

LEMMA SizesTyped ==
    ASSUME NEW n \in Nat, NEW dims \in [1..n -> Nat]
    PROVE  /\ \A d \in 0..n : Sizes(dims)[d] \in Nat
           /\ (\A d \in 1..n : dims[d] > 0) => \A d \in 0..n : Sizes(dims)[d] > 0
<1> DEFINE S == {d \in 0..n : Sizes(dims)[d] \in Nat}
           T == {d \in 0..n : Sizes(dims)[d] \in Nat /\ Sizes(dims)[d] > 0}
<1>1. ASSUME NEW d \in 1..n, Sizes(dims)[d - 1] \in Nat
      PROVE  /\ Sizes(dims)[d] \in Nat
             /\ Sizes(dims)[d - 1] > 0 /\ dims[d] > 0 => Sizes(dims)[d] > 0
  <2>1. Sizes(dims)[d] = Sizes(dims)[d - 1] * dims[d]
    BY SizesAre
  <2>2. dims[d] \in Nat
    OBVIOUS
  <2>3. \A x, y \in Nat : x * y \in Nat /\ (x > 0 /\ y > 0 => x * y > 0)
    OBVIOUS
  <2> QED
    BY <1>1, <2>1, <2>2, <2>3
<1>2. Sizes(dims)[0] = 1
  BY SizesAre
<1>3. \A d \in 0..n : d \in S
  <2>1. 0 \in S /\ \A d \in 1..n : d - 1 \in S => d \in S
    BY <1>1, <1>2
  <2> HIDE DEF S
  <2> QED
    BY <2>1, InductionUpTo
<1>4. ASSUME \A d \in 1..n : dims[d] > 0
      PROVE  \A d \in 0..n : d \in T
  <2>1. 0 \in T /\ \A d \in 1..n : d - 1 \in T => d \in T
    BY <1>1, <1>2, <1>4
  <2> HIDE DEF T
  <2> QED
    BY <2>1, InductionUpTo
<1> QED
  BY <1>3, <1>4

\* linearOffset: the first coordinates of a job address a slot of that level.
LEMMA OffsetsInRange ==
    ASSUME NEW n \in Nat, NEW dims \in [1..n -> Nat], NEW k \in 0..n, NEW c \in [1..k -> Nat],
           \A j \in 1..k : c[j] < dims[j]
    PROVE  \A d \in 0..k : Offsets(c, dims)[d] \in Nat /\ Offsets(c, dims)[d] < Sizes(dims)[d]
<1> DEFINE S == {d \in 0..k : Offsets(c, dims)[d] \in Nat /\ Offsets(c, dims)[d] < Sizes(dims)[d]}
<1>1. k \in Nat /\ 1..k \subseteq 1..n /\ DOMAIN c = 1..k
  OBVIOUS
<1>2. Sizes(dims)[0] = 1 /\ \A d \in 1..n : Sizes(dims)[d] = Sizes(dims)[d - 1] * dims[d]
  BY SizesAre
<1>3. /\ Offsets(c, dims)[0] = 0
      /\ \A d \in 1..k : Offsets(c, dims)[d] = Offsets(c, dims)[d - 1] * dims[d] + c[d]
  BY <1>1, OffsetsAre
<1>4. 0 \in S
  BY <1>2, <1>3
<1>5. ASSUME NEW d \in 1..k, d - 1 \in S
      PROVE  d \in S
  <2> DEFINE o == Offsets(c, dims)[d - 1]
             z == Sizes(dims)[d - 1]
             m == dims[d]
             x == c[d]
  <2>1. Sizes(dims)[d] = z * m /\ Offsets(c, dims)[d] = o * m + x
    BY <1>2, <1>3
  <2>2. o \in Nat /\ z \in Nat /\ o < z
    BY <1>5, SizesTyped
  <2>3. m \in Nat /\ x \in Nat /\ x < m
    BY <1>1
  <2> HIDE DEF o, z, m, x, S
  <2>4. o * m + x \in Nat /\ o * m + x < z * m
    BY <2>2, <2>3, DigitInRange
  <2> QED
    BY <2>1, <2>4 DEF S
<1> HIDE DEF S
<1>6. \A d \in 0..k : d \in S
  BY <1>1, <1>4, <1>5, InductionUpTo
<1> QED
  BY <1>6 DEF S

LEMMA OffsetInShape ==
    ASSUME NEW n \in Nat, NEW dims \in [1..n -> Nat], NEW c \in Coordinates(dims)
    PROVE  LinearOffset(c, dims) \in Nat /\ LinearOffset(c, dims) < Sizes(dims)[n]
<1>1. c \in [1..n -> Nat] /\ (\A j \in 1..n : c[j] < dims[j]) /\ n \in 0..n
  BY DEF Coordinates
<1>2. Offsets(c, dims)[n] \in Nat /\ Offsets(c, dims)[n] < Sizes(dims)[n]
  BY <1>1, OffsetsInRange
<1> QED
  BY <1>1, <1>2, LengthOf DEF LinearOffset

\* Coordinates that agree so far make the same offset so far.
LEMMA SamePrefix ==
    ASSUME NEW n \in Nat, NEW dims, NEW c, NEW e, DOMAIN c = 1..n, DOMAIN e = 1..n,
           NEW k \in 0..n, \A j \in 1..k : c[j] = e[j]
    PROVE  Offsets(c, dims)[k] = Offsets(e, dims)[k]
<1> DEFINE S == {d \in 0..k : Offsets(c, dims)[d] = Offsets(e, dims)[d]}
<1>1. /\ Offsets(c, dims)[0] = 0
      /\ \A d \in 1..n : Offsets(c, dims)[d] = Offsets(c, dims)[d - 1] * dims[d] + c[d]
  BY OffsetsAre
<1>2. /\ Offsets(e, dims)[0] = 0
      /\ \A d \in 1..n : Offsets(e, dims)[d] = Offsets(e, dims)[d - 1] * dims[d] + e[d]
  BY OffsetsAre
<1>3. 0 \in S
  BY <1>1, <1>2
<1>4. ASSUME NEW d \in 1..k, d - 1 \in S
      PROVE  d \in S
  <2>1. Offsets(c, dims)[d - 1] = Offsets(e, dims)[d - 1] /\ c[d] = e[d]
    BY <1>4
  <2>2. d \in 1..n /\ d \in 0..k
    OBVIOUS
  <2> QED
    BY <1>1, <1>2, <2>1, <2>2
<1> HIDE DEF S
<1>5. k \in Nat /\ k \in 0..k
  OBVIOUS
<1>6. k \in S
  BY <1>3, <1>4, <1>5, InductionUpTo
<1> QED
  BY <1>6 DEF S

\* The first coordinate that differs decides every offset from there on.
LEMMA FirstDifference ==
    ASSUME NEW n \in Nat, NEW dims \in [1..n -> Nat],
           NEW c \in Coordinates(dims), NEW e \in Coordinates(dims),
           NEW k \in 1..n, c[k] < e[k], \A j \in 1..k - 1 : c[j] = e[j]
    PROVE  \A d \in k..n : Offsets(c, dims)[d] < Offsets(e, dims)[d]
<1> DEFINE S == {d \in 0..n : d >= k => Offsets(c, dims)[d] < Offsets(e, dims)[d]}
<1>1. /\ c \in [1..n -> Nat] /\ \A j \in 1..n : c[j] < dims[j]
      /\ e \in [1..n -> Nat] /\ \A j \in 1..n : e[j] < dims[j]
      /\ n \in 0..n
  BY DEF Coordinates
<1>2. \A d \in 1..n : Offsets(c, dims)[d] = Offsets(c, dims)[d - 1] * dims[d] + c[d]
  BY <1>1, OffsetsAre
<1>3. \A d \in 1..n : Offsets(e, dims)[d] = Offsets(e, dims)[d - 1] * dims[d] + e[d]
  BY <1>1, OffsetsAre
<1>4. \A d \in 0..n : Offsets(c, dims)[d] \in Nat
  BY <1>1, OffsetsInRange
<1>5. \A d \in 0..n : Offsets(e, dims)[d] \in Nat
  BY <1>1, OffsetsInRange
<1>6. Offsets(c, dims)[k - 1] = Offsets(e, dims)[k - 1]
  <2>1. k - 1 \in 0..n /\ DOMAIN c = 1..n /\ DOMAIN e = 1..n
    BY <1>1
  <2> QED
    BY <2>1, SamePrefix
<1>7. ASSUME NEW d \in 1..n, d - 1 \in S
      PROVE  d \in S
  <2> DEFINE o == Offsets(c, dims)[d - 1]
             z == Offsets(e, dims)[d - 1]
             m == dims[d]
             x == c[d]
             y == e[d]
  <2>1. Offsets(c, dims)[d] = o * m + x /\ Offsets(e, dims)[d] = z * m + y
    BY <1>2, <1>3
  <2>2. d > k => o < z
    BY <1>7
  <2>3. d = k => o = z /\ x < y
    BY <1>6
  <2>4. o \in Nat /\ z \in Nat /\ m \in Nat /\ x \in Nat /\ y \in Nat /\ x < m /\ y < m
    BY <1>1, <1>4, <1>5
  <2> HIDE DEF o, z, m, x, y, S
  <2>5. d > k => o * m + x < z * m + y
    BY <2>2, <2>4, Digits
  <2>6. d = k => o * m + x < z * m + y
    <3>1. o * m \in Nat
      BY <2>4
    <3> QED
      BY <2>3, <2>4, <3>1
  <2>7. d >= k => Offsets(c, dims)[d] < Offsets(e, dims)[d]
    BY <2>1, <2>5, <2>6
  <2> QED
    BY <2>7 DEF S
<1>8. 0 \in S
  OBVIOUS
<1> HIDE DEF S
<1>9. \A d \in 0..n : d \in S
  BY <1>7, <1>8, InductionUpTo
<1> QED
  BY <1>9 DEF S

\* Lexicographic order is the order of the offsets, so an offset is one job's.
LEMMA OffsetsOrder ==
    ASSUME NEW n \in Nat, NEW dims \in [1..n -> Nat],
           NEW c \in Coordinates(dims), NEW e \in Coordinates(dims)
    PROVE  /\ Before(c, e) <=> LinearOffset(c, dims) < LinearOffset(e, dims)
           /\ LinearOffset(c, dims) = LinearOffset(e, dims) => c = e
<1>1. /\ c \in [1..n -> Nat] /\ \A j \in 1..n : c[j] < dims[j]
      /\ e \in [1..n -> Nat] /\ \A j \in 1..n : e[j] < dims[j]
      /\ n \in 0..n
  BY DEF Coordinates
<1>2. LinearOffset(c, dims) = Offsets(c, dims)[n] /\ LinearOffset(e, dims) = Offsets(e, dims)[n]
  BY <1>1, LengthOf DEF LinearOffset
<1>3. Offsets(c, dims)[n] \in Nat
  BY <1>1, OffsetsInRange
<1>4. Offsets(e, dims)[n] \in Nat
  BY <1>1, OffsetsInRange
<1>5. ASSUME Before(c, e)
      PROVE  Offsets(c, dims)[n] < Offsets(e, dims)[n]
  <2>1. PICK k \in 1..n : c[k] < e[k] /\ \A j \in 1..k - 1 : c[j] = e[j]
    BY <1>1, <1>5 DEF Before
  <2>2. n \in k..n
    OBVIOUS
  <2> QED
    BY <2>1, <2>2, FirstDifference
<1>6. ASSUME Before(e, c)
      PROVE  Offsets(e, dims)[n] < Offsets(c, dims)[n]
  <2>1. PICK k \in 1..n : e[k] < c[k] /\ \A j \in 1..k - 1 : e[j] = c[j]
    BY <1>1, <1>6 DEF Before
  <2>2. n \in k..n
    OBVIOUS
  <2> QED
    BY <2>1, <2>2, FirstDifference
<1>7. ASSUME c # e
      PROVE  Before(c, e) \/ Before(e, c)
  <2> DEFINE T == {k \in 1..n : c[k] # e[k]}
  <2>1. T # {}
    <3>1. ASSUME \A k \in 1..n : c[k] = e[k]
          PROVE  c = e
      <4>1. c \in [1..n -> Nat] /\ e \in [1..n -> Nat]
        BY <1>1
      <4> QED
        BY <3>1, <4>1
    <3> QED
      BY <1>7, <3>1
  <2>2. T \in SUBSET Nat
    OBVIOUS
  <2>3. PICK k \in T : \A j \in T : k <= j
    <3> HIDE DEF T
    <3> QED
      BY <2>1, <2>2, LeastMember
  <2>4. k \in 1..n /\ c[k] # e[k] /\ \A j \in 1..k - 1 : c[j] = e[j]
    <3>1. ASSUME NEW j \in 1..k - 1, c[j] # e[j]
          PROVE  FALSE
      <4>1. j \in T /\ j < k
        BY <3>1
      <4> QED
        BY <2>3, <4>1
    <3> QED
      BY <3>1
  <2>5. c[k] < e[k] \/ e[k] < c[k]
    BY <1>1, <2>4
  <2>6. \A j \in 1..k - 1 : c[j] = e[j] /\ e[j] = c[j]
    BY <2>4
  <2>7. k \in DOMAIN c /\ k \in DOMAIN e
    BY <1>1, <2>4
  <2> QED
    BY <2>5, <2>6, <2>7 DEF Before
<1> QED
  BY <1>2, <1>3, <1>4, <1>5, <1>6, <1>7

-----------------------------------------------------------------------------
(* gridCoordinates.                                                        *)

LEMMA GreatestMember ==
    ASSUME NEW n \in Nat, NEW T \in SUBSET (1..n), T # {}
    PROVE  \E m \in T : \A k \in T : k <= m
<1> DEFINE U == {n - k : k \in T}
<1>1. U \in SUBSET Nat /\ U # {}
  <2>1. \A k \in T : n - k \in Nat
    OBVIOUS
  <2>2. PICK k \in T : TRUE
    OBVIOUS
  <2>3. n - k \in U
    OBVIOUS
  <2> QED
    BY <2>1, <2>3
<1>2. PICK u \in U : \A v \in U : u <= v
  <2> HIDE DEF U
  <2> QED
    BY <1>1, LeastMember
<1>3. PICK m \in T : u = n - m
  OBVIOUS
<1>4. ASSUME NEW k \in T
      PROVE  k <= m
  <2>1. n - m <= n - k
    BY <1>2, <1>3
  <2>2. m \in 1..n /\ k \in 1..n
    OBVIOUS
  <2> HIDE DEF U
  <2> QED
    BY <2>1, <2>2
<1> QED
  BY <1>4

\* Once every coordinate is the last of its level, so is the offset.
LEMMA AllAtEnd ==
    ASSUME NEW n \in Nat, NEW dims \in [1..n -> Nat], NEW c \in Coordinates(dims),
           \A k \in 1..n : ~(c[k] + 1 < dims[k])
    PROVE  LinearOffset(c, dims) + 1 = Sizes(dims)[n]
<1> DEFINE S == {d \in 0..n : Offsets(c, dims)[d] + 1 = Sizes(dims)[d]}
<1>1. /\ c \in [1..n -> Nat] /\ \A j \in 1..n : c[j] < dims[j]
      /\ n \in 0..n
  BY DEF Coordinates
<1>2. LinearOffset(c, dims) = Offsets(c, dims)[n]
  BY <1>1, LengthOf DEF LinearOffset
<1>3. Sizes(dims)[0] = 1 /\ \A d \in 1..n : Sizes(dims)[d] = Sizes(dims)[d - 1] * dims[d]
  BY SizesAre
<1>4. /\ Offsets(c, dims)[0] = 0
      /\ \A d \in 1..n : Offsets(c, dims)[d] = Offsets(c, dims)[d - 1] * dims[d] + c[d]
  BY <1>1, OffsetsAre
<1>5. \A d \in 0..n : Offsets(c, dims)[d] \in Nat
  BY <1>1, OffsetsInRange
<1>6. ASSUME NEW d \in 1..n, d - 1 \in S
      PROVE  d \in S
  <2> DEFINE o == Offsets(c, dims)[d - 1]
             z == Sizes(dims)[d - 1]
             m == dims[d]
             x == c[d]
  <2>1. Sizes(dims)[d] = z * m /\ Offsets(c, dims)[d] = o * m + x
    BY <1>3, <1>4
  <2>2. o \in Nat /\ z = o + 1 /\ m \in Nat
    BY <1>5, <1>6
  <2>3. m = x + 1 /\ x \in Nat
    BY <1>1
  <2> HIDE DEF o, z, m, x, S
  <2>4. (o + 1) * m = o * m + m /\ o * m \in Nat
    BY <2>2
  <2>5. Offsets(c, dims)[d] + 1 = Sizes(dims)[d]
    BY <2>1, <2>2, <2>3, <2>4
  <2> QED
    BY <2>5 DEF S
<1>7. 0 \in S
  BY <1>3, <1>4
<1> HIDE DEF S
<1>8. n \in S
  BY <1>1, <1>6, <1>7, InductionUpTo
<1> QED
  BY <1>2, <1>8 DEF S

\* Each turn of the odometer stays within the shape and adds one to the offset.
LEMMA AdvanceAddsOne ==
    ASSUME NEW n \in Nat, NEW dims \in [1..n -> Nat], NEW c \in Coordinates(dims),
           LinearOffset(c, dims) + 1 < Sizes(dims)[n]
    PROVE  /\ Advance(c, dims) \in Coordinates(dims)
           /\ LinearOffset(Advance(c, dims), dims) = LinearOffset(c, dims) + 1
<1> DEFINE a == Advance(c, dims)
           T == {k \in 1..n : c[k] + 1 < dims[k]}
<1>1. /\ c \in [1..n -> Nat] /\ \A j \in 1..n : c[j] < dims[j]
      /\ n \in 0..n
  BY DEF Coordinates
<1>2. T # {}
  <2>1. LinearOffset(c, dims) = Offsets(c, dims)[n] /\ Offsets(c, dims)[n] \in Nat
    <3>1. Offsets(c, dims)[n] \in Nat
      BY <1>1, OffsetsInRange
    <3> QED
      BY <1>1, <3>1, LengthOf DEF LinearOffset
  <2>2. ~(LinearOffset(c, dims) + 1 = Sizes(dims)[n])
    BY <2>1, SizesTyped
  <2> QED
    BY <2>2, AllAtEnd
<1>3. PICK e \in T : \A k \in T : k <= e
  <2>1. T \in SUBSET (1..n)
    OBVIOUS
  <2> HIDE DEF T
  <2> QED
    BY <1>2, <2>1, GreatestMember
<1>4. a = [d \in 1..n |-> IF \E k \in 1..n : k > d /\ c[k] + 1 < dims[k]
                          THEN c[d]
                          ELSE IF c[d] + 1 < dims[d] THEN c[d] + 1 ELSE 0]
  BY DEF Advance
<1> HIDE DEF a
<1>5. /\ e \in 1..n /\ c[e] + 1 < dims[e]
      /\ \A k \in 1..n : k > e => ~(c[k] + 1 < dims[k])
  BY <1>3
<1>6. \A d \in 1..n : a[d] = IF d < e THEN c[d] ELSE IF d = e THEN c[e] + 1 ELSE 0
  <2> TAKE d \in 1..n
  <2>1. CASE d < e
    BY <1>4, <1>5, <2>1
  <2>2. CASE d >= e
    <3>1. ~ \E k \in 1..n : k > d /\ c[k] + 1 < dims[k]
      BY <1>5, <2>2
    <3>2. a[d] = IF c[d] + 1 < dims[d] THEN c[d] + 1 ELSE 0
      BY <1>4, <3>1
    <3> QED
      BY <1>5, <2>2, <3>2
  <2> QED
    BY <2>1, <2>2
<1>7. a \in [1..n -> Nat] /\ \A j \in 1..n : a[j] < dims[j]
  <2>1. ASSUME NEW j \in 1..n
        PROVE  a[j] \in Nat /\ a[j] < dims[j]
    <3>1. c[j] \in Nat /\ dims[j] \in Nat /\ c[j] < dims[j]
      BY <1>1
    <3>2. a[j] = IF j < e THEN c[j] ELSE IF j = e THEN c[e] + 1 ELSE 0
      BY <1>6
    <3> QED
      BY <1>5, <3>1, <3>2
  <2>2. a = [j \in 1..n |-> a[j]]
    BY <1>4
  <2> QED
    BY <2>1, <2>2
<1>8. a \in Coordinates(dims)
  BY <1>7 DEF Coordinates
<1>9. \A d \in 1..n : Offsets(c, dims)[d] = Offsets(c, dims)[d - 1] * dims[d] + c[d]
  BY <1>1, OffsetsAre
<1>10. \A d \in 1..n : Offsets(a, dims)[d] = Offsets(a, dims)[d - 1] * dims[d] + a[d]
  BY <1>7, OffsetsAre
<1>11. \A d \in 0..n : Offsets(c, dims)[d] \in Nat
  BY <1>1, OffsetsInRange
<1>12. Offsets(c, dims)[e - 1] = Offsets(a, dims)[e - 1]
  <2>1. e - 1 \in 0..n /\ DOMAIN c = 1..n /\ DOMAIN a = 1..n
    BY <1>1, <1>5, <1>7
  <2>2. \A j \in 1..e - 1 : c[j] = a[j]
    BY <1>5, <1>6
  <2> QED
    BY <2>1, <2>2, SamePrefix
<1> DEFINE S == {d \in 0..n : d >= e => Offsets(a, dims)[d] = Offsets(c, dims)[d] + 1}
<1>13. ASSUME NEW d \in 1..n, d - 1 \in S
       PROVE  d \in S
  <2> DEFINE o == Offsets(c, dims)[d - 1]
             z == Offsets(a, dims)[d - 1]
             m == dims[d]
             x == c[d]
  <2>1. Offsets(c, dims)[d] = o * m + x /\ Offsets(a, dims)[d] = z * m + a[d]
    BY <1>9, <1>10
  <2>2. d > e => z = o + 1 /\ a[d] = 0 /\ m = x + 1
    BY <1>1, <1>5, <1>6, <1>13
  <2>3. d = e => o = z /\ a[d] = x + 1
    BY <1>6, <1>12
  <2>4. o \in Nat /\ m \in Nat /\ x \in Nat
    BY <1>1, <1>11
  <2> HIDE DEF o, z, m, x, S
  <2>5. (o + 1) * m = o * m + m /\ o * m \in Nat
    BY <2>4
  <2>6. d > e => Offsets(a, dims)[d] = Offsets(c, dims)[d] + 1
    BY <2>1, <2>2, <2>4, <2>5
  <2>7. d = e => Offsets(a, dims)[d] = Offsets(c, dims)[d] + 1
    BY <2>1, <2>3, <2>4, <2>5
  <2>8. d >= e => Offsets(a, dims)[d] = Offsets(c, dims)[d] + 1
    BY <1>5, <2>6, <2>7
  <2> QED
    BY <2>8 DEF S
<1>14. 0 \in S
  BY <1>5
<1> HIDE DEF S
<1>15. n \in S
  BY <1>1, <1>13, <1>14, InductionUpTo
<1>16. Offsets(a, dims)[n] = Offsets(c, dims)[n] + 1
  BY <1>5, <1>15 DEF S
<1>17. LinearOffset(c, dims) = Offsets(c, dims)[n] /\ LinearOffset(a, dims) = Offsets(a, dims)[n]
  BY <1>1, <1>7, LengthOf DEF LinearOffset
<1> QED
  BY <1>8, <1>16, <1>17 DEF a

LEMMA GridIs ==
    ASSUME NEW dims, ShapeSize(dims) \in Nat
    PROVE  GridCoordinates(dims) = [i \in 1..ShapeSize(dims) |->
                IF i = 1 THEN [d \in DOMAIN dims |-> 0]
                         ELSE Advance(GridCoordinates(dims)[i - 1], dims)]
<1> DEFINE zero == [d \in DOMAIN dims |-> 0]
           S == {m \in Nat : \E g : g = [i \in 1..m |->
                                IF i = 1 THEN zero ELSE Advance(g[i - 1], dims)]}
<1>1. 0 \in S
  <2> DEFINE g == [i \in 1..0 |-> zero]
  <2>1. g = [i \in 1..0 |-> IF i = 1 THEN zero ELSE Advance(g[i - 1], dims)]
    <3> HIDE DEF zero
    <3> QED
      OBVIOUS
  <2> HIDE DEF g, zero
  <2> QED
    BY <2>1
<1>2. ASSUME NEW m \in Nat, m \in S
      PROVE  m + 1 \in S
  <2> HIDE DEF zero
  <2>1. PICK g : g = [i \in 1..m |-> IF i = 1 THEN zero ELSE Advance(g[i - 1], dims)]
    BY <1>2
  <2> DEFINE h == [i \in 1..m + 1 |-> IF i = 1 THEN zero
                                      ELSE IF i = m + 1 THEN Advance(g[m], dims)
                                      ELSE g[i]]
  <2>2. \A i \in 1..m + 1 : h[i] = IF i = 1 THEN zero ELSE Advance(h[i - 1], dims)
    <3> TAKE i \in 1..m + 1
    <3>1. CASE i = 1
      BY <3>1
    <3>2. CASE i # 1
      <4>1. i - 1 \in 1..m /\ h[i - 1] = g[i - 1]
        <5>1. i - 1 \in 1..m /\ i - 1 \in 1..m + 1 /\ i - 1 # m + 1
          BY <3>2
        <5>2. i - 1 = 1 => g[i - 1] = zero
          BY <2>1, <5>1
        <5> QED
          BY <5>1, <5>2
      <4>2. CASE i = m + 1
        <5>1. i - 1 = m /\ h[i] = Advance(g[m], dims)
          BY <3>2, <4>2
        <5> QED
          BY <3>2, <4>1, <5>1
      <4>3. CASE i # m + 1
        <5>1. i \in 1..m /\ h[i] = g[i]
          BY <3>2, <4>3
        <5>2. g[i] = Advance(g[i - 1], dims)
          BY <2>1, <3>2, <5>1
        <5> QED
          BY <3>2, <4>1, <5>1, <5>2
      <4> QED
        BY <4>2, <4>3
    <3> QED
      BY <3>1, <3>2
  <2>3. h = [i \in 1..m + 1 |-> h[i]]
    OBVIOUS
  <2> HIDE DEF h
  <2>4. h = [i \in 1..m + 1 |-> IF i = 1 THEN zero ELSE Advance(h[i - 1], dims)]
    BY <2>2, <2>3
  <2> QED
    BY <2>4
<1> HIDE DEF S
<1>3. \A m \in Nat : m \in S
  BY <1>1, <1>2, InductionOn
<1>4. \E g : g = [i \in 1..ShapeSize(dims) |->
                    IF i = 1 THEN zero ELSE Advance(g[i - 1], dims)]
  BY <1>3 DEF S
<1> QED
  BY <1>4 DEF GridCoordinates

\* The odometer's i-th stop is the one whose offset is i - 1.
LEMMA GridStops ==
    ASSUME NEW n \in Nat, n > 0, NEW dims \in [1..n -> Nat], \A k \in 1..n : dims[k] > 0
    PROVE  /\ ShapeSize(dims) = Sizes(dims)[n] /\ ShapeSize(dims) \in Nat
           /\ DOMAIN GridCoordinates(dims) = 1..ShapeSize(dims)
           /\ \A i \in 1..ShapeSize(dims) :
                /\ GridCoordinates(dims)[i] \in Coordinates(dims)
                /\ LinearOffset(GridCoordinates(dims)[i], dims) + 1 = i
<1> DEFINE N == ShapeSize(dims)
           G == GridCoordinates(dims)
           S == {i \in 0..N : i > 0 => G[i] \in Coordinates(dims) /\ LinearOffset(G[i], dims) + 1 = i}
<1>1. N = Sizes(dims)[n]
  <2>1. Len(dims) = n
    BY LengthOf
  <2>2. dims # <<>>
    BY <2>1
  <2> QED
    BY <2>1, <2>2 DEF ShapeSize
<1>2. N \in Nat
  BY <1>1, SizesTyped
<1>3. G = [i \in 1..N |-> IF i = 1 THEN [d \in DOMAIN dims |-> 0] ELSE Advance(G[i - 1], dims)]
  BY <1>2, GridIs
<1> HIDE DEF N, G
<1>4. 1 \in 0..N => 1 \in S
  <2> SUFFICES ASSUME 1 \in 0..N PROVE G[1] \in Coordinates(dims) /\ LinearOffset(G[1], dims) + 1 = 1
    OBVIOUS
  <2> DEFINE c == [d \in 1..n |-> 0]
  <2>1. G[1] = c
    BY <1>3, <1>2
  <2>2. c \in [1..n -> Nat] /\ \A k \in 1..n : c[k] < dims[k]
    OBVIOUS
  <2>3. c \in Coordinates(dims)
    BY <2>2 DEF Coordinates
  <2>4. /\ Offsets(c, dims)[0] = 0
        /\ \A d \in 1..n : Offsets(c, dims)[d] = Offsets(c, dims)[d - 1] * dims[d] + c[d]
    <3>1. DOMAIN c = 1..n
      OBVIOUS
    <3> HIDE DEF c
    <3> QED
      BY <3>1, OffsetsAre
  <2> DEFINE Z == {d \in 0..n : Offsets(c, dims)[d] = 0}
  <2>5. 0 \in Z
    BY <2>4
  <2>6. ASSUME NEW d \in 1..n, d - 1 \in Z
        PROVE  d \in Z
    <3>1. Offsets(c, dims)[d - 1] = 0 /\ c[d] = 0 /\ dims[d] \in Nat
      BY <2>6
    <3>2. 0 * dims[d] + 0 = 0
      BY <3>1
    <3>3. Offsets(c, dims)[d] = 0
      <4> HIDE DEF c, Z
      <4> QED
        BY <2>4, <3>1, <3>2
    <3> QED
      BY <3>3
  <2> HIDE DEF c, Z
  <2>7. n \in Z
    <3>1. n \in 0..n
      OBVIOUS
    <3> QED
      BY <2>5, <2>6, <3>1, InductionUpTo
  <2>8. LinearOffset(c, dims) = Offsets(c, dims)[n]
    BY <2>2, LengthOf DEF LinearOffset
  <2>9. Offsets(c, dims)[n] = 0
    BY <2>7 DEF Z
  <2> QED
    BY <2>1, <2>3, <2>8, <2>9
<1>5. ASSUME NEW i \in 1..N, i - 1 \in S
      PROVE  i \in S
  <2>1. CASE i = 1
    BY <1>4, <2>1
  <2>2. CASE i > 1
    <3> DEFINE c == G[i - 1]
    <3>1. c \in Coordinates(dims) /\ LinearOffset(c, dims) + 1 = i - 1
      BY <1>5, <2>2
    <3>2. G[i] = Advance(c, dims)
      BY <1>2, <1>3, <2>2
    <3>3. LinearOffset(c, dims) \in Nat
      BY <3>1, OffsetInShape
    <3>4. LinearOffset(c, dims) + 1 < Sizes(dims)[n]
      BY <1>1, <1>2, <3>1
    <3> HIDE DEF c, S
    <3>5. G[i] \in Coordinates(dims) /\ LinearOffset(G[i], dims) = LinearOffset(c, dims) + 1
      BY <3>1, <3>2, <3>4, AdvanceAddsOne
    <3>6. LinearOffset(G[i], dims) + 1 = i
      BY <3>1, <3>3, <3>5
    <3> QED
      BY <3>5, <3>6 DEF S
  <2> QED
    BY <1>2, <2>1, <2>2
<1>6. 0 \in S
  BY <1>2
<1> HIDE DEF S
<1>7. \A i \in 0..N : i \in S
  BY <1>2, <1>5, <1>6, InductionUpTo
<1>8. \A i \in 1..N : G[i] \in Coordinates(dims) /\ LinearOffset(G[i], dims) + 1 = i
  BY <1>2, <1>7 DEF S
<1> QED
  BY <1>1, <1>2, <1>3, <1>8 DEF N, G

\* gridCoordinates: every combination once.
LEMMA GridEnumerates ==
    ASSUME NEW n \in Nat, n > 0, NEW dims \in [1..n -> Nat], \A k \in 1..n : dims[k] > 0
    PROVE  LET grid == GridCoordinates(dims) IN
           /\ \A c \in Coordinates(dims) :
                LinearOffset(c, dims) + 1 \in DOMAIN grid /\ grid[LinearOffset(c, dims) + 1] = c
           /\ \A i, j \in DOMAIN grid : grid[i] = grid[j] => i = j
<1> DEFINE G == GridCoordinates(dims)
<1>1. /\ ShapeSize(dims) = Sizes(dims)[n] /\ ShapeSize(dims) \in Nat
      /\ DOMAIN G = 1..ShapeSize(dims)
      /\ \A i \in 1..ShapeSize(dims) :
            G[i] \in Coordinates(dims) /\ LinearOffset(G[i], dims) + 1 = i
  BY GridStops
<1> HIDE DEF G
<1>2. ASSUME NEW c \in Coordinates(dims)
      PROVE  LinearOffset(c, dims) + 1 \in DOMAIN G /\ G[LinearOffset(c, dims) + 1] = c
  <2> DEFINE o == LinearOffset(c, dims)
  <2>1. o \in Nat /\ o < Sizes(dims)[n]
    BY OffsetInShape
  <2>2. o + 1 \in 1..ShapeSize(dims)
    BY <1>1, <2>1
  <2>3. G[o + 1] \in Coordinates(dims) /\ LinearOffset(G[o + 1], dims) + 1 = o + 1
    BY <1>1, <2>2
  <2>4. LinearOffset(G[o + 1], dims) \in Nat
    BY <2>3, OffsetInShape
  <2>5. LinearOffset(G[o + 1], dims) = LinearOffset(c, dims)
    BY <2>1, <2>3, <2>4
  <2>6. G[o + 1] = c
    BY <2>3, <2>5, OffsetsOrder
  <2> QED
    BY <1>1, <2>2, <2>6
<1>3. ASSUME NEW i \in 1..ShapeSize(dims), NEW j \in 1..ShapeSize(dims), G[i] = G[j]
      PROVE  i = j
  BY <1>1, <1>3
<1> QED
  BY <1>1, <1>2, <1>3 DEF G

-----------------------------------------------------------------------------
(* Counting: the place of a combination is the number of those before it.  *)

\* f names every member of S once.
Lists(f, N, S) ==
    /\ \A i \in 1..N : f[i] \in S
    /\ \A x \in S : \E i \in 1..N : f[i] = x
    /\ \A i, j \in 1..N : f[i] = f[j] => i = j

LEMMA CountByListing ==
    ASSUME NEW N \in Nat, NEW f, NEW S, Lists(f, N, S)
    PROVE  Cardinality(S) = N
<1> DEFINE b == [i \in 1..N |-> f[i]]
<1>1. b \in [1..N -> S] /\ \A i \in 1..N : b[i] = f[i]
  BY DEF Lists
<1> HIDE DEF b
<1>2. b \in Injection(1..N, S)
  BY <1>1 DEF Injection, IsInjective, Lists
<1>3. b \in Surjection(1..N, S)
  BY <1>1 DEF Surjection, Lists
<1>4. ExistsBijection(1..N, S)
  BY <1>2, <1>3 DEF ExistsBijection, Bijection
<1> QED
  BY <1>4, FS_CountingElements

LEMMA GridCounts ==
    ASSUME NEW n \in Nat, n > 0, NEW dims \in [1..n -> Nat], \A k \in 1..n : dims[k] > 0
    PROVE  /\ Cardinality(Coordinates(dims)) = ShapeSize(dims)
           /\ \A c \in Coordinates(dims) :
                Cardinality({e \in Coordinates(dims) : Before(e, c)}) = LinearOffset(c, dims)
<1> DEFINE G == GridCoordinates(dims)
           N == ShapeSize(dims)
<1>1. /\ N \in Nat /\ DOMAIN G = 1..N
      /\ \A i \in 1..N : G[i] \in Coordinates(dims) /\ LinearOffset(G[i], dims) + 1 = i
  BY GridStops
<1>2. /\ \A c \in Coordinates(dims) :
            LinearOffset(c, dims) + 1 \in 1..N /\ G[LinearOffset(c, dims) + 1] = c
      /\ \A i, j \in 1..N : G[i] = G[j] => i = j
  BY <1>1, GridEnumerates
<1>3. \A c \in Coordinates(dims) : LinearOffset(c, dims) \in Nat
  BY OffsetInShape
<1> HIDE DEF G, N
<1>4. Cardinality(Coordinates(dims)) = N
  <2>1. \A x \in Coordinates(dims) : \E i \in 1..N : G[i] = x
    BY <1>2
  <2>2. Lists(G, N, Coordinates(dims))
    BY <1>1, <1>2, <2>1 DEF Lists
  <2> QED
    BY <1>1, <2>2, CountByListing
<1>5. ASSUME NEW c \in Coordinates(dims)
      PROVE  Cardinality({e \in Coordinates(dims) : Before(e, c)}) = LinearOffset(c, dims)
  <2> DEFINE o == LinearOffset(c, dims)
             S == {e \in Coordinates(dims) : Before(e, c)}
  <2>1. o \in Nat /\ \A i \in 1..o : i \in 1..N
    BY <1>1, <1>2, <1>3
  <2>2. ASSUME NEW e \in Coordinates(dims)
        PROVE  Before(e, c) <=> LinearOffset(e, dims) < o
    BY OffsetsOrder
  <2>3. \A i \in 1..o : G[i] \in S
    <3> TAKE i \in 1..o
    <3>1. G[i] \in Coordinates(dims) /\ LinearOffset(G[i], dims) + 1 = i
      BY <1>1, <2>1
    <3>2. LinearOffset(G[i], dims) < o
      <4>1. LinearOffset(G[i], dims) \in Nat
        BY <1>3, <3>1
      <4> QED
        BY <2>1, <3>1, <4>1
    <3>3. Before(G[i], c)
      BY <2>2, <3>1, <3>2
    <3> QED
      BY <3>1, <3>3
  <2>4. \A e \in S : \E i \in 1..o : G[i] = e
    <3> TAKE e \in S
    <3>1. LinearOffset(e, dims) \in Nat /\ LinearOffset(e, dims) < o
      BY <1>3, <2>2
    <3>2. LinearOffset(e, dims) + 1 \in 1..o
      BY <2>1, <3>1
    <3> QED
      BY <1>2, <3>2
  <2>5. \A i, j \in 1..o : G[i] = G[j] => i = j
    BY <1>2, <2>1
  <2> HIDE DEF o, S
  <2>6. Lists(G, o, S)
    BY <2>3, <2>4, <2>5 DEF Lists
  <2>7. Cardinality(S) = o
    BY <2>1, <2>6, CountByListing
  <2> QED
    BY <2>7 DEF o, S
<1> QED
  BY <1>4, <1>5 DEF N

-----------------------------------------------------------------------------
(* nest.                                                                   *)

\* The sizes of the outer levels do not depend on the inner ones.
LEMMA OuterSizes ==
    ASSUME NEW n \in Nat, NEW dims \in [1..n -> Nat], NEW k \in 1..n
    PROVE  ShapeSize(SubSeq(dims, 1, k)) = Sizes(dims)[k]
<1> DEFINE outer == SubSeq(dims, 1, k)
           S == {d \in 0..k : Sizes(outer)[d] = Sizes(dims)[d]}
<1>1. DOMAIN outer = 1..k /\ \A d \in 1..k : outer[d] = dims[d]
  BY DEF SubSeq
<1> HIDE DEF outer
<1>2. Sizes(outer)[0] = 1 /\ \A d \in 1..k : Sizes(outer)[d] = Sizes(outer)[d - 1] * outer[d]
  BY <1>1, SizesAre
<1>3. Sizes(dims)[0] = 1 /\ \A d \in 1..n : Sizes(dims)[d] = Sizes(dims)[d - 1] * dims[d]
  BY SizesAre
<1>4. 0 \in S
  BY <1>2, <1>3
<1>5. ASSUME NEW d \in 1..k, d - 1 \in S
      PROVE  d \in S
  <2>1. Sizes(outer)[d - 1] = Sizes(dims)[d - 1] /\ outer[d] = dims[d] /\ d \in 1..n
    BY <1>1, <1>5
  <2> QED
    BY <1>2, <1>3, <2>1
<1> HIDE DEF S
<1>6. k \in Nat /\ k \in 0..k
  OBVIOUS
<1>7. k \in S
  BY <1>4, <1>5, <1>6, InductionUpTo
<1>8. Len(outer) = k /\ outer # <<>>
  <2>1. Len(outer) = k
    BY <1>1, <1>6, LengthOf
  <2> QED
    BY <2>1
<1> QED
  BY <1>7, <1>8 DEF ShapeSize, outer, S

LEMMA LevelsAre ==
    ASSUME NEW n \in Nat, n > 0, NEW dims \in [1..n -> Nat], NEW flat
    PROVE  Levels(flat, dims) =
             [d \in 1..n |-> IF d = n THEN flat
                ELSE [g \in 1..Sizes(dims)[d] |->
                        [k \in 1..dims[d + 1] |-> Levels(flat, dims)[d + 1][(g - 1) * dims[d + 1] + k]]]]
<1> DEFINE Group(d, lower) ==
                [g \in 1..ShapeSize(SubSeq(dims, 1, d)) |->
                    [k \in 1..dims[d + 1] |-> lower[(g - 1) * dims[d + 1] + k]]]
           S == {m \in 0..n - 1 : \E f : f = [d \in n - m..n |->
                    IF d = n THEN flat ELSE Group(d, f[d + 1])]}
<1>1. 0 \in S
  <2> DEFINE f == [d \in n - 0..n |-> flat]
  <2>1. \A d \in n - 0..n : d = n
    OBVIOUS
  <2>2. \A d \in n - 0..n : f[d] = IF d = n THEN flat ELSE Group(d, f[d + 1])
    BY <2>1
  <2>3. f = [d \in n - 0..n |-> f[d]]
    OBVIOUS
  <2> HIDE DEF f, Group
  <2>4. f = [d \in n - 0..n |-> IF d = n THEN flat ELSE Group(d, f[d + 1])]
    BY <2>2, <2>3
  <2> QED
    BY <2>4
<1>2. ASSUME NEW m \in 1..n - 1, m - 1 \in S
      PROVE  m \in S
  <2> HIDE DEF Group
  <2>1. PICK f : f = [d \in n - (m - 1)..n |-> IF d = n THEN flat ELSE Group(d, f[d + 1])]
    BY <1>2
  <2> DEFINE h == [d \in n - m..n |-> IF d = n - m THEN Group(d, f[d + 1]) ELSE f[d]]
  <2>2. ASSUME NEW d \in n - m..n
        PROVE  h[d] = IF d = n THEN flat ELSE Group(d, h[d + 1])
    <3>1. CASE d = n - m
      <4>1. d # n /\ d + 1 \in n - m..n /\ d + 1 # n - m
        BY <3>1
      <4>2. h[d] = Group(d, f[d + 1]) /\ h[d + 1] = f[d + 1]
        BY <3>1, <4>1
      <4> QED
        BY <4>1, <4>2
    <3>2. CASE d # n - m
      <4>1. d \in n - (m - 1)..n /\ h[d] = f[d]
        BY <3>2
      <4>2. f[d] = IF d = n THEN flat ELSE Group(d, f[d + 1])
        BY <2>1, <4>1
      <4>3. d # n => h[d + 1] = f[d + 1]
        BY <3>2, <4>1
      <4> QED
        BY <4>1, <4>2, <4>3
    <3> QED
      BY <3>1, <3>2
  <2>3. h = [d \in n - m..n |-> h[d]]
    OBVIOUS
  <2> HIDE DEF h
  <2>4. h = [d \in n - m..n |-> IF d = n THEN flat ELSE Group(d, h[d + 1])]
    BY <2>2, <2>3
  <2> QED
    BY <2>4
<1> HIDE DEF S
<1>3. n - 1 \in S
  <2>1. n - 1 \in Nat /\ n - 1 \in 0..n - 1
    OBVIOUS
  <2> QED
    BY <1>1, <1>2, <2>1, InductionUpTo
<1>4. \E f : f = [d \in 1..n |-> IF d = n THEN flat ELSE Group(d, f[d + 1])]
  <2> HIDE DEF Group
  <2>1. n - (n - 1) = 1
    OBVIOUS
  <2> QED
    BY <1>3, <2>1 DEF S
<1> DEFINE L == CHOOSE f : f = [d \in 1..n |-> IF d = n THEN flat ELSE Group(d, f[d + 1])]
<1>5. Levels(flat, dims) = L
  BY LengthOf DEF Levels
<1>6. L = [d \in 1..n |-> IF d = n THEN flat ELSE Group(d, L[d + 1])]
  <2> HIDE DEF Group
  <2> QED
    BY <1>4
<1> HIDE DEF L
<1>7. \A d \in 1..n : Group(d, L[d + 1]) =
                [g \in 1..Sizes(dims)[d] |->
                        [k \in 1..dims[d + 1] |-> L[d + 1][(g - 1) * dims[d + 1] + k]]]
  BY OuterSizes
<1> HIDE DEF Group
<1>8. L = [d \in 1..n |-> IF d = n THEN flat ELSE
                [g \in 1..Sizes(dims)[d] |->
                        [k \in 1..dims[d + 1] |-> L[d + 1][(g - 1) * dims[d + 1] + k]]]]
  BY <1>6, <1>7
<1> QED
  BY <1>5, <1>8

Descends(below, array, c, n) ==
    /\ below[0] = array
    /\ \A d \in 1..n : below[d] = below[d - 1][c[d] + 1]

LEMMA BelowIs ==
    ASSUME NEW n \in Nat, NEW c, DOMAIN c = 1..n, NEW array
    PROVE  Descends(Below(array, c), array, c, n)
<1> DEFINE S == {m \in Nat : \E g : g = [d \in 0..m |->
                                IF d = 0 THEN array ELSE g[d - 1][c[d] + 1]]}
<1>1. 0 \in S
  <2> DEFINE g == [d \in 0..0 |-> array]
  <2>1. g = [d \in 0..0 |-> IF d = 0 THEN array ELSE g[d - 1][c[d] + 1]]
    OBVIOUS
  <2> QED
    BY <2>1
<1>2. ASSUME NEW m \in Nat, m \in S
      PROVE  m + 1 \in S
  <2>1. PICK g : g = [d \in 0..m |-> IF d = 0 THEN array ELSE g[d - 1][c[d] + 1]]
    BY <1>2
  <2> DEFINE h == [d \in 0..m + 1 |-> IF d = m + 1 THEN g[m][c[d] + 1] ELSE g[d]]
  <2>2. \A d \in 0..m + 1 : h[d] = IF d = 0 THEN array ELSE h[d - 1][c[d] + 1]
    BY <2>1
  <2>3. h = [d \in 0..m + 1 |-> h[d]]
    OBVIOUS
  <2> HIDE DEF h
  <2>4. h = [d \in 0..m + 1 |-> IF d = 0 THEN array ELSE h[d - 1][c[d] + 1]]
    BY <2>2, <2>3
  <2> QED
    BY <2>4
<1> HIDE DEF S
<1>3. n \in S
  BY <1>1, <1>2, InductionOn
<1> DEFINE G == CHOOSE g : g = [d \in 0..n |-> IF d = 0 THEN array ELSE g[d - 1][c[d] + 1]]
<1>4. Below(array, c) = G
  BY LengthOf DEF Below
<1>5. G = [d \in 0..n |-> IF d = 0 THEN array ELSE G[d - 1][c[d] + 1]]
  BY <1>3 DEF S
<1> HIDE DEF G
<1> QED
  BY <1>4, <1>5 DEF Descends

\* nest keeps the order of linearOffset at every level.
LEMMA NestKeepsOrder ==
    ASSUME NEW n \in Nat, n > 0, NEW dims \in [1..n -> Nat], NEW flat,
           NEW k \in 1..n, NEW c \in [1..k -> Nat], \A j \in 1..k : c[j] < dims[j]
    PROVE  At(Nest(flat, dims), c) = Levels(flat, dims)[k][Offsets(c, dims)[k] + 1]
<1> DEFINE L == Levels(flat, dims)
           B == Below(L[1], c)
           O == Offsets(c, dims)
           S == {d \in 0..k : d > 0 => B[d] = L[d][O[d] + 1]}
<1>1. Nest(flat, dims) = L[1]
  <2>1. dims # <<>>
    <3>1. Len(dims) = n
      BY LengthOf
    <3> QED
      BY <3>1
  <2> QED
    BY <2>1 DEF Nest
<1>2. DOMAIN c = 1..k /\ k \in Nat
  OBVIOUS
<1>3. At(Nest(flat, dims), c) = B[k]
  <2>1. Len(c) = k
    BY <1>2, LengthOf
  <2> QED
    BY <1>1, <2>1 DEF At
<1>4. B[0] = L[1] /\ \A d \in 1..k : B[d] = B[d - 1][c[d] + 1]
  <2>1. Descends(B, L[1], c, k)
    BY <1>2, BelowIs
  <2> QED
    BY <2>1 DEF Descends
<1>5. O[0] = 0 /\ \A d \in 1..k : O[d] = O[d - 1] * dims[d] + c[d]
  BY <1>2, OffsetsAre
<1>6. \A d \in 0..k : O[d] \in Nat /\ O[d] < Sizes(dims)[d]
  <2>1. k \in 0..n
    OBVIOUS
  <2> QED
    BY <2>1, OffsetsInRange
<1>7. L = [d \in 1..n |-> IF d = n THEN flat
                ELSE [g \in 1..Sizes(dims)[d] |->
                        [p \in 1..dims[d + 1] |-> L[d + 1][(g - 1) * dims[d + 1] + p]]]]
  BY LevelsAre
<1>8. \A d \in 0..n : Sizes(dims)[d] \in Nat
  BY SizesTyped
<1> HIDE DEF L, B, O
<1>9. ASSUME NEW d \in 1..k, d - 1 \in S
      PROVE  d \in S
  <2>1. CASE d = 1
    <3>1. O[1] = c[1]
      <4>1. 0 * dims[1] + c[1] = c[1] /\ 1 - 1 = 0 /\ 1 \in 1..k
        BY <2>1
      <4> QED
        BY <1>5, <4>1
    <3>2. B[1] = L[1][c[1] + 1]
      BY <1>4, <2>1
    <3> QED
      BY <2>1, <3>1, <3>2
  <2>2. CASE d # 1
    <3> DEFINE o == O[d - 1]
               m == dims[d]
               x == c[d]
    <3>1. d - 1 \in 1..n /\ d - 1 # n /\ (d - 1) + 1 = d /\ d - 1 \in 0..k /\ d - 1 > 0
      BY <2>2
    <3>2. B[d - 1] = L[d - 1][o + 1]
      BY <1>9, <3>1
    <3>3. o \in Nat /\ o + 1 \in 1..Sizes(dims)[d - 1]
      BY <1>6, <1>8, <3>1
    <3>4. m \in Nat /\ x \in Nat /\ x < m /\ x + 1 \in 1..m
      BY <3>1
    <3>5. L[d - 1] = [g \in 1..Sizes(dims)[d - 1] |-> [p \in 1..m |-> L[d][(g - 1) * m + p]]]
      BY <1>7, <3>1
    <3>6. B[d] = B[d - 1][x + 1] /\ O[d] = o * m + x
      BY <1>4, <1>5
    <3> HIDE DEF o, m, x
    <3>7. L[d - 1][o + 1] = [p \in 1..m |-> L[d][((o + 1) - 1) * m + p]]
      BY <3>3, <3>5
    <3>8. L[d - 1][o + 1][x + 1] = L[d][((o + 1) - 1) * m + (x + 1)]
      BY <3>4, <3>7
    <3>9. ((o + 1) - 1) * m + (x + 1) = (o * m + x) + 1
      <4>1. (o + 1) - 1 = o
        BY <3>3
      <4>2. o * m \in Nat
        BY <3>3, <3>4
      <4> QED
        BY <3>4, <4>1, <4>2
    <3>10. B[d] = L[d][O[d] + 1]
      BY <3>2, <3>6, <3>8, <3>9
    <3> QED
      BY <3>10
  <2> QED
    BY <2>1, <2>2
<1>10. 0 \in S
  OBVIOUS
<1> HIDE DEF S
<1>11. k \in S
  <2>1. k \in 0..k
    OBVIOUS
  <2> QED
    BY <1>2, <1>9, <1>10, <2>1, InductionUpTo
<1>12. B[k] = L[k][O[k] + 1]
  BY <1>11 DEF S
<1> QED
  BY <1>3, <1>12 DEF L, O

\* At full coordinates stands what linearOffset addressed.
LEMMA NestAt ==
    ASSUME NEW n \in Nat, n > 0, NEW dims \in [1..n -> Nat], NEW flat, NEW c \in Coordinates(dims)
    PROVE  At(Nest(flat, dims), c) = flat[LinearOffset(c, dims) + 1]
<1>1. c \in [1..n -> Nat] /\ (\A j \in 1..n : c[j] < dims[j]) /\ n \in 1..n
  BY DEF Coordinates
<1>2. At(Nest(flat, dims), c) = Levels(flat, dims)[n][Offsets(c, dims)[n] + 1]
  BY <1>1, NestKeepsOrder
<1>3. Levels(flat, dims)[n] = flat
  BY <1>1, LevelsAre
<1>4. LinearOffset(c, dims) = Offsets(c, dims)[n]
  BY <1>1, LengthOf DEF LinearOffset
<1> QED
  BY <1>2, <1>3, <1>4

\* Every array below k coordinates has the length of the next dimension.
LevelLength(array, dims, k) ==
    \A c \in [1..k -> Nat] : (\A j \in 1..k : c[j] < dims[j]) => Len(At(array, c)) = dims[k + 1]

LEMMA NestLengths ==
    ASSUME NEW n \in Nat, n > 0, NEW dims \in [1..n -> Nat],
           NEW flat, DOMAIN flat = 1..ShapeSize(dims), NEW k \in 0..n - 1
    PROVE  LevelLength(Nest(flat, dims), dims, k)
<1> SUFFICES ASSUME NEW c \in [1..k -> Nat], \A j \in 1..k : c[j] < dims[j]
             PROVE  Len(At(Nest(flat, dims), c)) = dims[k + 1]
  BY DEF LevelLength
<1> DEFINE L == Levels(flat, dims)
<1>1. L = [d \in 1..n |-> IF d = n THEN flat
                ELSE [g \in 1..Sizes(dims)[d] |->
                        [p \in 1..dims[d + 1] |-> L[d + 1][(g - 1) * dims[d + 1] + p]]]]
  BY LevelsAre
<1>2. dims # <<>> /\ Len(dims) = n
  <2>1. Len(dims) = n
    BY LengthOf
  <2> QED
    BY <2>1
<1>3. Nest(flat, dims) = L[1] /\ ShapeSize(dims) = Sizes(dims)[n]
  BY <1>2 DEF Nest, ShapeSize
<1>4. DOMAIN c = 1..k /\ k \in Nat /\ k + 1 \in 1..n
  OBVIOUS
<1> HIDE DEF L
<1>5. CASE k = 0
  <2>1. At(L[1], c) = L[1]
    <3>1. Descends(Below(L[1], c), L[1], c, k)
      BY <1>4, BelowIs
    <3>2. Len(c) = 0
      BY <1>4, <1>5, LengthOf
    <3> QED
      BY <3>1, <3>2 DEF At, Descends
  <2>2. Sizes(dims)[1] = dims[1]
    <3>1. /\ Sizes(dims)[0] = 1
          /\ \A d \in 1..n : Sizes(dims)[d] = Sizes(dims)[d - 1] * dims[d]
      BY SizesAre
    <3>2. 1 \in 1..n /\ 1 - 1 = 0 /\ 1 * dims[1] = dims[1]
      OBVIOUS
    <3> QED
      BY <3>1, <3>2
  <2>3. DOMAIN L[1] = 1..dims[1]
    <3>1. CASE n = 1
      BY <1>1, <1>3, <2>2, <3>1
    <3>2. CASE n # 1
      BY <1>1, <2>2, <3>2
    <3> QED
      BY <3>1, <3>2
  <2>4. dims[1] \in Nat
    BY <1>4, <1>5
  <2> QED
    BY <1>3, <1>5, <2>1, <2>3, <2>4, LengthOf
<1>6. CASE k > 0
  <2> DEFINE o == Offsets(c, dims)[k]
  <2>1. k \in 1..n /\ k \in 0..n /\ k # n /\ k \in 0..k
    BY <1>6
  <2>2. At(Nest(flat, dims), c) = L[k][o + 1]
    BY <2>1, NestKeepsOrder DEF L
  <2>3. o \in Nat /\ o < Sizes(dims)[k] /\ Sizes(dims)[k] \in Nat
    <3>1. \A d \in 0..k : Offsets(c, dims)[d] \in Nat /\ Offsets(c, dims)[d] < Sizes(dims)[d]
      BY <2>1, OffsetsInRange
    <3>2. Sizes(dims)[k] \in Nat
      BY <2>1, SizesTyped
    <3> QED
      BY <2>1, <3>1, <3>2
  <2> HIDE DEF o
  <2>4. o + 1 \in 1..Sizes(dims)[k]
    BY <2>3
  <2>5. L[k] = [g \in 1..Sizes(dims)[k] |->
                    [p \in 1..dims[k + 1] |-> L[k + 1][(g - 1) * dims[k + 1] + p]]]
    BY <1>1, <2>1
  <2>6. DOMAIN L[k][o + 1] = 1..dims[k + 1]
    BY <2>4, <2>5
  <2>7. dims[k + 1] \in Nat
    BY <1>4
  <2> QED
    BY <2>2, <2>6, <2>7, LengthOf
<1> QED
  BY <1>5, <1>6

-----------------------------------------------------------------------------
(* gatherPort, for jobs whose coordinates run through the shape in order.  *)

InOrder(jobs, dims, N) ==
    /\ ShapeSize(dims) = N /\ DOMAIN jobs = 1..N
    /\ \A i \in 1..N : LinearOffset(jobs[i].index, dims) + 1 = i

LEMMA GatherInOrder ==
    ASSUME NEW s, NEW dims, NEW jobs, NEW N \in Nat, InOrder(jobs, dims, N)
    PROVE  GatherPort(s, jobs, dims) = Nest([i \in 1..N |-> <<s, jobs[i].inputs>>], dims)
<1> DEFINE filling(n) == {i \in DOMAIN jobs : LinearOffset(jobs[i].index, dims) + 1 = n}
           entry(n) == IF filling(n) = {} THEN "null"
                       ELSE Output(s, jobs[CHOOSE i \in filling(n) : \A j \in filling(n) : j <= i])
<1>1. ASSUME NEW n \in 1..N
      PROVE  entry(n) = <<s, jobs[n].inputs>>
  <2>1. filling(n) = {n}
    BY DEF InOrder
  <2> HIDE DEF filling
  <2>2. (CHOOSE i \in filling(n) : \A j \in filling(n) : j <= i) = n
    BY <2>1
  <2> QED
    BY <2>1, <2>2 DEF Output
<1>2. GatherPort(s, jobs, dims) = Nest([n \in 1..N |-> entry(n)], dims)
  BY DEF GatherPort, InOrder
<1> HIDE DEF entry
<1>3. [n \in 1..N |-> entry(n)] = [i \in 1..N |-> <<s, jobs[i].inputs>>]
  BY <1>1
<1> QED
  BY <1>2, <1>3

\* An output array of one dimension is the flat array.
LEMMA OneDimension ==
    ASSUME NEW N \in Nat
    PROVE  /\ ShapeSize(<<N>>) = N
           /\ \A p \in Nat : LinearOffset(<<p>>, <<N>>) = p
           /\ \A flat : Nest(flat, <<N>>) = flat
           /\ \A flat : \A p \in Nat : At(flat, <<p>>) = flat[p + 1]
<1> DEFINE dims == <<N>>
<1>1. dims \in [1..1 -> Nat] /\ dims[1] = N /\ DOMAIN dims = 1..1 /\ dims # <<>> /\ Len(dims) = 1
  OBVIOUS
<1> HIDE DEF dims
<1>2. ShapeSize(dims) = N
  <2>1. Sizes(dims)[0] = 1 /\ \A d \in 1..1 : Sizes(dims)[d] = Sizes(dims)[d - 1] * dims[d]
    BY <1>1, SizesAre
  <2>2. Sizes(dims)[1] = 1 * N
    BY <1>1, <2>1
  <2> QED
    BY <1>1, <2>2 DEF ShapeSize
<1>3. ASSUME NEW p \in Nat
      PROVE  LinearOffset(<<p>>, dims) = p
  <2> DEFINE c == <<p>>
  <2>1. DOMAIN c = 1..1 /\ c[1] = p /\ Len(c) = 1
    OBVIOUS
  <2> HIDE DEF c
  <2>2. \A n \in Nat : DOMAIN c = 1..n =>
            /\ Offsets(c, dims)[0] = 0
            /\ \A d \in 1..n : Offsets(c, dims)[d] = Offsets(c, dims)[d - 1] * dims[d] + c[d]
    BY OffsetsAre
  <2>3. Offsets(c, dims)[1] = 0 * N + p
    BY <1>1, <2>1, <2>2
  <2>4. LinearOffset(c, dims) = p
    BY <2>1, <2>3 DEF LinearOffset
  <2> QED
    BY <2>4 DEF c
<1>4. ASSUME NEW flat
      PROVE  Nest(flat, dims) = flat
  <2>1. \A n \in Nat : n > 0 /\ dims \in [1..n -> Nat] => Levels(flat, dims)[n] = flat
    <3> TAKE n \in Nat
    <3> HAVE n > 0 /\ dims \in [1..n -> Nat]
    <3>1. n \in 1..n
      OBVIOUS
    <3> QED
      BY <3>1, LevelsAre
  <2>2. Levels(flat, dims)[1] = flat
    BY <1>1, <2>1
  <2> QED
    BY <1>1, <2>2 DEF Nest
<1>5. ASSUME NEW flat, NEW p \in Nat
      PROVE  At(flat, <<p>>) = flat[p + 1]
  <2> DEFINE c == <<p>>
  <2>1. DOMAIN c = 1..1 /\ c[1] = p /\ Len(c) = 1
    OBVIOUS
  <2> HIDE DEF c
  <2>2. \A n \in Nat : DOMAIN c = 1..n => Descends(Below(flat, c), flat, c, n)
    BY BelowIs
  <2>3. At(flat, c) = flat[p + 1]
    BY <2>1, <2>2 DEF At, Descends
  <2> QED
    BY <2>3 DEF c
<1> QED
  BY <1>2, <1>3, <1>4, <1>5 DEF dims

-----------------------------------------------------------------------------
(* ExpandScatter and Gather, for each method.                              *)

LEMMA CombinationsAre ==
    ASSUME NEW n \in Nat, NEW lens \in [1..n -> 0..MaxLen], NEW method
    PROVE  Combinations(lens, method) =
             IF method = Dot THEN {c \in Coordinates(lens) : \A k \in 1..n : c[k] = c[1]}
                             ELSE Coordinates(lens)
<1> DEFINE all == {c \in [1..n -> 0..MaxLen] : \A k \in 1..n : c[k] < lens[k]}
<1>1. all = Coordinates(lens)
  <2>1. ASSUME NEW c \in Coordinates(lens)
        PROVE  c \in all
    <3>1. c \in [1..n -> Nat] /\ \A k \in 1..n : c[k] < lens[k]
      BY <2>1 DEF Coordinates
    <3>2. \A k \in 1..n : c[k] \in 0..MaxLen
      BY <3>1, ScatterAssumption
    <3>3. c \in [1..n -> 0..MaxLen]
      BY <3>1, <3>2
    <3> QED
      BY <3>1, <3>3
  <2>2. ASSUME NEW c \in all
        PROVE  c \in Coordinates(lens)
    BY ScatterAssumption DEF Coordinates
  <2> QED
    BY <2>1, <2>2
<1>2. Combinations(lens, method) =
        IF method = Dot THEN {c \in all : \A k \in 1..n : c[k] = c[1]} ELSE all
  BY DEF Combinations
<1> HIDE DEF all
<1> QED
  BY <1>1, <1>2

\* What ScatterGathersAll asks of the plan of one step.
RunsAll(lens, method, jobs) ==
    /\ {jobs[i].inputs : i \in DOMAIN jobs} = Combinations(lens, method)
    /\ \A i, j \in DOMAIN jobs : jobs[i].inputs = jobs[j].inputs => i = j

\* What it asks of an array gathered for the step s.
InPlace(s, lens, method, array) ==
    /\ \A c \in Combinations(lens, method) : At(array, Place(c, lens, method)) = <<s, c>>
    /\ IF method = Nested
       THEN \A k \in 0..Len(lens) - 1 :
              \A c \in Combinations(SubSeq(lens, 1, k), Nested) :
                Len(At(array, c)) = lens[k + 1]
       ELSE Len(array) = Cardinality(Combinations(lens, method))

\* Jobs are numbered by coordinates that tell them apart.
Indexed(jobs, dims) ==
    \A i \in DOMAIN jobs : /\ jobs[i].index \in Seq(Nat)
                           /\ LinearOffset(jobs[i].index, dims) + 1 = i

\* The plan of ExpandScatter is complete, accepted by Gather, and gathered in place.
Works(s, lens, method, jobs, dims) ==
    /\ RunsAll(lens, method, jobs)
    /\ Indexed(jobs, dims)
    /\ dims # <<>> /\ ValidShape(dims) /\ ValidCoordinates(jobs, dims)
    /\ InPlace(s, lens, method, GatherPort(s, jobs, dims))

LEMMA DotWorks ==
    ASSUME NEW s, NEW n \in Nat, n > 0, NEW lens \in [1..n -> 0..MaxLen],
           \A k \in 1..n : lens[k] > 0 /\ lens[k] = lens[1]
    PROVE  Works(s, lens, Dot, Dotproduct(lens).jobs, Dotproduct(lens).dims)
<1> DEFINE N == lens[1]
           combination(p) == [k \in 1..n |-> p]
           jobs == Dotproduct(lens).jobs
           dims == Dotproduct(lens).dims
           all == Combinations(lens, Dot)
<1>1. N \in Nat /\ N > 0 /\ 1 \in 1..n
  BY ScatterAssumption
<1>2. /\ DOMAIN jobs = 1..N /\ dims = <<N>>
      /\ \A i \in 1..N : jobs[i].index = <<i - 1>> /\ jobs[i].inputs = combination(i - 1)
  BY DEF Dotproduct, Job
<1> HIDE DEF jobs, dims
<1>3. all = {c \in Coordinates(lens) : \A k \in 1..n : c[k] = c[1]}
  BY CombinationsAre
<1> HIDE DEF all
<1>4. \A i \in 1..N : combination(i - 1) \in all
  <2> TAKE i \in 1..N
  <2>1. i - 1 \in Nat /\ i - 1 < N
    BY <1>1
  <2>2. combination(i - 1) \in Coordinates(lens)
    BY <1>1, <2>1 DEF Coordinates
  <2> QED
    BY <1>1, <1>3, <2>2
<1>5. \A c \in all : c[1] \in Nat /\ c[1] + 1 \in 1..N /\ c = combination((c[1] + 1) - 1)
  <2> TAKE c \in all
  <2>1. c \in [1..n -> Nat] /\ c[1] \in Nat /\ c[1] < N /\ \A k \in 1..n : c[k] = c[1]
    BY <1>1, <1>3 DEF Coordinates
  <2>2. c = [k \in 1..n |-> c[1]] /\ (c[1] + 1) - 1 = c[1] /\ c[1] + 1 \in 1..N
    BY <1>1, <2>1
  <2> QED
    BY <2>1, <2>2
<1>6. \A i, j \in 1..N : combination(i - 1) = combination(j - 1) => i = j
  <2> TAKE i, j \in 1..N
  <2>1. combination(i - 1)[1] = i - 1 /\ combination(j - 1)[1] = j - 1
    BY <1>1
  <2> HIDE DEF combination
  <2> QED
    BY <1>1, <2>1
<1> HIDE DEF combination
<1>7. RunsAll(lens, Dot, jobs)
  <2>1. {jobs[i].inputs : i \in DOMAIN jobs} = all
    BY <1>2, <1>4, <1>5
  <2>2. \A i, j \in DOMAIN jobs : jobs[i].inputs = jobs[j].inputs => i = j
    BY <1>2, <1>6
  <2> QED
    BY <2>1, <2>2 DEF RunsAll, all
<1>8. dims # <<>> /\ ValidShape(dims) /\ ValidCoordinates(jobs, dims)
  <2>1. dims # <<>> /\ ValidShape(dims)
    BY <1>2 DEF ValidShape
  <2>2. ASSUME NEW i \in 1..N
        PROVE  /\ Len(jobs[i].index) = Len(dims)
               /\ \A d \in DOMAIN dims : jobs[i].index[d] \in 0..dims[d] - 1
    <3>1. i - 1 \in 0..N - 1
      BY <1>1
    <3>2. jobs[i].index = <<i - 1>> /\ dims = <<N>>
      BY <1>2
    <3> QED
      BY <3>1, <3>2
  <2> QED
    BY <1>2, <2>1, <2>2 DEF ValidCoordinates
<1> DEFINE array == [i \in 1..N |-> <<s, jobs[i].inputs>>]
<1>9. GatherPort(s, jobs, dims) = array
  <2>1. \A i \in 1..N : LinearOffset(jobs[i].index, dims) + 1 = i
    <3> TAKE i \in 1..N
    <3>1. i - 1 \in Nat
      BY <1>1
    <3>2. LinearOffset(<<i - 1>>, <<N>>) = i - 1
      BY <1>1, <3>1, OneDimension
    <3>3. jobs[i].index = <<i - 1>> /\ dims = <<N>>
      BY <1>2
    <3>4. LinearOffset(jobs[i].index, dims) = i - 1
      BY <3>2, <3>3, Zenon
    <3> QED
      BY <1>1, <3>4
  <2>2. ShapeSize(dims) = N
    BY <1>1, <1>2, OneDimension
  <2>3. GatherPort(s, jobs, dims) = Nest(array, dims)
    BY <1>1, <1>2, <2>1, <2>2, GatherInOrder DEF InOrder
  <2> HIDE DEF array
  <2> QED
    BY <1>1, <1>2, <2>3, OneDimension
<1>10. InPlace(s, lens, Dot, array)
  <2>1. ASSUME NEW c \in all
        PROVE  At(array, Place(c, lens, Dot)) = <<s, c>>
    <3>1. c[1] \in Nat /\ c[1] + 1 \in 1..N /\ c = combination((c[1] + 1) - 1)
      BY <1>5
    <3>2. Place(c, lens, Dot) = <<c[1]>>
      BY DEF Place, Dot, Nested, Flat
    <3>3. At(array, <<c[1]>>) = array[c[1] + 1]
      BY <1>1, <3>1, OneDimension
    <3>4. array[c[1] + 1] = <<s, c>>
      BY <1>2, <3>1
    <3> QED
      BY <3>2, <3>3, <3>4
  <2>2. Len(array) = Cardinality(all)
    <3> DEFINE f == [i \in 1..N |-> combination(i - 1)]
    <3>1. \A c \in all : \E i \in 1..N : combination(i - 1) = c
      BY <1>5
    <3>2. Lists(f, N, all)
      BY <1>4, <1>6, <3>1 DEF Lists
    <3> HIDE DEF f
    <3>3. Cardinality(all) = N
      BY <1>1, <3>2, CountByListing
    <3> QED
      BY <1>1, <3>3, LengthOf
  <2>3. Dot # Nested
    BY DEF Dot, Nested
  <2> HIDE DEF array
  <2> QED
    BY <2>1, <2>2, <2>3 DEF InPlace, all
<1>11. Indexed(jobs, dims)
  <2>1. ASSUME NEW i \in 1..N
        PROVE  jobs[i].index \in Seq(Nat) /\ LinearOffset(jobs[i].index, dims) + 1 = i
    <3>1. i - 1 \in Nat
      BY <1>1
    <3>2. LinearOffset(<<i - 1>>, <<N>>) = i - 1
      BY <1>1, <3>1, OneDimension
    <3>3. jobs[i].index = <<i - 1>> /\ dims = <<N>>
      BY <1>2
    <3>4. LinearOffset(jobs[i].index, dims) = i - 1
      BY <3>2, <3>3, Zenon
    <3>5. jobs[i].index \in Seq(Nat)
      BY <3>1, <3>3
    <3> QED
      BY <1>1, <3>4, <3>5
  <2> QED
    BY <1>2, <2>1 DEF Indexed
<1> QED
  BY <1>7, <1>8, <1>9, <1>10, <1>11 DEF Works, jobs, dims

\* The combinations of the outer keys alone.
LEMMA OuterCombinations ==
    ASSUME NEW n \in Nat, NEW lens \in [1..n -> 0..MaxLen], NEW k \in 0..n - 1
    PROVE  \A c \in Combinations(SubSeq(lens, 1, k), Nested) :
              c \in [1..k -> Nat] /\ \A j \in 1..k : c[j] < lens[j]
<1> DEFINE outer == SubSeq(lens, 1, k)
<1>1. k \in Nat /\ DOMAIN outer = 1..k /\ outer = [j \in 1..k |-> lens[j]]
  BY DEF SubSeq
<1>2. outer \in [1..k -> 0..MaxLen] /\ \A j \in 1..k : outer[j] = lens[j]
  <2>1. \A j \in 1..k : lens[j] \in 0..MaxLen
    OBVIOUS
  <2> HIDE DEF outer
  <2> QED
    BY <1>1, <2>1
<1> HIDE DEF outer
<1>3. Combinations(outer, Nested) = Coordinates(outer)
  <2>1. Nested # Dot
    BY DEF Dot, Nested
  <2> QED
    BY <1>1, <1>2, <2>1, CombinationsAre
<1>4. ASSUME NEW c \in Coordinates(outer)
      PROVE  c \in [1..k -> Nat] /\ \A j \in 1..k : c[j] < lens[j]
  BY <1>1, <1>2 DEF Coordinates
<1> QED
  BY <1>3, <1>4 DEF outer

\* What both crossproducts make of the grid.
LEMMA GridWorks ==
    ASSUME NEW n \in Nat, n > 0, NEW lens \in [1..n -> 0..MaxLen],
           \A k \in 1..n : lens[k] > 0,
           NEW method, method # Dot, NEW jobs,
           DOMAIN jobs = DOMAIN GridCoordinates(lens),
           \A i \in DOMAIN jobs : jobs[i].inputs = GridCoordinates(lens)[i]
    PROVE  RunsAll(lens, method, jobs)
<1> DEFINE G == GridCoordinates(lens)
           N == ShapeSize(lens)
<1>1. lens \in [1..n -> Nat]
  BY ScatterAssumption
<1>2. DOMAIN G = 1..N /\ \A i \in 1..N : G[i] \in Coordinates(lens)
  BY <1>1, GridStops
<1>3. /\ \A c \in Coordinates(lens) : \E i \in DOMAIN G : G[i] = c
      /\ \A i, j \in DOMAIN G : G[i] = G[j] => i = j
  BY <1>1, GridEnumerates
<1>4. Combinations(lens, method) = Coordinates(lens)
  BY CombinationsAre
<1> HIDE DEF G, N
<1>5. \A i \in DOMAIN jobs : jobs[i].inputs = G[i]
  BY DEF G
<1>6. DOMAIN jobs = DOMAIN G
  BY DEF G
<1>7. {jobs[i].inputs : i \in DOMAIN jobs} = Coordinates(lens)
  BY <1>2, <1>3, <1>5, <1>6
<1>8. \A i, j \in DOMAIN jobs : jobs[i].inputs = jobs[j].inputs => i = j
  BY <1>3, <1>5, <1>6
<1> QED
  BY <1>4, <1>7, <1>8 DEF RunsAll

LEMMA NestedWorks ==
    ASSUME NEW s, NEW n \in Nat, n > 0, NEW lens \in [1..n -> 0..MaxLen],
           \A k \in 1..n : lens[k] > 0
    PROVE  Works(s, lens, Nested, NestedCrossproduct(lens).jobs, NestedCrossproduct(lens).dims)
<1> DEFINE G == GridCoordinates(lens)
           N == ShapeSize(lens)
           jobs == NestedCrossproduct(lens).jobs
<1>1. lens \in [1..n -> Nat] /\ Nested # Dot /\ Nested # Flat
  BY ScatterAssumption DEF Nested, Dot, Flat
<1>2. /\ N \in Nat /\ DOMAIN G = 1..N
      /\ \A i \in 1..N : G[i] \in Coordinates(lens) /\ LinearOffset(G[i], lens) + 1 = i
  BY <1>1, GridStops
<1>3. \A c \in Coordinates(lens) :
         LinearOffset(c, lens) + 1 \in DOMAIN G /\ G[LinearOffset(c, lens) + 1] = c
  BY <1>1, GridEnumerates
<1>4. /\ NestedCrossproduct(lens).dims = lens
      /\ DOMAIN jobs = DOMAIN G
      /\ \A i \in DOMAIN G : jobs[i].index = G[i] /\ jobs[i].inputs = G[i]
  <2> HIDE DEF G
  <2>1. NestedCrossproduct(lens) =
            [jobs |-> [i \in DOMAIN G |-> [index |-> G[i], inputs |-> G[i]]], dims |-> lens]
    BY DEF NestedCrossproduct, Job, G
  <2> QED
    BY <2>1
<1> HIDE DEF jobs
<1>5. RunsAll(lens, Nested, jobs)
  BY <1>1, <1>4, GridWorks
<1> HIDE DEF G, N
<1>6. lens # <<>> /\ ValidShape(lens) /\ ValidCoordinates(jobs, lens)
  <2>1. Len(lens) = n /\ lens # <<>>
    <3>1. Len(lens) = n
      BY LengthOf
    <3> QED
      BY <3>1
  <2>2. ASSUME NEW i \in 1..N
        PROVE  Len(jobs[i].index) = n /\ \A d \in 1..n : jobs[i].index[d] \in 0..lens[d] - 1
    <3>1. jobs[i].index \in [1..n -> Nat] /\ \A d \in 1..n : jobs[i].index[d] < lens[d]
      BY <1>2, <1>4 DEF Coordinates
    <3> DEFINE index == jobs[i].index
    <3>2. DOMAIN index = 1..n
      BY <3>1
    <3>3. Len(index) = n
      <4> HIDE DEF index
      <4> QED
        BY <3>2, LengthOf
    <3>4. \A d \in 1..n : index[d] \in 0..lens[d] - 1
      BY <1>1, <3>1
    <3> QED
      BY <3>3, <3>4
  <2>3. ValidShape(lens)
    BY DEF ValidShape
  <2> QED
    BY <1>2, <1>4, <2>1, <2>2, <2>3 DEF ValidCoordinates
<1> DEFINE flat == [i \in 1..N |-> <<s, jobs[i].inputs>>]
           array == Nest(flat, lens)
<1>7. GatherPort(s, jobs, lens) = array
  <2>1. \A i \in 1..N : LinearOffset(jobs[i].index, lens) + 1 = i
    BY <1>2, <1>4
  <2>2. ShapeSize(lens) = N /\ DOMAIN jobs = 1..N
    BY <1>2, <1>4 DEF N
  <2>3. InOrder(jobs, lens, N)
    BY <2>1, <2>2 DEF InOrder
  <2> QED
    BY <1>2, <2>3, GatherInOrder
<1>8. ASSUME NEW c \in Coordinates(lens)
      PROVE  At(array, c) = <<s, c>>
  <2>1. At(array, c) = flat[LinearOffset(c, lens) + 1]
    <3> HIDE DEF flat
    <3> QED
      BY <1>1, NestAt
  <2>2. LinearOffset(c, lens) + 1 \in 1..N /\ jobs[LinearOffset(c, lens) + 1].inputs = c
    BY <1>2, <1>3, <1>4
  <2> QED
    BY <2>1, <2>2
<1>9. ASSUME NEW k \in 0..n - 1, NEW c \in Combinations(SubSeq(lens, 1, k), Nested)
      PROVE  Len(At(array, c)) = lens[k + 1]
  <2>1. c \in [1..k -> Nat] /\ \A j \in 1..k : c[j] < lens[j]
    BY OuterCombinations
  <2>2. DOMAIN flat = 1..ShapeSize(lens)
    BY DEF N
  <2> HIDE DEF flat
  <2>3. LevelLength(array, lens, k)
    BY <1>1, <2>2, NestLengths
  <2> QED
    BY <2>1, <2>3 DEF LevelLength
<1> HIDE DEF array
<1>10. InPlace(s, lens, Nested, array)
  <2>1. Combinations(lens, Nested) = Coordinates(lens)
    BY <1>1, CombinationsAre
  <2>2. \A c : Place(c, lens, Nested) = c
    BY DEF Place, Dot, Nested, Flat
  <2>3. Len(lens) = n
    BY LengthOf
  <2> QED
    BY <1>8, <1>9, <2>1, <2>2, <2>3 DEF InPlace
<1>11. Indexed(jobs, lens)
  <2>1. ASSUME NEW c \in Coordinates(lens)
        PROVE  c \in Seq(Nat)
    <3>1. c \in [1..n -> Nat]
      BY <1>1 DEF Coordinates
    <3> QED
      BY <3>1
  <2> QED
    BY <1>2, <1>4, <2>1 DEF Indexed
<1> QED
  BY <1>4, <1>5, <1>6, <1>7, <1>10, <1>11 DEF Works, jobs

LEMMA FlatWorks ==
    ASSUME NEW s, NEW n \in Nat, n > 0, NEW lens \in [1..n -> 0..MaxLen],
           \A k \in 1..n : lens[k] > 0
    PROVE  Works(s, lens, Flat, FlatCrossproduct(lens).jobs, FlatCrossproduct(lens).dims)
<1> DEFINE G == GridCoordinates(lens)
           N == ShapeSize(lens)
           jobs == FlatCrossproduct(lens).jobs
           dims == FlatCrossproduct(lens).dims
<1>1. lens \in [1..n -> Nat] /\ Flat # Dot /\ Flat # Nested
  BY ScatterAssumption DEF Nested, Dot, Flat
<1>2. /\ N \in Nat /\ DOMAIN G = 1..N
      /\ \A i \in 1..N : G[i] \in Coordinates(lens) /\ LinearOffset(G[i], lens) + 1 = i
  BY <1>1, GridStops
<1>3. \A c \in Coordinates(lens) :
         LinearOffset(c, lens) + 1 \in DOMAIN G /\ G[LinearOffset(c, lens) + 1] = c
  BY <1>1, GridEnumerates
<1>4. /\ Cardinality(Coordinates(lens)) = N
      /\ \A c \in Coordinates(lens) :
            Cardinality({e \in Coordinates(lens) : Before(e, c)}) = LinearOffset(c, lens)
  BY <1>1, GridCounts
<1>5. \A c \in Coordinates(lens) : LinearOffset(c, lens) \in Nat
  BY <1>1, OffsetInShape
<1>6. /\ dims = <<N>>
      /\ DOMAIN jobs = DOMAIN G
      /\ \A i \in DOMAIN G : jobs[i].index = <<i - 1>> /\ jobs[i].inputs = G[i]
  <2>1. Len(G) = N
    <3> HIDE DEF G, N
    <3> QED
      BY <1>2, LengthOf
  <2> HIDE DEF G, N
  <2>2. FlatCrossproduct(lens) =
            [jobs |-> [i \in DOMAIN G |-> [index |-> <<i - 1>>, inputs |-> G[i]]], dims |-> <<Len(G)>>]
    BY DEF FlatCrossproduct, Job, G
  <2> QED
    BY <2>1, <2>2
<1> HIDE DEF jobs, dims
<1>7. RunsAll(lens, Flat, jobs)
  BY <1>1, <1>6, GridWorks
<1> HIDE DEF G, N
<1>8. dims # <<>> /\ ValidShape(dims) /\ ValidCoordinates(jobs, dims)
  <2>1. dims # <<>> /\ ValidShape(dims)
    BY <1>6 DEF ValidShape
  <2>2. ASSUME NEW i \in 1..N
        PROVE  /\ Len(jobs[i].index) = Len(dims)
               /\ \A d \in DOMAIN dims : jobs[i].index[d] \in 0..dims[d] - 1
    <3>1. i - 1 \in 0..N - 1
      BY <1>2
    <3>2. jobs[i].index = <<i - 1>> /\ dims = <<N>>
      BY <1>2, <1>6
    <3> QED
      BY <3>1, <3>2
  <2> QED
    BY <1>2, <1>6, <2>1, <2>2 DEF ValidCoordinates
<1> DEFINE array == [i \in 1..N |-> <<s, jobs[i].inputs>>]
<1>9. GatherPort(s, jobs, dims) = array
  <2>1. \A i \in 1..N : LinearOffset(jobs[i].index, dims) + 1 = i
    <3> TAKE i \in 1..N
    <3>1. i - 1 \in Nat
      BY <1>2
    <3>2. LinearOffset(<<i - 1>>, <<N>>) = i - 1
      BY <1>2, <3>1, OneDimension
    <3>3. jobs[i].index = <<i - 1>> /\ dims = <<N>>
      BY <1>2, <1>6
    <3>4. LinearOffset(jobs[i].index, dims) = i - 1
      BY <3>2, <3>3, Zenon
    <3> QED
      BY <1>2, <3>4
  <2>2. ShapeSize(dims) = N /\ DOMAIN jobs = 1..N
    BY <1>2, <1>6, OneDimension
  <2>3. GatherPort(s, jobs, dims) = Nest(array, dims)
    BY <1>2, <2>1, <2>2, GatherInOrder DEF InOrder
  <2> HIDE DEF array
  <2> QED
    BY <1>2, <1>6, <2>3, OneDimension
<1>10. Combinations(lens, Flat) = Coordinates(lens)
  BY <1>1, CombinationsAre
<1>11. ASSUME NEW c \in Coordinates(lens)
       PROVE  At(array, Place(c, lens, Flat)) = <<s, c>>
  <2> DEFINE o == LinearOffset(c, lens)
  <2>1. Place(c, lens, Flat) = <<o>>
    <3>1. Place(c, lens, Flat) = <<Cardinality({e \in Combinations(lens, Flat) : Before(e, c)})>>
      BY DEF Place, Dot, Nested, Flat
    <3> QED
      BY <1>4, <1>10, <3>1
  <2>2. o \in Nat /\ o + 1 \in 1..N /\ jobs[o + 1].inputs = c
    BY <1>2, <1>3, <1>5, <1>6
  <2> HIDE DEF o
  <2>3. At(array, <<o>>) = array[o + 1]
    BY <1>2, <2>2, OneDimension
  <2> QED
    BY <2>1, <2>2, <2>3
<1>12. Len(array) = N
  BY <1>2, LengthOf
<1> HIDE DEF array
<1>13. InPlace(s, lens, Flat, array)
  BY <1>1, <1>4, <1>10, <1>11, <1>12 DEF InPlace
<1>14. Indexed(jobs, dims)
  <2>1. ASSUME NEW i \in 1..N
        PROVE  jobs[i].index \in Seq(Nat) /\ LinearOffset(jobs[i].index, dims) + 1 = i
    <3>1. i - 1 \in Nat
      BY <1>2
    <3>2. LinearOffset(<<i - 1>>, <<N>>) = i - 1
      BY <1>2, <3>1, OneDimension
    <3>3. jobs[i].index = <<i - 1>> /\ dims = <<N>>
      BY <1>2, <1>6
    <3>4. LinearOffset(jobs[i].index, dims) = i - 1
      BY <3>2, <3>3, Zenon
    <3>5. jobs[i].index \in Seq(Nat)
      BY <3>1, <3>3
    <3> QED
      BY <1>2, <3>4, <3>5
  <2> QED
    BY <1>2, <1>6, <2>1 DEF Indexed
<1> QED
  BY <1>7, <1>8, <1>9, <1>13, <1>14 DEF Works, jobs, dims

\* The first empty array is where the shape of an empty nested crossproduct ends.
LEMMA FirstEmpty ==
    ASSUME NEW n \in Nat, NEW lens \in [1..n -> Nat], \E k \in 1..n : lens[k] = 0
    PROVE  \E z \in 1..n : /\ SelectInSeq(lens, LAMBDA m : m = 0) = z
                           /\ lens[z] = 0
                           /\ \A k \in 1..z - 1 : lens[k] > 0
<1> DEFINE I == {i \in 1..n : lens[i] = 0}
<1>1. I # {} /\ I \in SUBSET Nat
  OBVIOUS
<1>2. PICK z \in I : \A i \in I : z <= i
  <2> HIDE DEF I
  <2> QED
    BY <1>1, LeastMember
<1>3. Min(I) = z
  <2>1. \A x \in I : (\A i \in I : x <= i) => x = z
    BY <1>2
  <2> HIDE DEF I
  <2> QED
    BY <1>2, <2>1 DEF Min
<1>4. SelectInSeq(lens, LAMBDA m : m = 0) = Min(I)
  <2>1. Len(lens) = n
    BY LengthOf
  <2> QED
    BY <1>1, <2>1 DEF SelectInSeq
<1>5. ASSUME NEW k \in 1..z - 1
      PROVE  lens[k] > 0
  <2>1. k \in 1..n /\ k < z
    BY <1>2
  <2>2. k \notin I
    BY <1>2, <2>1
  <2>3. lens[k] # 0 /\ lens[k] \in Nat
    BY <2>1, <2>2
  <2> QED
    BY <2>3
<1> QED
  BY <1>2, <1>3, <1>4, <1>5

\* A shape that ends in an empty level has no slots.
LEMMA EmptyShapeIs ==
    ASSUME NEW n \in Nat, NEW lens \in [1..n -> Nat], NEW z \in 1..n, lens[z] = 0
    PROVE  /\ SubSeq(lens, 1, z) \in [1..z -> Nat]
           /\ \A k \in 1..z : SubSeq(lens, 1, z)[k] = lens[k]
           /\ Len(SubSeq(lens, 1, z)) = z
           /\ ShapeSize(SubSeq(lens, 1, z)) = 0
<1>1. SubSeq(lens, 1, z) = [k \in 1..z |-> lens[k]]
  BY DEF SubSeq
<1>2. ShapeSize(SubSeq(lens, 1, z)) = Sizes(lens)[z]
  BY OuterSizes
<1>3. Sizes(lens)[z] = Sizes(lens)[z - 1] * 0
  BY SizesAre
<1>4. Sizes(lens)[z - 1] \in Nat
  <2>1. z - 1 \in 0..n
    OBVIOUS
  <2> QED
    BY <2>1, SizesTyped
<1>5. Sizes(lens)[z] = 0
  BY <1>3, <1>4
<1>6. Len(SubSeq(lens, 1, z)) = z
  <2>1. z \in Nat /\ DOMAIN SubSeq(lens, 1, z) = 1..z
    BY <1>1
  <2> QED
    BY <2>1, LengthOf
<1>7. /\ SubSeq(lens, 1, z) \in [1..z -> Nat]
      /\ \A k \in 1..z : SubSeq(lens, 1, z)[k] = lens[k]
  <2>1. \A k \in 1..z : lens[k] \in Nat
    OBVIOUS
  <2> DEFINE outer == SubSeq(lens, 1, z)
  <2>2. outer = [k \in 1..z |-> lens[k]]
    BY <1>1
  <2> HIDE DEF outer
  <2>3. outer \in [1..z -> Nat] /\ \A k \in 1..z : outer[k] = lens[k]
    BY <2>1, <2>2
  <2> QED
    BY <2>3 DEF outer
<1>8. ShapeSize(SubSeq(lens, 1, z)) = 0
  BY <1>2, <1>5
<1> QED
  BY <1>6, <1>7, <1>8

LEMMA EmptyWorks ==
    ASSUME NEW s, NEW n \in Nat, n > 0, NEW lens \in [1..n -> 0..MaxLen],
           \E k \in 1..n : lens[k] = 0,
           NEW method \in {Dot, Nested, Flat}
    PROVE  Works(s, lens, method, <<>>, EmptyShape(lens, method))
<1> DEFINE dims == EmptyShape(lens, method)
           jobs == <<>>
<1>1. lens \in [1..n -> Nat]
  BY ScatterAssumption
<1>2. Combinations(lens, method) = {}
  <2>1. Coordinates(lens) = {}
    BY <1>1 DEF Coordinates
  <2> QED
    BY <2>1, CombinationsAre
<1>3. DOMAIN jobs = {} /\ DOMAIN jobs = 1..0
  OBVIOUS
<1>4. RunsAll(lens, method, jobs)
  <2>1. {jobs[i].inputs : i \in DOMAIN jobs} = {}
    BY <1>3
  <2> QED
    BY <1>2, <1>3, <2>1 DEF RunsAll
<1>5. ValidCoordinates(jobs, dims) /\ Indexed(jobs, dims)
  BY <1>3 DEF ValidCoordinates, Indexed
<1>6. CASE method # Nested
  <2>1. dims = <<0>>
    BY <1>6 DEF EmptyShape
  <2>2. dims # <<>> /\ ValidShape(dims)
    BY <2>1 DEF ValidShape
  <2> DEFINE array == [i \in 1..0 |-> <<s, jobs[i].inputs>>]
  <2>3. GatherPort(s, jobs, dims) = array
    <3>1. ShapeSize(<<0>>) = 0 /\ \A flat : Nest(flat, <<0>>) = flat
      BY OneDimension
    <3> HIDE DEF jobs
    <3>2. InOrder(jobs, dims, 0)
      BY <1>3, <2>1, <3>1 DEF InOrder
    <3>3. GatherPort(s, jobs, dims) = Nest(array, dims)
      BY <3>2, GatherInOrder
    <3> HIDE DEF array
    <3> QED
      BY <2>1, <3>1, <3>3
  <2>4. Len(array) = 0
    BY LengthOf
  <2>5. Cardinality({}) = 0
    BY FS_EmptySet
  <2> HIDE DEF array
  <2>6. InPlace(s, lens, method, array)
    BY <1>2, <1>6, <2>4, <2>5 DEF InPlace
  <2> QED
    BY <1>4, <1>5, <2>2, <2>3, <2>6 DEF Works
<1>7. CASE method = Nested
  <2>1. PICK z \in 1..n : /\ SelectInSeq(lens, LAMBDA m : m = 0) = z
                          /\ lens[z] = 0
                          /\ \A k \in 1..z - 1 : lens[k] > 0
    BY <1>1, FirstEmpty
  <2>2. dims = SubSeq(lens, 1, z)
    BY <1>7, <2>1 DEF EmptyShape
  <2>3. /\ dims \in [1..z -> Nat] /\ \A k \in 1..z : dims[k] = lens[k]
        /\ Len(dims) = z /\ ShapeSize(dims) = 0
    BY <1>1, <2>1, <2>2, EmptyShapeIs
  <2> HIDE DEF dims
  <2>4. dims # <<>> /\ ValidShape(dims)
    <3>1. dims # <<>>
      BY <2>3
    <3>2. ASSUME NEW d \in DOMAIN dims
          PROVE  dims[d] > 0 \/ d = Len(dims)
      BY <2>1, <2>3
    <3> QED
      BY <3>1, <3>2 DEF ValidShape
  <2> DEFINE flat == [i \in 1..0 |-> <<s, jobs[i].inputs>>]
             array == Nest(flat, dims)
  <2>5. GatherPort(s, jobs, dims) = array
    <3> HIDE DEF jobs
    <3>1. InOrder(jobs, dims, 0)
      BY <1>3, <2>3 DEF InOrder
    <3> QED
      BY <3>1, GatherInOrder
  <2>6. ASSUME NEW k \in 0..n - 1, NEW c \in Combinations(SubSeq(lens, 1, k), Nested)
        PROVE  Len(At(array, c)) = lens[k + 1]
    <3>1. c \in [1..k -> Nat] /\ \A j \in 1..k : c[j] < lens[j]
      BY OuterCombinations
    <3>2. k \in 0..z - 1
      <4>1. ASSUME k >= z
            PROVE  FALSE
        <5>1. z \in 1..k
          BY <4>1
        <5>2. c[z] \in Nat /\ c[z] < 0
          BY <2>1, <3>1, <5>1
        <5> QED
          BY <5>2
      <4> QED
        BY <4>1
    <3>3. DOMAIN flat = 1..ShapeSize(dims)
      BY <2>3
    <3> HIDE DEF flat
    <3>4. \A j \in 1..k : c[j] < dims[j]
      BY <2>3, <3>1, <3>2
    <3>5. z \in Nat /\ z > 0 /\ dims \in [1..z -> Nat]
      BY <2>3
    <3>6. LevelLength(array, dims, k)
      BY <3>2, <3>3, <3>5, NestLengths
    <3>7. Len(At(array, c)) = dims[k + 1]
      BY <3>1, <3>4, <3>6 DEF LevelLength
    <3>8. dims[k + 1] = lens[k + 1]
      BY <2>3, <3>2
    <3> QED
      BY <3>7, <3>8
  <2> HIDE DEF array
  <2>7. InPlace(s, lens, method, array)
    <3>1. Len(lens) = n
      BY LengthOf
    <3> QED
      BY <1>2, <1>7, <2>6, <3>1 DEF InPlace
  <2> QED
    BY <1>4, <1>5, <2>4, <2>5, <2>7 DEF Works, dims
<1> QED
  BY <1>6, <1>7

LEMMA KeysOfArrays ==
    ASSUME NEW s \in StepNames, NEW lens \in Lengths(s), lens # <<>>
    PROVE  \E n \in Nat : n > 0 /\ lens \in [1..n -> {NoArray} \union 0..MaxLen]
<1>1. PICK n \in 0..MaxKeys[s] : lens \in [1..n -> {NoArray} \union 0..MaxLen]
  BY DEF Lengths
<1>2. MaxKeys[s] \in Nat
  BY ScatterAssumption
<1>3. CASE n = 0
  <2>1. DOMAIN lens = 1..0 /\ DOMAIN lens = {}
    BY <1>1, <1>3
  <2>2. Len(lens) = 0 /\ lens = [i \in 1..0 |-> lens[i]]
    BY <1>1, <1>3, <2>1, LengthOf
  <2>3. lens = <<>>
    BY <2>1, <2>2
  <2> QED
    BY <2>3
<1>4. CASE n # 0
  BY <1>1, <1>2, <1>4
<1> QED
  BY <1>3, <1>4

\* ExpandScatter's plan, whatever arrays it accepts.
LEMMA ExpandWorks ==
    ASSUME NEW s \in StepNames, NEW lens \in Lengths(s), lens # <<>>,
           NEW method \in Methods, Accepted(lens, method)
    PROVE  Works(s, lens, method, ExpandJobs(lens, method).jobs, ExpandJobs(lens, method).dims)
<1> DEFINE expanded == ExpandScatter(lens, method)
<1>1. PICK n \in Nat : n > 0 /\ lens \in [1..n -> {NoArray} \union 0..MaxLen]
  BY KeysOfArrays
<1>2. lens \in [1..n -> 0..MaxLen] /\ method \in {Dot, Nested, Flat}
  <2>1. \A k \in 1..n : lens[k] \in 0..MaxLen
    BY <1>1 DEF Accepted
  <2> QED
    BY <1>1, <2>1, ScatterAssumption
<1>3. ExpandJobs(lens, method) = expanded
  BY DEF ExpandJobs
<1>4. CASE \E k \in 1..n : lens[k] = 0
  <2>1. expanded = [jobs |-> <<>>, dims |-> EmptyShape(lens, method)]
    BY <1>1, <1>4 DEF ExpandScatter
  <2>2. Works(s, lens, method, <<>>, EmptyShape(lens, method))
    BY <1>1, <1>2, <1>4, EmptyWorks
  <2> QED
    BY <1>3, <2>1, <2>2
<1>5. CASE \A k \in 1..n : lens[k] # 0
  <2>1. \A k \in 1..n : lens[k] > 0
    BY <1>2, <1>5, ScatterAssumption
  <2>2. expanded = CASE method = Dot    -> Dotproduct(lens)
                     [] method = Flat   -> FlatCrossproduct(lens)
                     [] method = Nested -> NestedCrossproduct(lens)
    BY <1>1, <1>5 DEF ExpandScatter
  <2>3. Dot # Flat /\ Dot # Nested /\ Flat # Nested
    BY DEF Dot, Flat, Nested
  <2>4. CASE method = Dot
    <3>1. expanded = Dotproduct(lens)
      BY <2>2, <2>3, <2>4
    <3>2. \A k \in 1..n : lens[k] = lens[1]
      BY <1>1, <1>5, <2>4 DEF Accepted
    <3>3. Works(s, lens, Dot, Dotproduct(lens).jobs, Dotproduct(lens).dims)
      BY <1>1, <1>2, <2>1, <3>2, DotWorks
    <3> QED
      BY <1>3, <2>4, <3>1, <3>3
  <2>5. CASE method = Flat
    <3>1. expanded = FlatCrossproduct(lens)
      BY <2>2, <2>3, <2>5
    <3>2. Works(s, lens, Flat, FlatCrossproduct(lens).jobs, FlatCrossproduct(lens).dims)
      BY <1>1, <1>2, <2>1, FlatWorks
    <3> QED
      BY <1>3, <2>5, <3>1, <3>2
  <2>6. CASE method = Nested
    <3>1. expanded = NestedCrossproduct(lens)
      BY <2>2, <2>3, <2>6
    <3>2. Works(s, lens, Nested, NestedCrossproduct(lens).jobs, NestedCrossproduct(lens).dims)
      BY <1>1, <1>2, <2>1, NestedWorks
    <3> QED
      BY <1>3, <2>6, <3>1, <3>2
  <2> QED
    BY <1>2, <2>4, <2>5, <2>6
<1> QED
  BY <1>4, <1>5

-----------------------------------------------------------------------------
(* The steps' lives.                                                       *)

IsPlan(p) ==
    p = [phase |-> p.phase, lens |-> p.lens, method |-> p.method, dims |-> p.dims, jobs |-> p.jobs]

PlanInv(s) ==
    /\ IsPlan(plan[s])
    /\ plan[s].phase \in {"waiting", "refused", "expanded", "gathered"}
    /\ ~ Planned(s) => plan[s].jobs = <<>>
    /\ Planned(s) =>
         /\ plan[s].lens \in Lengths(s) /\ plan[s].method \in Methods
         /\ Accepted(plan[s].lens, plan[s].method)
         /\ plan[s].jobs = ExpandJobs(plan[s].lens, plan[s].method).jobs
         /\ plan[s].dims = ExpandJobs(plan[s].lens, plan[s].method).dims
    /\ plan[s].phase = "gathered" /\ plan[s].lens # <<>> =>
         gathered[s] = GatherPort(s, plan[s].jobs, plan[s].dims)

\* A step's plan is ExpandJobs' plan from its expansion on, its invocations
\* are those of the plan, and its output is gathered from it.
ScatterInv ==
    /\ DOMAIN plan = StepNames /\ DOMAIN progress = StepNames /\ DOMAIN gathered = StepNames
    /\ \A s \in StepNames : PlanInv(s) /\ DOMAIN progress[s] = DOMAIN plan[s].jobs

LEMMA ScatterInvInit == Init => ScatterInv
BY DEF Init, ScatterInv, PlanInv, IsPlan, Unplanned, Planned

\* A step's invariant reads its own plan and output only.
LEMMA PlanInvFrame ==
    ASSUME NEW s, PlanInv(s), plan'[s] = plan[s], gathered'[s] = gathered[s]
    PROVE  PlanInv(s)'
BY DEF PlanInv, Planned

LEMMA ExpandKeeps ==
    ASSUME ScatterInv, NEW s \in StepNames, Expand(s)
    PROVE  ScatterInv'
<1>1. PICK lens \in Lengths(s), method \in Methods :
         IF Accepted(lens, method)
         THEN LET expanded == ExpandJobs(lens, method) IN
              /\ plan' = [plan EXCEPT ![s] =
                    [phase |-> "expanded", lens |-> lens, method |-> method,
                     dims |-> expanded.dims, jobs |-> expanded.jobs]]
              /\ progress' = [progress EXCEPT ![s] =
                    [i \in DOMAIN expanded.jobs |-> "ready"]]
         ELSE /\ plan' = [plan EXCEPT ![s].phase = "refused"]
              /\ UNCHANGED progress
  BY DEF Expand
<1>2. gathered' = gathered /\ plan[s].phase = "waiting"
  BY DEF Expand
<1>3. CASE Accepted(lens, method)
  <2> DEFINE expanded == ExpandJobs(lens, method)
             p == [phase |-> "expanded", lens |-> lens, method |-> method,
                   dims |-> expanded.dims, jobs |-> expanded.jobs]
  <2>1. /\ plan' = [plan EXCEPT ![s] = p]
        /\ progress' = [progress EXCEPT ![s] = [i \in DOMAIN expanded.jobs |-> "ready"]]
    BY <1>1, <1>3
  <2> HIDE DEF expanded
  <2>2. plan'[s] = p /\ DOMAIN progress'[s] = DOMAIN plan'[s].jobs
    BY <2>1 DEF ScatterInv
  <2>3. PlanInv(s)'
    BY <1>3, <2>2 DEF PlanInv, Planned, IsPlan, expanded
  <2>4. ASSUME NEW t \in StepNames, t # s
        PROVE  PlanInv(t)' /\ DOMAIN progress'[t] = DOMAIN plan'[t].jobs
    <3>1. plan'[t] = plan[t] /\ progress'[t] = progress[t]
      BY <2>1, <2>4 DEF ScatterInv
    <3> QED
      BY <1>2, <3>1, PlanInvFrame DEF ScatterInv
  <2>5. DOMAIN plan' = StepNames /\ DOMAIN progress' = StepNames /\ DOMAIN gathered' = StepNames
    BY <1>2, <2>1 DEF ScatterInv
  <2> QED
    BY <2>2, <2>3, <2>4, <2>5 DEF ScatterInv
<1>4. CASE ~ Accepted(lens, method)
  <2>1. plan' = [plan EXCEPT ![s].phase = "refused"] /\ progress' = progress
    BY <1>1, <1>4
  <2>2. plan'[s] = [plan[s] EXCEPT !.phase = "refused"] /\ PlanInv(s)
    BY <2>1 DEF ScatterInv
  <2>3. plan'[s] = [phase |-> "refused", lens |-> plan[s].lens, method |-> plan[s].method,
                    dims |-> plan[s].dims, jobs |-> plan[s].jobs]
    BY <2>2 DEF PlanInv, IsPlan
  <2>4. PlanInv(s)' /\ plan'[s].jobs = plan[s].jobs
    BY <1>2, <2>2, <2>3 DEF PlanInv, Planned, IsPlan
  <2>5. ASSUME NEW t \in StepNames, t # s
        PROVE  PlanInv(t)' /\ DOMAIN progress'[t] = DOMAIN plan'[t].jobs
    <3>1. plan'[t] = plan[t] /\ progress'[t] = progress[t]
      BY <2>1, <2>5 DEF ScatterInv
    <3> QED
      BY <1>2, <3>1, PlanInvFrame DEF ScatterInv
  <2>6. DOMAIN plan' = StepNames /\ DOMAIN progress' = StepNames /\ DOMAIN gathered' = StepNames
    BY <1>2, <2>1 DEF ScatterInv
  <2>7. DOMAIN progress'[s] = DOMAIN plan'[s].jobs
    BY <2>1, <2>4 DEF ScatterInv
  <2> QED
    BY <2>4, <2>5, <2>6, <2>7 DEF ScatterInv
<1> QED
  BY <1>3, <1>4

LEMMA ProgressKeeps ==
    ASSUME ScatterInv, NEW s \in StepNames, NEW i \in DOMAIN progress[s],
           Launch(s, i) \/ Record(s, i)
    PROVE  ScatterInv'
<1>1. plan' = plan /\ gathered' = gathered
  BY DEF Launch, Record
<1>2. \E v : progress' = [progress EXCEPT ![s][i] = v]
  BY DEF Launch, Record
<1>3. /\ DOMAIN progress' = StepNames
      /\ \A t \in StepNames : DOMAIN progress'[t] = DOMAIN progress[t]
  BY <1>2 DEF ScatterInv
<1>4. \A t \in StepNames : PlanInv(t)'
  BY <1>1, PlanInvFrame DEF ScatterInv
<1> QED
  BY <1>1, <1>3, <1>4 DEF ScatterInv

LEMMA GatherKeeps ==
    ASSUME ScatterInv, NEW s \in StepNames, GatherStep(s)
    PROVE  ScatterInv'
<1> DEFINE p == plan[s]
<1>1. p.phase = "expanded" /\ progress' = progress /\ PlanInv(s)
  BY DEF GatherStep, ScatterInv
<1>2. /\ p.lens \in Lengths(s) /\ p.method \in Methods /\ Accepted(p.lens, p.method)
      /\ p.jobs = ExpandJobs(p.lens, p.method).jobs
      /\ p.dims = ExpandJobs(p.lens, p.method).dims
  BY <1>1 DEF PlanInv, Planned
<1>3. p.lens # <<>> => p.dims # <<>> /\ ValidShape(p.dims) /\ ValidCoordinates(p.jobs, p.dims)
  <2> SUFFICES ASSUME p.lens # <<>>
               PROVE  p.dims # <<>> /\ ValidShape(p.dims) /\ ValidCoordinates(p.jobs, p.dims)
    OBVIOUS
  <2>1. Works(s, p.lens, p.method, p.jobs, p.dims)
    BY <1>2, ExpandWorks
  <2> QED
    BY <2>1 DEF Works
<1>4. p.lens = <<>> => p.dims = <<>>
  BY <1>2 DEF ExpandJobs
<1>5. /\ plan' = [plan EXCEPT ![s].phase = "gathered"]
      /\ \E v : gathered' = [gathered EXCEPT ![s] = v]
      /\ p.lens # <<>> => gathered' = [gathered EXCEPT ![s] = GatherPort(s, p.jobs, p.dims)]
  BY <1>3, <1>4 DEF GatherStep
<1>6. plan'[s] = [plan[s] EXCEPT !.phase = "gathered"]
  BY <1>5 DEF ScatterInv
<1>7. plan'[s] = [phase |-> "gathered", lens |-> p.lens, method |-> p.method,
                  dims |-> p.dims, jobs |-> p.jobs]
  BY <1>1, <1>6 DEF PlanInv, IsPlan
<1>8. p.lens # <<>> => gathered'[s] = GatherPort(s, p.jobs, p.dims)
  BY <1>5 DEF ScatterInv
<1>9. PlanInv(s)'
  BY <1>2, <1>7, <1>8 DEF PlanInv, Planned, IsPlan
<1>10. ASSUME NEW t \in StepNames, t # s
       PROVE  PlanInv(t)' /\ DOMAIN progress'[t] = DOMAIN plan'[t].jobs
  <2>1. plan'[t] = plan[t] /\ gathered'[t] = gathered[t]
    BY <1>5, <1>10 DEF ScatterInv
  <2> QED
    BY <1>1, <2>1, PlanInvFrame DEF ScatterInv
<1>11. DOMAIN plan' = StepNames /\ DOMAIN progress' = StepNames /\ DOMAIN gathered' = StepNames
  BY <1>1, <1>5 DEF ScatterInv
<1>12. DOMAIN progress'[s] = DOMAIN plan'[s].jobs
  BY <1>1, <1>7 DEF ScatterInv
<1> QED
  BY <1>9, <1>10, <1>11, <1>12 DEF ScatterInv

\* The plans, the invocations and the outputs agree in every reachable state.
THEOREM ScatterInvariant == Spec => []ScatterInv
<1>1. ScatterInv /\ [Next]_vars => ScatterInv'
  <2> SUFFICES ASSUME ScatterInv, [Next]_vars PROVE ScatterInv'
    OBVIOUS
  <2>1. CASE UNCHANGED vars
    BY <2>1, PlanInvFrame DEF vars, ScatterInv
  <2>2. ASSUME NEW s \in StepNames, Expand(s)
        PROVE  ScatterInv'
    BY <2>2, ExpandKeeps
  <2>3. ASSUME NEW s \in StepNames, NEW i \in DOMAIN progress[s], Launch(s, i) \/ Record(s, i)
        PROVE  ScatterInv'
    BY <2>3, ProgressKeeps
  <2>4. ASSUME NEW s \in StepNames, GatherStep(s)
        PROVE  ScatterInv'
    BY <2>4, GatherKeeps
  <2> QED
    BY <2>1, <2>2, <2>3, <2>4 DEF Next
<1> QED
  BY <1>1, ScatterInvInit, PTL DEF Spec

\* Nothing is lost between ExpandScatter and Gather, for arrays of any length
\* under any number of keys: every combination of elements runs once, what it
\* produced is accepted back, and stands in its place.
THEOREM NothingLost == Spec => []ScatterGathersAll
<1>1. ScatterInv => ScatterGathersAll
  <2> SUFFICES ASSUME ScatterInv PROVE ScatterGathersAll
    OBVIOUS
  <2>1. ASSUME NEW s \in StepNames, Planned(s), plan[s].lens # <<>>
        PROVE  Works(s, plan[s].lens, plan[s].method, plan[s].jobs, plan[s].dims)
    BY <2>1, ExpandWorks DEF ScatterInv, PlanInv
  <2>2. OneJobPerCombination
    BY <2>1 DEF OneJobPerCombination, Works, RunsAll
  <2>3. GatherAcceptsItsPlan
    BY DEF GatherAcceptsItsPlan, ScatterInv, PlanInv
  <2>4. GatheredInPlace
    <3>1. ASSUME NEW s \in StepNames, plan[s].phase = "gathered", plan[s].lens # <<>>
          PROVE  InPlace(s, plan[s].lens, plan[s].method, gathered[s])
      <4>1. Planned(s) /\ gathered[s] = GatherPort(s, plan[s].jobs, plan[s].dims)
        BY <3>1 DEF Planned, ScatterInv, PlanInv
      <4> QED
        BY <2>1, <3>1, <4>1 DEF Works
    <3> QED
      BY <3>1 DEF GatheredInPlace, InPlace
  <2> QED
    BY <2>2, <2>3, <2>4 DEF ScatterGathersAll
<1> QED
  BY <1>1, ScatterInvariant, PTL

-----------------------------------------------------------------------------
(* The invocations' directories.                                           *)

\* A coordinate is written in decimal: different numbers are written differently.
DecimalsDiffer == \A p, q \in Nat : ToString(p) = ToString(q) => p = q

\* No step's name goes on where another's ends, as align_1 does after align.
NoneExtends == \A s, t \in StepNames : s # t => ~ IsPrefix(s, t)

LEMMA InvocationNameIs ==
    ASSUME NEW s \in StepNames, NEW index \in Seq(Nat)
    PROVE  LET name == InvocationName(s, index) IN
           /\ Len(name) = Len(s) + Len(index)
           /\ \A k \in 1..Len(s) : name[k] = s[k]
           /\ \A k \in 1..Len(index) : name[Len(s) + k] = ToString(index[k])
<1> DEFINE segments == [d \in DOMAIN index |-> ToString(index[d])]
           S == STRING \union {ToString(p) : p \in Nat}
           name == s \o segments
<1>1. s \in Seq(STRING) /\ Len(s) \in Nat
  BY ScatterAssumption
<1>2. s \in Seq(S)
  <2>1. \A i \in 1..Len(s) : s[i] \in S
    BY <1>1
  <2> HIDE DEF S
  <2>2. s \in [1..Len(s) -> S]
    <3>1. s = [i \in 1..Len(s) |-> s[i]]
      BY <1>1
    <3> QED
      BY <2>1, <3>1
  <2> QED
    BY <1>1, <2>2
<1>3. index \in [1..Len(index) -> Nat] /\ Len(index) \in Nat
  OBVIOUS
<1>4. DOMAIN segments = 1..Len(index) /\ \A d \in 1..Len(index) : segments[d] = ToString(index[d])
  BY <1>3
<1>5. \A d \in 1..Len(index) : segments[d] \in S
  BY <1>3, <1>4
<1>6. segments = [d \in 1..Len(index) |-> segments[d]]
  BY <1>3
<1> HIDE DEF segments, S
<1>7. segments \in Seq(S) /\ Len(segments) = Len(index)
  <2>1. segments \in [1..Len(index) -> S]
    BY <1>5, <1>6
  <2>2. Len(segments) = Len(index)
    BY <1>3, <1>4, LengthOf
  <2> QED
    BY <1>3, <2>1, <2>2
<1>8. /\ Len(name) = Len(s) + Len(segments)
      /\ \A i \in 1..Len(s) + Len(segments) :
            name[i] = IF i <= Len(s) THEN s[i] ELSE segments[i - Len(s)]
  BY <1>2, <1>7, ConcatProperties
<1> HIDE DEF name
<1>9. \A k \in 1..Len(s) : name[k] = s[k]
  BY <1>1, <1>3, <1>7, <1>8
<1>10. ASSUME NEW k \in 1..Len(index)
       PROVE  name[Len(s) + k] = ToString(index[k])
  <2>1. /\ Len(s) + k \in 1..Len(s) + Len(segments)
        /\ ~(Len(s) + k <= Len(s)) /\ (Len(s) + k) - Len(s) = k
    BY <1>1, <1>3, <1>7
  <2>2. name[Len(s) + k] = segments[k]
    BY <1>8, <2>1
  <2> QED
    BY <1>4, <2>2
<1>11. InvocationName(s, index) = name
  BY DEF InvocationName, name, segments
<1> QED
  BY <1>7, <1>8, <1>9, <1>10, <1>11

\* One step's directories differ as its coordinates do.
LEMMA SameStepName ==
    ASSUME DecimalsDiffer, NEW s \in StepNames, NEW x \in Seq(Nat), NEW y \in Seq(Nat),
           InvocationName(s, x) = InvocationName(s, y)
    PROVE  x = y
<1> DEFINE name == InvocationName(s, x)
<1>1. Len(s) \in Nat /\ Len(x) \in Nat /\ Len(y) \in Nat
  BY ScatterAssumption
<1>2. /\ Len(name) = Len(s) + Len(x)
      /\ \A k \in 1..Len(x) : name[Len(s) + k] = ToString(x[k])
  BY InvocationNameIs
<1>3. /\ Len(name) = Len(s) + Len(y)
      /\ \A k \in 1..Len(y) : name[Len(s) + k] = ToString(y[k])
  BY InvocationNameIs
<1> HIDE DEF name
<1>4. Len(x) = Len(y)
  BY <1>1, <1>2, <1>3
<1>5. \A k \in 1..Len(x) : x[k] = y[k]
  <2> TAKE k \in 1..Len(x)
  <2>1. ToString(x[k]) = ToString(y[k])
    BY <1>2, <1>3, <1>4
  <2>2. x[k] \in Nat /\ y[k] \in Nat
    BY <1>4
  <2> QED
    BY <2>1, <2>2 DEF DecimalsDiffer
<1> QED
  BY <1>4, <1>5

\* Steps none of whose names extends another's have no directory in common.
LEMMA OtherStepName ==
    ASSUME NoneExtends, NEW s \in StepNames, NEW t \in StepNames,
           NEW x \in Seq(Nat), NEW y \in Seq(Nat),
           InvocationName(s, x) = InvocationName(t, y)
    PROVE  s = t
<1> DEFINE name == InvocationName(s, x)
<1>1. s \in Seq(STRING) /\ t \in Seq(STRING) /\ Len(s) \in Nat /\ Len(t) \in Nat
  BY ScatterAssumption
<1>2. \A k \in 1..Len(s) : name[k] = s[k]
  BY InvocationNameIs
<1>3. \A k \in 1..Len(t) : name[k] = t[k]
  BY InvocationNameIs
<1> HIDE DEF name
<1>4. ASSUME NEW u \in Seq(STRING), NEW v \in Seq(STRING), Len(u) <= Len(v),
             \A k \in 1..Len(u) : name[k] = u[k], \A k \in 1..Len(v) : name[k] = v[k]
      PROVE  IsPrefix(u, v)
  <2>1. \A k \in 1..Len(u) : u[k] = v[k]
    BY <1>4
  <2>2. SubSeq(u, 1, Len(u)) = [k \in 1..Len(u) |-> u[k]]
    BY DEF SubSeq
  <2>3. SubSeq(v, 1, Len(u)) = [k \in 1..Len(u) |-> v[k]]
    BY DEF SubSeq
  <2> QED
    BY <1>4, <2>1, <2>2, <2>3 DEF IsPrefix
<1>5. CASE Len(s) <= Len(t)
  BY <1>1, <1>2, <1>3, <1>4, <1>5 DEF NoneExtends
<1>6. CASE Len(t) <= Len(s)
  BY <1>1, <1>2, <1>3, <1>4, <1>6 DEF NoneExtends
<1> QED
  BY <1>1, <1>5, <1>6

\* Invocations in flight never share an output or scratch directory, whatever
\* is scattered, if no step's name is another's with more segments.
THEOREM DirectoriesDiffer ==
    ASSUME DecimalsDiffer, NoneExtends
    PROVE  Spec => []OwnDirectory
<1>1. ScatterInv => OwnDirectory
  <2> SUFFICES ASSUME ScatterInv,
                      NEW s \in StepNames, NEW t \in StepNames,
                      NEW i \in DOMAIN progress[s], NEW j \in DOMAIN progress[t],
                      InvocationName(s, plan[s].jobs[i].index)
                        = InvocationName(t, plan[t].jobs[j].index)
               PROVE  s = t /\ i = j
    BY DEF OwnDirectory
  <2>1. ASSUME NEW u \in StepNames, NEW k \in DOMAIN progress[u]
        PROVE  /\ plan[u].jobs[k].index \in Seq(Nat)
               /\ \A l \in DOMAIN progress[u] :
                    plan[u].jobs[l].index = plan[u].jobs[k].index => l = k
    <3>1. PlanInv(u) /\ DOMAIN progress[u] = DOMAIN plan[u].jobs
      BY DEF ScatterInv
    <3>2. Planned(u)
      <4>1. DOMAIN <<>> = {}
        OBVIOUS
      <4> QED
        BY <2>1, <3>1, <4>1 DEF PlanInv
    <3>3. /\ plan[u].lens \in Lengths(u) /\ plan[u].method \in Methods
          /\ Accepted(plan[u].lens, plan[u].method)
          /\ plan[u].jobs = ExpandJobs(plan[u].lens, plan[u].method).jobs
          /\ plan[u].dims = ExpandJobs(plan[u].lens, plan[u].method).dims
      BY <3>1, <3>2 DEF PlanInv
    <3>4. CASE plan[u].lens = <<>>
      <4>1. plan[u].jobs = <<Job(<<>>, <<>>)>>
        BY <3>3, <3>4 DEF ExpandJobs
      <4>2. DOMAIN plan[u].jobs = {1} /\ plan[u].jobs[1].index = <<>>
        BY <4>1 DEF Job
      <4>3. k = 1 /\ \A l \in DOMAIN progress[u] : l = 1
        BY <2>1, <3>1, <4>2
      <4>4. <<>> \in Seq(Nat)
        OBVIOUS
      <4>5. plan[u].jobs[k].index \in Seq(Nat)
        BY <4>2, <4>3, <4>4, Zenon
      <4> QED
        BY <4>3, <4>5
    <3>5. CASE plan[u].lens # <<>>
      <4>1. Works(u, plan[u].lens, plan[u].method, plan[u].jobs, plan[u].dims)
        BY <3>3, <3>5, ExpandWorks
      <4>2. \A l \in DOMAIN progress[u] : /\ plan[u].jobs[l].index \in Seq(Nat)
                                          /\ LinearOffset(plan[u].jobs[l].index, plan[u].dims) + 1 = l
        BY <3>1, <4>1 DEF Works, Indexed
      <4> QED
        BY <2>1, <4>2
    <3> QED
      BY <3>4, <3>5
  <2>2. s = t
    BY <2>1, OtherStepName
  <2>3. plan[s].jobs[i].index = plan[s].jobs[j].index
    <3> DEFINE x == plan[s].jobs[i].index
               y == plan[s].jobs[j].index
    <3>1. x \in Seq(Nat) /\ y \in Seq(Nat) /\ InvocationName(s, x) = InvocationName(s, y)
      BY <2>1, <2>2
    <3> HIDE DEF x, y
    <3>2. x = y
      BY <3>1, SameStepName
    <3> QED
      BY <3>2 DEF x, y
  <2> QED
    BY <2>1, <2>2, <2>3
<1> QED
  BY <1>1, ScatterInvariant, PTL
=============================================================================
