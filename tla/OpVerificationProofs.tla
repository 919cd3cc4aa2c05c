------------------------ MODULE OpVerificationProofs ------------------------
(***************************************************************************)
(* Theorems of OpVerification: type correctness, the constraint traits     *)
(* never read past the values, the groups of an operation that verified    *)
(* share out its values, and the traits decide what the declaration says,  *)
(* for declarations and operations of any length.                          *)
(***************************************************************************)
EXTENDS OpVerification, FiniteSetTheorems, WellFoundedInduction, TLAPS

(***************************************************************************)
(* The group arithmetic.                                                   *)
(***************************************************************************)
Fixed(tys) == DOMAIN tys \ Variadics(tys)

LEMMA Finite ==
    ASSUME NEW tys \in Seq(Constraints), NEW S \in SUBSET (DOMAIN tys)
    PROVE  IsFiniteSet(S) /\ Cardinality(S) \in Nat
  <1>1. IsFiniteSet(DOMAIN tys)
    BY FS_Interval
  <1> QED
    BY <1>1, FS_Subset, FS_CardinalityType

(* A set of natural numbers has a least element. *)
LEMMA Least ==
    ASSUME NEW S \in SUBSET Nat, S # {}
    PROVE  \E i \in S : \A j \in S : i <= j
  <1> DEFINE Less == OpToRel(<, Nat)
  <1>1. \A i, j \in Nat : i < j => <<i, j>> \in Less
    BY DEF OpToRel
  <1>2. IsWellFoundedOn(Less, Nat)
    BY NatLessThanWellFounded
  <1> HIDE DEF Less
  <1>3. S \subseteq Nat
    OBVIOUS
  <1>4. \E i \in S : \A j \in S : ~(<<j, i>> \in Less)
    BY <1>2, <1>3, WFMin, ZenonT(30)
  <1>5. PICK i \in S : \A j \in S : ~(<<j, i>> \in Less)
    BY <1>4
  <1>6. ASSUME NEW j \in S PROVE i <= j
    <2>1. i \in Nat /\ j \in Nat /\ ~(j < i)
      BY <1>1, <1>3, <1>5
    <2> QED
      BY <2>1
  <1> QED
    BY <1>6

(* Below grows by i when i is passed. *)
LEMMA BelowStep ==
    ASSUME NEW tys \in Seq(Constraints), NEW S \in SUBSET (DOMAIN tys),
           NEW i \in 1 .. Len(tys)
    PROVE  Cardinality(Below(S, i + 1)) = Cardinality(Below(S, i)) + (IF i \in S THEN 1 ELSE 0)
  <1>1. Below(S, i) \in SUBSET (DOMAIN tys) /\ S \in SUBSET Nat
    BY DEF Below
  <1>2. CASE i \in S
    <2>1. Below(S, i + 1) = Below(S, i) \cup {i} /\ i \notin Below(S, i)
      BY <1>1, <1>2 DEF Below
    <2> QED
      BY <1>1, <1>2, <2>1, Finite, FS_AddElement
  <1>3. CASE i \notin S
    <2>1. Below(S, i + 1) = Below(S, i)
      BY <1>1, <1>3 DEF Below
    <2> QED
      BY <1>1, <1>3, <2>1, Finite
  <1> QED
    BY <1>2, <1>3

LEMMA BelowEnds ==
    ASSUME NEW tys \in Seq(Constraints), NEW S \in SUBSET (DOMAIN tys)
    PROVE  /\ Cardinality(Below(S, 1)) = 0
           /\ Cardinality(Below(S, Len(tys) + 1)) = Cardinality(S)
  <1>1. Below(S, 1) = {} /\ Below(S, Len(tys) + 1) = S
    BY DEF Below
  <1> QED
    BY <1>1, FS_EmptySet

LEMMA BelowGrows ==
    ASSUME NEW tys \in Seq(Constraints), NEW S \in SUBSET (DOMAIN tys),
           NEW i \in Nat, NEW j \in Nat, i <= j
    PROVE  /\ Cardinality(Below(S, i)) \in Nat /\ Cardinality(Below(S, j)) \in Nat
           /\ Cardinality(Below(S, i)) <= Cardinality(Below(S, j))
  <1>1. Below(S, i) \in SUBSET Below(S, j) /\ Below(S, j) \in SUBSET (DOMAIN tys)
    BY DEF Below
  <1>2. Below(S, i) \in SUBSET (DOMAIN tys)
    BY <1>1
  <1>3. IsFiniteSet(Below(S, j))
    BY <1>1, Finite
  <1> QED
    BY <1>1, <1>2, <1>3, Finite, FS_Subset

LEMMA SegmentSizeType ==
    ASSUME NEW tys \in Seq(Constraints), HasVariadic(tys), NEW n \in Nat
    PROVE  /\ Cardinality(Variadics(tys)) \in Nat \ {0}
           /\ NumFixed(tys) \in Nat
           /\ NumVariadicValues(tys, n) \in Nat
           /\ SegmentSize(tys, n) \in Nat
  <1>1. /\ Variadics(tys) \in SUBSET (DOMAIN tys)
        /\ DOMAIN tys \ Variadics(tys) \in SUBSET (DOMAIN tys)
    BY DEF Variadics
  <1>2. Cardinality(Variadics(tys)) \in Nat /\ NumFixed(tys) \in Nat
    BY <1>1, Finite DEF NumFixed
  <1>3. Cardinality(Variadics(tys)) # 0
    BY <1>1, Finite, FS_EmptySet DEF HasVariadic
  <1>4. NumVariadicValues(tys, n) \in Nat
    BY <1>2, UintModAssumption DEF NumVariadicValues
  <1> QED
    BY <1>2, <1>3, <1>4 DEF SegmentSize

(* Where the groups start, what a group adds and where the last one ends.  *)
LEMMA FirstSteps ==
    ASSUME NEW tys \in Seq(Constraints), HasVariadic(tys), NEW n \in Nat
    PROVE  /\ SameFirst(tys, n, 1) = 0
           /\ \A i \in 1 .. Len(tys) :
                /\ SameSize(tys, n, i) \in Nat
                /\ SameFirst(tys, n, i) \in Nat /\ SameFirst(tys, n, i + 1) \in Nat
                /\ SameFirst(tys, n, i + 1) = SameFirst(tys, n, i) + SameSize(tys, n, i)
           /\ SameFirst(tys, n, Len(tys) + 1)
                = NumFixed(tys) + SegmentSize(tys, n) * Cardinality(Variadics(tys))
  <1> DEFINE F == DOMAIN tys \ Variadics(tys)
             V == Variadics(tys)
             seg == SegmentSize(tys, n)
  <1>1. F \in SUBSET (DOMAIN tys) /\ V \in SUBSET (DOMAIN tys)
    BY DEF Variadics
  <1>2. seg \in Nat
    BY SegmentSizeType
  <1>3. /\ Cardinality(Below(F, 1)) = 0 /\ Cardinality(Below(F, Len(tys) + 1)) = Cardinality(F)
        /\ Cardinality(Below(V, 1)) = 0 /\ Cardinality(Below(V, Len(tys) + 1)) = Cardinality(V)
    BY <1>1, BelowEnds
  <1> HIDE DEF seg
  <1>4. ASSUME NEW i \in 1 .. Len(tys)
        PROVE  /\ SameSize(tys, n, i) \in Nat
               /\ SameFirst(tys, n, i) \in Nat /\ SameFirst(tys, n, i + 1) \in Nat
               /\ SameFirst(tys, n, i + 1) = SameFirst(tys, n, i) + SameSize(tys, n, i)
    <2> DEFINE f == Cardinality(Below(F, i))
               v == Cardinality(Below(V, i))
    <2>1. i \in Nat /\ i \in DOMAIN tys
      OBVIOUS
    <2>2. f \in Nat /\ v \in Nat
      BY <1>1, <2>1, BelowGrows
    <2>3. /\ Cardinality(Below(F, i + 1)) = f + (IF i \in V THEN 0 ELSE 1)
          /\ Cardinality(Below(V, i + 1)) = v + (IF i \in V THEN 1 ELSE 0)
      BY <1>1, <2>1, BelowStep
    <2>4. SameFirst(tys, n, i) = f + seg * v
      BY DEF SameFirst, seg
    <2>5. SameFirst(tys, n, i + 1)
            = f + (IF i \in V THEN 0 ELSE 1) + seg * (v + (IF i \in V THEN 1 ELSE 0))
      BY <2>3 DEF SameFirst, seg
    <2>6. SameSize(tys, n, i) = IF i \in V THEN seg ELSE 1
      BY DEF SameSize, seg
    <2> HIDE DEF f, v
    <2>7. seg * v \in Nat /\ seg * (v + 1) = seg * v + seg /\ seg * (v + 0) = seg * v
      BY <1>2, <2>2
    <2> QED
      BY <1>2, <2>2, <2>4, <2>5, <2>6, <2>7
  <1>5. SameFirst(tys, n, 1) = 0
    BY <1>2, <1>3 DEF SameFirst, seg
  <1>6. SameFirst(tys, n, Len(tys) + 1) = NumFixed(tys) + SegmentSize(tys, n) * Cardinality(V)
    BY <1>3 DEF SameFirst, NumFixed
  <1> QED
    BY <1>4, <1>5, <1>6

SameGroup(tys, n, i) == SameFirst(tys, n, i) + 1 .. SameFirst(tys, n, i) + SameSize(tys, n, i)

(* The groups follow one another.                                          *)
LEMMA GroupsInOrder ==
    ASSUME NEW tys \in Seq(Constraints), HasVariadic(tys), NEW n \in Nat,
           NEW i \in 1 .. Len(tys), NEW j \in 1 .. Len(tys), i < j
    PROVE  \A x \in SameGroup(tys, n, i), y \in SameGroup(tys, n, j) : x < y
  <1> DEFINE F == DOMAIN tys \ Variadics(tys)
             V == Variadics(tys)
             seg == SegmentSize(tys, n)
  <1>1. F \in SUBSET (DOMAIN tys) /\ V \in SUBSET (DOMAIN tys)
    BY DEF Variadics
  <1>2. seg \in Nat
    BY SegmentSizeType
  <1>3. i + 1 \in Nat /\ j \in Nat /\ i + 1 <= j
    OBVIOUS
  <1>4. /\ Cardinality(Below(F, i + 1)) \in Nat /\ Cardinality(Below(F, j)) \in Nat
        /\ Cardinality(Below(F, i + 1)) <= Cardinality(Below(F, j))
        /\ Cardinality(Below(V, i + 1)) \in Nat /\ Cardinality(Below(V, j)) \in Nat
        /\ Cardinality(Below(V, i + 1)) <= Cardinality(Below(V, j))
    BY <1>1, <1>3, BelowGrows
  <1>5. ASSUME NEW x \in Nat, NEW y \in Nat, NEW z \in Nat, x <= y
        PROVE  z * x \in Nat /\ z * y \in Nat /\ z * x <= z * y
    <2>1. PICK w \in Nat : y = x + w
      BY <1>5
    <2>2. z * y = z * x + z * w /\ z * x \in Nat /\ z * w \in Nat
      BY <2>1
    <2> QED
      BY <2>2
  <1>6. seg * Cardinality(Below(V, i + 1)) <= seg * Cardinality(Below(V, j))
    BY <1>2, <1>4, <1>5
  <1>7. /\ seg * Cardinality(Below(V, i + 1)) \in Nat
        /\ seg * Cardinality(Below(V, j)) \in Nat
    BY <1>2, <1>4
  <1> HIDE DEF seg, F, V
  <1>8. SameFirst(tys, n, i + 1) <= SameFirst(tys, n, j)
    <2>1. /\ SameFirst(tys, n, i + 1)
               = Cardinality(Below(F, i + 1)) + seg * Cardinality(Below(V, i + 1))
          /\ SameFirst(tys, n, j) = Cardinality(Below(F, j)) + seg * Cardinality(Below(V, j))
      BY DEF SameFirst, F, V, seg
    <2> QED
      BY <1>4, <1>6, <1>7, <2>1
  <1>9. /\ SameFirst(tys, n, i) \in Nat /\ SameFirst(tys, n, j) \in Nat
        /\ SameSize(tys, n, i) \in Nat /\ SameSize(tys, n, j) \in Nat
        /\ SameFirst(tys, n, i + 1) = SameFirst(tys, n, i) + SameSize(tys, n, i)
    BY FirstSteps
  <1> QED
    BY <1>8, <1>9 DEF SameGroup

(* Division, as the arithmetic above uses it.                              *)
LEMMA Wrap ==
    ASSUME NEW x \in Int, NEW m \in Nat \ {0}, -m < x, x < m
    PROVE  x % m = IF x < 0 THEN x + m ELSE x
  <1>1. CASE x < 0
    BY <1>1
  <1>2. CASE x >= 0
    BY <1>2
  <1> QED
    BY <1>1, <1>2

LEMMA DivideExactly ==
    ASSUME NEW x \in Nat, NEW m \in Nat \ {0}, x % m = 0
    PROVE  (x \div m) * m = x
  OBVIOUS

LEMMA NumFixedBound ==
    ASSUME NEW tys \in Seq(Constraints)
    PROVE  NumFixed(tys) \in Nat /\ NumFixed(tys) <= Len(tys)
  <1>1. DOMAIN tys = 1 .. Len(tys) /\ Len(tys) \in Nat
    OBVIOUS
  <1>2. IsFiniteSet(1 .. Len(tys)) /\ Cardinality(1 .. Len(tys)) = Len(tys)
    <2>1. SUFFICES ASSUME NEW j \in Nat
                   PROVE  IsFiniteSet(1 .. j) /\ Cardinality(1 .. j) = j
      BY <1>1
    <2>2. /\ IsFiniteSet(1 .. j)
          /\ Cardinality(1 .. j) = IF 1 > j THEN 0 ELSE j - 1 + 1
      BY FS_Interval
    <2> QED
      BY <2>2
  <1>3. DOMAIN tys \ Variadics(tys) \in SUBSET (1 .. Len(tys))
    BY <1>1
  <1>4. NumFixed(tys) \in Nat
    BY <1>1, <1>3, Finite DEF NumFixed
  <1> QED
    BY <1>2, <1>3, <1>4, FS_Subset DEF NumFixed

(***************************************************************************)
(* What checkVariadicValues lets through: the values fill the groups       *)
(* exactly, or the difference wrapped and the groups hold UintMod more     *)
(* values than there are.                                                  *)
(***************************************************************************)
LEMMA SegmentTotal ==
    ASSUME NEW tys \in Seq(Constraints), HasVariadic(tys), Len(tys) < UintMod,
           NEW n \in Nat, n < UintMod, Divisible(tys, n)
    PROVE  SameFirst(tys, n, Len(tys) + 1) \in {n, n + UintMod}
  <1> DEFINE k == Cardinality(Variadics(tys))
             m == NumVariadicValues(tys, n)
             f == NumFixed(tys)
  <1>1. k \in Nat \ {0} /\ m \in Nat /\ f \in Nat
    BY SegmentSizeType
  <1>2. f <= Len(tys)
    BY NumFixedBound
  <1>3. m \in {n - f, n - f + UintMod}
    <2>1. f < UintMod /\ UintMod \in Nat \ {0}
      BY <1>1, <1>2, UintModAssumption
    <2>2. m = (n - f) % UintMod
      BY DEF NumVariadicValues
    <2> HIDE DEF m, f
    <2>3. (n - f) \in Int /\ -UintMod < n - f /\ n - f < UintMod
      BY <1>1, <2>1
    <2>4. m = IF n - f < 0 THEN n - f + UintMod ELSE n - f
      BY <2>1, <2>2, <2>3, Wrap
    <2> QED
      BY <1>1, <2>4
  <1>4. m % k = 0
    BY DEF Divisible
  <1>5. SegmentSize(tys, n) = m \div k
    BY DEF SegmentSize
  <1> HIDE DEF m, k, f
  <1>6. (m \div k) * k = m
    BY <1>1, <1>4, DivideExactly
  <1>7. SameFirst(tys, n, Len(tys) + 1) = f + m
    BY <1>5, <1>6, FirstSteps DEF f, k
  <1> QED
    BY <1>1, <1>3, <1>7, UintModAssumption

(* When no group runs past the last value, the groups share out the values.*)
LEMMA GroupsCover ==
    ASSUME NEW tys \in Seq(Constraints), HasVariadic(tys), Len(tys) < UintMod,
           NEW n \in Nat, n < UintMod, Divisible(tys, n),
           \A i \in 1 .. Len(tys) : SameGroup(tys, n, i) \subseteq 1 .. n
    PROVE  /\ UNION {SameGroup(tys, n, i) : i \in 1 .. Len(tys)} = 1 .. n
           /\ SameFirst(tys, n, Len(tys) + 1) = n
  <1> DEFINE first(i) == SameFirst(tys, n, i)
             total == first(Len(tys) + 1)
  <1>1. Len(tys) \in Nat \ {0}
    BY DEF HasVariadic, Variadics
  <1>2. /\ first(1) = 0
        /\ \A i \in 1 .. Len(tys) :
             /\ first(i) \in Nat /\ first(i + 1) \in Nat
             /\ SameSize(tys, n, i) \in Nat
             /\ first(i + 1) = first(i) + SameSize(tys, n, i)
    BY FirstSteps
  <1>3. \A i \in 1 .. Len(tys) : SameGroup(tys, n, i) = first(i) + 1 .. first(i + 1)
    BY <1>2 DEF SameGroup
  <1> HIDE DEF first
  <1>4. ASSUME NEW x \in 1 .. total
        PROVE  \E i \in 1 .. Len(tys) : x \in SameGroup(tys, n, i)
    <2> DEFINE S == {i \in 1 .. Len(tys) : x <= first(i + 1)}
    <2>1. Len(tys) \in S
      BY <1>1
    <2>2. S \in SUBSET Nat /\ S # {}
      BY <2>1
    <2>3. PICK i \in S : \A j \in S : i <= j
      BY <2>2, Least
    <2>4. i \in 1 .. Len(tys) /\ x <= first(i + 1)
      BY <2>3
    <2>5. first(i) \in Nat /\ first(i + 1) \in Nat
      BY <1>2, <2>4
    <2>6. first(i) < x
      <3>1. CASE i = 1
        BY <1>2, <3>1
      <3>2. CASE i # 1
        <4>1. i - 1 \in 1 .. Len(tys) /\ (i - 1) + 1 = i
          BY <1>1, <2>4, <3>2
        <4>2. i - 1 \notin S
          <5>1. ASSUME i - 1 \in S PROVE i <= i - 1
            BY <2>3, <5>1
          <5> QED
            BY <2>4, <5>1
        <4>3. ~(x <= first((i - 1) + 1))
          BY <4>1, <4>2
        <4>4. ~(x <= first(i))
          BY <4>1, <4>3
        <4> QED
          BY <2>5, <4>4
      <3> QED
        BY <3>1, <3>2
    <2>7. x \in first(i) + 1 .. first(i + 1)
      BY <2>4, <2>5, <2>6
    <2> QED
      BY <1>3, <2>4, <2>7
  <1>5. total \in {n, n + UintMod} /\ UintMod \in Nat \ {0}
    BY SegmentTotal, UintModAssumption DEF first
  <1>6. total = n
    <2>1. SUFFICES ASSUME total = n + UintMod PROVE FALSE
      BY <1>5
    <2>2. n + 1 \in 1 .. total
      BY <1>5, <2>1
    <2>3. PICK i \in 1 .. Len(tys) : n + 1 \in SameGroup(tys, n, i)
      BY <1>4, <2>2
    <2> QED
      BY <2>3
  <1> QED
    BY <1>4, <1>6 DEF first

(***************************************************************************)
(* The same for groups whose sizes the operation gives.  A sequence of     *)
(* bounds cuts the values up to the last bound into groups.                *)
(***************************************************************************)
Bounds(first, n) ==
    /\ first \in [1 .. n + 1 -> Nat]
    /\ first[1] = 0
    /\ \A i \in 1 .. n : first[i] <= first[i + 1]

Slice(first, i) == first[i] + 1 .. first[i + 1]

LEMMA BoundsGrow ==
    ASSUME NEW n \in Nat, NEW first, Bounds(first, n),
           NEW i \in 1 .. n + 1, NEW j \in 1 .. n + 1, i <= j
    PROVE  first[i] <= first[j]
  <1> DEFINE S == {k \in i .. j : ~(first[i] <= first[k])}
  <1>1. SUFFICES ASSUME S # {} PROVE FALSE
    <2>1. j \in i .. j
      OBVIOUS
    <2> QED
      BY <1>1, <2>1
  <1>2. S \in SUBSET Nat
    OBVIOUS
  <1>3. PICK k \in S : \A l \in S : k <= l
    BY <1>1, <1>2, Least
  <1>4. k # i /\ k \in 1 .. n + 1
    BY <1>3 DEF Bounds
  <1>5. k - 1 \in i .. j /\ k - 1 \in 1 .. n /\ (k - 1) + 1 = k
    BY <1>3, <1>4
  <1>6. first[i] <= first[k - 1]
    <2>1. k - 1 \notin S
      <3>1. ASSUME k - 1 \in S PROVE k <= k - 1
        BY <1>3, <3>1
      <3> QED
        BY <1>4, <3>1
    <2> QED
      BY <1>5, <2>1
  <1>7. first[k - 1] <= first[k]
    BY <1>5 DEF Bounds
  <1>8. first[i] \in Nat /\ first[k - 1] \in Nat /\ first[k] \in Nat
    BY <1>4, <1>5 DEF Bounds
  <1> QED
    BY <1>3, <1>6, <1>7, <1>8

LEMMA SlicesTile ==
    ASSUME NEW n \in Nat, NEW first, Bounds(first, n)
    PROVE  /\ UNION {Slice(first, i) : i \in 1 .. n} = 1 .. first[n + 1]
           /\ \A i, j \in 1 .. n : i < j =>
                 \A x \in Slice(first, i), y \in Slice(first, j) : x < y
           /\ \A i \in 1 .. n : Slice(first, i) \subseteq 1 .. first[n + 1]
  <1>1. \A i \in 1 .. n : first[i] \in Nat /\ first[i + 1] \in Nat /\ first[i] <= first[i + 1]
    BY DEF Bounds
  <1>2. first[n + 1] \in Nat
    BY DEF Bounds
  <1>3. ASSUME NEW i \in 1 .. n PROVE Slice(first, i) \subseteq 1 .. first[n + 1]
    <2>1. first[i + 1] <= first[n + 1]
      BY BoundsGrow
    <2> QED
      BY <1>1, <1>2, <2>1 DEF Slice
  <1>4. ASSUME NEW i \in 1 .. n, NEW j \in 1 .. n, i < j,
               NEW x \in Slice(first, i), NEW y \in Slice(first, j)
        PROVE  x < y
    <2>1. first[i + 1] <= first[j]
      BY <1>4, BoundsGrow
    <2> QED
      BY <1>1, <2>1 DEF Slice
  <1>5. ASSUME NEW x \in 1 .. first[n + 1]
        PROVE  \E i \in 1 .. n : x \in Slice(first, i)
    <2> DEFINE S == {i \in 1 .. n + 1 : x <= first[i]}
    <2>1. n + 1 \in S /\ S \in SUBSET Nat
      BY <1>2
    <2>2. PICK k \in S : \A l \in S : k <= l
      BY <2>1, Least
    <2>3. k # 1
      BY <2>2 DEF Bounds
    <2>4. k - 1 \in 1 .. n /\ (k - 1) + 1 = k
      BY <2>2, <2>3
    <2>5. ~(x <= first[k - 1])
      <3>1. k - 1 \notin S
        <4>1. ASSUME k - 1 \in S PROVE k <= k - 1
          BY <2>2, <4>1
        <4> QED
          BY <2>4, <4>1
      <3> QED
        BY <2>4, <3>1
    <2>6. first[k - 1] \in Nat /\ first[k] \in Nat /\ x <= first[k]
      BY <1>1, <2>2, <2>4
    <2>7. x \in first[k - 1] + 1 .. first[k]
      BY <1>2, <2>5, <2>6
    <2>8. Slice(first, k - 1) = first[k - 1] + 1 .. first[k]
      BY <2>4 DEF Slice
    <2> QED
      BY <2>4, <2>7, <2>8
  <1>6. UNION {Slice(first, i) : i \in 1 .. n} = 1 .. first[n + 1]
    BY <1>3, <1>5
  <1> QED
    BY <1>3, <1>4, <1>6

(* The sums of the segment sizes exist: each extends the one before.       *)
Sums(segs, n, f) ==
    /\ f \in [0 .. n -> Nat]
    /\ \A k \in 0 .. n : f[k] = IF k = 0 THEN 0 ELSE f[k - 1] + segs[k]

LEMMA SumsExist ==
    ASSUME NEW segs \in Seq(Nat), NEW n \in 0 .. Len(segs)
    PROVE  \E f : Sums(segs, n, f)
  <1> DEFINE S == {m \in 0 .. Len(segs) : ~\E f : Sums(segs, m, f)}
  <1>1. SUFFICES ASSUME S # {} PROVE FALSE
    OBVIOUS
  <1>2. S \in SUBSET Nat
    OBVIOUS
  <1>3. PICK m \in S : \A l \in S : m <= l
    BY <1>1, <1>2, Least
  <1>4. m # 0
    <2>1. Sums(segs, 0, [k \in 0 .. 0 |-> 0])
      BY DEF Sums
    <2> QED
      BY <1>3, <2>1
  <1>5. m \in 1 .. Len(segs) /\ m - 1 \in 0 .. Len(segs)
    BY <1>3, <1>4
  <1>6. m - 1 \notin S
    <2>1. ASSUME m - 1 \in S PROVE m <= m - 1
      BY <1>3, <2>1
    <2> QED
      BY <1>5, <2>1
  <1>7. PICK f : Sums(segs, m - 1, f)
    BY <1>5, <1>6
  <1> DEFINE g == [k \in 0 .. m |-> IF k = m THEN f[m - 1] + segs[m] ELSE f[k]]
  <1>8. f[m - 1] \in Nat /\ segs[m] \in Nat /\ \A k \in 0 .. m - 1 : f[k] \in Nat
    BY <1>5, <1>7 DEF Sums
  <1>9. g \in [0 .. m -> Nat]
    BY <1>5, <1>8
  <1>10. ASSUME NEW k \in 0 .. m
         PROVE  g[k] = IF k = 0 THEN 0 ELSE g[k - 1] + segs[k]
    <2>1. CASE k = m
      BY <1>4, <1>5, <2>1
    <2>2. CASE k # m
      <3>1. k \in 0 .. m - 1 /\ (k # 0 => k - 1 \in 0 .. m /\ k - 1 # m)
        BY <1>5, <2>2
      <3>2. f[k] = IF k = 0 THEN 0 ELSE f[k - 1] + segs[k]
        BY <1>7, <3>1 DEF Sums
      <3> QED
        BY <2>2, <3>1, <3>2
    <2> QED
      BY <2>1, <2>2
  <1>11. Sums(segs, m, g)
    BY <1>9, <1>10 DEF Sums
  <1> QED
    BY <1>3, <1>11

LEMMA SizedSteps ==
    ASSUME NEW segs \in Seq(Nat)
    PROVE  /\ SizedFirst(segs, 1) = 0
           /\ \A i \in 1 .. Len(segs) :
                /\ SizedFirst(segs, i) \in Nat /\ SizedFirst(segs, i + 1) \in Nat
                /\ SizedFirst(segs, i + 1) = SizedFirst(segs, i) + segs[i]
  <1> DEFINE D == 0 .. Len(segs)
             Is(f) == f = [k \in D |-> IF k = 0 THEN 0 ELSE f[k - 1] + segs[k]]
             sum == CHOOSE f : Is(f)
  <1>1. PICK f : Sums(segs, Len(segs), f)
    BY SumsExist
  <1>2. Is(f)
    BY <1>1 DEF Sums
  <1>3. Is(sum)
    BY <1>2
  <1>4. \A i : SizedFirst(segs, i) = sum[i - 1]
    BY DEF SizedFirst
  <1> HIDE DEF sum
  <1>5. \A k \in D : sum[k] = IF k = 0 THEN 0 ELSE sum[k - 1] + segs[k]
    BY <1>3
  <1> DEFINE S == {k \in D : sum[k] \notin Nat}
  <1>6. S = {}
    <2>1. SUFFICES ASSUME S # {} PROVE FALSE
      OBVIOUS
    <2>2. S \in SUBSET Nat
      OBVIOUS
    <2>3. PICK k \in S : \A l \in S : k <= l
      BY <2>1, <2>2, Least
    <2>4. k # 0
      BY <1>5, <2>3
    <2>5. k - 1 \in D /\ k \in 1 .. Len(segs)
      BY <2>3, <2>4
    <2>6. k - 1 \notin S
      <3>1. ASSUME k - 1 \in S PROVE k <= k - 1
        BY <2>3, <3>1
      <3> QED
        BY <2>5, <3>1
    <2>7. sum[k - 1] \in Nat /\ segs[k] \in Nat
      BY <2>5, <2>6
    <2> QED
      BY <1>5, <2>3, <2>4, <2>7
  <1>7. \A k \in D : sum[k] \in Nat
    BY <1>6
  <1>8. SizedFirst(segs, 1) = 0
    BY <1>4, <1>5
  <1>9. ASSUME NEW i \in 1 .. Len(segs)
        PROVE  /\ SizedFirst(segs, i) \in Nat /\ SizedFirst(segs, i + 1) \in Nat
               /\ SizedFirst(segs, i + 1) = SizedFirst(segs, i) + segs[i]
    <2>1. i - 1 \in D /\ i \in D /\ i # 0
      OBVIOUS
    <2>2. SizedFirst(segs, i) = sum[i - 1] /\ SizedFirst(segs, i + 1) = sum[(i + 1) - 1]
      BY <1>4
    <2>3. (i + 1) - 1 = i
      OBVIOUS
    <2> QED
      BY <1>5, <1>7, <2>1, <2>2, <2>3
  <1> QED
    BY <1>8, <1>9

LEMMA SizedBounds ==
    ASSUME NEW segs \in Seq(Nat)
    PROVE  \E first :
              /\ Bounds(first, Len(segs))
              /\ \A i \in 1 .. Len(segs) + 1 : first[i] = SizedFirst(segs, i) /\ first[i] \in Nat
              /\ \A i \in 1 .. Len(segs) : first[i + 1] = first[i] + segs[i] /\ segs[i] \in Nat
  <1> DEFINE n == Len(segs)
             first == [i \in 1 .. n + 1 |-> SizedFirst(segs, i)]
  <1>1. n \in Nat /\ \A i \in 1 .. n : segs[i] \in Nat
    OBVIOUS
  <1>2. /\ SizedFirst(segs, 1) = 0
        /\ \A i \in 1 .. n :
             /\ SizedFirst(segs, i) \in Nat /\ SizedFirst(segs, i + 1) \in Nat
             /\ SizedFirst(segs, i + 1) = SizedFirst(segs, i) + segs[i]
    BY SizedSteps
  <1>3. \A i \in 1 .. n + 1 : SizedFirst(segs, i) \in Nat
    <2>1. ASSUME NEW i \in 1 .. n + 1 PROVE SizedFirst(segs, i) \in Nat
      <3>1. CASE i = 1
        BY <1>2, <3>1
      <3>2. CASE i # 1
        <4>1. i - 1 \in 1 .. n /\ (i - 1) + 1 = i
          BY <1>1, <3>2
        <4> QED
          BY <1>2, <4>1
      <3> QED
        BY <3>1, <3>2
    <2> QED
      BY <2>1
  <1>4. \A i \in 1 .. n + 1 : first[i] = SizedFirst(segs, i)
    OBVIOUS
  <1>5. first \in [1 .. n + 1 -> Nat]
    BY <1>3
  <1> HIDE DEF first, n
  <1>6. \A i \in 1 .. n : i \in 1 .. n + 1 /\ i + 1 \in 1 .. n + 1
    BY <1>1
  <1>7. \A i \in 1 .. n : first[i + 1] = first[i] + segs[i] /\ segs[i] \in Nat
    BY <1>1, <1>2, <1>4, <1>6
  <1>8. 1 \in 1 .. n + 1 /\ \A i \in 1 .. n + 1 : first[i] \in Nat
    BY <1>1, <1>5
  <1>9. first[1] = 0 /\ \A i \in 1 .. n : first[i] <= first[i + 1]
    BY <1>2, <1>4, <1>6, <1>7, <1>8
  <1>10. Bounds(first, n)
    BY <1>5, <1>9 DEF Bounds
  <1> QED
    BY <1>4, <1>7, <1>8, <1>10 DEF n

-----------------------------------------------------------------------------
(***************************************************************************)
(* The inductive invariant.  A trait that was declared and can be resolved *)
(* is in the list once the operation is registered, and only those are;    *)
(* the counts are there, and the constraints come after all the others;    *)
(* the traits that ran on an operation accepted it.                        *)
(***************************************************************************)
Ran == {"verifying", "valid", "invalid", "aborted"}
Registered == {"registered"} \cup Ran
Constraining == {TypeConstraint, AttrConstraint} \cup {BlockConstraint(b) : b \in Blocks}
Accepts(i) == "ok" \in Verdicts(traits[i], op)
Added(i) == decl.traits[i].name = Unknown \/ Has(decl.traits[i].name)

Typed == TypeOK /\ decl \in Declarations
DeclarationChecked ==
    stage \notin {"parsed", "rejected"} =>
        /\ \A s \in Sides : SizesSpecified(s)
        /\ \A b \in Blocks : OnlyLastVariadic(b)
OnlyDeclared ==
    \A s \in Sides : /\ Has(SameSizes(s)) => Declares(SameSizes(s))
                     /\ Has(Segments(s)) => Declares(Segments(s))
AllAdded ==
    /\ stage = "user" => \A i \in DOMAIN decl.traits : i < next => Added(i)
    /\ stage \in Registered => \A i \in DOMAIN decl.traits : Added(i)
TypesConstrained == stage \in Registered => \A name \in Constraining : Has(name)

Ordered(list) ==
    \A i, j \in DOMAIN list :
        i < j /\ list[i].name \in Constraining => list[j].name \in Constraining
ListOrdered ==
    /\ ~Has(Unknown)
    /\ stage \notin Registered => \A i \in DOMAIN traits : traits[i].name \notin Constraining
    /\ Ordered(traits)

MinimaKept ==
    \A p \in Parts : MinimumKept(p) =>
        \A i \in DOMAIN traits :
            traits[i].name = AtLeastN(p) => traits[i].arg >= NumFixed(Lists(p))
CountOf(p) ==
    IF HasVariadic(Lists(p)) THEN Has(AtLeastN(p))
    ELSE [name |-> N(p), arg |-> Len(Lists(p))] \in Range(traits)
Counted == stage \in Registered => \A p \in Parts : CountOf(p)
(* A count that the user did not ask for is the one of the declaration.    *)
Generated ==
    \A t \in Range(traits), p \in Parts :
        /\ t.name = N(p) /\ ~Declares(t.name) => ~HasVariadic(Lists(p)) /\ t.arg = Len(Lists(p))
        /\ t.name = AtLeastN(p) /\ ~Declares(t.name) =>
              HasVariadic(Lists(p)) /\ t.arg = NumFixed(Lists(p))

Bounded ==
    \A s \in Sides : Num(op, s) < UintMod /\ \A x, y \in op.segs[s] : x = y
Passed ==
    /\ stage \in {"parsed", "registered"} => next = 1
    /\ stage \in {"verifying", "invalid", "aborted"} =>
          next \in DOMAIN traits /\ \A i \in DOMAIN traits : i < next => Accepts(i)
    /\ stage = "valid" => \A i \in DOMAIN traits : Accepts(i)

ListInv == OnlyDeclared /\ ListOrdered /\ MinimaKept /\ Counted /\ Generated

IInv ==
    /\ Typed
    /\ DeclarationChecked
    /\ AllAdded
    /\ TypesConstrained
    /\ ListInv
    /\ Bounded
    /\ Passed

(* An operation is given up in the middle of the trait that did it. *)
Stopped ==
    /\ stage = "aborted" => "undefined" \in Verdicts(traits[next], op)
    /\ stage = "invalid" => "invalid" \in Verdicts(traits[next], op)

LEMMA ListTypes ==
    ASSUME Typed, NEW p \in Parts
    PROVE  Lists(p) \in Seq(Constraints) /\ Len(Lists(p)) \in Nat /\ Len(Lists(p)) < UintMod
  <1>1. Lists(p) \in Seq(Constraints)
    BY DEF Typed, TypeOK, Declaration, Lists
  <1>2. Len(Lists(p)) < UintMod
    BY DeclarationsAssumption DEF Typed, Lists
  <1> QED
    BY <1>1, <1>2

LEMMA AddedTraitsType ==
    ASSUME Typed
    PROVE  /\ \A p \in Parts : CountTrait(p) \in Seq(Traits)
           /\ ConstraintTraits \in Seq(Traits)
  <1>1. ASSUME NEW p \in Parts PROVE CountTrait(p) \in Seq(Traits)
    <2>1. N(p) \in TraitNames /\ AtLeastN(p) \in TraitNames
      BY DEF TraitNames, UserTraits
    <2>2. Len(Lists(p)) \in 0 .. UintMod - 1 /\ NumFixed(Lists(p)) \in 0 .. UintMod - 1
      BY ListTypes, NumFixedBound, UintModAssumption
    <2>3. /\ [name |-> N(p), arg |-> Len(Lists(p))] \in Traits
          /\ [name |-> AtLeastN(p), arg |-> NumFixed(Lists(p))] \in Traits
      BY <2>1, <2>2 DEF Traits
    <2> QED
      BY <2>3 DEF CountTrait
  <1>2. ConstraintTraits \in Seq(Traits)
    <2>1. 0 \in 0 .. UintMod - 1
      BY UintModAssumption
    <2>2. /\ TypeConstraint \in TraitNames /\ AttrConstraint \in TraitNames
          /\ BlockConstraint("region") \in TraitNames
          /\ BlockConstraint("successor") \in TraitNames
      BY DEF TraitNames, Blocks
    <2>3. \A name \in TraitNames : [name |-> name, arg |-> 0] \in Traits
      BY <2>1 DEF Traits
    <2> QED
      BY <2>2, <2>3 DEF ConstraintTraits
  <1> QED
    BY <1>1, <1>2

LEMMA NoOpType == NoOp \in Operation
  BY DEF NoOp, Operation

(* Type correctness: every action keeps the variables in their types.      *)
LEMMA TypedInductive ==
    ASSUME Typed, [Next]_vars
    PROVE  Typed'
  <1> USE DEF Typed
  <1>1. CASE VerifyDeclaration
    BY <1>1 DEF VerifyDeclaration, TypeOK, Stages
  <1>2. CASE AddUserTrait
    <2>1. decl.traits[next] \in UserTrait
      BY <1>2 DEF AddUserTrait, TypeOK, Declaration
    <2>2. decl.traits[next].name \in TraitNames
      BY <2>1 DEF UserTrait, TraitNames
    <2>3. Argument(decl.traits[next]) \in Nat
      <3>1. PICK t \in UserTrait : t = decl.traits[next]
        BY <2>1
      <3>2. t.params \in Seq(Params)
        BY DEF UserTrait
      <3>3. CASE t.params = <<>>
        BY <3>1, <3>3 DEF Argument
      <3>4. CASE t.params # <<>>
        <4>1. t.params[1] \in Params
          BY <3>2, <3>4
        <4>2. t.params[1].value \in Nat
          BY <4>1 DEF Params
        <4> QED
          BY <3>1, <3>4, <4>2 DEF Argument
      <3> QED
        BY <3>3, <3>4
    <2>4. PICK n \in Nat : n = Argument(decl.traits[next])
      BY <2>3
    <2>5. n % UintMod \in 0 .. UintMod - 1
      BY <2>4, UintModAssumption
    <2>6. Constructed(decl.traits[next]) \in Traits
      BY <2>2, <2>4, <2>5 DEF Constructed, Traits
    <2>7. /\ \/ traits' = traits
             \/ \E t \in Traits : traits' = Append(traits, t)
          /\ stage' \in {stage, "rejected"} /\ next' \in {next, next + 1}
          /\ UNCHANGED <<decl, op>>
      BY <1>2, <2>6 DEF AddUserTrait
    <2>8. traits' \in Seq(Traits)
      BY <2>7 DEF TypeOK
    <2> QED
      BY <2>7, <2>8 DEF TypeOK, Stages
  <1>3. CASE AddSpecTraits
    <2>1. /\ CountTrait("region") \in Seq(Traits) /\ CountTrait("successor") \in Seq(Traits)
          /\ CountTrait("operand") \in Seq(Traits) /\ CountTrait("result") \in Seq(Traits)
          /\ ConstraintTraits \in Seq(Traits)
      BY AddedTraitsType DEF Parts, Blocks, Sides
    <2>2. \A x, y \in Seq(Traits) : x \o y \in Seq(Traits)
      OBVIOUS
    <2>3. traits \o CountTrait("region") \o CountTrait("successor") \o CountTrait("operand")
            \o CountTrait("result") \o ConstraintTraits \in Seq(Traits)
      BY <2>1, <2>2 DEF TypeOK
    <2>4. traits' \in Seq(Traits)
      BY <1>3, <2>3 DEF AddSpecTraits, TypeOK
    <2> QED
      BY <1>3, <2>4 DEF AddSpecTraits, TypeOK, Stages
  <1>4. CASE Verify
    BY <1>4, DeclarationsAssumption DEF Verify, TypeOK, Stages
  <1>5. CASE RunTrait
    BY <1>5 DEF RunTrait, TypeOK, Stages
  <1>6. CASE Done
    BY <1>6, NoOpType DEF Done, TypeOK, Stages
  <1>7. CASE UNCHANGED vars
    BY <1>7 DEF vars, TypeOK
  <1> QED
    BY <1>1, <1>2, <1>3, <1>4, <1>5, <1>6, <1>7 DEF Next, Terminated

LEMMA TypedInitially == Init => Typed
  BY NoOpType, DeclarationsAssumption DEF Init, Typed, TypeOK, Stages

(***************************************************************************)
(* Every reachable state of registration and verification is well typed:   *)
(* the argument of a count trait fits its unsigned field, and the traits   *)
(* made from a declaration are traits of the verifier.                     *)
(***************************************************************************)
THEOREM TypeCorrect == Spec => []TypeOK
  <1>1. Typed => TypeOK
    BY DEF Typed
  <1>2. Typed /\ [Next]_vars => Typed'
    BY TypedInductive
  <1> QED
    BY <1>1, <1>2, TypedInitially, PTL DEF Spec

(***************************************************************************)
(* The names of the traits, and what the list of them holds.               *)
(***************************************************************************)
LEMMA NamesDiffer ==
    ASSUME NEW p \in Parts
    PROVE  /\ \A name \in {N(p), AtLeastN(p), SameSizes(p), Segments(p)} :
                 /\ name \notin Constraining \cup {IsTerminator, Other, Unknown}
                 /\ name[2] = p
           /\ N(p) # AtLeastN(p)
           /\ SameSizes(p) \notin {N(p), AtLeastN(p)}
           /\ Segments(p) \notin {N(p), AtLeastN(p), SameSizes(p)}
           /\ BlockConstraint(p)[2] = p
           /\ BlockConstraint(p) \notin
                 {TypeConstraint, AttrConstraint, IsTerminator, Other, Unknown,
                  N(p), AtLeastN(p), SameSizes(p), Segments(p)}
  BY DEF Parts, Sides, Blocks, SameSizes, Segments, N, AtLeastN, TypeConstraint,
         AttrConstraint, BlockConstraint, Constraining, IsTerminator, Other, Unknown

LEMMA FamiliesDiffer ==
    \A p, q :
        /\ SameSizes(p) \notin {N(q), AtLeastN(q)} /\ Segments(p) \notin {N(q), AtLeastN(q)}
        /\ AtLeastN(p) # N(q)
        /\ AtLeastN(p) = AtLeastN(q) => p = q
        /\ Unknown \notin {N(p), AtLeastN(p)}
  BY DEF SameSizes, Segments, N, AtLeastN, Unknown

LEMMA ConstrainingNames ==
    /\ Unknown \notin Constraining /\ TypeConstraint \in Constraining
    /\ \A name \in UserTraits : name \notin Constraining
    /\ \A i \in DOMAIN ConstraintTraits : ConstraintTraits[i].name \in Constraining
    /\ \A name \in Constraining : \E i \in DOMAIN ConstraintTraits : ConstraintTraits[i].name = name
  <1>1. /\ Unknown \notin Constraining /\ TypeConstraint \in Constraining
        /\ \A name \in UserTraits : name \notin Constraining
    BY DEF Constraining, UserTraits, SameSizes, Segments, N, AtLeastN, TypeConstraint,
           AttrConstraint, BlockConstraint, IsTerminator, Other, Unknown
  <1>2. /\ \A i \in DOMAIN ConstraintTraits : ConstraintTraits[i].name \in Constraining
        /\ \A name \in Constraining :
              \E i \in DOMAIN ConstraintTraits : ConstraintTraits[i].name = name
    <2>1. /\ DOMAIN ConstraintTraits = {1, 2, 3, 4}
          /\ ConstraintTraits[1].name = TypeConstraint
          /\ ConstraintTraits[2].name = AttrConstraint
          /\ ConstraintTraits[3].name = BlockConstraint("region")
          /\ ConstraintTraits[4].name = BlockConstraint("successor")
      BY DEF ConstraintTraits
    <2> QED
      BY <2>1 DEF Constraining, Blocks
  <1> QED
    BY <1>1, <1>2

LEMMA RangeConcat ==
    ASSUME NEW x \in Seq(Traits), NEW y \in Seq(Traits)
    PROVE  x \o y \in Seq(Traits) /\ Range(x \o y) = Range(x) \cup Range(y)
  <1>1. /\ DOMAIN (x \o y) = 1 .. Len(x) + Len(y) /\ x \o y \in Seq(Traits)
        /\ DOMAIN x = 1 .. Len(x) /\ DOMAIN y = 1 .. Len(y)
        /\ Len(x) \in Nat /\ Len(y) \in Nat
        /\ \A i \in DOMAIN (x \o y) :
              (x \o y)[i] = IF i <= Len(x) THEN x[i] ELSE y[i - Len(x)]
    OBVIOUS
  <1>2. ASSUME NEW i \in DOMAIN (x \o y) PROVE (x \o y)[i] \in Range(x) \cup Range(y)
    <2>1. CASE i <= Len(x)
      BY <1>1, <2>1 DEF Range
    <2>2. CASE i > Len(x)
      <3>1. i - Len(x) \in DOMAIN y
        BY <1>1, <2>2
      <3> QED
        BY <1>1, <2>2, <3>1 DEF Range
    <2> QED
      BY <1>1, <2>1, <2>2
  <1>3. ASSUME NEW i \in DOMAIN x PROVE x[i] \in Range(x \o y)
    <2>1. i \in DOMAIN (x \o y) /\ (x \o y)[i] = x[i]
      BY <1>1
    <2> QED
      BY <2>1 DEF Range
  <1>4. ASSUME NEW i \in DOMAIN y PROVE y[i] \in Range(x \o y)
    <2>1. i + Len(x) \in DOMAIN (x \o y) /\ (x \o y)[i + Len(x)] = y[i]
      BY <1>1
    <2> QED
      BY <2>1 DEF Range
  <1> QED
    BY <1>1, <1>2, <1>3, <1>4 DEF Range

LEMMA InRange ==
    /\ \A name : Has(name) <=> \E t \in Range(traits) : t.name = name
    /\ \A name : Has(name)' <=> \E t \in Range(traits') : t.name = name
  BY DEF Has, Range

(* What a trait of the user's adds to the list.                            *)
LEMMA AddUserTraitRange ==
    ASSUME Typed, AddUserTrait
    PROVE  \/ UNCHANGED traits /\ stage' = "rejected"
           \/ /\ UNCHANGED traits /\ next' = next + 1 /\ stage' = "user"
              /\ decl.traits[next].name = Unknown
           \/ /\ next' = next + 1 /\ stage' = "user"
              /\ decl.traits[next].name # Unknown /\ decl.traits[next].name \in UserTraits
              /\ \E t : /\ t = Constructed(decl.traits[next])
                        /\ traits' = Append(traits, t)
                        /\ Range(traits') = Range(traits) \cup {t}
  <1>1. traits \in Seq(Traits) /\ decl.traits[next] \in UserTrait
    BY DEF Typed, TypeOK, Declaration, AddUserTrait
  <1>2. CASE traits' = Append(traits, Constructed(decl.traits[next]))
    <2>1. PICK t : t = Constructed(decl.traits[next])
      OBVIOUS
    <2>2. DOMAIN traits' = DOMAIN traits \cup {Len(traits) + 1} /\ traits'[Len(traits) + 1] = t
          /\ \A i \in DOMAIN traits : traits'[i] = traits[i]
      BY <1>1, <1>2, <2>1
    <2>3. Range(traits') = Range(traits) \cup {t}
      BY <2>2 DEF Range
    <2> QED
      BY <1>1, <1>2, <2>1, <2>3 DEF AddUserTrait, UserTrait
  <1> QED
    BY <1>1, <1>2 DEF AddUserTrait, UserTrait

(* What registration adds: the counts, then the constraints.               *)
LEMMA AddSpecTraitsRange ==
    ASSUME Typed, AddSpecTraits, stage' = "registered"
    PROVE  \E base \in Seq(Traits) :
              /\ traits' = base \o ConstraintTraits
              /\ Range(base) = Range(traits) \cup (UNION {Range(CountTrait(p)) : p \in Parts})
  <1> DEFINE ct(p) == CountTrait(p)
             t1 == traits \o ct("region")
             t2 == t1 \o ct("successor")
             t3 == t2 \o ct("operand")
             t4 == t3 \o ct("result")
  <1>1. /\ traits \in Seq(Traits)
        /\ ct("region") \in Seq(Traits) /\ ct("successor") \in Seq(Traits)
        /\ ct("operand") \in Seq(Traits) /\ ct("result") \in Seq(Traits)
        /\ ConstraintTraits \in Seq(Traits)
    BY AddedTraitsType DEF Typed, TypeOK, Parts, Blocks, Sides
  <1>2. traits' = t4 \o ConstraintTraits
    BY DEF AddSpecTraits
  <1> HIDE DEF ct
  <1>3. t1 \in Seq(Traits) /\ Range(t1) = Range(traits) \cup Range(ct("region"))
    BY <1>1, RangeConcat
  <1>4. t2 \in Seq(Traits) /\ Range(t2) = Range(t1) \cup Range(ct("successor"))
    BY <1>1, <1>3, RangeConcat
  <1>5. t3 \in Seq(Traits) /\ Range(t3) = Range(t2) \cup Range(ct("operand"))
    BY <1>1, <1>4, RangeConcat
  <1>6. t4 \in Seq(Traits) /\ Range(t4) = Range(t3) \cup Range(ct("result"))
    BY <1>1, <1>5, RangeConcat
  <1> HIDE DEF t1, t2, t3, t4
  <1>7. Range(t4) = Range(traits) \cup (UNION {Range(ct(p)) : p \in Parts})
    <2>1. UNION {Range(ct(p)) : p \in Parts} =
             ((Range(ct("region")) \cup Range(ct("successor"))) \cup Range(ct("operand")))
                 \cup Range(ct("result"))
      BY DEF Parts, Blocks, Sides
    <2> QED
      BY <1>3, <1>4, <1>5, <1>6, <2>1
  <1> QED
    BY <1>2, <1>6, <1>7 DEF ct

LEMMA CountTraitRange ==
    ASSUME NEW p \in Parts
    PROVE  Range(CountTrait(p)) =
              IF HasVariadic(Lists(p))
              THEN IF Has(AtLeastN(p)) THEN {}
                   ELSE {[name |-> AtLeastN(p), arg |-> NumFixed(Lists(p))]}
              ELSE {[name |-> N(p), arg |-> Len(Lists(p))]}
  BY DEF CountTrait, Range

LEMMA AddSpecTraitsNames ==
    ASSUME Typed, AddSpecTraits, stage' = "registered", NEW name
    PROVE  /\ Has(name) => Has(name)'
           /\ name \in Constraining => Has(name)'
           /\ Has(name)' => \/ Has(name) \/ name \in Constraining
                            \/ \E p \in Parts : name \in {N(p), AtLeastN(p)}
  <1>1. PICK base \in Seq(Traits) :
              /\ traits' = base \o ConstraintTraits
              /\ Range(base) = Range(traits) \cup (UNION {Range(CountTrait(p)) : p \in Parts})
    BY AddSpecTraitsRange
  <1>2. Range(traits') = Range(base) \cup Range(ConstraintTraits)
    BY <1>1, AddedTraitsType, RangeConcat
  <1>3. \A t \in Range(ConstraintTraits) : t.name \in Constraining
    BY ConstrainingNames DEF Range
  <1>4. \A c \in Constraining : \E t \in Range(ConstraintTraits) : t.name = c
    BY ConstrainingNames DEF Range
  <1>5. \A p \in Parts : \A t \in Range(CountTrait(p)) : t.name \in {N(p), AtLeastN(p)}
    BY CountTraitRange
  <1> QED
    BY <1>1, <1>2, <1>3, <1>4, <1>5, InRange

(* Verdicts depend on the declaration and the list of traits only.         *)
LEMMA VerdictsStable ==
    ASSUME UNCHANGED <<decl, traits>>, NEW t, NEW o
    PROVE  Verdicts(t, o)' = Verdicts(t, o)
  <1>1. \A p : Lists(p)' = Lists(p)
    BY DEF Lists
  <1>2. \A name : Has(name)' = Has(name)
    BY DEF Has
  <1>3. \A s, i : Group(o, s, i)' = Group(o, s, i)
    BY <1>1, <1>2 DEF Group
  <1>4. \A s : TypesVerdict(o, s)' = TypesVerdict(o, s)
    BY <1>1, <1>2, <1>3 DEF TypesVerdict
  <1>5. \A s : /\ SameSizesVerdict(o, s)' = SameSizesVerdict(o, s)
              /\ SegmentsVerdict(o, s)' = SegmentsVerdict(o, s)
              /\ BlocksVerdict(o, s)' = BlocksVerdict(o, s)
    BY <1>1 DEF SameSizesVerdict, SegmentsVerdict, BlocksVerdict
  <1> QED
    BY <1>4, <1>5 DEF Verdicts

(***************************************************************************)
(* The invariant of the list is inductive.                                 *)
(***************************************************************************)
LEMMA DeclarationStable ==
    ASSUME UNCHANGED decl
    PROVE  \A p : /\ Lists(p)' = Lists(p)
                  /\ Declares(p)' = Declares(p)
                  /\ SizesSpecified(p)' = SizesSpecified(p)
                  /\ OnlyLastVariadic(p)' = OnlyLastVariadic(p)
                  /\ MinimumKept(p)' = MinimumKept(p)
  <1>1. \A p : Lists(p)' = Lists(p) /\ Declares(p)' = Declares(p)
    BY DEF Lists, Declares
  <1>2. \A p : MinimumKept(p)' = MinimumKept(p)
    BY DEF MinimumKept, Lists
  <1> QED
    BY <1>1, <1>2 DEF SizesSpecified, OnlyLastVariadic

LEMMA ListStable ==
    ASSUME UNCHANGED <<decl, traits>>
    PROVE  /\ \A name : Has(name)' = Has(name)
           /\ \A i : Added(i)' = Added(i)
           /\ \A p : CountOf(p)' = CountOf(p)
           /\ OnlyDeclared' = OnlyDeclared
           /\ MinimaKept' = MinimaKept
           /\ Generated' = Generated
           /\ TypesConstrained' = (stage' \in Registered => \A name \in Constraining : Has(name))
  <1>1. \A name : Has(name)' = Has(name) /\ Declares(name)' = Declares(name)
    BY DEF Has, Declares
  <1>2. \A p : Lists(p)' = Lists(p) /\ MinimumKept(p)' = MinimumKept(p)
    BY DeclarationStable
  <1>3. \A i : Added(i)' = Added(i)
    BY DEF Added, Has
  <1>4. \A p : CountOf(p)' = CountOf(p)
    BY <1>1, <1>2 DEF CountOf
  <1>5. OnlyDeclared' = OnlyDeclared
    BY <1>1 DEF OnlyDeclared
  <1>6. MinimaKept' = MinimaKept
    BY <1>2 DEF MinimaKept
  <1>7. TypesConstrained' = (stage' \in Registered => \A name \in Constraining : Has(name))
    BY <1>1 DEF TypesConstrained
  <1>8. Generated' = Generated
    BY <1>1, <1>2 DEF Generated
  <1> QED
    BY <1>1, <1>3, <1>4, <1>5, <1>6, <1>7, <1>8

LEMMA ListInvStable ==
    ASSUME ListInv, UNCHANGED <<decl, traits>>, stage' \in Registered <=> stage \in Registered
    PROVE  ListInv'
  <1>1. OnlyDeclared' /\ MinimaKept' /\ Generated'
    BY ListStable DEF ListInv
  <1>2. Counted'
    BY ListStable DEF ListInv, Counted
  <1>3. ListOrdered'
    BY ListStable DEF ListInv, ListOrdered, Ordered
  <1> QED
    BY <1>1, <1>2, <1>3 DEF ListInv

LEMMA ListInvAddUserTrait ==
    ASSUME Typed, ListInv, AddUserTrait
    PROVE  ListInv'
  <1>1. /\ stage = "user" /\ stage' \in {"user", "rejected"} /\ UNCHANGED decl
        /\ next \in DOMAIN decl.traits
    BY DEF AddUserTrait
  <1>2. stage \notin Registered /\ stage' \notin Registered
    BY <1>1 DEF Registered, Ran
  <1>3. CASE UNCHANGED traits
    BY <1>1, <1>2, <1>3, ListInvStable
  <1>4. CASE ~UNCHANGED traits
    <2>1. PICK t : /\ t = Constructed(decl.traits[next])
                   /\ Range(traits') = Range(traits) \cup {t}
                   /\ decl.traits[next].name # Unknown
                   /\ decl.traits[next].name \in UserTraits
      BY <1>4, AddUserTraitRange
    <2>2. t.name = decl.traits[next].name
      BY <2>1 DEF Constructed
    <2>3. \A name : Has(name)' => Has(name) \/ name = decl.traits[next].name
      BY <2>1, <2>2, InRange
    <2>4. OnlyDeclared'
      <3>1. Declares(decl.traits[next].name)
        BY <1>1 DEF Declares
      <3>2. \A s \in Sides : /\ Has(SameSizes(s)) => Declares(SameSizes(s))
                             /\ Has(Segments(s)) => Declares(Segments(s))
        BY DEF ListInv, OnlyDeclared
      <3>3. \A name : Declares(name)' = Declares(name)
        BY <1>1, DeclarationStable
      <3> QED
        BY <2>3, <3>1, <3>2, <3>3 DEF OnlyDeclared
    <2>5. ListOrdered'
      <3>1. \A x \in Range(traits) : x.name \notin Constraining
        BY <1>2 DEF ListInv, ListOrdered, Range
      <3>2. \A x \in Range(traits') : x.name \notin Constraining
        BY <2>1, <2>2, <3>1, ConstrainingNames
      <3>3. \A i \in DOMAIN traits' : traits'[i].name \notin Constraining
        BY <3>2 DEF Range
      <3>4. \A x \in Range(traits') : x.name # Unknown
        BY <2>1, <2>2, InRange DEF ListInv, ListOrdered
      <3>5. ~Has(Unknown)'
        BY <3>4, InRange DEF Has, Range
      <3> QED
        BY <3>3, <3>5 DEF ListOrdered, Ordered
    <2>6. MinimaKept'
      <3>1. SUFFICES ASSUME NEW p \in Parts, MinimumKept(p), NEW x \in Range(traits'),
                            x.name = AtLeastN(p)
                     PROVE  x.arg >= NumFixed(Lists(p))
        BY <1>1, DeclarationStable DEF MinimaKept, Range
      <3>2. CASE x \in Range(traits)
        BY <3>1, <3>2 DEF ListInv, MinimaKept, Range
      <3>3. CASE x = t
        BY <1>1, <2>1, <2>2, <3>1, <3>3 DEF MinimumKept
      <3> QED
        BY <2>1, <3>1, <3>2, <3>3
    <2>7. Counted'
      BY <1>2 DEF Counted
    <2>8. Generated'
      <3>1. Declares(t.name)
        BY <1>1, <2>2 DEF Declares
      <3>2. \A p : Lists(p)' = Lists(p) /\ Declares(p)' = Declares(p)
        BY <1>1, DeclarationStable
      <3> QED
        BY <2>1, <3>1, <3>2 DEF ListInv, Generated
    <2> QED
      BY <2>4, <2>5, <2>6, <2>7, <2>8 DEF ListInv
  <1> QED
    BY <1>3, <1>4

LEMMA OrderedConcat ==
    ASSUME NEW base \in Seq(Traits), \A x \in Range(base) : x.name \notin Constraining
    PROVE  Ordered(base \o ConstraintTraits)
  <1>1. ConstraintTraits \in Seq(Traits)
    <2>1. 0 \in 0 .. UintMod - 1
      BY UintModAssumption
    <2>2. /\ TypeConstraint \in TraitNames /\ AttrConstraint \in TraitNames
          /\ BlockConstraint("region") \in TraitNames
          /\ BlockConstraint("successor") \in TraitNames
      BY DEF TraitNames, Blocks
    <2>3. \A name \in TraitNames : [name |-> name, arg |-> 0] \in Traits
      BY <2>1 DEF Traits
    <2> QED
      BY <2>2, <2>3 DEF ConstraintTraits
  <1>2. PICK ct \in Seq(Traits) : ct = ConstraintTraits
    BY <1>1
  <1>3. \A k \in DOMAIN ct : ct[k].name \in Constraining
    BY <1>2, ConstrainingNames
  <1>4. \A i \in DOMAIN (base \o ct) : (base \o ct)[i].name \in Constraining <=> i > Len(base)
    <2>1. SUFFICES ASSUME NEW i \in DOMAIN (base \o ct)
                   PROVE  (base \o ct)[i].name \in Constraining <=> i > Len(base)
      OBVIOUS
    <2>2. i \in Nat /\ Len(base) \in Nat
      OBVIOUS
    <2>3. CASE i <= Len(base)
      <3>1. i \in DOMAIN base /\ (base \o ct)[i] = base[i]
        BY <2>3
      <3> QED
        BY <2>2, <2>3, <3>1 DEF Range
    <2>4. CASE i > Len(base)
      <3>1. i - Len(base) \in DOMAIN ct /\ (base \o ct)[i] = ct[i - Len(base)]
        BY <2>4
      <3> QED
        BY <1>3, <2>4, <3>1
    <2> QED
      BY <2>2, <2>3, <2>4
  <1>5. DOMAIN (base \o ct) \in SUBSET Nat /\ Len(base) \in Nat
    OBVIOUS
  <1>6. Ordered(base \o ct)
    BY <1>4, <1>5 DEF Ordered
  <1> QED
    BY <1>2, <1>6

LEMMA ListInvAddSpecTraits ==
    ASSUME Typed, ListInv, AddSpecTraits
    PROVE  ListInv'
  <1>1. /\ stage = "user" /\ stage' \in {"registered", "rejected"} /\ UNCHANGED decl
        /\ stage' = "rejected" => UNCHANGED traits
    BY DEF AddSpecTraits
  <1>2. stage \notin Registered
    BY <1>1 DEF Registered, Ran
  <1>3. CASE stage' = "rejected"
    <2>1. stage' \notin Registered
      BY <1>3 DEF Registered, Ran
    <2> QED
      BY <1>1, <1>2, <1>3, <2>1, ListInvStable
  <1>4. CASE stage' = "registered"
    <2>1. PICK base \in Seq(Traits) :
              /\ traits' = base \o ConstraintTraits
              /\ Range(base) = Range(traits) \cup (UNION {Range(CountTrait(p)) : p \in Parts})
      BY <1>4, AddSpecTraitsRange
    <2>2. Range(traits') = Range(base) \cup Range(ConstraintTraits)
      BY <2>1, AddedTraitsType, RangeConcat
    <2>3. \A x \in Range(ConstraintTraits) : x.name \in Constraining
      BY ConstrainingNames DEF Range
    <2>4. \A x \in Range(traits) : x.name \notin Constraining /\ x.name # Unknown
      BY <1>2, InRange DEF ListInv, ListOrdered, Range
    <2>5. \A p \in Parts : \A x \in Range(CountTrait(p)) : x.name \in {N(p), AtLeastN(p)}
      BY CountTraitRange
    <2>6. \A x \in Range(base) : x.name \notin Constraining /\ x.name # Unknown
      <3>1. \A p \in Parts : \A x \in Range(CountTrait(p)) :
                x.name \notin Constraining /\ x.name # Unknown
        BY <2>5, NamesDiffer
      <3> QED
        BY <2>1, <2>4, <3>1
    <2>7. OnlyDeclared'
      <3>1. SUFFICES ASSUME NEW s \in Sides, NEW name \in {SameSizes(s), Segments(s)}, Has(name)'
                     PROVE  Declares(name)
        BY <1>1, DeclarationStable DEF OnlyDeclared
      <3>2. s \in Parts
        BY DEF Parts
      <3>3. name \notin Constraining /\ \A p \in Parts : name \notin {N(p), AtLeastN(p)}
        BY <3>2, NamesDiffer, FamiliesDiffer
      <3>4. Has(name)
        BY <1>4, <3>1, <3>3, AddSpecTraitsNames
      <3> QED
        BY <3>1, <3>4 DEF ListInv, OnlyDeclared
    <2>8. ListOrdered'
      <3>1. Ordered(base \o ConstraintTraits)
        BY <2>6, OrderedConcat
      <3>2. \A x \in Range(traits') : x.name # Unknown
        BY <2>2, <2>3, <2>6, ConstrainingNames
      <3>3. ~Has(Unknown)'
        BY <3>2 DEF Has, Range
      <3>4. Ordered(traits)'
        BY <2>1, <3>1 DEF Ordered
      <3> QED
        BY <1>4, <3>3, <3>4 DEF ListOrdered, Registered
    <2>9. MinimaKept'
      <3>1. SUFFICES ASSUME NEW p \in Parts, MinimumKept(p), NEW x \in Range(traits'),
                            x.name = AtLeastN(p)
                     PROVE  x.arg >= NumFixed(Lists(p))
        BY <1>1, DeclarationStable DEF MinimaKept, Range
      <3>2. x \in Range(base)
        BY <2>2, <2>3, <3>1, NamesDiffer
      <3>3. CASE x \in Range(traits)
        BY <3>1, <3>3 DEF ListInv, MinimaKept, Range
      <3>4. ASSUME NEW q \in Parts, x \in Range(CountTrait(q)) PROVE x.arg >= NumFixed(Lists(p))
        <4>1. x.name = AtLeastN(q) \/ x.name = N(q)
          BY <2>5, <3>4
        <4>2. q = p
          BY <3>1, <4>1, FamiliesDiffer
        <4>3. x = [name |-> AtLeastN(p), arg |-> NumFixed(Lists(p))]
          <5>1. Range(CountTrait(p)) \subseteq
                   {[name |-> AtLeastN(p), arg |-> NumFixed(Lists(p))],
                    [name |-> N(p), arg |-> Len(Lists(p))]}
            BY CountTraitRange
          <5>2. AtLeastN(p) # N(p)
            BY FamiliesDiffer
          <5> QED
            BY <3>1, <3>4, <4>2, <5>1, <5>2
        <4>4. NumFixed(Lists(p)) \in Nat
          BY ListTypes, NumFixedBound
        <4> QED
          BY <4>3, <4>4
      <3> QED
        BY <2>1, <3>2, <3>3, <3>4
    <2>10. Counted'
      <3>1. SUFFICES ASSUME NEW p \in Parts
                     PROVE  IF HasVariadic(Lists(p)) THEN Has(AtLeastN(p))'
                            ELSE [name |-> N(p), arg |-> Len(Lists(p))] \in Range(traits')
        BY <1>1, DeclarationStable DEF Counted, CountOf
      <3>2. Range(CountTrait(p)) \subseteq Range(traits')
        BY <2>1, <2>2
      <3>3. PICK name : name = AtLeastN(p)
        OBVIOUS
      <3>4. Has(name) => Has(name)'
        BY <1>4, AddSpecTraitsNames
      <3>5. CASE HasVariadic(Lists(p))
        <4>1. Has(name) \/ \E t \in Range(CountTrait(p)) : t.name = name
          <5>1. ASSUME ~Has(name)
                PROVE  [name |-> AtLeastN(p), arg |-> NumFixed(Lists(p))] \in Range(CountTrait(p))
            BY <3>3, <3>5, <5>1, CountTraitRange
          <5> QED
            BY <3>3, <5>1
        <4>2. Has(name)'
          BY <3>2, <3>4, <4>1, InRange
        <4> QED
          BY <3>3, <3>5, <4>2 DEF Has
      <3>6. CASE ~HasVariadic(Lists(p))
        <4>1. [name |-> N(p), arg |-> Len(Lists(p))] \in Range(CountTrait(p))
          BY <3>6, CountTraitRange
        <4> QED
          BY <3>2, <3>6, <4>1
      <3> QED
        BY <3>5, <3>6
    <2>11. Generated'
      <3>1. SUFFICES ASSUME NEW x \in Range(traits'), NEW p \in Parts,
                            x.name \in {N(p), AtLeastN(p)}, ~Declares(x.name)
                     PROVE  /\ x.name = N(p) => ~HasVariadic(Lists(p)) /\ x.arg = Len(Lists(p))
                            /\ x.name = AtLeastN(p) =>
                                  HasVariadic(Lists(p)) /\ x.arg = NumFixed(Lists(p))
        <4>1. \A q : Lists(q)' = Lists(q) /\ Declares(q)' = Declares(q)
          BY <1>1, DeclarationStable
        <4> QED
          BY <4>1 DEF Generated
      <3>2. x \in Range(base)
        BY <2>2, <2>3, <3>1, NamesDiffer
      <3>3. CASE x \in Range(traits)
        BY <3>1, <3>3 DEF ListInv, Generated
      <3>4. ASSUME NEW q \in Parts, x \in Range(CountTrait(q))
            PROVE  /\ x.name = N(p) => ~HasVariadic(Lists(p)) /\ x.arg = Len(Lists(p))
                   /\ x.name = AtLeastN(p) =>
                         HasVariadic(Lists(p)) /\ x.arg = NumFixed(Lists(p))
        <4>1. x.name = AtLeastN(q) \/ x.name = N(q)
          BY <2>5, <3>4
        <4>2. q = p
          BY <3>1, <4>1 DEF N, AtLeastN
        <4>3. \/ x = [name |-> AtLeastN(p), arg |-> NumFixed(Lists(p))] /\ HasVariadic(Lists(p))
              \/ x = [name |-> N(p), arg |-> Len(Lists(p))] /\ ~HasVariadic(Lists(p))
          BY <3>4, <4>2, CountTraitRange
        <4>4. AtLeastN(p) # N(p)
          BY FamiliesDiffer
        <4> QED
          BY <4>3, <4>4
      <3> QED
        BY <2>1, <3>2, <3>3, <3>4
    <2> QED
      BY <2>7, <2>8, <2>9, <2>10, <2>11 DEF ListInv
  <1> QED
    BY <1>1, <1>3, <1>4

(***************************************************************************)
(* The invariant is inductive.                                             *)
(***************************************************************************)
LEMMA BoundedStable == UNCHANGED op => (Bounded' <=> Bounded)
  BY DEF Bounded, Num

LEMMA InductiveVerifyDeclaration ==
    ASSUME IInv, Typed', VerifyDeclaration
    PROVE  IInv'
  <1>1. stage = "parsed" /\ stage' \in {"user", "rejected"} /\ UNCHANGED <<decl, traits, next, op>>
    BY DEF VerifyDeclaration
  <1>2. stage \notin Registered /\ stage' \notin Registered
    BY <1>1 DEF Registered, Ran
  <1>3. DeclarationChecked'
    <2>1. \A p : SizesSpecified(p)' = SizesSpecified(p) /\ OnlyLastVariadic(p)' = OnlyLastVariadic(p)
      BY <1>1, DeclarationStable
    <2> QED
      BY <2>1 DEF VerifyDeclaration, DeclarationChecked
  <1>4. next = 1 /\ next' = 1
    BY <1>1 DEF IInv, Passed
  <1>5. AllAdded'
    <2>1. \A i \in DOMAIN decl'.traits : ~(i < next')
      BY <1>1, <1>4 DEF IInv, Typed, TypeOK, Declaration
    <2> QED
      BY <1>2, <2>1 DEF AllAdded
  <1>6. TypesConstrained' /\ Bounded' /\ ListInv'
    BY <1>1, <1>2, BoundedStable, ListInvStable DEF IInv, TypesConstrained
  <1>7. Passed'
    BY <1>1 DEF Passed
  <1> QED
    BY <1>3, <1>5, <1>6, <1>7 DEF IInv

LEMMA InductiveAddUserTrait ==
    ASSUME IInv, Typed', AddUserTrait
    PROVE  IInv'
  <1>1. /\ stage = "user" /\ stage' \in {"user", "rejected"} /\ UNCHANGED <<decl, op>>
        /\ next \in DOMAIN decl.traits
    BY DEF AddUserTrait
  <1>2. Typed /\ ListInv /\ stage' \notin Registered
    BY <1>1 DEF IInv, Registered, Ran
  <1>3. DeclarationChecked'
    BY <1>1, DeclarationStable DEF IInv, DeclarationChecked
  <1>4. AllAdded'
    <2>1. SUFFICES ASSUME stage' = "user", NEW i \in DOMAIN decl.traits, i < next'
                   PROVE  decl.traits[i].name = Unknown \/ Has(decl.traits[i].name)'
      <3>1. stage' = "user" => \A i \in DOMAIN decl.traits : i < next' => Added(i)'
        BY <1>1, <2>1 DEF Added
      <3> QED
        BY <1>1, <1>2, <3>1 DEF AllAdded
    <2>2. PICK name : name = decl.traits[i].name
      OBVIOUS
    <2>3. /\ next' = next + 1
          /\ Range(traits) \subseteq Range(traits')
          /\ \/ decl.traits[next].name = Unknown
             \/ \E t \in Range(traits') : t.name = decl.traits[next].name
      <3>1. Constructed(decl.traits[next]).name = decl.traits[next].name
        BY DEF Constructed
      <3> QED
        BY <1>2, <2>1, <3>1, AddUserTraitRange
    <2>4. i < next => name = Unknown \/ Has(name)
      BY <1>1, <2>2 DEF IInv, AllAdded, Added
    <2>5. i \in Nat /\ next \in Nat
      BY <1>2 DEF Typed, TypeOK, Declaration
    <2>6. i < next \/ i = next
      BY <2>1, <2>3, <2>5
    <2>7. name = Unknown \/ Has(name)'
      BY <2>2, <2>3, <2>4, <2>6, InRange
    <2> QED
      BY <1>1, <2>2, <2>7 DEF Has
  <1>5. TypesConstrained' /\ Bounded' /\ ListInv'
    BY <1>1, <1>2, BoundedStable, ListInvAddUserTrait DEF IInv, TypesConstrained
  <1>6. Passed'
    BY <1>1 DEF Passed
  <1> QED
    BY <1>3, <1>4, <1>5, <1>6 DEF IInv

LEMMA InductiveAddSpecTraits ==
    ASSUME IInv, Typed', AddSpecTraits
    PROVE  IInv'
  <1>1. /\ stage = "user" /\ stage' \in {"registered", "rejected"} /\ UNCHANGED <<decl, op>>
        /\ next \notin DOMAIN decl.traits /\ next' = 1
    BY DEF AddSpecTraits
  <1>2. Typed /\ ListInv
    BY DEF IInv
  <1>3. DeclarationChecked'
    BY <1>1, DeclarationStable DEF IInv, DeclarationChecked
  <1>4. Bounded' /\ ListInv' /\ Passed'
    BY <1>1, <1>2, BoundedStable, ListInvAddSpecTraits DEF IInv, Passed
  <1>5. CASE stage' = "rejected"
    BY <1>3, <1>4, <1>5 DEF IInv, AllAdded, TypesConstrained, Registered, Ran
  <1>6. CASE stage' = "registered"
    <2>1. AllAdded'
      <3>1. SUFFICES ASSUME NEW i \in DOMAIN decl.traits PROVE Added(i)'
        BY <1>1, <1>6 DEF AllAdded
      <3>2. i < next
        BY <1>1, <1>2 DEF Typed, TypeOK, Declaration
      <3>3. PICK name : name = decl.traits[i].name
        OBVIOUS
      <3>4. name = Unknown \/ Has(name)
        BY <1>1, <3>1, <3>2, <3>3 DEF IInv, AllAdded, Added
      <3>5. Has(name) => Has(name)'
        BY <1>2, <1>6, AddSpecTraitsNames
      <3> QED
        BY <1>1, <3>3, <3>4, <3>5 DEF Added, Has
    <2>2. TypesConstrained'
      <3>1. ASSUME NEW name \in Constraining PROVE Has(name)'
        BY <1>2, <1>6, <3>1, AddSpecTraitsNames
      <3> QED
        BY <3>1 DEF TypesConstrained
    <2> QED
      BY <1>3, <1>4, <2>1, <2>2 DEF IInv
  <1> QED
    BY <1>1, <1>5, <1>6

(* The steps that leave the declaration and its traits alone.              *)
LEMMA InductiveOperation ==
    ASSUME IInv, Typed', UNCHANGED <<decl, traits>>,
           stage' \in Registered /\ stage \in Registered,
           Bounded', Passed'
    PROVE  IInv'
  <1>1. DeclarationChecked'
    BY DeclarationStable DEF IInv, DeclarationChecked, Registered, Ran
  <1>2. AllAdded'
    BY ListStable DEF IInv, AllAdded, Registered, Ran
  <1>3. TypesConstrained'
    BY ListStable DEF IInv, TypesConstrained
  <1>4. ListInv'
    BY ListInvStable DEF IInv
  <1> QED
    BY <1>1, <1>2, <1>3, <1>4 DEF IInv

LEMMA FirstTrait ==
    ASSUME IInv, stage \in Registered
    PROVE  1 \in DOMAIN traits /\ \A i \in DOMAIN traits : ~(i < 1)
  BY ConstrainingNames DEF IInv, TypesConstrained, Has, Typed, TypeOK

LEMMA AcceptsStable ==
    ASSUME UNCHANGED <<decl, traits, op>>
    PROVE  \A i : /\ Accepts(i)' = Accepts(i)
                  /\ Verdicts(traits[i], op)' = Verdicts(traits[i], op)
  <1>1. SUFFICES ASSUME NEW i
                 PROVE  /\ Accepts(i)' = Accepts(i)
                        /\ Verdicts(traits[i], op)' = Verdicts(traits[i], op)
    OBVIOUS
  <1>2. PICK t, o : t = traits[i] /\ o = op
    OBVIOUS
  <1>3. Verdicts(t, o)' = Verdicts(t, o)
    BY VerdictsStable
  <1>4. Verdicts(traits[i], op) = Verdicts(t, o) /\ Verdicts(traits[i], op)' = Verdicts(t, o)'
    BY <1>2
  <1> QED
    BY <1>3, <1>4 DEF Accepts

LEMMA InductiveVerify ==
    ASSUME IInv, Typed', Verify
    PROVE  IInv' /\ Stopped'
  <1>1. /\ stage = "registered" /\ stage' = "verifying" /\ UNCHANGED <<decl, traits, next>>
        /\ op' \in Instances[decl]
    BY DEF Verify
  <1>2. next' = 1
    BY <1>1 DEF IInv, Passed
  <1>3. Bounded'
    <2>1. decl \in Declarations
      BY DEF IInv, Typed
    <2> QED
      BY <1>1, <2>1, DeclarationsAssumption DEF Bounded, Num, Parts
  <1>4. Passed'
    BY <1>1, <1>2, FirstTrait DEF Passed, Registered, Ran
  <1> QED
    BY <1>1, <1>3, <1>4, InductiveOperation DEF Registered, Ran, Stopped

LEMMA InductiveRunTrait ==
    ASSUME IInv, Typed', RunTrait
    PROVE  IInv' /\ Stopped'
  <1>1. /\ stage = "verifying" /\ stage' \in {"verifying", "valid", "invalid", "aborted"}
        /\ UNCHANGED <<decl, traits, op>>
    BY DEF RunTrait
  <1>2. Bounded'
    BY <1>1, BoundedStable DEF IInv
  <1>3. \A i : Accepts(i)' = Accepts(i) /\ Verdicts(traits[i], op)' = Verdicts(traits[i], op)
    BY <1>1, AcceptsStable
  <1>4. traits \in Seq(Traits) /\ next \in Nat \ {0}
    BY DEF IInv, Typed, TypeOK
  <1>5. next \in DOMAIN traits /\ \A i \in DOMAIN traits : i < next => Accepts(i)
    BY <1>1 DEF IInv, Passed
  <1>6. Passed' /\ Stopped'
    <2>1. CASE stage' \in {"invalid", "aborted"}
      <3>1. /\ next' = next /\ (stage' = "aborted" => "undefined" \in Verdicts(traits[next], op))
            /\ stage' = "invalid" => "invalid" \in Verdicts(traits[next], op)
        BY <2>1 DEF RunTrait
      <3> QED
        BY <1>1, <1>3, <1>5, <2>1, <3>1 DEF Passed, Stopped
    <2>2. CASE stage' \in {"verifying", "valid"}
      <3>1. /\ "ok" \in Verdicts(traits[next], op) /\ next' = next + 1
            /\ stage' = IF next < Len(traits) THEN "verifying" ELSE "valid"
        BY <2>2 DEF RunTrait
      <3>2. Accepts(next)
        BY <3>1 DEF Accepts
      <3>3. \A i \in DOMAIN traits : i < next + 1 => Accepts(i)
        BY <1>4, <1>5, <3>2
      <3>4. stage' = "valid" => \A i \in DOMAIN traits : i < next + 1
        BY <1>4, <3>1
      <3>5. stage' = "verifying" => next + 1 \in DOMAIN traits
        BY <1>4, <3>1
      <3> QED
        BY <1>1, <1>3, <2>2, <3>1, <3>3, <3>4, <3>5 DEF Passed, Stopped
    <2> QED
      BY <1>1, <2>1, <2>2
  <1> QED
    BY <1>1, <1>2, <1>6, InductiveOperation DEF Registered, Ran

LEMMA NoOpBounded ==
    \A s \in Sides : Len(NoOp.vals[s]) < UintMod /\ \A x, y \in NoOp.segs[s] : x = y
  <1>1. \A s \in Sides : NoOp.vals[s] = <<>> /\ NoOp.segs[s] = {}
    BY DEF NoOp, Parts
  <1> QED
    BY <1>1, UintModAssumption

LEMMA InductiveDone ==
    ASSUME IInv, Typed', Done
    PROVE  IInv' /\ Stopped'
  <1>1. stage \in Registered /\ stage' = "registered" /\ next' = 1 /\ UNCHANGED <<decl, traits>>
        /\ op' = NoOp
    BY DEF Done, Registered, Ran
  <1>2. Bounded'
    BY <1>1, NoOpBounded DEF Bounded, Num
  <1>3. Passed' /\ Stopped'
    BY <1>1 DEF Passed, Stopped
  <1> QED
    BY <1>1, <1>2, <1>3, InductiveOperation DEF Registered

LEMMA InductiveStutter ==
    ASSUME IInv, UNCHANGED vars
    PROVE  IInv' /\ (Stopped => Stopped')
  <1> USE DEF vars
  <1>1. Typed'
    BY DEF IInv, Typed, TypeOK
  <1>2. DeclarationChecked'
    BY DeclarationStable DEF IInv, DeclarationChecked
  <1>3. AllAdded' /\ TypesConstrained'
    BY ListStable DEF IInv, AllAdded, TypesConstrained
  <1>4. ListInv' /\ Bounded'
    BY ListInvStable, BoundedStable DEF IInv
  <1>5. Passed' /\ (Stopped => Stopped')
    BY AcceptsStable DEF IInv, Passed, Stopped
  <1> QED
    BY <1>1, <1>2, <1>3, <1>4, <1>5 DEF IInv

VInv == IInv /\ Stopped

LEMMA Inductive ==
    ASSUME VInv, [Next]_vars
    PROVE  VInv'
  <1>1. IInv /\ Stopped /\ Typed'
    BY TypedInductive DEF VInv, IInv
  <1>2. CASE VerifyDeclaration
    BY <1>1, <1>2, InductiveVerifyDeclaration DEF VerifyDeclaration, Stopped, VInv
  <1>3. CASE AddUserTrait
    BY <1>1, <1>3, InductiveAddUserTrait DEF AddUserTrait, Stopped, VInv
  <1>4. CASE AddSpecTraits
    BY <1>1, <1>4, InductiveAddSpecTraits DEF AddSpecTraits, Stopped, VInv
  <1>5. CASE Verify
    BY <1>1, <1>5, InductiveVerify DEF VInv
  <1>6. CASE RunTrait
    BY <1>1, <1>6, InductiveRunTrait DEF VInv
  <1>7. CASE Done
    BY <1>1, <1>7, InductiveDone DEF VInv
  <1>8. CASE UNCHANGED vars
    BY <1>1, <1>8, InductiveStutter DEF VInv
  <1> QED
    BY <1>2, <1>3, <1>4, <1>5, <1>6, <1>7, <1>8 DEF Next, Terminated

LEMMA Initially == Init => VInv
  <1> SUFFICES ASSUME Init PROVE VInv
    OBVIOUS
  <1>1. stage = "parsed" /\ next = 1 /\ traits = <<>> /\ op = NoOp /\ Typed
    BY TypedInitially DEF Init
  <1>2. \A name : ~Has(name)
    BY <1>1 DEF Has
  <1>3. ListInv
    BY <1>1, <1>2 DEF ListInv, OnlyDeclared, ListOrdered, Ordered, MinimaKept, Counted,
       Generated, Range, Registered, Ran
  <1>4. Bounded
    BY <1>1, NoOpBounded DEF Bounded, Num
  <1> QED
    BY <1>1, <1>2, <1>3, <1>4 DEF IInv, VInv, Stopped, DeclarationChecked, AllAdded,
       TypesConstrained, Passed, Registered, Ran

-----------------------------------------------------------------------------
(***************************************************************************)
(* What the traits before the constraints say of an operation that they    *)
(* accepted.                                                               *)
(***************************************************************************)
Cleared ==
    /\ IInv
    /\ stage \in Registered
    /\ \A i \in DOMAIN traits : traits[i].name \notin Constraining => Accepts(i)

Verified ==
    /\ IInv
    /\ stage \in Registered
    /\ \A i \in DOMAIN traits : Accepts(i)

LEMMA VerifiedIsCleared == Verified => Cleared
  BY DEF Verified, Cleared

LEMMA ClearedFirst ==
    ASSUME IInv, stage \in {"verifying", "invalid", "aborted"}, traits[next].name \in Constraining
    PROVE  Cleared
  <1>1. next \in DOMAIN traits /\ \A i \in DOMAIN traits : i < next => Accepts(i)
    BY DEF IInv, Passed
  <1>2. DOMAIN traits \in SUBSET Nat
    BY DEF IInv, Typed, TypeOK
  <1>3. \A i \in DOMAIN traits : traits[i].name \notin Constraining => i < next
    BY <1>1, <1>2 DEF IInv, ListInv, ListOrdered, Ordered
  <1> QED
    BY <1>1, <1>3 DEF Cleared, Registered, Ran

(* The verdict of a trait that concerns one part.                          *)
LEMMA PartVerdict ==
    ASSUME Cleared, NEW p \in Parts, NEW i \in DOMAIN traits,
           traits[i].name \in {N(p), AtLeastN(p), SameSizes(p), Segments(p)}
    PROVE  CASE traits[i].name = N(p) -> Num(op, p) = traits[i].arg
             [] traits[i].name = AtLeastN(p) -> Num(op, p) >= traits[i].arg
             [] traits[i].name = SameSizes(p) -> SameSizesVerdict(op, p) = "ok"
             [] traits[i].name = Segments(p) -> SegmentsVerdict(op, p) = "ok"
  <1> DEFINE t == traits[i]
  <1>1. t.name \notin Constraining \cup {IsTerminator, Other, Unknown} /\ t.name[2] = p
    BY NamesDiffer
  <1>2. t.name # TypeConstraint /\ t.name \notin {AttrConstraint, IsTerminator, Other}
    BY <1>1 DEF Constraining
  <1>3. "ok" \in Verdicts(t, op)
    BY <1>1 DEF Cleared, Accepts
  <1>4. "ok" = CASE t.name = N(p) -> Verdict(Num(op, p) = t.arg)
                 [] t.name = AtLeastN(p) -> Verdict(Num(op, p) >= t.arg)
                 [] t.name = SameSizes(p) -> SameSizesVerdict(op, p)
                 [] t.name = Segments(p) -> SegmentsVerdict(op, p)
                 [] OTHER -> BlocksVerdict(op, p)
    BY <1>1, <1>2, <1>3 DEF Verdicts
  <1>5. /\ N(p) # AtLeastN(p) /\ SameSizes(p) \notin {N(p), AtLeastN(p)}
        /\ Segments(p) \notin {N(p), AtLeastN(p), SameSizes(p)}
    BY NamesDiffer
  <1>6. CASE t.name = N(p)
    <2>1. "ok" = Verdict(Num(op, p) = t.arg)
      BY <1>4, <1>5, <1>6
    <2> QED
      BY <1>5, <1>6, <2>1 DEF Verdict
  <1>7. CASE t.name = AtLeastN(p)
    <2>1. "ok" = Verdict(Num(op, p) >= t.arg)
      BY <1>4, <1>5, <1>7
    <2> QED
      BY <1>5, <1>7, <2>1 DEF Verdict
  <1>8. CASE t.name = SameSizes(p)
    BY <1>4, <1>5, <1>8
  <1>9. CASE t.name = Segments(p)
    BY <1>4, <1>5, <1>9
  <1> QED
    BY <1>6, <1>7, <1>8, <1>9

LEMMA CountsHold ==
    ASSUME Cleared, NEW p \in Parts
    PROVE  /\ Num(op, p) \in Nat
           /\ ~HasVariadic(Lists(p)) => Num(op, p) = Len(Lists(p))
           /\ HasVariadic(Lists(p)) /\ MinimumKept(p) => Num(op, p) >= NumFixed(Lists(p))
  <1>1. Num(op, p) \in Nat
    BY DEF Cleared, IInv, Typed, TypeOK, Operation, Num
  <1>2. CountOf(p)
    BY DEF Cleared, IInv, ListInv, Counted
  <1>3. ASSUME ~HasVariadic(Lists(p)) PROVE Num(op, p) = Len(Lists(p))
    <2>1. PICK i \in DOMAIN traits : traits[i] = [name |-> N(p), arg |-> Len(Lists(p))]
      BY <1>2, <1>3 DEF CountOf, Range
    <2>2. traits[i].name = N(p) /\ traits[i].arg = Len(Lists(p))
      BY <2>1
    <2>3. SameSizes(p) # N(p) /\ AtLeastN(p) # N(p) /\ Segments(p) # N(p)
      BY NamesDiffer
    <2> QED
      BY <2>2, <2>3, PartVerdict
  <1>4. ASSUME HasVariadic(Lists(p)), MinimumKept(p) PROVE Num(op, p) >= NumFixed(Lists(p))
    <2>1. PICK i \in DOMAIN traits : traits[i].name = AtLeastN(p)
      BY <1>2, <1>4 DEF CountOf, Has
    <2>2. traits[i].arg >= NumFixed(Lists(p)) /\ traits[i].arg \in Nat
      <3>1. traits[i] \in Traits /\ UintMod \in Nat
        BY UintModAssumption DEF Cleared, IInv, Typed, TypeOK
      <3> QED
        BY <1>4, <2>1, <3>1 DEF Cleared, IInv, ListInv, MinimaKept, Traits
    <2>3. NumFixed(Lists(p)) \in Nat
      BY ListTypes, NumFixedBound DEF Cleared, IInv
    <2>4. SameSizes(p) # AtLeastN(p) /\ N(p) # AtLeastN(p) /\ Segments(p) # AtLeastN(p)
      BY NamesDiffer
    <2>5. Num(op, p) >= traits[i].arg
      BY <2>1, <2>4, PartVerdict
    <2> QED
      BY <1>1, <2>2, <2>3, <2>5
  <1> QED
    BY <1>1, <1>3, <1>4

LEMMA SizesHold ==
    ASSUME Cleared, NEW s \in Sides
    PROVE  /\ Has(SameSizes(s)) => HasVariadic(Lists(s)) /\ Divisible(Lists(s), Num(op, s))
           /\ Has(Segments(s)) =>
                 \E segs \in op.segs[s] : SegmentsAddUp(segs, Num(op, s)) /\ SegmentsFit(Lists(s), segs)
           /\ ~Has(SameSizes(s)) /\ ~Has(Segments(s)) => ~HasVariadic(Lists(s))
  <1>1. s \in Parts
    BY DEF Parts
  <1>2. ASSUME Has(SameSizes(s)) PROVE SameSizesVerdict(op, s) = "ok"
    <2>1. PICK i \in DOMAIN traits : traits[i].name = SameSizes(s)
      BY <1>2 DEF Has
    <2>2. SameSizes(s) # AtLeastN(s) /\ SameSizes(s) # N(s) /\ SameSizes(s) # Segments(s)
      BY <1>1, NamesDiffer
    <2> QED
      BY <1>1, <2>1, <2>2, PartVerdict
  <1>3. ASSUME Has(Segments(s)) PROVE SegmentsVerdict(op, s) = "ok"
    <2>1. PICK i \in DOMAIN traits : traits[i].name = Segments(s)
      BY <1>3 DEF Has
    <2>2. Segments(s) # AtLeastN(s) /\ Segments(s) # N(s) /\ Segments(s) # SameSizes(s)
      BY <1>1, NamesDiffer
    <2> QED
      BY <1>1, <2>1, <2>2, PartVerdict
  <1>4. ASSUME ~Has(SameSizes(s)), ~Has(Segments(s)) PROVE ~HasVariadic(Lists(s))
    <2>1. \A i \in DOMAIN decl.traits : Added(i)
      BY DEF Cleared, IInv, AllAdded
    <2>2. ~Declares(SameSizes(s)) /\ ~Declares(Segments(s))
      BY <1>1, <1>4, <2>1, NamesDiffer DEF Added, Declares
    <2> QED
      BY <2>2 DEF Cleared, IInv, DeclarationChecked, SizesSpecified, Registered, Ran
  <1>5. SameSizesVerdict(op, s) = "ok" => HasVariadic(Lists(s)) /\ Divisible(Lists(s), Num(op, s))
    BY DEF SameSizesVerdict, Verdict
  <1>6. SegmentsVerdict(op, s) = "ok" =>
           \E segs \in op.segs[s] : SegmentsAddUp(segs, Num(op, s)) /\ SegmentsFit(Lists(s), segs)
    BY DEF SegmentsVerdict, Verdict
  <1> QED
    BY <1>2, <1>3, <1>4, <1>5, <1>6

(***************************************************************************)
(* The groups, by what their sizes come from.                              *)
(***************************************************************************)
Within(s) == \A i \in DOMAIN Lists(s) : Group(op, s, i) \subseteq 1 .. Num(op, s)

LEMMA ListOfSide ==
    ASSUME IInv, NEW s \in Sides
    PROVE  /\ s \in Parts
           /\ Lists(s) \in Seq(Constraints) /\ Len(Lists(s)) \in Nat /\ Len(Lists(s)) < UintMod
           /\ DOMAIN Lists(s) = 1 .. Len(Lists(s))
           /\ Num(op, s) \in Nat /\ Num(op, s) < UintMod
  <1>1. s \in Parts /\ Typed
    BY DEF IInv, Parts
  <1>2. Lists(s) \in Seq(Constraints) /\ Len(Lists(s)) \in Nat /\ Len(Lists(s)) < UintMod
    BY <1>1, ListTypes
  <1>3. Num(op, s) \in Nat
    BY <1>1 DEF Typed, TypeOK, Operation, Num
  <1> QED
    BY <1>1, <1>2, <1>3 DEF IInv, Bounded

(* The segment sizes that the group arithmetic reads are the ones that the *)
(* trait checked.                                                          *)
SegmentsOf(s) == CHOOSE x \in op.segs[s] : TRUE

LEMMA SegmentsChosen ==
    ASSUME Cleared, NEW s \in Sides, Has(Segments(s))
    PROVE  /\ SegmentsOf(s) \in Seq(Nat)
           /\ SegmentsAddUp(SegmentsOf(s), Num(op, s))
           /\ SegmentsFit(Lists(s), SegmentsOf(s))
  <1>1. PICK segs \in op.segs[s] : SegmentsAddUp(segs, Num(op, s)) /\ SegmentsFit(Lists(s), segs)
    BY SizesHold
  <1>2. SegmentsOf(s) \in op.segs[s]
    BY <1>1 DEF SegmentsOf
  <1>3. SegmentsOf(s) = segs
    BY <1>1, <1>2 DEF Cleared, IInv, Bounded
  <1>4. op.segs[s] \subseteq Seq(Nat)
    BY DEF Cleared, IInv, Typed, TypeOK, Operation
  <1> QED
    BY <1>1, <1>2, <1>3, <1>4

LEMMA SegmentsTile ==
    ASSUME Cleared, NEW s \in Sides, Has(Segments(s))
    PROVE  Tiled(op, s) /\ Within(s)
  <1> DEFINE n == Len(Lists(s))
  <1>1. PICK segs \in Seq(Nat) : /\ segs = SegmentsOf(s)
                                 /\ SegmentsAddUp(segs, Num(op, s))
                                 /\ SegmentsFit(Lists(s), segs)
    BY SegmentsChosen
  <1>2. n \in Nat /\ DOMAIN Lists(s) = 1 .. n /\ Len(segs) = n
    BY <1>1, ListOfSide DEF SegmentsFit, Cleared
  <1>3. PICK first : /\ Bounds(first, n)
                     /\ \A i \in 1 .. n + 1 : first[i] = SizedFirst(segs, i) /\ first[i] \in Nat
                     /\ \A i \in 1 .. n : first[i + 1] = first[i] + segs[i] /\ segs[i] \in Nat
    BY <1>2, SizedBounds
  <1>4. \A i \in 1 .. n : Group(op, s, i) = SizedFirst(segs, i) + 1 .. SizedFirst(segs, i) + segs[i]
    BY <1>1 DEF Group, SegmentsOf
  <1> HIDE DEF n
  <1>5. \A i \in 1 .. n : i \in 1 .. n + 1 /\ i + 1 \in 1 .. n + 1
    BY <1>2
  <1>6. \A i \in 1 .. n : Group(op, s, i) = Slice(first, i)
    BY <1>3, <1>4, <1>5 DEF Slice
  <1>7. first[n + 1] = Num(op, s)
    BY <1>1, <1>2, <1>3 DEF SegmentsAddUp
  <1>8. /\ UNION {Slice(first, i) : i \in 1 .. n} = 1 .. Num(op, s)
        /\ \A i, j \in 1 .. n : i < j =>
              \A x \in Slice(first, i), y \in Slice(first, j) : x < y
        /\ \A i \in 1 .. n : Slice(first, i) \subseteq 1 .. Num(op, s)
    BY <1>2, <1>3, <1>7, SlicesTile
  <1>9. ASSUME NEW i \in 1 .. n, ~Lists(s)[i].variadic
        PROVE  Cardinality(Group(op, s, i)) = 1
    <2>1. first[i + 1] = first[i] + 1 /\ first[i] \in Nat
      BY <1>1, <1>2, <1>3, <1>5, <1>9 DEF SegmentsFit
    <2>2. Group(op, s, i) = {first[i] + 1}
      BY <1>6, <2>1 DEF Slice
    <2> QED
      BY <2>2, FS_Singleton
  <1>10. UNION {Group(op, s, i) : i \in 1 .. n} = 1 .. Num(op, s)
    BY <1>6, <1>8
  <1>11. Tiled(op, s)
    BY <1>6, <1>8, <1>9, <1>10 DEF Tiled, n
  <1>12. Within(s)
    BY <1>2, <1>6, <1>8 DEF Within
  <1> QED
    BY <1>11, <1>12

(* Groups of one size, when no value is missing: nothing wraps.            *)
LEMMA SameSizesWithin ==
    ASSUME Cleared, NEW s \in Sides, ~Has(Segments(s)), Has(SameSizes(s)),
           Num(op, s) >= NumFixed(Lists(s))
    PROVE  /\ Within(s)
           /\ \A i \in DOMAIN Lists(s) :
                 SameFirst(Lists(s), Num(op, s), i) + SameSize(Lists(s), Num(op, s), i) <= Num(op, s)
  <1> DEFINE tys == Lists(s)
             n == Num(op, s)
             k == Len(tys)
             first == [i \in 1 .. k + 1 |-> SameFirst(tys, n, i)]
  <1>1. /\ tys \in Seq(Constraints) /\ k \in Nat /\ k < UintMod /\ DOMAIN tys = 1 .. k
        /\ n \in Nat /\ n < UintMod
    BY ListOfSide DEF Cleared
  <1>2. HasVariadic(tys) /\ Divisible(tys, n) /\ n >= NumFixed(tys)
    BY SizesHold
  <1>3. \A i \in 1 .. k : Group(op, s, i) =
            SameFirst(tys, n, i) + 1 .. SameFirst(tys, n, i) + SameSize(tys, n, i)
    BY DEF Group
  <1>4. \A i \in 1 .. k + 1 : first[i] = SameFirst(tys, n, i)
    OBVIOUS
  <1>5. Within(s) <=> \A i \in DOMAIN tys : Group(op, s, i) \subseteq 1 .. n
    BY DEF Within
  <1>6. k \in Nat \ {0}
    BY <1>1, <1>2 DEF HasVariadic, Variadics
  <1> HIDE DEF tys, n, k
  <1>7. /\ SameFirst(tys, n, 1) = 0
        /\ \A i \in 1 .. k :
             /\ SameSize(tys, n, i) \in Nat
             /\ SameFirst(tys, n, i) \in Nat /\ SameFirst(tys, n, i + 1) \in Nat
             /\ SameFirst(tys, n, i + 1) = SameFirst(tys, n, i) + SameSize(tys, n, i)
        /\ SameFirst(tys, n, k + 1)
             = NumFixed(tys) + SegmentSize(tys, n) * Cardinality(Variadics(tys))
    BY <1>1, <1>2, FirstSteps DEF k
  <1>8. SameFirst(tys, n, k + 1) = n
    <2>1. /\ Cardinality(Variadics(tys)) \in Nat \ {0} /\ NumFixed(tys) \in Nat
          /\ NumVariadicValues(tys, n) \in Nat
      BY <1>1, <1>2, SegmentSizeType
    <2>2. NumVariadicValues(tys, n) = n - NumFixed(tys)
      <3>1. (n - NumFixed(tys)) \in Int /\ -UintMod < n - NumFixed(tys) /\ n - NumFixed(tys) < UintMod
            /\ n - NumFixed(tys) >= 0 /\ UintMod \in Nat \ {0}
        BY <1>1, <1>2, <2>1, UintModAssumption
      <3> QED
        BY <3>1, Wrap DEF NumVariadicValues
    <2>3. SegmentSize(tys, n) * Cardinality(Variadics(tys)) = NumVariadicValues(tys, n)
      BY <1>2, <2>1, DivideExactly DEF Divisible, SegmentSize
    <2> QED
      BY <1>1, <1>7, <2>1, <2>2, <2>3
  <1>9. Bounds(first, k)
    <2>1. ASSUME NEW i \in 1 .. k + 1 PROVE SameFirst(tys, n, i) \in Nat
      <3>1. CASE i \in 1 .. k
        BY <1>7, <3>1
      <3>2. CASE i \notin 1 .. k
        <4>1. i = k + 1
          BY <1>1, <3>2
        <4> QED
          BY <1>1, <1>8, <4>1
      <3> QED
        BY <3>1, <3>2
    <2>2. first \in [1 .. k + 1 -> Nat]
      BY <2>1
    <2>3. \A i \in 1 .. k : first[i] <= first[i + 1]
      <3>1. \A i \in 1 .. k : i \in 1 .. k + 1 /\ i + 1 \in 1 .. k + 1
        BY <1>1
      <3> HIDE DEF first
      <3> QED
        BY <1>4, <1>7, <3>1
    <2>4. first[1] = 0
      BY <1>1, <1>7
    <2> QED
      BY <2>2, <2>3, <2>4 DEF Bounds
  <1>10. first[k + 1] = n
    BY <1>1, <1>8
  <1> HIDE DEF first
  <1>11. \A i \in 1 .. k : Slice(first, i) \subseteq 1 .. n
    BY <1>1, <1>9, <1>10, SlicesTile
  <1>12. \A i \in 1 .. k : Group(op, s, i) = Slice(first, i)
    <2>1. \A i \in 1 .. k : i \in 1 .. k + 1 /\ i + 1 \in 1 .. k + 1
      BY <1>1
    <2> QED
      BY <1>3, <1>4, <1>7, <2>1 DEF Slice
  <1>13. \A i \in 1 .. k : SameFirst(tys, n, i) + SameSize(tys, n, i) <= n
    <2>1. \A i \in 1 .. k : i + 1 \in 1 .. k + 1 /\ k + 1 \in 1 .. k + 1 /\ i + 1 <= k + 1
      BY <1>1
    <2>2. \A i \in 1 .. k : first[i + 1] <= n
      BY <1>1, <1>9, <1>10, <2>1, BoundsGrow
    <2> QED
      BY <1>4, <1>7, <2>1, <2>2
  <1> QED
    BY <1>1, <1>5, <1>11, <1>12, <1>13 DEF tys, n

(***************************************************************************)
(* With every minimum kept, no constraint trait reads past the last value. *)
(***************************************************************************)
LEMMA TypesDefined ==
    ASSUME Cleared, NEW s \in Sides, MinimumKept(s)
    PROVE  TypesVerdict(op, s) # "undefined"
  <1>1. CASE Has(Segments(s)) \/ Has(SameSizes(s))
    <2>1. Within(s)
      <3>1. CASE Has(Segments(s))
        BY <3>1, SegmentsTile
      <3>2. CASE ~Has(Segments(s))
        <4>1. HasVariadic(Lists(s)) /\ s \in Parts
          BY <1>1, <3>2, SizesHold DEF Parts
        <4>2. Num(op, s) >= NumFixed(Lists(s))
          BY <4>1, CountsHold
        <4> QED
          BY <1>1, <3>2, <4>2, SameSizesWithin
      <3> QED
        BY <3>1, <3>2
    <2> QED
      BY <1>1, <2>1 DEF TypesVerdict, InOrder, Within
  <1>2. CASE ~Has(Segments(s)) /\ ~Has(SameSizes(s))
    <2>1. ~HasVariadic(Lists(s)) /\ s \in Parts
      BY <1>2, SizesHold DEF Parts
    <2>2. Num(op, s) = Len(Lists(s))
      BY <2>1, CountsHold
    <2> QED
      BY <1>2, <2>2 DEF TypesVerdict, InOrder
  <1> QED
    BY <1>1, <1>2

(* Every fixed name of a list of blocks has its block. *)
LEMMA BlocksThere ==
    ASSUME Cleared, NEW b \in Blocks, MinimumKept(b), NEW i \in DOMAIN Lists(b),
           ~Lists(b)[i].variadic
    PROVE  i <= Num(op, b)
  <1> DEFINE tys == Lists(b)
             n == Num(op, b)
  <1>1. b \in Parts /\ Typed
    BY DEF Cleared, IInv, Parts
  <1>2. tys \in Seq(Constraints) /\ Len(tys) \in Nat /\ DOMAIN tys = 1 .. Len(tys)
    BY <1>1, ListTypes
  <1>3. Variadics(tys) \subseteq {Len(tys)}
    BY DEF Cleared, IInv, DeclarationChecked, OnlyLastVariadic, Registered, Ran
  <1>4. n \in Nat /\ (~HasVariadic(tys) => n = Len(tys)) /\ (HasVariadic(tys) => n >= NumFixed(tys))
    BY <1>1, CountsHold
  <1>5. i \in DOMAIN tys /\ ~tys[i].variadic /\ (i > n => FALSE) => i <= Num(op, b)
    BY <1>2, <1>4
  <1>6. i \in DOMAIN tys /\ ~tys[i].variadic
    OBVIOUS
  <1> HIDE DEF tys, n
  <1>7. SUFFICES ASSUME i > n PROVE FALSE
    BY <1>5, <1>6
  <1>8. CASE ~HasVariadic(tys)
    BY <1>7, <1>2, <1>4, <1>6, <1>8
  <1>9. CASE HasVariadic(tys)
    <2>1. Variadics(tys) = {Len(tys)} /\ Len(tys) \in DOMAIN tys
      BY <1>3, <1>9 DEF HasVariadic, Variadics
    <2>2. i # Len(tys)
      BY <1>6, <2>1 DEF Variadics
    <2>3. NumFixed(tys) = Len(tys) - 1
      <3>1. IsFiniteSet(DOMAIN tys) /\ Cardinality(DOMAIN tys) = Len(tys)
        <4>1. SUFFICES ASSUME NEW j \in Nat
                       PROVE  IsFiniteSet(1 .. j) /\ Cardinality(1 .. j) = j
          BY <1>2
        <4>2. /\ IsFiniteSet(1 .. j)
              /\ Cardinality(1 .. j) = IF 1 > j THEN 0 ELSE j - 1 + 1
          BY FS_Interval
        <4> QED
          BY <4>2
      <3>2. Cardinality(DOMAIN tys \ {Len(tys)}) = Cardinality(DOMAIN tys) - 1
        BY <2>1, <3>1, FS_RemoveElement
      <3> QED
        BY <2>1, <3>1, <3>2 DEF NumFixed
    <2> QED
      BY <1>7, <1>2, <1>4, <1>6, <1>9, <2>2, <2>3
  <1> QED
    BY <1>8, <1>9

LEMMA BlocksDefined ==
    ASSUME Cleared, NEW b \in Blocks, MinimumKept(b)
    PROVE  BlocksVerdict(op, b) # "undefined"
  <1>1. Lists(b) \in Seq(Constraints) /\ Num(op, b) \in Nat
    BY ListTypes, CountsHold DEF Cleared, IInv, Parts
  <1>2. \A i \in DOMAIN Lists(b) : ~(~Lists(b)[i].variadic /\ i > Num(op, b))
    BY <1>1, BlocksThere
  <1> QED
    BY <1>2 DEF BlocksVerdict, InOrder

LEMMA ConstraintsDefined ==
    ASSUME Cleared, \A p \in Parts : MinimumKept(p), NEW i \in DOMAIN traits,
           traits[i].name \in Constraining
    PROVE  "undefined" \notin Verdicts(traits[i], op)
  <1> DEFINE t == traits[i]
  <1>1. CASE t.name = TypeConstraint
    <2>1. \A s \in Sides : TypesVerdict(op, s) # "undefined"
      BY TypesDefined DEF Parts
    <2> QED
      BY <1>1, <2>1 DEF Verdicts, Sides
  <1>2. CASE t.name = AttrConstraint
    BY <1>2 DEF Verdicts, TypeConstraint, AttrConstraint
  <1>3. ASSUME NEW b \in Blocks, t.name = BlockConstraint(b)
        PROVE  "undefined" \notin Verdicts(t, op)
    <2>1. b \in Parts
      BY DEF Parts
    <2>2. /\ t.name[2] = b
          /\ t.name \notin {TypeConstraint, AttrConstraint, IsTerminator, Other,
                            N(b), AtLeastN(b), SameSizes(b), Segments(b)}
      BY <1>3, <2>1, NamesDiffer
    <2>3. Verdicts(t, op) = {BlocksVerdict(op, b)}
      BY <2>2 DEF Verdicts
    <2> QED
      BY <2>1, <2>3, BlocksDefined
  <1> QED
    BY <1>1, <1>2, <1>3 DEF Constraining

(* The traits before the constraints count, or divide by a number that is  *)
(* not zero.                                                               *)
LEMMA OthersDefined ==
    ASSUME IInv, \A s \in Sides : SpecifierUsed(s), NEW i \in DOMAIN traits,
           traits[i].name \notin Constraining
    PROVE  "undefined" \notin Verdicts(traits[i], op)
  <1> DEFINE t == traits[i]
  <1>1. t.name \in UserTraits /\ t.name # Unknown
    <2>1. t \in Traits /\ t.name # Unknown
      BY DEF IInv, Typed, TypeOK, ListInv, ListOrdered, Has
    <2> QED
      BY <2>1 DEF Traits, TraitNames, Constraining
  <1>2. CASE t.name \in {IsTerminator, Other}
    BY <1>2 DEF Verdicts, TypeConstraint, IsTerminator, Other
  <1>3. ASSUME NEW p \in Parts, t.name \in {N(p), AtLeastN(p), SameSizes(p), Segments(p)},
               t.name = SameSizes(p) => p \in Sides
        PROVE  "undefined" \notin Verdicts(t, op)
    <2>1. t.name \notin Constraining \cup {IsTerminator, Other, Unknown} /\ t.name[2] = p
      BY <1>3, NamesDiffer
    <2>2. t.name # TypeConstraint /\ t.name \notin {AttrConstraint, IsTerminator, Other}
      BY <2>1 DEF Constraining
    <2>3. Verdicts(t, op) \subseteq
             {Verdict(Num(op, p) = t.arg), Verdict(Num(op, p) >= t.arg), SegmentsVerdict(op, p)}
                 \cup (IF t.name = SameSizes(p) THEN {SameSizesVerdict(op, p)} ELSE {})
      BY <1>3, <2>1, <2>2 DEF Verdicts
    <2>4. t.name = SameSizes(p) => SameSizesVerdict(op, p) # "undefined"
      <3>1. ASSUME t.name = SameSizes(p) PROVE HasVariadic(Lists(p))
        BY <1>3, <3>1 DEF SpecifierUsed, Has
      <3> QED
        BY <3>1 DEF SameSizesVerdict, Verdict
    <2> QED
      BY <2>3, <2>4 DEF Verdict, SegmentsVerdict
  <1>4. CASE t.name \notin {IsTerminator, Other}
    <2>1. \/ \E p \in Parts : t.name \in {N(p), AtLeastN(p)}
          \/ \E s \in Sides : t.name \in {SameSizes(s), Segments(s)}
      BY <1>1, <1>4 DEF UserTraits
    <2>2. ASSUME NEW p \in Parts, t.name \in {N(p), AtLeastN(p)}
          PROVE  "undefined" \notin Verdicts(t, op)
      BY <1>3, <2>2, FamiliesDiffer
    <2>3. ASSUME NEW s \in Sides, t.name \in {SameSizes(s), Segments(s)}
          PROVE  "undefined" \notin Verdicts(t, op)
      BY <1>3, <2>3 DEF Parts
    <2> QED
      BY <2>1, <2>2, <2>3
  <1> QED
    BY <1>2, <1>4

LEMMA VerdictDefined ==
    ASSUME IInv, stage \in {"verifying", "invalid", "aborted"},
           \A p \in Parts : MinimumKept(p), \A s \in Sides : SpecifierUsed(s)
    PROVE  "undefined" \notin Verdicts(traits[next], op)
  <1>1. next \in DOMAIN traits
    BY DEF IInv, Passed
  <1>2. CASE traits[next].name \in Constraining
    BY <1>1, <1>2, ClearedFirst, ConstraintsDefined
  <1>3. CASE traits[next].name \notin Constraining
    BY <1>1, <1>3, OthersDefined
  <1> QED
    BY <1>2, <1>3

(***************************************************************************)
(* What an operation that verified is like.                                *)
(***************************************************************************)
LEMMA TypesMet ==
    ASSUME Verified, NEW s \in Sides
    PROVE  TypesVerdict(op, s) = "ok"
  <1>1. PICK i \in DOMAIN traits : traits[i].name = TypeConstraint
    BY DEF Verified, IInv, TypesConstrained, Constraining, Has
  <1>2. "ok" \in (IF TypesVerdict(op, "operand") = "ok" THEN {TypesVerdict(op, "result")}
                  ELSE {TypesVerdict(op, "operand")})
    BY <1>1 DEF Verified, Accepts, Verdicts
  <1> QED
    BY <1>2 DEF Sides

LEMMA SameSizesTile ==
    ASSUME Verified, NEW s \in Sides, ~Has(Segments(s)), Has(SameSizes(s))
    PROVE  Tiled(op, s) /\ Within(s)
  <1> DEFINE tys == Lists(s)
             n == Num(op, s)
  <1>1. /\ tys \in Seq(Constraints) /\ Len(tys) \in Nat /\ Len(tys) < UintMod
        /\ DOMAIN tys = 1 .. Len(tys) /\ n \in Nat /\ n < UintMod
    BY ListOfSide DEF Verified
  <1>2. HasVariadic(tys) /\ Divisible(tys, n)
    BY SizesHold, VerifiedIsCleared
  <1>3. \A i \in 1 .. Len(tys) : Group(op, s, i) = SameGroup(tys, n, i)
    BY DEF Group, SameGroup
  <1>4. \A i \in DOMAIN tys : Group(op, s, i) \subseteq 1 .. n
    BY TypesMet DEF TypesVerdict, InOrder
  <1> HIDE DEF tys, n
  <1>5. \A i \in 1 .. Len(tys) : SameGroup(tys, n, i) \subseteq 1 .. n
    BY <1>1, <1>3, <1>4
  <1>6. UNION {SameGroup(tys, n, i) : i \in 1 .. Len(tys)} = 1 .. n
    BY <1>1, <1>2, <1>5, GroupsCover
  <1>7. ASSUME NEW i \in 1 .. Len(tys), NEW j \in 1 .. Len(tys), i < j
        PROVE  \A x \in Group(op, s, i), y \in Group(op, s, j) : x < y
    BY <1>1, <1>2, <1>3, <1>7, GroupsInOrder
  <1>8. ASSUME NEW i \in 1 .. Len(tys), ~tys[i].variadic
        PROVE  Cardinality(Group(op, s, i)) = 1
    <2>1. SameSize(tys, n, i) = 1
      BY <1>8 DEF SameSize, Variadics
    <2>2. SameFirst(tys, n, i) \in Nat
      BY <1>1, <1>2, FirstSteps
    <2>3. SameGroup(tys, n, i) = {SameFirst(tys, n, i) + 1}
      BY <2>1, <2>2 DEF SameGroup
    <2> QED
      BY <1>3, <2>3, FS_Singleton
  <1>9. UNION {Group(op, s, i) : i \in 1 .. Len(tys)} = 1 .. n
    BY <1>3, <1>6
  <1>10. Tiled(op, s)
    BY <1>7, <1>8, <1>9 DEF Tiled, tys, n
  <1> QED
    BY <1>4, <1>10 DEF Within, tys, n

(* Without a specifier nothing is variadic, and group i is the value at i. *)
LEMMA PlainTile ==
    ASSUME Cleared, NEW s \in Sides, ~Has(Segments(s)), ~Has(SameSizes(s))
    PROVE  Tiled(op, s) /\ Within(s)
  <1> DEFINE tys == Lists(s)
             n == Num(op, s)
  <1>1. tys \in Seq(Constraints) /\ Len(tys) \in Nat /\ DOMAIN tys = 1 .. Len(tys)
    BY ListOfSide DEF Cleared
  <1>2. ~HasVariadic(tys) /\ n = Len(tys)
    BY SizesHold, CountsHold DEF Parts
  <1>3. \A i : Group(op, s, i) = {i}
    BY DEF Group
  <1> HIDE DEF tys, n
  <1>4. \A i \in 1 .. Len(tys) : ~tys[i].variadic /\ Cardinality(Group(op, s, i)) = 1
    BY <1>1, <1>2, <1>3, FS_Singleton DEF HasVariadic, Variadics
  <1>5. UNION {Group(op, s, i) : i \in 1 .. Len(tys)} = 1 .. n
    BY <1>2, <1>3
  <1>6. Tiled(op, s)
    BY <1>3, <1>4, <1>5 DEF Tiled, tys, n
  <1> QED
    BY <1>1, <1>2, <1>3, <1>6 DEF Within, tys, n

LEMMA VerifiedTiles ==
    ASSUME Verified, NEW s \in Sides
    PROVE  Tiled(op, s) /\ Within(s) /\ Accepted(op, s)
  <1>1. Tiled(op, s) /\ Within(s)
    BY VerifiedIsCleared, SegmentsTile, SameSizesTile, PlainTile
  <1>2. \A i \in DOMAIN Lists(s) : \A j \in Group(op, s, i) \cap (1 .. Num(op, s)) :
            op.vals[s][j] \in Lists(s)[i].accepts
    BY TypesMet DEF TypesVerdict, InOrder
  <1> QED
    BY <1>1, <1>2 DEF Within, Accepted

(***************************************************************************)
(* The assertions of the constraint traits hold and no value is read past  *)
(* the last, whatever the declarations, their lengths, the operations and  *)
(* the width of the sizes, as long as the declaration lowers no minimum    *)
(* and gives no size specifier to a list without variadic values: verify   *)
(* of DynamicOperation runs the counts and the specifiers first, and they  *)
(* are enough for all that the constraints index.                          *)
(***************************************************************************)
THEOREM ConstraintsNeverOverrun == Spec => []NeverUndefined
  <1>1. VInv => NeverUndefined
    BY VerdictDefined DEF VInv, Stopped, NeverUndefined
  <1>2. VInv /\ [Next]_vars => VInv'
    BY Inductive
  <1> QED
    BY <1>1, <1>2, Initially, PTL DEF Spec

(***************************************************************************)
(* When an operation has verified, the groups of its operands, and of its  *)
(* results, share out its values in order, a fixed name denotes one value  *)
(* and every value meets the constraint of its group, for any declaration, *)
(* also when the sizes are an attribute of the operation and when the      *)
(* unsigned difference of checkVariadicValues wrapped: the constraints are *)
(* then looked at past the last value and the operation does not verify.   *)
(***************************************************************************)
THEOREM GroupsShareValues == Spec => []GroupsTileValues
  <1>1. VInv => GroupsTileValues
    <2>1. ASSUME VInv, stage = "valid" PROVE Verified
      BY <2>1 DEF VInv, IInv, Passed, Verified, Registered, Ran
    <2> QED
      BY <2>1, VerifiedTiles DEF GroupsTileValues
  <1>2. VInv /\ [Next]_vars => VInv'
    BY Inductive
  <1> QED
    BY <1>1, <1>2, Initially, PTL DEF Spec

-----------------------------------------------------------------------------
(***************************************************************************)
(* What the constraints of SpecTypes.cpp and SpecRegion.cpp accept is what *)
(* they say, but for conjunctions of constraints, which accept less: every *)
(* way to make a constraint of others keeps this.                          *)
(***************************************************************************)
THEOREM ConstraintsAreFaithful ==
    /\ \A t \in Sorts : Faithful(Type(t))
    /\ \A S \in SUBSET Sorts : Faithful(Predicate(S))
    /\ \A list \in SUBSET {c \in Constraints : Faithful(c)} :
          Faithful(AnyOf(list)) /\ Faithful(AllOf(list))
    /\ \A c \in Constraints : Faithful(c) => Faithful(Variadic(c))
  <1>1. \A t \in Sorts : Faithful(Type(t))
    BY DEF Faithful, Type
  <1>2. \A S \in SUBSET Sorts : Faithful(Predicate(S))
    BY DEF Faithful, Predicate
  <1>3. ASSUME NEW list \in SUBSET {c \in Constraints : Faithful(c)}
        PROVE  Faithful(AnyOf(list)) /\ Faithful(AllOf(list))
    <2>1. \A c \in list :
             /\ c.plain \in BOOLEAN /\ c.accepts \subseteq Sorts /\ c.means \subseteq Sorts
             /\ c.accepts \subseteq c.means /\ (c.conjoins \/ c.accepts = c.means)
             /\ c.plain => \E t \in Sorts : c.accepts = {t}
      BY DEF Constraints, Faithful
    <2>2. \A c \in list : \A t \in Sorts : t \in c.accepts <=> Delegated(c, t) \/ Equal(c, t)
      BY <2>1 DEF Delegated, Equal
    <2>3. AnyOfAccepts(list) = UNION {c.accepts : c \in list}
      BY <2>1, <2>2 DEF AnyOfAccepts
    <2>4. /\ AnyOf(list).plain = FALSE /\ AnyOf(list).accepts = AnyOfAccepts(list)
          /\ AnyOf(list).conjoins = (\E c \in list : c.conjoins)
          /\ AnyOf(list).means = UNION {c.means : c \in list}
      BY DEF AnyOf
    <2>5. Faithful(AnyOf(list))
      BY <2>1, <2>3, <2>4 DEF Faithful
    <2>6. /\ AllOf(list).plain = FALSE /\ AllOf(list).accepts = AllOfAccepts(list)
          /\ AllOf(list).conjoins = (\E c \in list : c.conjoins \/ ~c.plain)
          /\ AllOf(list).means = {t \in Sorts : \A c \in list : t \in c.means}
      BY DEF AllOf
    <2>7. AllOfAccepts(list) = {t \in Sorts : \A c \in list : c.plain /\ c.accepts = {t}}
      BY <2>1 DEF AllOfAccepts, Delegated, Equal
    <2>8. AllOfAccepts(list) \subseteq AllOf(list).means
      BY <2>1, <2>6, <2>7
    <2>9. ASSUME ~AllOf(list).conjoins
          PROVE  AllOf(list).means \subseteq AllOfAccepts(list)
      <3>1. \A c \in list : c.plain /\ c.means = c.accepts
        BY <2>1, <2>6, <2>9
      <3>2. \A c \in list : \A t \in c.means : c.accepts = {t}
        BY <2>1, <3>1
      <3> QED
        BY <2>6, <2>7, <3>1, <3>2
    <2>10. Faithful(AllOf(list))
      BY <2>6, <2>8, <2>9 DEF Faithful
    <2> QED
      BY <2>5, <2>10
  <1>4. ASSUME NEW c \in Constraints, Faithful(c)
        PROVE  Faithful(Variadic(c))
    <2>1. /\ c.plain \in BOOLEAN /\ c.accepts \subseteq Sorts
          /\ c.accepts \subseteq c.means /\ (c.conjoins \/ c.accepts = c.means)
          /\ c.plain => \E t \in Sorts : c.accepts = {t}
      BY <1>4 DEF Constraints, Faithful
    <2>2. {t \in Sorts : Delegated(c, t) \/ Equal(c, t)} = c.accepts
      BY <2>1 DEF Delegated, Equal
    <2>3. /\ Variadic(c).plain = FALSE /\ Variadic(c).accepts = c.accepts
          /\ Variadic(c).conjoins = c.conjoins /\ Variadic(c).means = c.means
      BY <2>2 DEF Variadic, Constraints
    <2> QED
      BY <2>1, <2>3 DEF Faithful
  <1> QED
    BY <1>1, <1>2, <1>3, <1>4

(***************************************************************************)
(* Cuts: where they are is determined by the sizes of the groups.          *)
(***************************************************************************)
InStep(f, g, k) ==
    /\ \A i \in 0 .. k : f[i] \in Int /\ g[i] \in Int
    /\ f[0] = g[0]
    /\ \A i \in 1 .. k : f[i] - f[i - 1] = g[i] - g[i - 1]

LEMMA SameSteps ==
    ASSUME NEW k \in Nat, NEW f, NEW g, InStep(f, g, k)
    PROVE  \A i \in 0 .. k : f[i] = g[i]
  <1> DEFINE S == {i \in 0 .. k : f[i] # g[i]}
  <1>1. SUFFICES ASSUME S # {} PROVE FALSE
    OBVIOUS
  <1>2. S \in SUBSET Nat
    OBVIOUS
  <1>3. PICK i \in S : \A j \in S : i <= j
    BY <1>1, <1>2, Least
  <1>4. i # 0 /\ i \in 1 .. k /\ i - 1 \in 0 .. k
    BY <1>3 DEF InStep
  <1>5. i - 1 \notin S
    <2>1. ASSUME i - 1 \in S PROVE i <= i - 1
      BY <1>3, <2>1
    <2> QED
      BY <1>4, <2>1
  <1>6. f[i - 1] = g[i - 1] /\ f[i] - f[i - 1] = g[i] - g[i - 1]
    BY <1>4, <1>5 DEF InStep
  <1>7. f[i] \in Int /\ g[i] \in Int /\ f[i - 1] \in Int /\ g[i - 1] \in Int
    BY <1>4 DEF InStep
  <1> QED
    BY <1>3, <1>6, <1>7

(* A list of fixed names.                                                  *)
LEMMA OneEach ==
    ASSUME NEW k \in Nat, NEW f, \A i \in 0 .. k : f[i] \in Int,
           f[0] = 0, \A i \in 1 .. k : f[i] - f[i - 1] = 1
    PROVE  \A i \in 0 .. k : f[i] = i
  <1> DEFINE g == [i \in 0 .. k |-> i]
  <1>1. \A i \in 0 .. k : g[i] = i
    OBVIOUS
  <1>2. \A i \in 1 .. k : i - 1 \in 0 .. k /\ i \in 0 .. k
    OBVIOUS
  <1> HIDE DEF g
  <1>3. InStep(f, g, k)
    BY <1>1, <1>2 DEF InStep
  <1>4. \A i \in 0 .. k : f[i] = g[i]
    BY <1>3, SameSteps
  <1> QED
    BY <1>1, <1>4

(* The sizes of a cut of the values: v for a variadic name.                *)
LEMMA OneSize ==
    ASSUME NEW tys \in Seq(Constraints), NEW v \in Nat, NEW f,
           \A i \in 0 .. Len(tys) : f[i] \in Int, f[0] = 0,
           \A i \in 1 .. Len(tys) : f[i] - f[i - 1] = IF tys[i].variadic THEN v ELSE 1
    PROVE  \A i \in 0 .. Len(tys) :
              f[i] = Cardinality(Below(Fixed(tys), i + 1)) + v * Cardinality(Below(Variadics(tys), i + 1))
  <1> DEFINE k == Len(tys)
             F == Fixed(tys)
             V == Variadics(tys)
             x(i) == Cardinality(Below(F, i))
             y(i) == Cardinality(Below(V, i))
             g == [i \in 0 .. k |-> x(i + 1) + v * y(i + 1)]
  <1>1. F \in SUBSET (DOMAIN tys) /\ V \in SUBSET (DOMAIN tys) /\ DOMAIN tys = 1 .. k /\ k \in Nat
    BY DEF Fixed, Variadics
  <1>2. \A i \in 1 .. k + 1 : x(i) \in Nat /\ y(i) \in Nat
    BY <1>1, BelowGrows
  <1>3. x(1) = 0 /\ y(1) = 0
    BY <1>1, BelowEnds
  <1>4. ASSUME NEW i \in 1 .. k
        PROVE  /\ x(i + 1) = x(i) + (IF tys[i].variadic THEN 0 ELSE 1)
               /\ y(i + 1) = y(i) + (IF tys[i].variadic THEN 1 ELSE 0)
    <2>1. (i \in F <=> ~tys[i].variadic) /\ (i \in V <=> tys[i].variadic)
      BY <1>1 DEF Fixed, Variadics
    <2>2. /\ x(i + 1) = x(i) + (IF i \in F THEN 1 ELSE 0)
          /\ y(i + 1) = y(i) + (IF i \in V THEN 1 ELSE 0)
      BY <1>1, BelowStep
    <2> QED
      BY <2>1, <2>2
  <1>5. \A i \in 0 .. k : g[i] = x(i + 1) + v * y(i + 1)
    OBVIOUS
  <1>6a. /\ \A i \in 0 .. k : f[i] \in Int
        /\ f[0] = 0
        /\ \A i \in 1 .. k : f[i] - f[i - 1] = IF tys[i].variadic THEN v ELSE 1
    OBVIOUS
  <1> HIDE DEF x, y, g, k
  <1>6. ASSUME NEW i \in 0 .. k PROVE g[i] \in Int
    <2>1. i + 1 \in 1 .. k + 1
      BY <1>1
    <2>2. PICK a, b \in Nat : a = x(i + 1) /\ b = y(i + 1)
      BY <1>2, <2>1
    <2>3. v * b \in Nat
      OBVIOUS
    <2>4. a + v * b \in Int
      BY <2>3
    <2> QED
      BY <1>5, <2>2, <2>4, Zenon
  <1>7. ASSUME NEW i \in 1 .. k
        PROVE  f[i] - f[i - 1] = g[i] - g[i - 1]
    <2>1. g[i] = x(i + 1) + v * y(i + 1) /\ g[i - 1] = x(i) + v * y(i)
      <3>1. i \in 0 .. k /\ i - 1 \in 0 .. k /\ (i - 1) + 1 = i
        BY <1>1
      <3> QED
        BY <1>5, <3>1
    <2>2. PICK a, b \in Nat : a = x(i) /\ b = y(i)
      BY <1>1, <1>2
    <2>3. PICK m \in Nat : m = v * b /\ v * (b + 1) = m + v
      <3>1. v * b \in Nat /\ v * (b + 1) = v * b + v
        BY <2>2
      <3> QED
        BY <3>1
    <2>4. CASE tys[i].variadic
      <3>1. x(i + 1) = x(i) + 0 /\ y(i + 1) = y(i) + 1
        BY <1>4, <2>4
      <3>2. x(i + 1) = a /\ y(i + 1) = b + 1
        BY <2>2, <3>1
      <3>3. g[i] = a + (m + v) /\ g[i - 1] = a + m
        BY <2>1, <2>2, <2>3, <3>2, Zenon
      <3>4. f[i] - f[i - 1] = v
        BY <1>6a, <2>4
      <3>5. (a + (m + v)) - (a + m) = v
        OBVIOUS
      <3> QED
        BY <3>3, <3>4, <3>5, Zenon
    <2>5. CASE ~tys[i].variadic
      <3>1. x(i + 1) = x(i) + 1 /\ y(i + 1) = y(i) + 0
        BY <1>4, <2>5
      <3>2. x(i + 1) = a + 1 /\ y(i + 1) = b
        BY <2>2, <3>1
      <3>3. g[i] = (a + 1) + m /\ g[i - 1] = a + m
        BY <2>1, <2>2, <2>3, <3>2, Zenon
      <3>4. f[i] - f[i - 1] = 1
        BY <1>6a, <2>5
      <3>5. ((a + 1) + m) - (a + m) = 1
        OBVIOUS
      <3> QED
        BY <3>3, <3>4, <3>5, Zenon
    <2> QED
      BY <2>4, <2>5
  <1>8. f[0] = g[0]
    <2>1. 0 \in 0 .. k /\ 0 + 1 = 1 /\ v * 0 = 0
      BY <1>1
    <2>2. g[0] = x(0 + 1) + v * y(0 + 1)
      BY <1>5, <2>1
    <2>3. g[0] = 0 + v * 0
      BY <1>3, <2>1, <2>2, Zenon
    <2> QED
      BY <1>6a, <2>1, <2>3
  <1>9. \A i \in 0 .. k : f[i] = g[i]
    <2>1. \A i \in 0 .. k : f[i] \in Int /\ g[i] \in Int
      BY <1>6, <1>6a
    <2>2. \A i \in 1 .. k : f[i] - f[i - 1] = g[i] - g[i - 1]
      BY <1>7
    <2>3. k \in Nat
      BY <1>1
    <2>4. InStep(f, g, k)
      BY <1>8, <2>1, <2>2, Zenon DEF InStep
    <2> QED
      BY <2>3, <2>4, SameSteps
  <1> QED
    BY <1>5, <1>9 DEF x, y, k

(* Every fixed name takes a value.                                         *)
LEMMA CutHolds ==
    ASSUME NEW tys \in Seq(Constraints), NEW f,
           \A i \in 0 .. Len(tys) : f[i] \in Int, f[0] = 0,
           \A i \in 1 .. Len(tys) : /\ f[i - 1] <= f[i]
                                    /\ ~tys[i].variadic => f[i] - f[i - 1] = 1
    PROVE  NumFixed(tys) \in Nat /\ f[Len(tys)] >= NumFixed(tys)
  <1> DEFINE k == Len(tys)
             F == Fixed(tys)
             x(i) == Cardinality(Below(F, i))
             S == {i \in 0 .. k : f[i] < x(i + 1)}
  <1>1. F \in SUBSET (DOMAIN tys) /\ DOMAIN tys = 1 .. k /\ k \in Nat
    BY DEF Fixed
  <1>2. \A i \in 1 .. k + 1 : x(i) \in Nat
    BY <1>1, BelowGrows
  <1>3. x(1) = 0 /\ x(k + 1) = NumFixed(tys)
    BY <1>1, BelowEnds DEF NumFixed, Fixed
  <1>4. \A i \in 1 .. k : x(i + 1) = x(i) + (IF tys[i].variadic THEN 0 ELSE 1)
    BY <1>1, BelowStep DEF Fixed, Variadics
  <1> HIDE DEF x
  <1>5. S = {}
    <2>1. SUFFICES ASSUME S # {} PROVE FALSE
      OBVIOUS
    <2>2. S \in SUBSET Nat
      OBVIOUS
    <2>3. PICK i \in S : \A j \in S : i <= j
      BY <2>1, <2>2, Least
    <2>4. i # 0
      BY <1>3, <2>3
    <2>5. i \in 1 .. k /\ i - 1 \in 0 .. k /\ (i - 1) + 1 = i
      BY <2>3, <2>4
    <2>6. i - 1 \notin S
      <3>1. ASSUME i - 1 \in S PROVE i <= i - 1
        BY <2>3, <3>1
      <3> QED
        BY <2>5, <3>1
    <2>7. f[i - 1] >= x(i)
      <3>1. ~(f[i - 1] < x((i - 1) + 1))
        BY <2>5, <2>6
      <3>2. f[i - 1] \in Int /\ x(i) \in Nat
        BY <1>2, <2>5
      <3> QED
        BY <2>5, <3>1, <3>2
    <2>8. f[i] \in Int /\ f[i - 1] \in Int /\ x(i) \in Nat /\ x(i + 1) \in Nat
      BY <1>2, <2>5
    <2>9. f[i] < x(i + 1)
      BY <2>3
    <2>10. PICK c \in Nat, a \in Int, b \in Int : c = x(i) /\ a = f[i - 1] /\ b = f[i]
      BY <2>8, Zenon
    <2>11. a >= c
      BY <2>7, <2>10
    <2>12. CASE tys[i].variadic
      <3>1. a <= b
        BY <2>5, <2>10
      <3>2. b < c + 0
        BY <1>4, <2>5, <2>9, <2>10, <2>12
      <3> QED
        BY <2>11, <3>1, <3>2
    <2>13. CASE ~tys[i].variadic
      <3>1. b - a = 1
        BY <2>5, <2>10, <2>13
      <3>2. b < c + 1
        BY <1>4, <2>5, <2>9, <2>10, <2>13
      <3> QED
        BY <2>11, <3>1, <3>2
    <2> QED
      BY <2>12, <2>13
  <1>6. k \in 0 .. k /\ k \notin S /\ f[k] \in Int
    BY <1>1, <1>5
  <1> QED
    BY <1>1, <1>2, <1>3, <1>6

(* Segment sizes determine the cut.                                        *)
LEMMA SegmentsCut ==
    ASSUME NEW segs \in Seq(Nat), NEW f,
           \A i \in 0 .. Len(segs) : f[i] \in Int, f[0] = 0,
           \A i \in 1 .. Len(segs) : f[i] - f[i - 1] = segs[i]
    PROVE  \A i \in 0 .. Len(segs) : f[i] = SizedFirst(segs, i + 1)
  <1> DEFINE k == Len(segs)
             g == [i \in 0 .. k |-> SizedFirst(segs, i + 1)]
  <1>1. k \in Nat /\ \A i \in 1 .. k : segs[i] \in Nat
    OBVIOUS
  <1>2. /\ SizedFirst(segs, 1) = 0
        /\ \A i \in 1 .. k :
             /\ SizedFirst(segs, i) \in Nat /\ SizedFirst(segs, i + 1) \in Nat
             /\ SizedFirst(segs, i + 1) = SizedFirst(segs, i) + segs[i]
    BY SizedSteps
  <1>3. \A i \in 0 .. k : g[i] = SizedFirst(segs, i + 1)
    OBVIOUS
  <1>4. /\ \A i \in 0 .. k : f[i] \in Int
        /\ f[0] = 0
        /\ \A i \in 1 .. k : f[i] - f[i - 1] = segs[i]
    OBVIOUS
  <1> HIDE DEF g, k
  <1>5. g[0] = 0
    <2>1. 0 \in 0 .. k /\ 0 + 1 = 1
      BY <1>1
    <2> QED
      BY <1>2, <1>3, <2>1
  <1>6. ASSUME NEW i \in 1 .. k PROVE g[i] \in Int /\ g[i] - g[i - 1] = segs[i]
    <2>1. i \in 0 .. k /\ i - 1 \in 0 .. k /\ (i - 1) + 1 = i
      BY <1>1
    <2>2. g[i] = SizedFirst(segs, i + 1) /\ g[i - 1] = SizedFirst(segs, i)
      BY <1>3, <2>1
    <2> QED
      BY <1>1, <1>2, <2>2
  <1>7. InStep(f, g, k)
    <2>1. ASSUME NEW i \in 0 .. k PROVE g[i] \in Int
      <3>1. i = 0 \/ i \in 1 .. k
        BY <1>1
      <3> QED
        BY <1>5, <1>6, <3>1
    <2>2. \A i \in 1 .. k : f[i] - f[i - 1] = g[i] - g[i - 1]
      BY <1>4, <1>6
    <2>3. f[0] = g[0]
      BY <1>4, <1>5, Zenon
    <2> QED
      BY <1>4, <2>1, <2>2, <2>3, Zenon DEF InStep
  <1>8. \A i \in 0 .. k : f[i] = g[i]
    BY <1>1, <1>7, SameSteps
  <1> QED
    BY <1>3, <1>8 DEF k

(***************************************************************************)
(* A cut of the values of a part, for the proofs below.                    *)
(***************************************************************************)
Cut(p, cut) ==
    /\ cut \in [0 .. Len(Lists(p)) -> 0 .. Num(op, p)]
    /\ Cuts(op, p, cut)

LEMMA CutSteps ==
    ASSUME IInv, NEW p \in Parts, NEW cut, Cut(p, cut)
    PROVE  /\ \A i \in 0 .. Len(Lists(p)) : cut[i] \in 0 .. Num(op, p) /\ cut[i] \in Int
           /\ cut[0] = 0 /\ cut[Len(Lists(p))] = Num(op, p)
           /\ \A i \in 1 .. Len(Lists(p)) :
                /\ cut[i - 1] <= cut[i]
                /\ ~Lists(p)[i].variadic => cut[i] - cut[i - 1] = 1
                /\ \A j \in cut[i - 1] + 1 .. cut[i] : op.vals[p][j] \in Lists(p)[i].means
  <1>1. Lists(p) \in Seq(Constraints) /\ Num(op, p) \in Nat
    BY ListTypes DEF IInv, Typed, TypeOK, Operation, Num
  <1>2. PICK k \in Nat : k = Len(Lists(p)) /\ DOMAIN Lists(p) = 1 .. k
    BY <1>1
  <1>3. PICK n \in Nat : n = Num(op, p)
    BY <1>1
  <1>4. \A i \in 0 .. k : cut[i] \in 0 .. n
    BY <1>2, <1>3 DEF Cut
  <1>5. /\ cut[0] = 0 /\ cut[k] = n
        /\ \A i \in 1 .. k :
             /\ IF Lists(p)[i].variadic THEN cut[i] - cut[i - 1] >= 0 ELSE cut[i] - cut[i - 1] = 1
             /\ \A j \in cut[i - 1] + 1 .. cut[i] : op.vals[p][j] \in Lists(p)[i].means
    BY <1>2, <1>3 DEF Cut, Cuts
  <1>6. ASSUME NEW i \in 1 .. k
        PROVE  /\ cut[i - 1] <= cut[i]
               /\ ~Lists(p)[i].variadic => cut[i] - cut[i - 1] = 1
    <2>1. i \in 0 .. k /\ i - 1 \in 0 .. k
      OBVIOUS
    <2>2. cut[i] \in 0 .. n /\ cut[i - 1] \in 0 .. n
      BY <1>4, <2>1
    <2>3. IF Lists(p)[i].variadic THEN cut[i] - cut[i - 1] >= 0 ELSE cut[i] - cut[i - 1] = 1
      BY <1>5
    <2> QED
      BY <2>2, <2>3
  <1>7. \A i \in 0 .. k : cut[i] \in Int
    BY <1>4
  <1> QED
    BY <1>2, <1>3, <1>4, <1>5, <1>6, <1>7

(* What the counts ask for.                                                *)
LEMMA CutCounts ==
    ASSUME IInv, NEW p \in Parts, NEW cut, Cut(p, cut)
    PROVE  /\ NumFixed(Lists(p)) \in Nat /\ Num(op, p) >= NumFixed(Lists(p))
           /\ ~HasVariadic(Lists(p)) =>
                 /\ Num(op, p) = Len(Lists(p))
                 /\ \A i \in 0 .. Len(Lists(p)) : cut[i] = i
  <1>1. Lists(p) \in Seq(Constraints)
    BY ListTypes DEF IInv
  <1>2. PICK tys \in Seq(Constraints) : tys = Lists(p)
    BY <1>1
  <1>3. /\ \A i \in 0 .. Len(tys) : cut[i] \in Int
        /\ cut[0] = 0 /\ cut[Len(tys)] = Num(op, p)
        /\ \A i \in 1 .. Len(tys) : /\ cut[i - 1] <= cut[i]
                                    /\ ~tys[i].variadic => cut[i] - cut[i - 1] = 1
    BY <1>2, CutSteps
  <1>4. NumFixed(tys) \in Nat /\ cut[Len(tys)] >= NumFixed(tys)
    BY <1>3, CutHolds
  <1>5. ASSUME ~HasVariadic(tys)
        PROVE  \A i \in 0 .. Len(tys) : cut[i] = i
    <2>1. DOMAIN tys = 1 .. Len(tys) /\ Len(tys) \in Nat
      OBVIOUS
    <2>2. \A i \in 1 .. Len(tys) : ~tys[i].variadic
      BY <1>5, <2>1 DEF HasVariadic, Variadics
    <2>3. \A i \in 1 .. Len(tys) : cut[i] - cut[i - 1] = 1
      BY <1>3, <2>2
    <2> QED
      BY <1>3, <2>1, <2>3, OneEach
  <1>6. ASSUME ~HasVariadic(tys) PROVE Num(op, p) = Len(tys)
    BY <1>3, <1>5, <1>6
  <1> QED
    BY <1>2, <1>3, <1>4, <1>5, <1>6

LEMMA MultipleDivides ==
    ASSUME NEW v \in Nat, NEW m \in Nat \ {0}
    PROVE  (v * m) % m = 0 /\ (v * m) \div m = v
  <1>1. PICK x \in Nat : x = v * m
    OBVIOUS
  <1>2. PICK q \in Nat, r \in Nat : q = x \div m /\ r = x % m
    OBVIOUS
  <1>3. x = q * m + r /\ 0 <= r /\ r < m
    BY <1>2
  <1>4. (v - q) * m = r
    <2>1. (v - q) * m = v * m - q * m
      OBVIOUS
    <2>2. v * m = q * m + r
      BY <1>1, <1>3
    <2>3. PICK y \in Int : y = q * m
      OBVIOUS
    <2> QED
      BY <2>1, <2>2, <2>3
  <1>5. v - q = 0
    <2>1. ASSUME v - q >= 1 PROVE FALSE
      <3>1. (v - q) * m >= m
        BY <2>1
      <3> QED
        BY <1>3, <1>4, <3>1
    <2>2. ASSUME v - q <= -1 PROVE FALSE
      <3>1. (v - q) * m <= -m
        BY <2>2
      <3> QED
        BY <1>3, <1>4, <3>1
    <2> QED
      BY <2>1, <2>2
  <1>6. r = 0 /\ q = v
    BY <1>4, <1>5
  <1> QED
    BY <1>1, <1>2, <1>6

(* Groups of one size are those of checkVariadicValues.                    *)
LEMMA CutSame ==
    ASSUME IInv, NEW s \in Sides, NEW cut, Cut(s, cut),
           Declares(SameSizes(s)), HasVariadic(Lists(s))
    PROVE  /\ Divisible(Lists(s), Num(op, s))
           /\ \A i \in 0 .. Len(Lists(s)) : cut[i] = SameFirst(Lists(s), Num(op, s), i + 1)
  <1>1. /\ s \in Parts /\ Lists(s) \in Seq(Constraints)
        /\ Num(op, s) \in Nat /\ Num(op, s) < UintMod
    BY ListOfSide
  <1>2. PICK tys \in Seq(Constraints) : tys = Lists(s)
    BY <1>1
  <1>3. PICK n \in Nat : n = Num(op, s) /\ n < UintMod
    BY <1>1
  <1>4. /\ \A i \in 0 .. Len(tys) : cut[i] \in Int
        /\ cut[0] = 0 /\ cut[Len(tys)] = n
        /\ \A i \in 1 .. Len(tys) : /\ cut[i - 1] <= cut[i]
                                    /\ ~tys[i].variadic => cut[i] - cut[i - 1] = 1
    BY <1>1, <1>2, <1>3, CutSteps
  <1>5. \A i, j \in Variadics(tys) : cut[i] - cut[i - 1] = cut[j] - cut[j - 1]
    BY <1>2 DEF Cut, Cuts
  <1>6. /\ DOMAIN tys = 1 .. Len(tys) /\ Len(tys) \in Nat /\ HasVariadic(tys)
        /\ Variadics(tys) = {i \in 1 .. Len(tys) : tys[i].variadic}
    BY <1>2 DEF Variadics
  <1>7. PICK w \in Variadics(tys) : TRUE
    BY <1>6 DEF HasVariadic
  <1>8. PICK v \in Nat : v = cut[w] - cut[w - 1]
    <2>1. w \in 1 .. Len(tys) /\ w \in 0 .. Len(tys) /\ w - 1 \in 0 .. Len(tys)
      BY <1>6, <1>7
    <2>2. cut[w] \in Int /\ cut[w - 1] \in Int /\ cut[w - 1] <= cut[w]
      BY <1>4, <2>1
    <2> QED
      BY <2>2
  <1>9. \A i \in 1 .. Len(tys) : cut[i] - cut[i - 1] = IF tys[i].variadic THEN v ELSE 1
    <2>1. ASSUME NEW i \in 1 .. Len(tys), tys[i].variadic PROVE cut[i] - cut[i - 1] = v
      BY <1>5, <1>6, <1>7, <1>8, <2>1
    <2>2. ASSUME NEW i \in 1 .. Len(tys), ~tys[i].variadic PROVE cut[i] - cut[i - 1] = 1
      BY <1>4, <2>2
    <2> QED
      BY <2>1, <2>2
  <1>10. \A i \in 0 .. Len(tys) :
            cut[i] = Cardinality(Below(Fixed(tys), i + 1)) + v * Cardinality(Below(Variadics(tys), i + 1))
    BY <1>4, <1>9, OneSize
  <1>11. PICK m \in Nat \ {0} : m = Cardinality(Variadics(tys))
    BY <1>6, SegmentSizeType
  <1>12. PICK f \in Nat : f = NumFixed(tys)
    BY NumFixedBound
  <1>13. n = f + v * m
    <2>1. /\ Fixed(tys) \in SUBSET (DOMAIN tys) /\ Variadics(tys) \in SUBSET (DOMAIN tys)
          /\ Cardinality(Fixed(tys)) = NumFixed(tys)
      BY DEF Fixed, Variadics, NumFixed
    <2>2. /\ Cardinality(Below(Fixed(tys), Len(tys) + 1)) = f
          /\ Cardinality(Below(Variadics(tys), Len(tys) + 1)) = m
      BY <1>11, <1>12, <2>1, BelowEnds
    <2>3. Len(tys) \in 0 .. Len(tys)
      BY <1>6
    <2>4. cut[Len(tys)] = f + v * m
      BY <1>10, <2>2, <2>3, Zenon
    <2> QED
      BY <1>4, <2>4, Zenon
  <1>14. NumVariadicValues(tys, n) = v * m
    <2>1. PICK x \in Nat : x = v * m
      OBVIOUS
    <2>2. n - f = x /\ x < UintMod /\ UintMod \in Nat \ {0}
      BY <1>3, <1>13, <2>1, UintModAssumption
    <2>3. x % UintMod = x
      BY <2>2
    <2>4. NumVariadicValues(tys, n) = (n - f) % UintMod
      BY <1>12 DEF NumVariadicValues
    <2> QED
      BY <2>1, <2>2, <2>3, <2>4, Zenon
  <1>15. (v * m) % m = 0 /\ (v * m) \div m = v
    BY MultipleDivides
  <1>16. Divisible(tys, n) /\ SegmentSize(tys, n) = v
    BY <1>11, <1>14, <1>15, Zenon DEF Divisible, SegmentSize
  <1>17. \A i \in 0 .. Len(tys) : cut[i] = SameFirst(tys, n, i + 1)
    BY <1>10, <1>16, Zenon DEF SameFirst, Fixed
  <1> QED
    BY <1>2, <1>3, <1>16, <1>17

(* Groups whose sizes the operation gives.                                 *)
LEMMA CutSegments ==
    ASSUME IInv, NEW s \in Sides, NEW cut, Cut(s, cut), Declares(Segments(s))
    PROVE  \E segs \in op.segs[s] :
              /\ SegmentsAddUp(segs, Num(op, s)) /\ SegmentsFit(Lists(s), segs)
              /\ \A i \in 0 .. Len(Lists(s)) : cut[i] = SizedFirst(segs, i + 1)
              /\ \A i \in 1 .. Len(Lists(s)) : segs[i] = cut[i] - cut[i - 1]
  <1>1. /\ s \in Parts /\ Lists(s) \in Seq(Constraints) /\ Len(Lists(s)) \in Nat
        /\ DOMAIN Lists(s) = 1 .. Len(Lists(s))
        /\ op.segs[s] \subseteq Seq(Nat)
    BY ListOfSide DEF IInv, Typed, TypeOK, Operation
  <1>2. PICK k \in Nat : k = Len(Lists(s)) /\ DOMAIN Lists(s) = 1 .. k
    BY <1>1
  <1>3. /\ \A i \in 0 .. k : cut[i] \in Int
        /\ cut[0] = 0 /\ cut[k] = Num(op, s)
        /\ \A i \in 1 .. k : ~Lists(s)[i].variadic => cut[i] - cut[i - 1] = 1
    BY <1>1, <1>2, CutSteps
  <1>4. PICK segs \in op.segs[s] :
           Len(segs) = k /\ \A i \in 1 .. k : segs[i] = cut[i] - cut[i - 1]
    BY <1>2 DEF Cut, Cuts
  <1>5. segs \in Seq(Nat)
    BY <1>1
  <1>6. \A i \in 0 .. k : cut[i] = SizedFirst(segs, i + 1)
    BY <1>3, <1>4, <1>5, SegmentsCut
  <1>7. SegmentsAddUp(segs, Num(op, s))
    <2>1. k \in 0 .. k
      OBVIOUS
    <2> QED
      BY <1>3, <1>4, <1>6, <2>1 DEF SegmentsAddUp
  <1>8. SegmentsFit(Lists(s), segs)
    <2>1. \A i \in 1 .. k : Lists(s)[i].variadic \/ segs[i] = 1
      BY <1>3, <1>4
    <2> QED
      BY <1>2, <1>4, <2>1 DEF SegmentsFit
  <1> QED
    BY <1>2, <1>4, <1>6, <1>7, <1>8

(* The groups of an operation that the values can be cut for are the cut.  *)
LEMMA CutGroups ==
    ASSUME Cleared, NEW s \in Sides, NEW cut, Cut(s, cut), NEW i \in 1 .. Len(Lists(s))
    PROVE  Group(op, s, i) = cut[i - 1] + 1 .. cut[i]
  <1>1. /\ s \in Parts /\ IInv /\ Lists(s) \in Seq(Constraints) /\ Len(Lists(s)) \in Nat
        /\ DOMAIN Lists(s) = 1 .. Len(Lists(s)) /\ Num(op, s) \in Nat
    BY ListOfSide DEF Cleared
  <1>2. PICK k \in Nat : k = Len(Lists(s))
    BY <1>1
  <1>3. i \in 1 .. k /\ i \in 0 .. k /\ i - 1 \in 0 .. k /\ (i - 1) + 1 = i
    BY <1>2
  <1>4. cut[i] \in Int /\ cut[i - 1] \in Int
    BY <1>1, <1>2, <1>3, CutSteps
  <1>5. CASE Has(Segments(s))
    <2>1. Declares(Segments(s))
      BY <1>1, <1>5 DEF IInv, ListInv, OnlyDeclared
    <2>2. PICK segs \in op.segs[s] :
             /\ \A j \in 0 .. k : cut[j] = SizedFirst(segs, j + 1)
             /\ \A j \in 1 .. k : segs[j] = cut[j] - cut[j - 1]
      BY <1>1, <1>2, <2>1, CutSegments
    <2>3. SegmentsOf(s) = segs
      <3>1. SegmentsOf(s) \in op.segs[s]
        BY DEF SegmentsOf
      <3> QED
        BY <1>1, <3>1 DEF IInv, Bounded
    <2>4. Group(op, s, i) = SizedFirst(segs, i) + 1 .. SizedFirst(segs, i) + segs[i]
      BY <1>5, <2>3 DEF Group, SegmentsOf
    <2>5. SizedFirst(segs, i) = cut[i - 1]
      BY <1>3, <2>2
    <2>6. SizedFirst(segs, i) + segs[i] = cut[i]
      BY <1>3, <1>4, <2>2, <2>5
    <2> QED
      BY <2>4, <2>5, <2>6
  <1>6. CASE ~Has(Segments(s)) /\ Has(SameSizes(s))
    <2>1. Declares(SameSizes(s)) /\ HasVariadic(Lists(s))
      BY <1>1, <1>6, SizesHold DEF IInv, ListInv, OnlyDeclared
    <2>2. \A j \in 0 .. k : cut[j] = SameFirst(Lists(s), Num(op, s), j + 1)
      BY <1>1, <1>2, <2>1, CutSame
    <2>3. Group(op, s, i) = SameFirst(Lists(s), Num(op, s), i) + 1 ..
             SameFirst(Lists(s), Num(op, s), i) + SameSize(Lists(s), Num(op, s), i)
      BY <1>6 DEF Group
    <2>4. SameFirst(Lists(s), Num(op, s), i) = cut[i - 1]
      BY <1>3, <2>2
    <2>5. SameFirst(Lists(s), Num(op, s), i + 1) = cut[i]
      BY <1>3, <2>2
    <2>6. SameFirst(Lists(s), Num(op, s), i + 1)
             = SameFirst(Lists(s), Num(op, s), i) + SameSize(Lists(s), Num(op, s), i)
      BY <1>1, <2>1, FirstSteps
    <2> QED
      BY <2>3, <2>4, <2>5, <2>6, Zenon
  <1>7. CASE ~Has(Segments(s)) /\ ~Has(SameSizes(s))
    <2>1. ~HasVariadic(Lists(s))
      BY <1>7, SizesHold
    <2>2. \A j \in 0 .. k : cut[j] = j
      BY <1>1, <1>2, <2>1, CutCounts
    <2>3. cut[i] = i /\ cut[i - 1] = i - 1
      BY <1>3, <2>2
    <2>4. Group(op, s, i) = {i}
      BY <1>7 DEF Group
    <2>5. (i - 1) + 1 .. i = {i}
      BY <1>3
    <2> QED
      BY <2>3, <2>4, <2>5
  <1> QED
    BY <1>5, <1>6, <1>7

(* A constraint that is no conjunction accepts what it says.               *)
LEMMA AcceptsWhatItMeans ==
    ASSUME Typed, NEW p \in Parts, NEW i \in DOMAIN Lists(p)
    PROVE  /\ Lists(p)[i].accepts \subseteq Lists(p)[i].means
           /\ ~Conjoins => Lists(p)[i].accepts = Lists(p)[i].means
  <1>1. Faithful(Lists(p)[i])
    BY DeclarationsAssumption DEF Typed, Lists
  <1> QED
    BY <1>1 DEF Faithful, Conjoins

LEMMA MatchedTypes ==
    ASSUME Cleared, NEW s \in Sides, Matches(op, s), ~Conjoins
    PROVE  TypesVerdict(op, s) = "ok"
  <1>1. /\ s \in Parts /\ IInv /\ Typed /\ Lists(s) \in Seq(Constraints) /\ Len(Lists(s)) \in Nat
        /\ DOMAIN Lists(s) = 1 .. Len(Lists(s)) /\ Num(op, s) \in Nat
    BY ListOfSide DEF Cleared, IInv
  <1>2. PICK cut : Cut(s, cut)
    BY DEF Matches, Cut
  <1>3. PICK k \in Nat : k = Len(Lists(s)) /\ DOMAIN Lists(s) = 1 .. k
    BY <1>1
  <1>4. PICK n \in Nat : n = Num(op, s)
    BY <1>1
  <1>5. \A i \in 1 .. k : Group(op, s, i) = cut[i - 1] + 1 .. cut[i]
    BY <1>2, <1>3, CutGroups
  <1>6. ASSUME NEW i \in 1 .. k
        PROVE  /\ Group(op, s, i) \subseteq 1 .. n
               /\ \A j \in Group(op, s, i) : op.vals[s][j] \in Lists(s)[i].accepts
    <2>1. i \in 0 .. k /\ i - 1 \in 0 .. k
      OBVIOUS
    <2>2. cut[i] \in 0 .. n /\ cut[i - 1] \in 0 .. n
      BY <1>1, <1>2, <1>3, <1>4, <2>1, CutSteps
    <2>3. cut[i - 1] + 1 .. cut[i] \subseteq 1 .. n
      BY <2>2
    <2>4. \A j \in cut[i - 1] + 1 .. cut[i] : op.vals[s][j] \in Lists(s)[i].means
      BY <1>1, <1>2, <1>3, CutSteps
    <2>5. Lists(s)[i].accepts = Lists(s)[i].means
      BY <1>1, <1>3, AcceptsWhatItMeans
    <2> QED
      BY <1>5, <2>3, <2>4, <2>5, Zenon
  <1>7. ~Has(Segments(s)) /\ ~Has(SameSizes(s)) => Num(op, s) = Len(Lists(s))
    BY <1>1, SizesHold, CountsHold
  <1> QED
    BY <1>3, <1>4, <1>6, <1>7 DEF TypesVerdict, InOrder

(* Only the last block constraint takes other than one block.              *)
LEMMA MatchedBlocks ==
    ASSUME IInv, stage \in Registered, NEW b \in Blocks, Matches(op, b), ~Conjoins
    PROVE  BlocksVerdict(op, b) = "ok"
  <1>1. /\ b \in Parts /\ Typed /\ Lists(b) \in Seq(Constraints) /\ Len(Lists(b)) \in Nat
        /\ Num(op, b) \in Nat
    BY ListTypes DEF IInv, Parts, Typed, TypeOK, Operation, Num
  <1>2. PICK cut : Cut(b, cut)
    BY DEF Matches, Cut
  <1>3. PICK k \in Nat : k = Len(Lists(b)) /\ DOMAIN Lists(b) = 1 .. k
    BY <1>1
  <1>4. PICK n \in Nat : n = Num(op, b)
    BY <1>1
  <1>5. /\ \A i \in 0 .. k : cut[i] \in 0 .. n /\ cut[i] \in Int
        /\ cut[0] = 0 /\ cut[k] = n
        /\ \A i \in 1 .. k :
             /\ cut[i - 1] <= cut[i]
             /\ ~Lists(b)[i].variadic => cut[i] - cut[i - 1] = 1
             /\ \A j \in cut[i - 1] + 1 .. cut[i] : op.vals[b][j] \in Lists(b)[i].means
    BY <1>1, <1>2, <1>3, <1>4, CutSteps
  <1>6. \A i \in 1 .. k : Lists(b)[i].variadic => i = k
    BY <1>3 DEF IInv, DeclarationChecked, OnlyLastVariadic, Variadics, Registered, Ran
  <1>7. \A i \in 0 .. k : i < k => cut[i] = i
    <2>1. CASE k = 0
      BY <2>1
    <2>2. CASE k # 0
      <3>1. PICK l \in Nat : l = k - 1
        BY <2>2
      <3>2. \A i \in 0 .. l : cut[i] \in Int
        BY <1>5, <3>1
      <3>3. \A i \in 1 .. l : cut[i] - cut[i - 1] = 1
        BY <1>5, <1>6, <3>1
      <3>4. \A i \in 0 .. l : cut[i] = i
        BY <1>5, <3>2, <3>3, OneEach
      <3> QED
        BY <3>1, <3>4
    <2> QED
      BY <2>1, <2>2
  <1>8. ASSUME NEW i \in 1 .. k
        PROVE  /\ \A j \in i .. n : (j = i \/ Lists(b)[i].variadic) => op.vals[b][j] \in Lists(b)[i].accepts
               /\ ~Lists(b)[i].variadic => i <= n
    <2>1. i \in 0 .. k /\ i - 1 \in 0 .. k /\ i - 1 < k
      OBVIOUS
    <2>2. cut[i - 1] = i - 1 /\ cut[i] \in 0 .. n
      BY <1>5, <1>7, <2>1
    <2>3. ~Lists(b)[i].variadic => cut[i] = i
      <3>1. ~Lists(b)[i].variadic => cut[i] - cut[i - 1] = 1
        BY <1>5
      <3> QED
        BY <2>2, <3>1
    <2>4. Lists(b)[i].variadic => cut[i] = n
      BY <1>5, <1>6
    <2>5. Lists(b)[i].accepts = Lists(b)[i].means
      BY <1>1, <1>3, AcceptsWhatItMeans
    <2>6. ASSUME NEW j \in i .. n, j = i \/ Lists(b)[i].variadic
          PROVE  op.vals[b][j] \in Lists(b)[i].accepts
      <3>1. j \in cut[i - 1] + 1 .. cut[i]
        BY <2>2, <2>3, <2>4, <2>6
      <3>2. op.vals[b][j] \in Lists(b)[i].means
        BY <1>5, <3>1
      <3> QED
        BY <2>5, <3>2
    <2> QED
      BY <2>2, <2>3, <2>6
  <1>9. {i \in DOMAIN Lists(b) : \E j \in i .. Num(op, b) :
            /\ j = i \/ Lists(b)[i].variadic
            /\ op.vals[b][j] \notin Lists(b)[i].accepts} = {}
    BY <1>3, <1>4, <1>8
  <1>10. ~\E i \in DOMAIN Lists(b) : ~Lists(b)[i].variadic /\ i > Num(op, b)
    BY <1>3, <1>4, <1>8
  <1> QED
    BY <1>9, <1>10 DEF BlocksVerdict, InOrder

(* An operation that matches the declaration is not rejected by a trait    *)
(* that the declaration brought.                                           *)
LEMMA MatchedVerdict ==
    ASSUME IInv, stage = "invalid", traits[next].name \notin Opaque,
           ~(traits[next].name \in UserCounts /\ Declares(traits[next].name)),
           ~Conjoins, \A p \in Parts : Matches(op, p)
    PROVE  "invalid" \notin Verdicts(traits[next], op)
  <1>1. next \in DOMAIN traits /\ stage \in Registered /\ Typed /\ ListInv
    BY DEF IInv, Passed, Registered, Ran
  <1>2. PICK t \in Traits : t = traits[next]
    BY <1>1 DEF Typed, TypeOK
  <1>3. t \in Range(traits) /\ t.name \in TraitNames /\ t.name \notin Opaque /\ t.name # Unknown
    BY <1>1, <1>2 DEF Range, Traits, ListInv, ListOrdered, Has
  <1>4. CASE t.name = TypeConstraint
    <2>1. Cleared
      BY <1>2, <1>4, ClearedFirst, ConstrainingNames
    <2>2. TypesVerdict(op, "operand") = "ok" /\ TypesVerdict(op, "result") = "ok"
      BY <2>1, MatchedTypes DEF Sides, Parts
    <2> QED
      BY <1>2, <1>4, <2>2 DEF Verdicts
  <1>5. ASSUME NEW b \in Blocks, t.name = BlockConstraint(b)
        PROVE  "invalid" \notin Verdicts(t, op)
    <2>1. b \in Parts
      BY DEF Parts
    <2>2. /\ t.name[2] = b
          /\ t.name \notin {TypeConstraint, AttrConstraint, IsTerminator, Other,
                            N(b), AtLeastN(b), SameSizes(b), Segments(b)}
      BY <1>5, <2>1, NamesDiffer
    <2>3. Verdicts(t, op) = {BlocksVerdict(op, b)}
      BY <2>2 DEF Verdicts
    <2> QED
      BY <1>1, <2>1, <2>3, MatchedBlocks
  <1>6. ASSUME NEW p \in Parts, t.name \in {N(p), AtLeastN(p), SameSizes(p), Segments(p)},
               t.name \in {SameSizes(p), Segments(p)} => p \in Sides
        PROVE  "invalid" \notin Verdicts(t, op)
    <2>1. t.name[2] = p
      BY <1>6, NamesDiffer
    <2>2. t.name # TypeConstraint /\ t.name \notin {AttrConstraint, IsTerminator, Other}
      BY <1>6, NamesDiffer DEF Constraining
    <2>3. Verdicts(t, op) =
             {CASE t.name = N(p) -> Verdict(Num(op, p) = t.arg)
                [] t.name = AtLeastN(p) -> Verdict(Num(op, p) >= t.arg)
                [] t.name = SameSizes(p) -> SameSizesVerdict(op, p)
                [] t.name = Segments(p) -> SegmentsVerdict(op, p)
                [] OTHER -> BlocksVerdict(op, p)}
      BY <2>1, <2>2 DEF Verdicts
    <2>4. /\ N(p) # AtLeastN(p) /\ SameSizes(p) \notin {N(p), AtLeastN(p)}
          /\ Segments(p) \notin {N(p), AtLeastN(p), SameSizes(p)}
      BY NamesDiffer
    <2>5. PICK cut : Cut(p, cut)
      BY DEF Matches, Cut
    <2>6. CASE t.name = N(p)
      <3>1. ~Declares(t.name)
        BY <1>2, <1>6, <2>6 DEF UserCounts
      <3>2. ~HasVariadic(Lists(p)) /\ t.arg = Len(Lists(p))
        BY <1>1, <1>3, <2>6, <3>1 DEF ListInv, Generated
      <3>3. Num(op, p) = t.arg
        BY <2>5, <3>2, CutCounts
      <3>4. Verdicts(t, op) = {Verdict(Num(op, p) = t.arg)}
        BY <2>3, <2>4, <2>6
      <3> QED
        BY <3>3, <3>4 DEF Verdict
    <2>7. CASE t.name = AtLeastN(p)
      <3>1. ~Declares(t.name)
        BY <1>2, <1>6, <2>7 DEF UserCounts
      <3>2. t.arg = NumFixed(Lists(p))
        BY <1>1, <1>3, <2>7, <3>1 DEF ListInv, Generated
      <3>3. Num(op, p) >= t.arg
        BY <2>5, <3>2, CutCounts
      <3>4. Verdicts(t, op) = {Verdict(Num(op, p) >= t.arg)}
        BY <2>3, <2>4, <2>7
      <3> QED
        BY <3>3, <3>4 DEF Verdict
    <2>8. CASE t.name = SameSizes(p)
      <3>1. p \in Sides /\ Declares(SameSizes(p))
        BY <1>1, <1>2, <1>6, <2>8 DEF ListInv, OnlyDeclared, Has
      <3>2. HasVariadic(Lists(p)) => Divisible(Lists(p), Num(op, p))
        BY <2>5, <3>1, CutSame
      <3>3. Verdicts(t, op) = {SameSizesVerdict(op, p)}
        BY <2>3, <2>4, <2>8
      <3> QED
        BY <3>2, <3>3 DEF SameSizesVerdict, Verdict
    <2>9. CASE t.name = Segments(p)
      <3>1. p \in Sides /\ Declares(Segments(p))
        BY <1>1, <1>2, <1>6, <2>9 DEF ListInv, OnlyDeclared, Has
      <3>2. \E segs \in op.segs[p] :
               SegmentsAddUp(segs, Num(op, p)) /\ SegmentsFit(Lists(p), segs)
        BY <2>5, <3>1, CutSegments
      <3>3. Verdicts(t, op) = {SegmentsVerdict(op, p)}
        BY <2>3, <2>4, <2>9
      <3> QED
        BY <3>2, <3>3 DEF SegmentsVerdict, Verdict
    <2> QED
      BY <1>6, <2>6, <2>7, <2>8, <2>9
  <1>7. \/ t.name = TypeConstraint
        \/ \E b \in Blocks : t.name = BlockConstraint(b)
        \/ \E p \in Parts : t.name \in {N(p), AtLeastN(p)}
        \/ \E s \in Sides : t.name \in {SameSizes(s), Segments(s)}
    BY <1>3 DEF TraitNames, UserTraits, Opaque
  <1>8. ASSUME NEW p \in Parts, t.name \in {N(p), AtLeastN(p)}
        PROVE  "invalid" \notin Verdicts(t, op)
    BY <1>6, <1>8, FamiliesDiffer
  <1>9. ASSUME NEW s \in Sides, t.name \in {SameSizes(s), Segments(s)}
        PROVE  "invalid" \notin Verdicts(t, op)
    BY <1>6, <1>9 DEF Parts
  <1> QED
    BY <1>2, <1>4, <1>5, <1>7, <1>8, <1>9

-----------------------------------------------------------------------------
(***************************************************************************)
(* The other way: the bounds of the groups of an operation that verified   *)
(* cut its values.                                                         *)
(***************************************************************************)
LEMMA BoundsMatch ==
    ASSUME IInv, NEW p \in Parts, NEW first,
           Bounds(first, Len(Lists(p))), first[Len(Lists(p)) + 1] = Num(op, p),
           \A i \in 1 .. Len(Lists(p)) :
              /\ ~Lists(p)[i].variadic => first[i + 1] = first[i] + 1
              /\ \A j \in Slice(first, i) : op.vals[p][j] \in Lists(p)[i].accepts,
           p \in Sides /\ Declares(SameSizes(p)) =>
              \A i, j \in Variadics(Lists(p)) :
                  first[i + 1] - first[i] = first[j + 1] - first[j],
           p \in Sides /\ Declares(Segments(p)) =>
              \E segs \in op.segs[p] :
                  /\ Len(segs) = Len(Lists(p))
                  /\ \A i \in 1 .. Len(Lists(p)) : segs[i] = first[i + 1] - first[i]
    PROVE  Matches(op, p)
  <1>1. Lists(p) \in Seq(Constraints) /\ Typed
    BY ListTypes DEF IInv
  <1>2. PICK tys \in Seq(Constraints) : tys = Lists(p)
    BY <1>1
  <1>3. PICK k \in Nat : k = Len(tys) /\ DOMAIN tys = 1 .. k
    OBVIOUS
  <1>4. PICK n : n = Num(op, p)
    OBVIOUS
  <1>5. Bounds(first, k) /\ first[k + 1] = n
    BY <1>2, <1>3, <1>4
  <1>6. ASSUME NEW i \in 1 .. k + 1 PROVE first[i] \in Nat /\ first[i] <= n
    <2>1. first[i] \in Nat
      BY <1>5 DEF Bounds
    <2>2. k + 1 \in 1 .. k + 1 /\ i <= k + 1
      OBVIOUS
    <2>3. first[i] <= first[k + 1]
      BY <1>5, <2>2, BoundsGrow
    <2> QED
      BY <1>5, <2>1, <2>3
  <1>7. PICK cut : cut = [i \in 0 .. k |-> first[i + 1]]
    OBVIOUS
  <1>8. /\ cut \in [0 .. k -> 0 .. n]
        /\ \A i \in 0 .. k : cut[i] = first[i + 1]
    <2>1. \A i \in 0 .. k : first[i + 1] \in 0 .. n
      <3>1. n \in Nat
        BY <1>5 DEF Bounds
      <3>2. \A i \in 0 .. k : i + 1 \in 1 .. k + 1
        OBVIOUS
      <3> QED
        BY <1>6, <3>1, <3>2
    <2> QED
      BY <1>7, <2>1
  <1>9. \A i \in 1 .. k : cut[i] = first[i + 1] /\ cut[i - 1] = first[i]
    <2>1. \A i \in 1 .. k : i \in 0 .. k /\ i - 1 \in 0 .. k /\ (i - 1) + 1 = i
      OBVIOUS
    <2> QED
      BY <1>8, <2>1
  <1>10. cut[0] = 0 /\ cut[k] = n
    <2>1. 0 \in 0 .. k /\ k \in 0 .. k /\ 0 + 1 = 1
      OBVIOUS
    <2>2. cut[0] = first[0 + 1] /\ cut[k] = first[k + 1]
      BY <1>8, <2>1
    <2> QED
      BY <1>5, <2>1, <2>2 DEF Bounds
  <1>11. ASSUME NEW i \in 1 .. k
         PROVE  /\ IF tys[i].variadic THEN cut[i] - cut[i - 1] >= 0 ELSE cut[i] - cut[i - 1] = 1
                /\ \A j \in cut[i - 1] + 1 .. cut[i] : op.vals[p][j] \in tys[i].means
    <2>1. i \in 1 .. k + 1 /\ i + 1 \in 1 .. k + 1
      OBVIOUS
    <2>2. first[i] \in Nat /\ first[i + 1] \in Nat /\ first[i] <= first[i + 1]
      BY <1>5, <1>6, <2>1 DEF Bounds
    <2>3. ~tys[i].variadic => first[i + 1] = first[i] + 1
      BY <1>2, <1>3
    <2>4. IF tys[i].variadic THEN first[i + 1] - first[i] >= 0 ELSE first[i + 1] - first[i] = 1
      BY <2>2, <2>3
    <2>5. \A j \in first[i] + 1 .. first[i + 1] : op.vals[p][j] \in tys[i].accepts
      BY <1>2, <1>3 DEF Slice
    <2>6. tys[i].accepts \subseteq tys[i].means
      BY <1>1, <1>2, <1>3, AcceptsWhatItMeans
    <2> QED
      BY <1>9, <2>4, <2>5, <2>6
  <1>12. ASSUME p \in Sides
         PROVE  /\ Declares(SameSizes(p)) =>
                      \A i, j \in Variadics(tys) : cut[i] - cut[i - 1] = cut[j] - cut[j - 1]
                /\ Declares(Segments(p)) =>
                      \E segs \in op.segs[p] :
                         Len(segs) = k /\ \A i \in 1 .. k : segs[i] = cut[i] - cut[i - 1]
    <2>1. Variadics(tys) \subseteq 1 .. k
      BY <1>3 DEF Variadics
    <2>2. ASSUME Declares(SameSizes(p)), NEW i \in Variadics(tys), NEW j \in Variadics(tys)
          PROVE  cut[i] - cut[i - 1] = cut[j] - cut[j - 1]
      <3>1. first[i + 1] - first[i] = first[j + 1] - first[j]
        BY <1>2, <1>12, <2>2
      <3> QED
        BY <1>9, <2>1, <3>1
    <2>3. ASSUME Declares(Segments(p))
          PROVE  \E segs \in op.segs[p] :
                    Len(segs) = k /\ \A i \in 1 .. k : segs[i] = cut[i] - cut[i - 1]
      <3>1. PICK segs \in op.segs[p] :
               Len(segs) = k /\ \A i \in 1 .. k : segs[i] = first[i + 1] - first[i]
        BY <1>2, <1>3, <1>12, <2>3
      <3> QED
        BY <1>9, <3>1
    <2> QED
      BY <2>2, <2>3
  <1>13. Cuts(op, p, cut)
    BY <1>2, <1>3, <1>4, <1>10, <1>11, <1>12, Zenon DEF Cuts
  <1> QED
    BY <1>2, <1>3, <1>4, <1>8, <1>13 DEF Matches

LEMMA DeclaredIsThere ==
    ASSUME IInv, stage \in Registered, NEW name, name # Unknown, Declares(name)
    PROVE  Has(name)
  BY DEF IInv, AllAdded, Added, Declares

(* The bounds of groups with sizes from the operation. *)
LEMMA SegmentsMatch ==
    ASSUME Verified, NEW s \in Sides, Has(Segments(s))
    PROVE  Matches(op, s)
  <1>1. /\ s \in Parts /\ IInv /\ stage \in Registered /\ Cleared
        /\ Lists(s) \in Seq(Constraints) /\ Len(Lists(s)) \in Nat
        /\ DOMAIN Lists(s) = 1 .. Len(Lists(s))
    BY ListOfSide, VerifiedIsCleared DEF Verified
  <1>2. PICK k \in Nat : k = Len(Lists(s)) /\ DOMAIN Lists(s) = 1 .. k
    BY <1>1
  <1>3. PICK segs \in op.segs[s] : segs = SegmentsOf(s)
    BY <1>1, SizesHold DEF SegmentsOf
  <1>4. segs \in Seq(Nat) /\ SegmentsAddUp(segs, Num(op, s)) /\ SegmentsFit(Lists(s), segs)
    BY <1>1, <1>3, SegmentsChosen
  <1>5. Len(segs) = k /\ \A i \in 1 .. k : Lists(s)[i].variadic \/ segs[i] = 1
    BY <1>2, <1>4 DEF SegmentsFit
  <1>6. PICK first : /\ Bounds(first, k)
                     /\ \A i \in 1 .. k + 1 : first[i] = SizedFirst(segs, i) /\ first[i] \in Nat
                     /\ \A i \in 1 .. k : first[i + 1] = first[i] + segs[i] /\ segs[i] \in Nat
    <2>1. segs \in Seq(Nat) /\ Len(segs) = k
      BY <1>4, <1>5
    <2> QED
      BY <2>1, SizedBounds, Zenon
  <1>7. first[k + 1] = Num(op, s)
    BY <1>4, <1>5, <1>6 DEF SegmentsAddUp
  <1>8. ASSUME NEW i \in 1 .. k
        PROVE  /\ ~Lists(s)[i].variadic => first[i + 1] = first[i] + 1
               /\ segs[i] = first[i + 1] - first[i]
               /\ \A j \in Slice(first, i) : op.vals[s][j] \in Lists(s)[i].accepts
    <2>1. i \in 1 .. k + 1 /\ i + 1 \in 1 .. k + 1
      OBVIOUS
    <2>2. /\ first[i] \in Nat /\ segs[i] \in Nat /\ first[i + 1] = first[i] + segs[i]
          /\ first[i] = SizedFirst(segs, i)
      BY <1>6, <2>1
    <2>3. segs[i] = first[i + 1] - first[i]
      BY <2>2
    <2>4. ~Lists(s)[i].variadic => first[i + 1] = first[i] + 1
      BY <1>5, <2>2
    <2>5. Group(op, s, i) = SizedFirst(segs, i) + 1 .. SizedFirst(segs, i) + segs[i]
      BY <1>3 DEF Group, SegmentsOf
    <2>6. Group(op, s, i) = Slice(first, i)
      BY <2>2, <2>5, Zenon DEF Slice
    <2>7. \A j \in Group(op, s, i) : op.vals[s][j] \in Lists(s)[i].accepts
      BY <1>2, VerifiedTiles DEF Accepted
    <2> QED
      BY <2>3, <2>4, <2>6, <2>7
  <1>9. ~Declares(SameSizes(s))
    BY <1>1 DEF IInv, ListInv, OnlyDeclared, DeclarationChecked, SizesSpecified, Registered, Ran
  <1>10. \E x \in op.segs[s] : Len(x) = k /\ \A i \in 1 .. k : x[i] = first[i + 1] - first[i]
    BY <1>5, <1>8
  <1> QED
    BY <1>1, <1>2, <1>6, <1>7, <1>8, <1>9, <1>10, BoundsMatch

(* The bounds of groups of one size. *)
LEMMA SameSizesMatch ==
    ASSUME Verified, NEW s \in Sides, ~Has(Segments(s)), Has(SameSizes(s))
    PROVE  Matches(op, s)
  <1>1. /\ s \in Parts /\ IInv /\ stage \in Registered /\ Cleared
        /\ Lists(s) \in Seq(Constraints) /\ Len(Lists(s)) \in Nat /\ Len(Lists(s)) < UintMod
        /\ DOMAIN Lists(s) = 1 .. Len(Lists(s))
        /\ Num(op, s) \in Nat /\ Num(op, s) < UintMod
    BY ListOfSide, VerifiedIsCleared DEF Verified
  <1>2. PICK tys \in Seq(Constraints) : tys = Lists(s)
    BY <1>1
  <1>3. PICK k \in Nat : k = Len(tys) /\ DOMAIN tys = 1 .. k /\ k < UintMod
    BY <1>1, <1>2
  <1>4. PICK n \in Nat : n = Num(op, s) /\ n < UintMod
    BY <1>1
  <1>5. HasVariadic(tys) /\ Divisible(tys, n)
    BY <1>1, <1>2, <1>4, SizesHold
  <1>6. \A i \in 1 .. k : Group(op, s, i) = SameGroup(tys, n, i)
    BY <1>2, <1>4 DEF Group, SameGroup
  <1>7. \A i \in 1 .. k : SameGroup(tys, n, i) \subseteq 1 .. n
    BY <1>2, <1>3, <1>4, <1>6, VerifiedTiles DEF Within
  <1>8. SameFirst(tys, n, k + 1) = n
    BY <1>3, <1>4, <1>5, <1>7, GroupsCover
  <1>9. /\ SameFirst(tys, n, 1) = 0
        /\ \A i \in 1 .. k :
             /\ SameSize(tys, n, i) \in Nat
             /\ SameFirst(tys, n, i) \in Nat /\ SameFirst(tys, n, i + 1) \in Nat
             /\ SameFirst(tys, n, i + 1) = SameFirst(tys, n, i) + SameSize(tys, n, i)
    BY <1>3, <1>5, FirstSteps
  <1>10. PICK first : first = [i \in 1 .. k + 1 |-> SameFirst(tys, n, i)]
    OBVIOUS
  <1>11. \A i \in 1 .. k + 1 : first[i] = SameFirst(tys, n, i)
    BY <1>10
  <1>12. ASSUME NEW i \in 1 .. k + 1 PROVE SameFirst(tys, n, i) \in Nat
    <2>1. i \in 1 .. k \/ i = k + 1
      OBVIOUS
    <2> QED
      BY <1>8, <1>9, <2>1
  <1>13. ASSUME NEW i \in 1 .. k
         PROVE  /\ first[i] = SameFirst(tys, n, i) /\ first[i] \in Nat
                /\ first[i + 1] = first[i] + SameSize(tys, n, i)
                /\ SameSize(tys, n, i) \in Nat /\ first[i] <= first[i + 1]
    <2>1. i \in 1 .. k + 1 /\ i + 1 \in 1 .. k + 1
      OBVIOUS
    <2>2. first[i] = SameFirst(tys, n, i) /\ first[i + 1] = SameFirst(tys, n, i + 1)
      BY <1>11, <2>1
    <2>3. first[i] \in Nat /\ SameSize(tys, n, i) \in Nat /\ first[i + 1] = first[i] + SameSize(tys, n, i)
      BY <1>9, <2>2
    <2> QED
      BY <2>2, <2>3
  <1>14. Bounds(first, k) /\ first[k + 1] = n
    <2>1. first \in [1 .. k + 1 -> Nat]
      BY <1>10, <1>12
    <2>2. first[1] = 0 /\ first[k + 1] = n
      <3>1. 1 \in 1 .. k + 1 /\ k + 1 \in 1 .. k + 1
        OBVIOUS
      <3> QED
        BY <1>8, <1>9, <1>11, <3>1
    <2> QED
      BY <1>13, <2>1, <2>2 DEF Bounds
  <1>15. ASSUME NEW i \in 1 .. k
         PROVE  /\ ~tys[i].variadic => first[i + 1] = first[i] + 1
                /\ tys[i].variadic => first[i + 1] - first[i] = SegmentSize(tys, n)
                /\ \A j \in Slice(first, i) : op.vals[s][j] \in tys[i].accepts
    <2>1. SameSize(tys, n, i) = IF tys[i].variadic THEN SegmentSize(tys, n) ELSE 1
      BY <1>3 DEF SameSize, Variadics
    <2>2. first[i + 1] - first[i] = SameSize(tys, n, i)
      BY <1>13
    <2>3. Slice(first, i) = Group(op, s, i)
      BY <1>6, <1>13, Zenon DEF Slice, SameGroup
    <2>4. \A j \in Group(op, s, i) : op.vals[s][j] \in tys[i].accepts
      BY <1>2, <1>3, VerifiedTiles DEF Accepted
    <2> QED
      BY <1>13, <2>1, <2>2, <2>3, <2>4
  <1>16. \A i, j \in Variadics(tys) : first[i + 1] - first[i] = first[j + 1] - first[j]
    BY <1>3, <1>15 DEF Variadics
  <1>17. ~Declares(Segments(s))
    BY <1>1, DeclaredIsThere, NamesDiffer
  <1> QED
    BY <1>1, <1>2, <1>3, <1>4, <1>14, <1>15, <1>16, <1>17, BoundsMatch

(* A list without variadic values, each with its own. *)
LEMMA PlainMatch ==
    ASSUME Verified, NEW s \in Sides, ~Has(Segments(s)), ~Has(SameSizes(s))
    PROVE  Matches(op, s)
  <1>1. /\ s \in Parts /\ IInv /\ stage \in Registered /\ Cleared
        /\ Lists(s) \in Seq(Constraints) /\ Len(Lists(s)) \in Nat
        /\ DOMAIN Lists(s) = 1 .. Len(Lists(s))
    BY ListOfSide, VerifiedIsCleared DEF Verified
  <1>2. ~HasVariadic(Lists(s)) /\ Num(op, s) = Len(Lists(s))
    BY <1>1, SizesHold, CountsHold
  <1>3. PICK k \in Nat : k = Len(Lists(s)) /\ DOMAIN Lists(s) = 1 .. k
    BY <1>1
  <1>4. PICK first : first = [i \in 1 .. k + 1 |-> i - 1]
    OBVIOUS
  <1>5. \A i \in 1 .. k : first[i] = i - 1 /\ first[i + 1] = i
    BY <1>4
  <1>6. Bounds(first, k) /\ first[k + 1] = k
    BY <1>4 DEF Bounds
  <1>7. ASSUME NEW i \in 1 .. k
        PROVE  /\ first[i + 1] = first[i] + 1
               /\ \A j \in Slice(first, i) : op.vals[s][j] \in Lists(s)[i].accepts
    <2>1. Slice(first, i) = {i}
      BY <1>5 DEF Slice
    <2>2. Group(op, s, i) = {i}
      BY DEF Group
    <2>3. \A j \in Group(op, s, i) : op.vals[s][j] \in Lists(s)[i].accepts
      BY <1>3, VerifiedTiles DEF Accepted
    <2> QED
      BY <1>5, <2>1, <2>2, <2>3
  <1>8. ~Declares(Segments(s)) /\ ~Declares(SameSizes(s))
    BY <1>1, DeclaredIsThere, NamesDiffer
  <1> QED
    BY <1>1, <1>2, <1>3, <1>6, <1>7, <1>8, BoundsMatch

(* Regions and successors: the last name takes the rest. *)
LEMMA BlocksMatch ==
    ASSUME Verified, NEW b \in Blocks
    PROVE  Matches(op, b)
  <1>1. /\ b \in Parts /\ b \notin Sides /\ IInv /\ stage \in Registered /\ Typed /\ Cleared
        /\ Lists(b) \in Seq(Constraints) /\ Len(Lists(b)) \in Nat /\ Num(op, b) \in Nat
    BY ListTypes, VerifiedIsCleared
       DEF Verified, IInv, Parts, Blocks, Sides, Typed, TypeOK, Operation, Num
  <1>2. PICK k \in Nat : k = Len(Lists(b)) /\ DOMAIN Lists(b) = 1 .. k
    BY <1>1
  <1>3. PICK n \in Nat : n = Num(op, b)
    BY <1>1
  <1>4. BlocksVerdict(op, b) = "ok"
    <2>1. PICK t \in DOMAIN traits : traits[t].name = BlockConstraint(b)
      BY <1>1 DEF IInv, TypesConstrained, Constraining, Has
    <2>2. /\ traits[t].name[2] = b
          /\ traits[t].name \notin {TypeConstraint, AttrConstraint, IsTerminator, Other,
                                    N(b), AtLeastN(b), SameSizes(b), Segments(b)}
      BY <1>1, <2>1, NamesDiffer
    <2>3. Verdicts(traits[t], op) = {BlocksVerdict(op, b)}
      BY <2>2 DEF Verdicts
    <2> QED
      BY <2>3 DEF Verified, Accepts
  <1>5. /\ \A i \in 1 .. k : \A j \in i .. n :
              (j = i \/ Lists(b)[i].variadic) => op.vals[b][j] \in Lists(b)[i].accepts
        /\ \A i \in 1 .. k : ~Lists(b)[i].variadic => ~(i > n)
    BY <1>2, <1>3, <1>4 DEF BlocksVerdict, InOrder
  <1>6. \A i \in 1 .. k : Lists(b)[i].variadic => i = k
    BY <1>1, <1>2 DEF IInv, DeclarationChecked, OnlyLastVariadic, Variadics, Registered, Ran
  <1>7. ~HasVariadic(Lists(b)) => n = k
    BY <1>1, <1>2, <1>3, CountsHold
  <1>8. k = 0 => n = 0
    <2>1. k = 0 => ~HasVariadic(Lists(b))
      BY <1>2 DEF HasVariadic, Variadics
    <2> QED
      BY <1>7, <2>1
  <1>9. k # 0 /\ ~Lists(b)[k].variadic => n = k
    <2>1. k # 0 /\ ~Lists(b)[k].variadic => ~HasVariadic(Lists(b))
      BY <1>2, <1>6 DEF HasVariadic, Variadics
    <2> QED
      BY <1>7, <2>1
  <1>10. k # 0 => k - 1 <= n
    <2>1. ASSUME k # 0, k # 1 PROVE k - 1 <= n
      <3>1. k - 1 \in 1 .. k /\ k - 1 # k
        BY <2>1
      <3>2. ~Lists(b)[k - 1].variadic
        BY <1>6, <3>1
      <3>3. ~(k - 1 > n)
        BY <1>5, <3>1, <3>2
      <3> QED
        BY <3>1, <3>3
    <2> QED
      BY <2>1
  <1>11. PICK first : first = [i \in 1 .. k + 1 |-> IF i = k + 1 THEN n ELSE i - 1]
    OBVIOUS
  <1>12. \A i \in 1 .. k : first[i] = i - 1 /\ first[i + 1] = (IF i = k THEN n ELSE i)
    <2>1. ASSUME NEW i \in 1 .. k PROVE first[i] = i - 1
      BY <1>11
    <2>2. ASSUME NEW i \in 1 .. k PROVE first[i + 1] = IF i = k THEN n ELSE i
      <3>1. i + 1 \in 1 .. k + 1 /\ (i + 1) - 1 = i /\ (i + 1 = k + 1 <=> i = k)
        OBVIOUS
      <3> QED
        BY <1>11, <3>1
    <2> QED
      BY <2>1, <2>2
  <1>13. Bounds(first, k) /\ first[k + 1] = n
    <2>1. first \in [1 .. k + 1 -> Nat] /\ first[k + 1] = n
      BY <1>11
    <2>2. first[1] = 0
      <3>1. CASE k = 0
        BY <1>8, <2>1, <3>1
      <3>2. CASE k # 0
        <4>1. 1 \in 1 .. k
          BY <3>2
        <4> QED
          BY <1>12, <4>1
      <3> QED
        BY <3>1, <3>2
    <2>3. \A i \in 1 .. k : first[i] <= first[i + 1]
      BY <1>10, <1>12
    <2> QED
      BY <2>1, <2>2, <2>3 DEF Bounds
  <1>14. ASSUME NEW i \in 1 .. k
         PROVE  /\ ~Lists(b)[i].variadic => first[i + 1] = first[i] + 1
                /\ \A j \in Slice(first, i) : op.vals[b][j] \in Lists(b)[i].accepts
    <2>1. first[i] = i - 1 /\ first[i + 1] = (IF i = k THEN n ELSE i)
      BY <1>12
    <2>2. ~Lists(b)[i].variadic => first[i + 1] = first[i] + 1
      BY <1>9, <2>1
    <2>3. Slice(first, i) = i .. first[i + 1]
      BY <2>1 DEF Slice
    <2>4. ASSUME NEW j \in i .. first[i + 1]
          PROVE  j \in i .. n /\ (j = i \/ Lists(b)[i].variadic)
      <3>1. CASE Lists(b)[i].variadic
        BY <1>6, <2>1, <3>1
      <3>2. CASE ~Lists(b)[i].variadic
        <4>1. first[i + 1] = i
          BY <2>1, <2>2, <3>2
        <4>2. ~(i > n)
          BY <1>5, <3>2
        <4> QED
          BY <4>1, <4>2
      <3> QED
        BY <3>1, <3>2
    <2> QED
      BY <1>5, <2>2, <2>3, <2>4
  <1> QED
    BY <1>1, <1>2, <1>3, <1>13, <1>14, BoundsMatch

(***************************************************************************)
(* The traits that registerOp puts together, run in order by verify, do    *)
(* what the declaration says for every declaration, operation and width of *)
(* the sizes: an operation that verified can be cut into one group per     *)
(* name, of the sizes the specifier asks for and values that meet what     *)
(* their constraints say; one that was rejected cannot, unless it was by a *)
(* trait the user wrote, or a constraint has a conjunction in it.          *)
(***************************************************************************)
THEOREM TraitsDecide == Spec => []VerdictExact
  <1>1. VInv => VerdictExact
    <2>1. ASSUME VInv, stage = "valid", NEW p \in Parts PROVE Matches(op, p)
      <3>1. Verified
        BY <2>1 DEF VInv, IInv, Passed, Verified, Registered, Ran
      <3> QED
        BY <3>1, SegmentsMatch, SameSizesMatch, PlainMatch, BlocksMatch DEF Parts
    <2>2. ASSUME VInv, stage = "invalid", traits[next].name \notin Opaque,
                 ~(traits[next].name \in UserCounts /\ Declares(traits[next].name)),
                 ~Conjoins
          PROVE  \E p \in Parts : ~Matches(op, p)
      <3>1. IInv /\ "invalid" \in Verdicts(traits[next], op)
        BY <2>2 DEF VInv, Stopped
      <3> QED
        BY <2>2, <3>1, MatchedVerdict
    <2> QED
      BY <2>1, <2>2 DEF VerdictExact
  <1>2. VInv /\ [Next]_vars => VInv'
    BY Inductive
  <1> QED
    BY <1>1, <1>2, Initially, PTL DEF Spec
=============================================================================
