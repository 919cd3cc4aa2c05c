----------------------- MODULE ExposedOperationProofs -----------------------
(***************************************************************************)
(* Theorems of ExposedOperation, from the lemmas of OpVerificationProofs:  *)
(* what a program may rely on when it constructs, changes, verifies and    *)
(* reads a dynamic operation, for declarations and operations of any size. *)
(***************************************************************************)
EXTENDS ExposedOperation, OpVerificationProofs

(***************************************************************************)
(* The inductive invariant.                                                *)
(***************************************************************************)
Handled ==
    /\ use \in Uses
    /\ attrs \in Seq(AttributeValues)
    /\ parent \in {"none", "right", "wrong"}
    /\ given \in [by : Origins, args : Given]
    /\ checked \in BOOLEAN
    /\ got.is \in Outcomes /\ got.values \in Seq(Sorts)

AttributesKept == DOMAIN attrs = DOMAIN Kinds

Phases ==
    /\ use # "held" => /\ stage \notin Ran
                       /\ ~checked /\ got = NoAnswer /\ given.by = "nothing"
    /\ use # "hidden" => stage \in Registered
    /\ stage \in {"verifying", "valid", "invalid"} => got = NoAnswer /\ ~checked

(* What was read is what a getter still returns. *)
Current == got = NoAnswer \/ got \in Answers

AttributesMet == \A i \in DOMAIN attrs : Satisfied(i)

CheckedHolds == checked => (\A i \in DOMAIN traits : Accepts(i)) /\ AttributesMet

AttributesPassed ==
    /\ stage = "verifying" => \A i \in DOMAIN traits :
          i < next /\ traits[i].name = AttrConstraint => AttributesMet
    /\ stage = "valid" => AttributesMet

Ended ==
    /\ stage = "aborted" => \/ got \in Answers /\ got.is = "undefined"
                            \/ got = NoAnswer /\ "undefined" \in HeldVerdicts
    /\ stage = "invalid" => "invalid" \in HeldVerdicts

(* The values of a constructed operation are its arguments, spliced. *)
Fresh ==
    given.by = "constructor" =>
        /\ given.args \in Arguments[decl]
        /\ \A s \in Sides : op.vals[s] = FlattenSeq(given.args[s])

DefaultsKept ==
    given.by = "custom form" =>
        \A i \in DOMAIN attrs : attrs[i] = "absent" => Kinds[i] \notin {"default", "misfit"}

XInv ==
    /\ IInv
    /\ Handled
    /\ AttributesKept
    /\ Phases
    /\ Current
    /\ CheckedHolds
    /\ AttributesPassed
    /\ Ended
    /\ Fresh
    /\ DefaultsKept
-----------------------------------------------------------------------------
(***************************************************************************)
(* Splicing lists: where the elements of each are found again.             *)
(***************************************************************************)
Lens(args) == [i \in DOMAIN args |-> Len(args[i])]

LEMMA LensType ==
    ASSUME NEW S, NEW args \in Seq(Seq(S))
    PROVE  /\ Lens(args) \in Seq(Nat) /\ Len(Lens(args)) = Len(args)
           /\ \A i \in 1 .. Len(args) : Lens(args)[i] = Len(args[i]) /\ args[i] \in Seq(S)
           /\ DOMAIN args = 1 .. Len(args) /\ Len(args) \in Nat
  <1>1. DOMAIN args = 1 .. Len(args) /\ Len(args) \in Nat
    OBVIOUS
  <1>2. \A i \in 1 .. Len(args) : args[i] \in Seq(S) /\ Len(args[i]) \in Nat
    OBVIOUS
  <1>3. Lens(args) \in [1 .. Len(args) -> Nat]
    BY <1>1, <1>2 DEF Lens
  <1>4. Lens(args) \in Seq(Nat) /\ Len(Lens(args)) = Len(args)
    BY <1>1, <1>3, SMTT(30)
  <1> QED
    BY <1>1, <1>2, <1>4 DEF Lens

Joins(args, n, f) ==
    /\ DOMAIN f = 1 .. n
    /\ \A k \in 1 .. n : f[k] = IF k = 1 THEN args[k] ELSE f[k - 1] \o args[k]

LEMMA JoinsExist ==
    ASSUME NEW args, NEW n \in Nat
    PROVE  \E f : Joins(args, n, f)
  <1> DEFINE S == {m \in Nat : ~\E f : Joins(args, m, f)}
  <1>1. SUFFICES ASSUME S # {} PROVE FALSE
    OBVIOUS
  <1>2. PICK m \in S : \A l \in S : m <= l
    BY <1>1, Least
  <1>3. m # 0
    <2>1. DOMAIN [k \in 1 .. 0 |-> 0] = 1 .. 0 /\ \A k \in 1 .. 0 : FALSE
      OBVIOUS
    <2>2. Joins(args, 0, [k \in 1 .. 0 |-> 0])
      BY <2>1 DEF Joins
    <2> QED
      BY <1>2, <2>2
  <1>4. m \in Nat \ {0} /\ m - 1 \in Nat
    BY <1>2, <1>3
  <1>5. m - 1 \notin S
    <2>1. ASSUME m - 1 \in S PROVE m <= m - 1
      BY <1>2, <2>1
    <2> QED
      BY <1>4, <2>1
  <1>6. PICK f : Joins(args, m - 1, f)
    BY <1>4, <1>5
  <1>7. PICK new : new = IF m = 1 THEN args[m] ELSE f[m - 1] \o args[m]
    OBVIOUS
  <1> DEFINE g == [k \in 1 .. m |-> IF k = m THEN new ELSE f[k]]
  <1>8. ASSUME NEW k \in 1 .. m
        PROVE  g[k] = IF k = 1 THEN args[k] ELSE g[k - 1] \o args[k]
    <2>1. CASE k = m
      <3>1. k # 1 => k - 1 \in 1 .. m /\ k - 1 # m /\ g[k - 1] = f[m - 1]
        BY <1>4, <2>1
      <3>2. g[k] = new
        BY <2>1
      <3> HIDE DEF g
      <3> QED
        BY <1>7, <2>1, <3>1, <3>2
    <2>2. CASE k # m
      <3>1. k \in 1 .. m - 1 /\ (k # 1 => k - 1 \in 1 .. m /\ k - 1 # m)
        BY <1>4, <2>2
      <3>2. f[k] = IF k = 1 THEN args[k] ELSE f[k - 1] \o args[k]
        BY <1>6, <3>1 DEF Joins
      <3>3. g[k] = f[k] /\ (k # 1 => g[k - 1] = f[k - 1])
        BY <2>2, <3>1
      <3> HIDE DEF g
      <3> QED
        BY <3>2, <3>3
    <2> QED
      BY <2>1, <2>2
  <1>9. Joins(args, m, g)
    BY <1>8 DEF Joins
  <1> QED
    BY <1>2, <1>9

(* The list so far: its length, and where it has each element.             *)
Joined(S, args, f, k) ==
    /\ f[k] \in Seq(S)
    /\ Len(f[k]) = SizedFirst(Lens(args), k + 1)
    /\ \A i \in 1 .. k : \A x \in 1 .. Len(args[i]) :
          f[k][SizedFirst(Lens(args), i) + x] = args[i][x]

LEMMA JoinsHold ==
    ASSUME NEW S, NEW args \in Seq(Seq(S)), NEW f, Joins(args, Len(args), f),
           NEW k \in 1 .. Len(args)
    PROVE  Joined(S, args, f, k)
  <1> DEFINE n == Len(args)
             W == {l \in 1 .. n : ~Joined(S, args, f, l)}
  <1>1. PICK L \in Seq(Nat) : L = Lens(args)
    BY LensType
  <1>2. /\ Len(L) = n /\ n \in Nat
        /\ \A i \in 1 .. n : L[i] = Len(args[i]) /\ args[i] \in Seq(S)
    BY <1>1, LensType
  <1>3. PICK first : /\ Bounds(first, n)
                     /\ \A i \in 1 .. n + 1 : first[i] = SizedFirst(L, i) /\ first[i] \in Nat
                     /\ \A i \in 1 .. n : first[i + 1] = first[i] + L[i] /\ L[i] \in Nat
    BY <1>2, SizedBounds
  <1>4. Joins(args, n, f) /\ (W = {} => \A l \in 1 .. n : Joined(S, args, f, l))
    OBVIOUS
  <1> HIDE DEF n
  <1>5. \A i \in 1 .. n : i \in 1 .. n + 1 /\ i + 1 \in 1 .. n + 1 /\ i \in Nat
    BY <1>2
  <1>6. \A i \in 1 .. n : /\ first[i] = SizedFirst(L, i) /\ first[i] \in Nat
                          /\ first[i + 1] = SizedFirst(L, i + 1)
                          /\ first[i + 1] = first[i] + Len(args[i]) /\ Len(args[i]) \in Nat
    BY <1>2, <1>3, <1>5
  <1>7. SUFFICES ASSUME W # {} PROVE FALSE
    BY <1>4 DEF n
  <1>8. W \in SUBSET Nat
    BY <1>5
  <1>9. PICK m \in W : \A l \in W : m <= l
    BY <1>7, <1>8, Least
  <1>10. m \in 1 .. n /\ m \in Nat /\ f[m] = (IF m = 1 THEN args[m] ELSE f[m - 1] \o args[m])
    BY <1>4, <1>5, <1>9 DEF Joins
  <1>11. first[m] \in Nat /\ first[m + 1] = first[m] + Len(args[m]) /\ Len(args[m]) \in Nat
         /\ first[m + 1] = SizedFirst(L, m + 1)
    BY <1>6, <1>10
  <1>12. PICK a \in Seq(S) : a = args[m]
    BY <1>2, <1>10
  <1>13. CASE m = 1
    <2>1. f[m] = a
      BY <1>10, <1>12, <1>13
    <2>2. first[m] = 0
      BY <1>3, <1>13 DEF Bounds
    <2>3. Len(f[m]) = SizedFirst(L, m + 1) /\ f[m] \in Seq(S)
      BY <1>11, <1>12, <2>1, <2>2
    <2>4. ASSUME NEW i \in 1 .. m, NEW x \in 1 .. Len(args[i])
          PROVE  f[m][SizedFirst(L, i) + x] = args[i][x]
      <3>1. i = m
        BY <1>13
      <3>2. SizedFirst(L, i) = 0
        BY <1>6, <1>10, <2>2, <3>1
      <3>3. 0 + x = x
        BY <1>11, <3>1
      <3> QED
        BY <1>12, <2>1, <3>1, <3>2, <3>3
    <2>5. Joined(S, args, f, m)
      BY <1>1, <2>3, <2>4 DEF Joined
    <2> QED
      BY <1>9, <2>5
  <1>14. CASE m # 1
    <2>1. m - 1 \in 1 .. n /\ (m - 1) + 1 = m
      BY <1>2, <1>10, <1>14
    <2>2. m - 1 \notin W
      <3>1. ASSUME m - 1 \in W PROVE m <= m - 1
        BY <1>9, <3>1
      <3> QED
        BY <1>10, <3>1
    <2>3. Joined(S, args, f, m - 1)
      BY <2>1, <2>2
    <2>4. /\ f[m - 1] \in Seq(S) /\ Len(f[m - 1]) = SizedFirst(L, m)
          /\ \A i \in 1 .. m - 1 : \A x \in 1 .. Len(args[i]) :
                f[m - 1][SizedFirst(L, i) + x] = args[i][x]
      BY <1>1, <2>1, <2>3 DEF Joined
    <2>5. PICK q \in Seq(S) : q = f[m - 1] /\ Len(q) = first[m]
      BY <1>6, <1>10, <2>4
    <2>6. f[m] = q \o a
      BY <1>10, <1>12, <1>14, <2>5
    <2>7. /\ q \o a \in Seq(S) /\ Len(q \o a) = Len(q) + Len(a)
          /\ \A x \in 1 .. Len(q) : (q \o a)[x] = q[x]
          /\ \A x \in 1 .. Len(a) : (q \o a)[Len(q) + x] = a[x]
      OBVIOUS
    <2>8. f[m] \in Seq(S) /\ Len(f[m]) = SizedFirst(L, m + 1)
      BY <1>11, <1>12, <2>5, <2>6, <2>7
    <2>9. ASSUME NEW i \in 1 .. m, NEW x \in 1 .. Len(args[i])
          PROVE  f[m][SizedFirst(L, i) + x] = args[i][x]
      <3>1. CASE i = m
        <4>1. args[i] = a /\ SizedFirst(L, i) = Len(q)
          BY <1>6, <1>10, <1>12, <2>5, <3>1
        <4>2. (q \o a)[Len(q) + x] = a[x]
          BY <2>7, <4>1
        <4> QED
          BY <2>6, <4>1, <4>2
      <3>2. CASE i # m
        <4>1. i \in 1 .. m - 1 /\ i \in 1 .. n /\ i + 1 <= m
          BY <1>2, <1>10, <3>2, SMTT(30)
        <4>2. first[i + 1] <= first[m]
          <5>1. i + 1 \in 1 .. n + 1 /\ m \in 1 .. n + 1
            BY <1>5, <1>10, <4>1
          <5> QED
            BY <1>2, <1>3, <4>1, <5>1, BoundsGrow
        <4>3. first[i] + x \in 1 .. Len(q) /\ first[i] = SizedFirst(L, i)
          <5>1. /\ first[i] = SizedFirst(L, i) /\ first[i] \in Nat
                /\ first[i + 1] = first[i] + Len(args[i]) /\ Len(args[i]) \in Nat
            BY <1>6, <4>1
          <5>2. PICK size \in Nat, l \in Nat, z \in Nat :
                   size = Len(args[i]) /\ l = first[i] /\ z = Len(q)
            BY <5>1, SMTT(30)
          <5>3. l + size <= z
            BY <1>11, <2>5, <4>2, <5>1, <5>2
          <5>4. x \in 1 .. size
            BY <5>2
          <5>5. l + x \in 1 .. z
            BY <5>3, <5>4
          <5> QED
            BY <5>1, <5>2, <5>5
        <4> QED
          BY <2>4, <2>5, <2>6, <2>7, <4>1, <4>3
      <3> QED
        BY <3>1, <3>2
    <2>10. Joined(S, args, f, m)
      BY <1>1, <2>8, <2>9 DEF Joined
    <2> QED
      BY <1>9, <2>10
  <1> QED
    BY <1>13, <1>14

(* What FlattenSeq makes of lists of values, and where the lists are.      *)
LEMMA Flattened ==
    ASSUME NEW S, NEW args \in Seq(Seq(S))
    PROVE  /\ FlattenSeq(args) \in Seq(S)
           /\ Len(FlattenSeq(args)) = SizedFirst(Lens(args), Len(args) + 1)
           /\ \A i \in 1 .. Len(args) : \A x \in 1 .. Len(args[i]) :
                 FlattenSeq(args)[SizedFirst(Lens(args), i) + x] = args[i][x]
  <1>1. CASE Len(args) = 0
    <2>1. FlattenSeq(args) = args /\ args = <<>>
      BY <1>1 DEF FlattenSeq
    <2>2. SizedFirst(Lens(args), 1) = 0
      BY LensType, SizedSteps
    <2>3. <<>> \in Seq(S) /\ Len(<<>>) = 0
      OBVIOUS
    <2> QED
      BY <1>1, <2>1, <2>2, <2>3
  <1>2. CASE Len(args) # 0
    <2> DEFINE Is(f) == f = [i \in 1 .. Len(args) |->
                                IF i = 1 THEN args[i] ELSE f[i - 1] \o args[i]]
               flat == CHOOSE f : Is(f)
    <2>1. Len(args) \in Nat \ {0}
      BY <1>2
    <2>2. PICK f : Joins(args, Len(args), f)
      BY <2>1, JoinsExist
    <2>3. PICK g : g = [i \in 1 .. Len(args) |-> f[i]]
      OBVIOUS
    <2>4. Is(g)
      <3>1. \A i \in 1 .. Len(args) : i # 1 => i - 1 \in 1 .. Len(args)
        BY <2>1
      <3>2. \A i \in 1 .. Len(args) : g[i] = IF i = 1 THEN args[i] ELSE g[i - 1] \o args[i]
        BY <2>2, <2>3, <3>1 DEF Joins
      <3> QED
        BY <2>3, <3>2
    <2>5. Is(flat)
      BY <2>4
    <2>6. FlattenSeq(args) = flat[Len(args)]
      BY <1>2 DEF FlattenSeq
    <2> HIDE DEF flat
    <2>7. Joins(args, Len(args), flat)
      BY <2>5 DEF Joins
    <2>8. Joined(S, args, flat, Len(args))
      BY <2>1, <2>7, JoinsHold
    <2> QED
      BY <2>6, <2>8 DEF Joined
  <1> QED
    BY <1>1, <1>2

LEMMA SubSeqType ==
    ASSUME NEW S, NEW q \in Seq(S), NEW m \in Nat, NEW z \in Nat, m + z <= Len(q)
    PROVE  /\ SubSeq(q, m + 1, m + z) \in Seq(S) /\ Len(SubSeq(q, m + 1, m + z)) = z
           /\ \A x \in 1 .. z : SubSeq(q, m + 1, m + z)[x] = q[m + x]
  <1>1. SubSeq(q, m + 1, m + z) = [x \in 1 .. z |-> q[m + x]]
    OBVIOUS
  <1>2. \A x \in 1 .. z : q[m + x] \in S
    OBVIOUS
  <1>3. [x \in 1 .. z |-> q[m + x]] \in [1 .. z -> S]
    BY <1>2
  <1>4. PICK r : r = SubSeq(q, m + 1, m + z)
    OBVIOUS
  <1>5. r \in [1 .. z -> S] /\ \A x \in 1 .. z : r[x] = q[m + x]
    BY <1>1, <1>3, <1>4
  <1>6. r \in Seq(S) /\ Len(r) = z
    BY <1>5
  <1> QED
    BY <1>4, <1>5, <1>6

LEMMA FoundAgain ==
    ASSUME NEW S, NEW q \in Seq(S), NEW a \in Seq(S), NEW m \in Nat, m + Len(a) <= Len(q),
           \A x \in 1 .. Len(a) : q[m + x] = a[x]
    PROVE  SubSeq(q, m + 1, m + Len(a)) = a
  <1>1. PICK z \in Nat : z = Len(a)
    OBVIOUS
  <1>2. /\ SubSeq(q, m + 1, m + z) \in Seq(S) /\ Len(SubSeq(q, m + 1, m + z)) = z
        /\ \A x \in 1 .. z : SubSeq(q, m + 1, m + z)[x] = q[m + x]
    BY <1>1, SubSeqType
  <1>3. PICK r \in Seq(S) : r = SubSeq(q, m + 1, m + z)
    BY <1>2
  <1>4. Len(r) = Len(a) /\ \A x \in 1 .. Len(a) : r[x] = a[x]
    BY <1>1, <1>2, <1>3
  <1>5. r = a
    BY <1>4
  <1> QED
    BY <1>1, <1>3, <1>5

LEMMA LeastOf ==
    ASSUME NEW S \in SUBSET Nat, S # {}
    PROVE  Min(S) \in S
  <1>1. \E x \in S : \A y \in S : x <= y
    BY Least
  <1> QED
    BY <1>1 DEF Min

(***************************************************************************)
(* What a getter returns.                                                  *)
(***************************************************************************)
LEMMA IntervalSize ==
    ASSUME NEW m \in Nat, NEW z \in Nat
    PROVE  Cardinality(m + 1 .. m + z) = z
  <1>1. Cardinality(m + 1 .. m + z) = IF m + 1 > m + z THEN 0 ELSE m + z - (m + 1) + 1
    BY FS_Interval
  <1> QED
    BY <1>1

LEMMA GroupRange ==
    ASSUME IInv, NEW s \in Sides, NEW i \in DOMAIN Lists(s), Sized(s, i)
    PROVE  /\ Start(s, i) \in Nat
           /\ \E z \in Nat : /\ Group(op, s, i) = Start(s, i) + 1 .. Start(s, i) + z
                             /\ Cardinality(Group(op, s, i)) = z
                             /\ Has(Segments(s)) => z = Sizes(s)[i]
                             /\ ~Has(Segments(s)) /\ Has(SameSizes(s))
                                   => z = SameSize(Lists(s), Num(op, s), i)
                             /\ ~Has(Segments(s)) /\ ~Has(SameSizes(s)) => z = 1
  <1>1. /\ Lists(s) \in Seq(Constraints) /\ DOMAIN Lists(s) = 1 .. Len(Lists(s))
        /\ Num(op, s) \in Nat /\ Len(Lists(s)) \in Nat
    BY ListOfSide
  <1>2. CASE Has(Segments(s))
    <2>1. PICK segs \in op.segs[s] : Len(segs) >= i
      BY <1>2 DEF Sized
    <2>2. Sizes(s) = segs /\ segs \in Seq(Nat)
      <3>1. Sizes(s) \in op.segs[s]
        BY <2>1 DEF Sizes
      <3> QED
        BY <2>1, <3>1 DEF IInv, Bounded, Typed, TypeOK, Operation
    <2>3. i \in 1 .. Len(segs)
      BY <1>1, <2>1, <2>2
    <2>4. SizedFirst(segs, i) \in Nat /\ segs[i] \in Nat
      BY <2>2, <2>3, SizedSteps
    <2>5. Start(s, i) = SizedFirst(segs, i)
      BY <1>2, <2>2 DEF Start
    <2>6. Group(op, s, i) = SizedFirst(segs, i) + 1 .. SizedFirst(segs, i) + segs[i]
      BY <1>2, <2>2 DEF Group, Sizes
    <2>7. Cardinality(Group(op, s, i)) = segs[i]
      BY <2>4, <2>6, IntervalSize
    <2> QED
      BY <1>2, <2>2, <2>4, <2>5, <2>6, <2>7
  <1>3. CASE ~Has(Segments(s)) /\ Has(SameSizes(s))
    <2>1. HasVariadic(Lists(s))
      BY <1>3 DEF Sized
    <2>2. SameFirst(Lists(s), Num(op, s), i) \in Nat /\ SameSize(Lists(s), Num(op, s), i) \in Nat
      BY <1>1, <2>1, FirstSteps
    <2>3. Start(s, i) = SameFirst(Lists(s), Num(op, s), i)
      BY <1>3 DEF Start
    <2>4. Group(op, s, i) = Start(s, i) + 1 .. Start(s, i) + SameSize(Lists(s), Num(op, s), i)
      BY <1>3, <2>3 DEF Group
    <2>5. Cardinality(Group(op, s, i)) = SameSize(Lists(s), Num(op, s), i)
      BY <2>2, <2>3, <2>4, IntervalSize
    <2> QED
      BY <1>3, <2>2, <2>3, <2>4, <2>5
  <1>4. CASE ~Has(Segments(s)) /\ ~Has(SameSizes(s))
    <2>1. Start(s, i) = i - 1 /\ i - 1 \in Nat /\ i \in Nat
      BY <1>1, <1>4 DEF Start
    <2>2. Group(op, s, i) = {i}
      BY <1>4 DEF Group
    <2>3. {i} = (i - 1) + 1 .. (i - 1) + 1
      BY <2>1
    <2>4. Cardinality(Group(op, s, i)) = 1
      BY <2>2, FS_Singleton
    <2> QED
      BY <1>4, <2>1, <2>2, <2>3, <2>4
  <1> QED
    BY <1>2, <1>3, <1>4

(* What is returned when "of" is asked for. *)
AnswersOf(of) ==
    [of : {of}, is : {"values", "raised", "undefined"}, values : Seq(Sorts)]

LEMMA AnswerType ==
    ASSUME NEW of
    PROVE  /\ \A values \in Seq(Sorts) :
                 /\ Answer(of, "values", values) \in AnswersOf(of)
                 /\ Answer(of, "values", values).is = "values"
                 /\ Answer(of, "values", values).values = values
           /\ Answer(of, "raised", <<>>) \in AnswersOf(of)
           /\ Answer(of, "raised", <<>>).is = "raised"
           /\ Answer(of, "undefined", <<>>) \in AnswersOf(of)
           /\ Answer(of, "undefined", <<>>).is = "undefined"
  <1>1. <<>> \in Seq(Sorts)
    OBVIOUS
  <1> QED
    BY <1>1 DEF Answer, AnswersOf

LEMMA NameParts ==
    ASSUME NEW name \in ValueNames
    PROVE  name[1] \in Sides /\ name[2] \in DOMAIN Lists(name[1]) /\ name = <<name[1], name[2]>>
  BY DEF ValueNames

LEMMA ValuesFromType ==
    ASSUME IInv, NEW name \in ValueNames, NEW size \in Nat
    PROVE  /\ ValuesFrom(name, size) \in AnswersOf(name)
           /\ ValuesFrom(name, size).is \in {"values", "undefined"}
  <1>1. PICK s, i : s = name[1] /\ i = name[2] /\ s \in Sides /\ i \in DOMAIN Lists(s)
    BY NameParts
  <1>2. op.vals[s] \in Seq(Sorts) /\ Num(op, s) = Len(op.vals[s])
    BY <1>1 DEF IInv, Typed, TypeOK, Operation, Num, Parts
  <1>3. CASE Sized(s, i) /\ Start(s, i) + size <= Num(op, s)
    <2>1. Start(s, i) \in Nat
      BY <1>1, <1>3, GroupRange
    <2>2. PICK q \in Seq(Sorts) : q = SubSeq(op.vals[s], Start(s, i) + 1, Start(s, i) + size)
      BY <1>2, <1>3, <2>1, SubSeqType
    <2>3. ValuesFrom(name, size) = Answer(name, "values", q)
      BY <1>1, <1>3, <2>2 DEF ValuesFrom
    <2>4. Answer(name, "values", q) \in AnswersOf(name) /\ Answer(name, "values", q).is = "values"
      BY AnswerType
    <2> QED
      BY <2>3, <2>4
  <1>4. CASE ~(Sized(s, i) /\ Start(s, i) + size <= Num(op, s))
    <2>1. ValuesFrom(name, size) = Answer(name, "undefined", <<>>)
      BY <1>1, <1>4 DEF ValuesFrom
    <2> QED
      BY <2>1, AnswerType
  <1> QED
    BY <1>3, <1>4

LEMMA GroupSizeType ==
    ASSUME IInv, NEW name \in ValueNames
    PROVE  GroupSize(name) \in Nat
  <1>1. name[1] \in Sides /\ name[2] \in DOMAIN Lists(name[1])
    BY NameParts
  <1> QED
    BY <1>1, GroupRange DEF GroupSize

LEMMA ValueOfType ==
    ASSUME IInv, NEW name \in ValueNames
    PROVE  /\ ValueOf(name) \in AnswersOf(name) /\ ValueOf(name).is \in {"values", "undefined"}
           /\ GroupOf(name) \in AnswersOf(name) /\ GroupOf(name).is \in {"values", "undefined"}
  <1>1. GroupOf(name) \in AnswersOf(name) /\ GroupOf(name).is \in {"values", "undefined"}
    BY GroupSizeType, ValuesFromType DEF GroupOf
  <1>2. 1 \in Nat
    OBVIOUS
  <1>3. ValuesFrom(name, 1) \in AnswersOf(name) /\ ValuesFrom(name, 1).is \in {"values", "undefined"}
    BY <1>2, ValuesFromType
  <1> QED
    BY <1>1, <1>3 DEF ValueOf

LEMMA RegionOfType ==
    ASSUME IInv, NEW i
    PROVE  RegionOf(i) \in AnswersOf(<<"region", i>>)
  <1>1. CASE i \notin DOMAIN Lists("region")
    <2>1. RegionOf(i) = Answer(<<"region", i>>, "raised", <<>>)
      BY <1>1 DEF RegionOf
    <2> QED
      BY <2>1, AnswerType
  <1>2. CASE i \in DOMAIN Lists("region") /\ i <= Num(op, "region")
    <2>1. Lists("region") \in Seq(Constraints) /\ op.vals["region"] \in Seq(Sorts)
      BY DEF IInv, Typed, TypeOK, Operation, Declaration, Lists, Parts, Blocks
    <2>2. i \in 1 .. Len(op.vals["region"])
      BY <1>2, <2>1 DEF Num
    <2>3. PICK sort \in Sorts : sort = op.vals["region"][i]
      BY <2>1, <2>2
    <2>4. <<sort>> \in Seq(Sorts)
      OBVIOUS
    <2>5. PICK q \in Seq(Sorts) : q = <<op.vals["region"][i]>>
      BY <2>3, <2>4
    <2>6. RegionOf(i) = Answer(<<"region", i>>, "values", q)
      BY <1>2, <2>5 DEF RegionOf
    <2> QED
      BY <2>6, AnswerType
  <1>3. CASE i \in DOMAIN Lists("region") /\ ~(i <= Num(op, "region"))
    <2>1. RegionOf(i) = Answer(<<"region", i>>, "undefined", <<>>)
      BY <1>3 DEF RegionOf
    <2> QED
      BY <2>1, AnswerType
  <1> QED
    BY <1>1, <1>2, <1>3

LEMMA BlockOfType ==
    ASSUME IInv, NEW b \in Blocks, NEW i \in DOMAIN Lists(b)
    PROVE  BlockOf(b, i) \in AnswersOf(<<b, i>>)
  <1>1. CASE b = "successor" \/ Lists(b)[i].variadic
    <2>1. BlockOf(b, i) = Answer(<<b, i>>, "raised", <<>>)
      BY <1>1 DEF BlockOf
    <2> QED
      BY <2>1, AnswerType
  <1>2. CASE ~(b = "successor" \/ Lists(b)[i].variadic)
    <2>1. b = "region" /\ BlockOf(b, i) = RegionOf(i)
      BY <1>2 DEF BlockOf, Blocks
    <2> QED
      BY <2>1, RegionOfType
  <1> QED
    BY <1>1, <1>2

LEMMA EffectOfType ==
    ASSUME IInv, NEW name
    PROVE  EffectOf(name) \in AnswersOf(name)
  <1>1. CASE name \in ValueNames
    BY <1>1, ValueOfType DEF EffectOf
  <1>2. CASE name \notin ValueNames
    <2>1. EffectOf(name) = Answer(name, "raised", <<>>)
      BY <1>2 DEF EffectOf
    <2> QED
      BY <2>1, AnswerType
  <1> QED
    BY <1>1, <1>2

(* When one of the names cannot be read, that is the answer; else there    *)
(* are values.                                                             *)
LEMMA EffectsType ==
    ASSUME IInv, NEW kinds
    PROVE  /\ Effects(kinds) \in AnswersOf(<<"effects">>)
           /\ Effects(kinds).is = "undefined" =>
                 \E name \in ValueNames : GroupOf(name).is = "undefined"
  <1>1. PICK targets \in Seq([effect : MemoryEffects, on : Sides \X (Nat \ {0})]) :
           targets = Targets[decl]
    BY ExposureAssumption DEF IInv, Typed
  <1>2. PICK n \in Nat : DOMAIN targets = 1 .. n /\ Len(targets) = n
    OBVIOUS
  <1>3. PICK on : on = [k \in DOMAIN targets |-> EffectOf(targets[k].on)]
    OBVIOUS
  <1>4. \A k \in 1 .. n : on[k] = EffectOf(targets[k].on) /\ on[k] \in AnswersOf(targets[k].on)
    BY <1>2, <1>3, EffectOfType
  <1>5. PICK failed : failed = {k \in DOMAIN on : on[k].is # "values"}
    OBVIOUS
  <1>6. DOMAIN on = 1 .. n /\ failed \in SUBSET Nat
    BY <1>2, <1>3, <1>5
  <1>7. CASE failed # {}
    <2>1. PICK k \in 1 .. n : k = Min(failed) /\ k \in failed
      BY <1>5, <1>6, <1>7, LeastOf
    <2>2. Effects(kinds) = [on[k] EXCEPT !.of = <<"effects">>]
      BY <1>1, <1>3, <1>5, <1>7, <2>1 DEF Effects
    <2>3. PICK answer \in AnswersOf(targets[k].on) : answer = on[k]
      BY <1>4
    <2>4. /\ [answer EXCEPT !.of = <<"effects">>] \in AnswersOf(<<"effects">>)
          /\ [answer EXCEPT !.of = <<"effects">>].is = answer.is
      BY DEF AnswersOf
    <2>5. answer.is = "undefined" => \E name \in ValueNames : GroupOf(name).is = "undefined"
      <3>1. SUFFICES ASSUME answer.is = "undefined", targets[k].on \notin ValueNames PROVE FALSE
        BY <1>4, <2>3 DEF EffectOf
      <3>2. answer = Answer(targets[k].on, "raised", <<>>)
        BY <1>4, <2>3, <3>1 DEF EffectOf
      <3> QED
        BY <3>1, <3>2, AnswerType
    <2> QED
      BY <2>2, <2>3, <2>4, <2>5
  <1>8. CASE failed = {}
    <2>1. PICK asked :
             asked = [k \in DOMAIN on |-> IF targets[k].effect \in kinds THEN on[k].values ELSE <<>>]
      OBVIOUS
    <2>2. \A k \in 1 .. n : asked[k] \in Seq(Sorts)
      <3>1. \A k \in 1 .. n : on[k].values \in Seq(Sorts)
        BY <1>4 DEF AnswersOf
      <3>2. <<>> \in Seq(Sorts)
        OBVIOUS
      <3> QED
        BY <1>6, <2>1, <3>1, <3>2
    <2>3. asked \in [1 .. n -> Seq(Sorts)]
      BY <1>6, <2>1, <2>2
    <2>4. asked \in Seq(Seq(Sorts))
      BY <2>3
    <2>5. PICK q \in Seq(Sorts) : q = FlattenSeq(asked)
      BY <2>4, Flattened
    <2>6. Effects(kinds) = Answer(<<"effects">>, "values", q)
      BY <1>1, <1>3, <1>5, <1>8, <2>1, <2>5 DEF Effects
    <2> QED
      BY <2>6, AnswerType
  <1> QED
    BY <1>7, <1>8

(* Only the getter of a name answers for that name.                        *)
LEMMA AnswersTyped ==
    ASSUME IInv, NEW answer \in Answers
    PROVE  /\ answer.is \in {"values", "raised", "undefined"}
           /\ answer.values \in Seq(Sorts)
           /\ answer # NoAnswer
           /\ answer.of \in ValueNames => answer = ValueOf(answer.of)
  <1>1. CASE answer \in {ValueOf(name) : name \in ValueNames}
    <2>1. PICK name \in ValueNames : answer = ValueOf(name)
      BY <1>1
    <2> QED
      BY <2>1, ValueOfType DEF AnswersOf, NoAnswer
  <1>2. CASE answer \in UNION {{BlockOf(b, i) : i \in DOMAIN Lists(b)} : b \in Blocks}
    <2>1. PICK b, i : b \in Blocks /\ i \in DOMAIN Lists(b) /\ answer = BlockOf(b, i)
      BY <1>2
    <2>2. answer \in AnswersOf(<<b, i>>)
      BY <2>1, BlockOfType
    <2>3. <<b, i>> \notin ValueNames
      <3>1. <<b, i>>[1] = b /\ b \notin Sides
        BY <2>1 DEF Blocks, Sides
      <3> QED
        BY <3>1, NameParts
    <2> QED
      BY <2>2, <2>3 DEF AnswersOf, NoAnswer
  <1>3. CASE answer \in {Effects(MemoryEffects), Writes}
    <2>1. answer \in AnswersOf(<<"effects">>)
      BY <1>3, EffectsType DEF Writes
    <2>2. <<"effects">> \notin ValueNames
      <3>1. <<"effects">>[1] = "effects" /\ "effects" \notin Sides
        BY DEF Sides
      <3> QED
        BY <3>1, NameParts
    <2> QED
      BY <2>1, <2>2 DEF AnswersOf, NoAnswer
  <1>4. CASE answer \in {[RegionOf(i) EXCEPT !.of = <<"loop", i>>] : i \in Loops[decl]}
    <2>1. PICK i \in Loops[decl] : answer = [RegionOf(i) EXCEPT !.of = <<"loop", i>>]
      BY <1>4
    <2>2. PICK region \in AnswersOf(<<"region", i>>) : region = RegionOf(i)
      BY RegionOfType
    <2>3. [region EXCEPT !.of = <<"loop", i>>] \in AnswersOf(<<"loop", i>>)
      BY DEF AnswersOf
    <2>4. answer \in AnswersOf(<<"loop", i>>)
      BY <2>1, <2>2, <2>3
    <2>5. <<"loop", i>> \notin ValueNames
      BY DEF ValueNames, Sides
    <2> QED
      BY <2>4, <2>5, SMTT(30) DEF AnswersOf, NoAnswer
  <1> QED
    BY <1>1, <1>2, <1>3, <1>4 DEF Answers
-----------------------------------------------------------------------------
(***************************************************************************)
(* What the parts of the invariant depend on.                              *)
(***************************************************************************)
LEMMA GettersStable ==
    ASSUME UNCHANGED <<decl, traits, op>>
    PROVE  /\ ValueNames' = ValueNames
           /\ \A name : GroupOf(name)' = GroupOf(name) /\ ValueOf(name)' = ValueOf(name)
           /\ \A i : RegionOf(i)' = RegionOf(i)
           /\ \A b, i : BlockOf(b, i)' = BlockOf(b, i)
  <1>1. \A p : Lists(p)' = Lists(p) /\ Has(p)' = Has(p)
    BY DEF Lists, Has
  <1>2. \A s : Num(op, s)' = Num(op, s) /\ Sizes(s)' = Sizes(s)
    BY DEF Num, Sizes
  <1>3. \A s, i : Sized(s, i)' = Sized(s, i)
    BY <1>1 DEF Sized
  <1>4. \A s, i : Start(s, i)' = Start(s, i)
    BY <1>1, <1>2 DEF Start
  <1>5. \A s, i : Group(op, s, i)' = Group(op, s, i)
    BY <1>1, <1>2 DEF Group
  <1>6. \A name : GroupSize(name)' = GroupSize(name)
    BY <1>3, <1>5 DEF GroupSize
  <1>7. \A name, size : ValuesFrom(name, size)' = ValuesFrom(name, size)
    BY <1>2, <1>3, <1>4 DEF ValuesFrom
  <1>8. \A name : GroupOf(name)' = GroupOf(name)
    BY <1>6, <1>7 DEF GroupOf
  <1>9. \A name : ValueOf(name)' = ValueOf(name)
    BY <1>1, <1>7, <1>8 DEF ValueOf
  <1>10. \A i : RegionOf(i)' = RegionOf(i)
    BY <1>1, <1>2 DEF RegionOf
  <1>11. \A b, i : BlockOf(b, i)' = BlockOf(b, i)
    BY <1>1, <1>10 DEF BlockOf
  <1>12. ValueNames' = ValueNames
    BY <1>1 DEF ValueNames
  <1> QED
    BY <1>8, <1>9, <1>10, <1>11, <1>12

EffectsFrom(targets, on, kinds) ==
    LET failed == {k \in DOMAIN on : on[k].is # "values"}
        asked == [k \in DOMAIN on |->
                     IF targets[k].effect \in kinds THEN on[k].values ELSE <<>>]
    IN IF failed # {} THEN [on[Min(failed)] EXCEPT !.of = <<"effects">>]
       ELSE Answer(<<"effects">>, "values", FlattenSeq(asked))

LEMMA AnswersStable ==
    ASSUME UNCHANGED <<decl, traits, op>>
    PROVE  Answers' = Answers
  <1>1. \A p : Lists(p)' = Lists(p)
    BY DEF Lists
  <1>2. \A name : EffectOf(name)' = EffectOf(name)
    BY GettersStable DEF EffectOf
  <1>3. \A kinds : Effects(kinds)' = Effects(kinds)
    <2>1. PICK targets : targets = Targets[decl] /\ targets = Targets[decl]'
      OBVIOUS
    <2>2. PICK on : on = [k \in DOMAIN targets |-> EffectOf(targets[k].on)]
      OBVIOUS
    <2>3. \A kinds : Effects(kinds) = EffectsFrom(targets, on, kinds)
      BY <2>1, <2>2 DEF Effects, EffectsFrom
    <2>4. [k \in DOMAIN Targets[decl] |-> EffectOf(Targets[decl][k].on)]' = on
      <3>1. \A k : EffectOf(Targets[decl][k].on)' = EffectOf(targets[k].on)'
        BY <2>1
      <3> QED
        BY <2>1, <2>2, <1>2, <3>1
    <2>5. \A kinds : Effects(kinds)'
             = EffectsFrom(Targets[decl]',
                           [k \in DOMAIN Targets[decl] |-> EffectOf(Targets[decl][k].on)]', kinds)
      BY DEF Effects, EffectsFrom
    <2>6. \A kinds : Effects(kinds)' = EffectsFrom(targets, on, kinds)
      BY <2>1, <2>4, <2>5
    <2> QED
      BY <2>3, <2>6
  <1>4. {ValueOf(name) : name \in ValueNames}' = {ValueOf(name) : name \in ValueNames}
    BY GettersStable
  <1>5. (UNION {{BlockOf(b, i) : i \in DOMAIN Lists(b)} : b \in Blocks})'
            = UNION {{BlockOf(b, i) : i \in DOMAIN Lists(b)} : b \in Blocks}
    BY <1>1, GettersStable
  <1>6. {Effects(MemoryEffects), Writes}' = {Effects(MemoryEffects), Writes}
    BY <1>3 DEF Writes
  <1>7. {[RegionOf(i) EXCEPT !.of = <<"loop", i>>] : i \in Loops[decl]}'
            = {[RegionOf(i) EXCEPT !.of = <<"loop", i>>] : i \in Loops[decl]}
    BY GettersStable
  <1> QED
    BY <1>4, <1>5, <1>6, <1>7 DEF Answers

LEMMA AttributesStable ==
    ASSUME UNCHANGED <<decl, attrs>>
    PROVE  /\ AttributesMet' = AttributesMet /\ AttributesVerdict' = AttributesVerdict
           /\ AttributesKept' = AttributesKept
  <1>1. \A i : Satisfied(i)' = Satisfied(i)
    BY DEF Satisfied, Kinds
  <1> QED
    BY <1>1 DEF AttributesMet, AttributesVerdict, AttributesKept, Kinds

LEMMA HeldVerdictsStable ==
    ASSUME UNCHANGED <<decl, traits, next, op, attrs, parent>>
    PROVE  HeldVerdicts' = HeldVerdicts
  <1>1. PICK n : n = next
    OBVIOUS
  <1>2. Verdicts(traits[n], op)' = Verdicts(traits[n], op)
    BY AcceptsStable
  <1>3. Verdicts(traits[next], op)' = Verdicts(traits[next], op)
    BY <1>1, <1>2
  <1>4. AttributesVerdict' = AttributesVerdict /\ ParentVerdict' = ParentVerdict
    BY AttributesStable DEF ParentVerdict
  <1> QED
    BY <1>3, <1>4 DEF HeldVerdicts

LEMMA XInvStutter ==
    ASSUME XInv, UNCHANGED allVars
    PROVE  XInv'
  <1> USE DEF allVars, handle, vars
  <1>1. IInv'
    BY InductiveStutter DEF XInv
  <1>2. Handled' /\ AttributesKept' /\ Phases'
    BY AttributesStable DEF XInv, Handled, Phases
  <1>3. Current' /\ Ended'
    BY AnswersStable, HeldVerdictsStable DEF XInv, Current, Ended
  <1>4. CheckedHolds' /\ AttributesPassed'
    BY AcceptsStable, AttributesStable DEF XInv, CheckedHolds, AttributesPassed
  <1>5. Fresh' /\ DefaultsKept'
    BY DEF XInv, Fresh, DefaultsKept, Kinds
  <1> QED
    BY <1>1, <1>2, <1>3, <1>4, <1>5 DEF XInv

(***************************************************************************)
(* The invariant is inductive: before there is an operation.               *)
(***************************************************************************)
LEMMA AttributesOf ==
    ASSUME IInv
    PROVE  Kinds \in Seq(AttributeKinds) /\ DOMAIN Kinds = 1 .. Len(Kinds) /\ Len(Kinds) \in Nat
  <1>1. Kinds \in Seq(AttributeKinds)
    BY ExposureAssumption DEF IInv, Typed, Kinds
  <1> QED
    BY <1>1

LEMMA GivenTypes ==
    \A by \in Origins : /\ Untouched(by) \in [by : Origins, args : Given]
                        /\ Untouched(by).by = by
  <1>1. NoArguments \in Given
    <2>1. <<>> \in Seq(Seq(Sorts))
      OBVIOUS
    <2> QED
      BY <2>1 DEF NoArguments, Given
  <1> QED
    BY <1>1 DEF Untouched

LEMMA ExposedInitially == ExposedInit => XInv
  <1> SUFFICES ASSUME ExposedInit PROVE XInv
    OBVIOUS
  <1>1. IInv /\ stage = "parsed"
    BY Initially DEF ExposedInit, Init, VInv
  <1>2. attrs \in Seq(AttributeValues) /\ DOMAIN attrs = DOMAIN Kinds
    <2>1. attrs = [i \in 1 .. Len(Kinds) |-> "absent"]
      BY <1>1, AttributesOf DEF ExposedInit, Kinds
    <2>2. attrs \in [1 .. Len(Kinds) -> AttributeValues]
      BY <2>1 DEF AttributeValues
    <2> QED
      BY <1>1, <2>1, <2>2, AttributesOf
  <1>3. given = Untouched("nothing") /\ given \in [by : Origins, args : Given] /\ given.by = "nothing"
    BY GivenTypes DEF ExposedInit, Origins
  <1>4. Handled
    <2>1. <<>> \in Seq(Sorts)
      OBVIOUS
    <2> QED
      BY <1>2, <1>3, <2>1 DEF ExposedInit, Handled, NoAnswer, Uses, Outcomes
  <1>5. AttributesKept /\ Phases /\ Current
    BY <1>1, <1>2, <1>3 DEF ExposedInit, AttributesKept, Phases, Current, Ran
  <1>6. CheckedHolds /\ AttributesPassed /\ Ended /\ Fresh /\ DefaultsKept
    BY <1>1, <1>3 DEF ExposedInit, CheckedHolds, AttributesPassed, Ended, Fresh, DefaultsKept
  <1> QED
    BY <1>1, <1>4, <1>5, <1>6 DEF XInv

LEMMA InductiveRegister ==
    ASSUME XInv, Register
    PROVE  XInv'
  <1>1. /\ VerifyDeclaration \/ AddUserTrait \/ AddSpecTraits
        /\ UNCHANGED handle
    BY DEF Register
  <1>2. Typed'
    <2>1. Next
      BY <1>1 DEF Next
    <2> QED
      BY <2>1, TypedInductive DEF XInv, IInv
  <1>3. IInv'
    BY <1>1, <1>2, InductiveVerifyDeclaration, InductiveAddUserTrait, InductiveAddSpecTraits DEF XInv
  <1>4. /\ stage \in {"parsed", "user"} /\ stage' \in {"user", "rejected", "registered"}
        /\ UNCHANGED <<decl, attrs>>
    BY <1>1 DEF VerifyDeclaration, AddUserTrait, AddSpecTraits, handle
  <1>5. use = "hidden" /\ ~checked /\ got = NoAnswer /\ given.by = "nothing"
    BY <1>4 DEF XInv, Phases, Registered, Ran, Handled, Uses
  <1>6. use' = "hidden" /\ ~checked' /\ got' = NoAnswer /\ given'.by = "nothing"
    BY <1>1, <1>5 DEF handle
  <1>7. Handled' /\ AttributesKept'
    BY <1>1, <1>4, AttributesStable DEF XInv, Handled, handle
  <1>8. Phases' /\ Current' /\ CheckedHolds' /\ AttributesPassed' /\ Ended' /\ Fresh' /\ DefaultsKept'
    BY <1>4, <1>6
    DEF Phases, Ran, Current, CheckedHolds, AttributesPassed, Ended, Fresh, DefaultsKept
  <1> QED
    BY <1>3, <1>7, <1>8 DEF XInv

LEMMA InductiveExpose ==
    ASSUME XInv, Expose
    PROVE  XInv'
  <1>1. /\ use = "hidden" /\ stage = "registered" /\ use' \in {"refused", "exposed"}
        /\ UNCHANGED <<vars, attrs, parent, given, checked, got>>
    BY DEF Expose
  <1>2. stage' = "registered" /\ UNCHANGED <<decl, attrs>>
    BY <1>1 DEF vars
  <1>3. IInv'
    BY <1>1, InductiveStutter DEF XInv
  <1>4. ~checked' /\ got' = NoAnswer /\ given'.by = "nothing"
    BY <1>1 DEF XInv, Phases
  <1>5. Handled' /\ AttributesKept'
    BY <1>1, <1>2, AttributesStable DEF XInv, Handled, Uses
  <1>6. Phases' /\ Current' /\ CheckedHolds' /\ AttributesPassed' /\ Ended' /\ Fresh' /\ DefaultsKept'
    BY <1>1, <1>2, <1>4
    DEF Phases, Ran, Registered, Current, CheckedHolds, AttributesPassed, Ended, Fresh, DefaultsKept
  <1> QED
    BY <1>3, <1>5, <1>6 DEF XInv

(***************************************************************************)
(* Then while nothing verifies and nothing was read.                       *)
(***************************************************************************)
LEMMA InductiveIdle ==
    ASSUME XInv, stage \in Registered, UNCHANGED <<decl, traits>>,
           use' = "held", stage' = "registered", next' = 1, checked' = FALSE, got' = NoAnswer,
           op' \in Operation, Bounded', Handled', AttributesKept', Fresh', DefaultsKept'
    PROVE  XInv'
  <1>1. Typed'
    BY DEF XInv, IInv, Typed, TypeOK, Stages
  <1>2. Passed'
    BY DEF Passed
  <1>3. IInv'
    BY <1>1, <1>2, InductiveOperation DEF XInv, Registered
  <1>4. Phases' /\ Current' /\ CheckedHolds' /\ AttributesPassed' /\ Ended'
    BY DEF Phases, Ran, Registered, Current, CheckedHolds, AttributesPassed, Ended
  <1> QED
    BY <1>3, <1>4 DEF XInv

LEMMA NoAnswerTyped == NoAnswer.is \in Outcomes /\ NoAnswer.values \in Seq(Sorts)
  <1>1. <<>> \in Seq(Sorts)
    OBVIOUS
  <1> QED
    BY <1>1 DEF NoAnswer, Outcomes

(* Attributes in the place of others are attributes.                       *)
LEMMA AttributesTyped ==
    ASSUME IInv, NEW values \in [DOMAIN Kinds -> AttributeValues]
    PROVE  values \in Seq(AttributeValues) /\ DOMAIN values = DOMAIN Kinds
  <1>1. DOMAIN Kinds = 1 .. Len(Kinds) /\ Len(Kinds) \in Nat
    BY AttributesOf
  <1> QED
    BY <1>1

LEMMA InductiveConstruct ==
    ASSUME XInv, Construct
    PROVE  XInv'
  <1>1. PICK args \in Arguments[decl], n \in 0 .. Len(Lists("region")) + 1 :
           /\ op' = [vals |-> [p \in Parts |-> IF p = "region" THEN Regions(n)
                                               ELSE Spliced(Lists(p), args[p])],
                     segs |-> NoOp.segs]
           /\ given' = [by |-> "constructor", args |-> args]
    BY DEF Construct
  <1>2. /\ use = "exposed" /\ stage = "registered" /\ use' = "held" /\ parent' = "none"
        /\ attrs' \in [DOMAIN Kinds -> AttributeValues]
        /\ UNCHANGED <<decl, traits, stage, next, checked, got>>
    BY DEF Construct
  <1>3. next = 1 /\ ~checked /\ checked \in BOOLEAN /\ got = NoAnswer
    BY <1>2 DEF XInv, IInv, Passed, Phases, Handled
  <1>4. decl \in Declarations /\ Lists("region") \in Seq(Constraints)
    BY DEF XInv, IInv, Typed, TypeOK, Declaration, Lists, Parts, Blocks
  <1>5. args \in Given /\ \A p \in Named : Len(FlattenSeq(args[p])) < UintMod
    BY <1>4, ExposureAssumption
  <1>6. \A p \in Named : args[p] \in Seq(Seq(Sorts)) /\ FlattenSeq(args[p]) \in Seq(Sorts)
    BY <1>5, Flattened DEF Given
  <1>7. Regions(n) \in Seq(Sorts)
    <2>1. n \in Nat
      BY <1>4
    <2> QED
      BY <2>1, ExposureAssumption DEF Regions
  <1>8. op'.vals = [p \in Parts |-> IF p = "region" THEN Regions(n) ELSE FlattenSeq(args[p])]
        /\ op'.segs = [s \in Sides |-> {}]
    BY <1>1 DEF Spliced, NoOp
  <1>9. op' \in Operation
    <2>1. op'.vals \in [Parts -> Seq(Sorts)]
      BY <1>6, <1>7, <1>8 DEF Named
    <2>2. op'.segs \in [Sides -> SUBSET Seq(Nat)]
      BY <1>8
    <2>3. op' = [vals |-> op'.vals, segs |-> op'.segs]
      BY <1>1
    <2> QED
      BY <2>1, <2>2, <2>3 DEF Operation
  <1>10. \A s \in Sides : op'.vals[s] = FlattenSeq(args[s]) /\ op'.segs[s] = {}
    BY <1>8 DEF Parts, Sides
  <1>11. Bounded'
    <2>1. \A s \in Sides : s \in Named
      BY DEF Named, Parts, Sides
    <2>2. \A s \in Sides : Num(op, s)' = Len(FlattenSeq(args[s]))
      BY <1>10 DEF Num
    <2> QED
      BY <1>5, <1>10, <2>1, <2>2 DEF Bounded
  <1>12. attrs' \in Seq(AttributeValues) /\ DOMAIN attrs' = DOMAIN Kinds
    BY <1>2, AttributesTyped DEF XInv
  <1>13. Handled'
    BY <1>1, <1>2, <1>3, <1>5, <1>12, NoAnswerTyped DEF Handled, Uses, Origins
  <1>14. AttributesKept'
    BY <1>2, <1>12 DEF AttributesKept, Kinds
  <1>15. Fresh' /\ DefaultsKept'
    BY <1>1, <1>2, <1>10 DEF Fresh, DefaultsKept
  <1> QED
    BY <1>2, <1>3, <1>9, <1>11, <1>13, <1>14, <1>15, InductiveIdle DEF Registered

LEMMA InductiveMeet ==
    ASSUME XInv, Meet
    PROVE  XInv'
  <1>1. /\ use \in {"exposed", "refused"} /\ stage = "registered" /\ op' \in Instances[decl]
        /\ parent' \in Places[decl] \cup {"none"} /\ use' = "held"
        /\ UNCHANGED <<decl, traits, stage, next, checked, got>>
    BY DEF Meet
  <1>2. PICK values \in [DOMAIN Kinds -> AttributeValues] :
           \/ attrs' = Filled(values) /\ given' = Untouched("custom form")
           \/ attrs' = values /\ given' = Untouched("generic form")
    BY DEF Meet
  <1>3. next = 1 /\ ~checked /\ checked \in BOOLEAN /\ got = NoAnswer
    BY <1>1 DEF XInv, IInv, Passed, Phases, Handled
  <1>4. decl \in Declarations
    BY DEF XInv, IInv, Typed
  <1>5. op' \in Operation
    BY <1>1, <1>4, DeclarationsAssumption
  <1>6. Bounded'
    BY <1>1, <1>4, DeclarationsAssumption DEF Bounded, Num, Parts
  <1>7. /\ Filled(values) \in [DOMAIN Kinds -> AttributeValues]
        /\ \A i \in DOMAIN Kinds :
              Filled(values)[i] = "absent" => Kinds[i] \notin {"default", "misfit"}
    BY DEF Filled, AttributeValues
  <1>8. attrs' \in Seq(AttributeValues) /\ DOMAIN attrs' = DOMAIN Kinds
    BY <1>2, <1>7, AttributesTyped DEF XInv
  <1>9. given' \in [by : Origins, args : Given] /\ given'.by \in {"custom form", "generic form"}
        /\ (given'.by = "custom form" => attrs' = Filled(values))
    BY <1>2, GivenTypes DEF Origins
  <1>10. parent' \in {"none", "right", "wrong"}
    BY <1>1, <1>4, ExposureAssumption
  <1>11. Handled'
    BY <1>1, <1>3, <1>8, <1>9, <1>10, NoAnswerTyped DEF Handled, Uses
  <1>12. AttributesKept' /\ Fresh'
    BY <1>1, <1>8, <1>9 DEF AttributesKept, Kinds, Fresh
  <1>13. DefaultsKept'
    BY <1>1, <1>7, <1>8, <1>9 DEF DefaultsKept, Kinds
  <1> QED
    BY <1>1, <1>3, <1>5, <1>6, <1>11, <1>12, <1>13, InductiveIdle DEF Registered

LEMMA TouchedFacts ==
    ASSUME XInv, Idle, NEW by \in Origins, Touched(by), by \notin {"constructor", "custom form"}
    PROVE  /\ given' \in [by : Origins, args : Given] /\ checked' = FALSE
           /\ Fresh' /\ DefaultsKept'
  BY GivenTypes DEF Touched, Fresh, DefaultsKept

LEMMA IdleFacts ==
    ASSUME XInv, Idle
    PROVE  /\ use = "held" /\ stage = "registered" /\ next = 1 /\ got = NoAnswer
           /\ decl \in Declarations /\ op \in Operation
  BY DEF XInv, Idle, IInv, Passed, Typed, TypeOK

LEMMA Removed ==
    ASSUME NEW S, NEW q \in Seq(S), NEW i \in 1 .. Len(q)
    PROVE  RemoveAt(q, i) \in Seq(S) /\ Len(RemoveAt(q, i)) = Len(q) - 1
  <1>1. PICK n \in Nat : n = Len(q)
    OBVIOUS
  <1>2. i \in Nat /\ 1 <= i /\ i <= n
    BY <1>1
  <1>3. SubSeq(q, 1, i - 1) \in Seq(S) /\ Len(SubSeq(q, 1, i - 1)) = i - 1
    BY <1>1, <1>2
  <1>4. SubSeq(q, i + 1, n) \in Seq(S) /\ Len(SubSeq(q, i + 1, n)) = n - i
    <2>1. i \in Nat /\ n - i \in Nat /\ i + (n - i) <= Len(q) /\ i + (n - i) = n
      BY <1>1, <1>2
    <2>2. SubSeq(q, i + 1, i + (n - i)) \in Seq(S)
          /\ Len(SubSeq(q, i + 1, i + (n - i))) = n - i
      BY <2>1, SubSeqType
    <2> QED
      BY <2>1, <2>2
  <1>5. PICK x \in Seq(S), y \in Seq(S) : x = SubSeq(q, 1, i - 1) /\ y = SubSeq(q, i + 1, n)
    BY <1>3, <1>4
  <1>6. x \o y \in Seq(S) /\ Len(x \o y) = Len(x) + Len(y)
    OBVIOUS
  <1>7. RemoveAt(q, i) = x \o y
    BY <1>1, <1>5 DEF RemoveAt
  <1>8. Len(x) = i - 1 /\ Len(y) = n - i
    BY <1>3, <1>4, <1>5
  <1> QED
    BY <1>1, <1>2, <1>6, <1>7, <1>8

LEMMA InductiveChangeOperands ==
    ASSUME XInv, ChangeOperands
    PROVE  XInv'
  <1>1. /\ Idle /\ Touched("changes")
        /\ UNCHANGED <<decl, traits, stage, next, use, attrs, parent, got>>
    BY DEF ChangeOperands
  <1>2. PICK vals \in {o.vals["operand"] : o \in Instances[decl]} \cup
                      {RemoveAt(op.vals["operand"], i) : i \in 1 .. Num(op, "operand")} :
           op' = [op EXCEPT !.vals["operand"] = vals]
    BY DEF ChangeOperands
  <1>3. /\ use = "held" /\ stage = "registered" /\ next = 1 /\ got = NoAnswer
        /\ decl \in Declarations /\ op \in Operation
    BY <1>1, IdleFacts
  <1>4. given' \in [by : Origins, args : Given] /\ checked' = FALSE /\ Fresh' /\ DefaultsKept'
    BY <1>1, TouchedFacts DEF Origins
  <1>5. vals \in Seq(Sorts) /\ Len(vals) < UintMod
    <2>1. CASE vals \in {o.vals["operand"] : o \in Instances[decl]}
      <3>1. PICK o \in Instances[decl] : vals = o.vals["operand"]
        BY <2>1
      <3>2. o \in Operation /\ "operand" \in Parts
        BY <1>3, DeclarationsAssumption DEF Parts, Sides
      <3> QED
        BY <1>3, <3>1, <3>2, DeclarationsAssumption DEF Operation
    <2>2. CASE vals \in {RemoveAt(op.vals["operand"], i) : i \in 1 .. Num(op, "operand")}
      <3>1. PICK i \in 1 .. Num(op, "operand") : vals = RemoveAt(op.vals["operand"], i)
        BY <2>2
      <3>2. "operand" \in Parts /\ "operand" \in Sides
        BY DEF Parts, Sides
      <3>3. PICK q \in Seq(Sorts) : q = op.vals["operand"]
        BY <1>3, <3>2 DEF Operation
      <3>4. i \in 1 .. Len(q) /\ Len(q) < UintMod
        BY <3>1, <3>2, <3>3 DEF Num, XInv, IInv, Bounded
      <3>5. RemoveAt(q, i) \in Seq(Sorts) /\ Len(RemoveAt(q, i)) = Len(q) - 1
        BY <3>4, Removed
      <3> QED
        BY <3>1, <3>3, <3>4, <3>5, UintModAssumption
    <2> QED
      BY <2>1, <2>2
  <1>6. /\ op' = [op EXCEPT !.vals = [op.vals EXCEPT !["operand"] = vals]]
        /\ op'.vals = [op.vals EXCEPT !["operand"] = vals] /\ op'.segs = op.segs
    BY <1>2, <1>3 DEF Operation
  <1>7. op' \in Operation
    BY <1>3, <1>5, <1>6 DEF Operation, Parts, Sides
  <1>8. Bounded'
    <2>1. \A s \in Sides : op'.vals[s] = IF s = "operand" THEN vals ELSE op.vals[s]
      BY <1>3, <1>6 DEF Operation, Parts
    <2> QED
      BY <1>5, <1>6, <2>1 DEF XInv, IInv, Bounded, Num
  <1>9. Handled' /\ AttributesKept'
    BY <1>1, <1>4, AttributesStable DEF XInv, Handled
  <1> QED
    BY <1>1, <1>3, <1>4, <1>7, <1>8, <1>9, InductiveIdle DEF Registered

LEMMA InductiveChangeAttribute ==
    ASSUME XInv, ChangeAttribute
    PROVE  XInv'
  <1>1. Idle /\ UNCHANGED <<decl, traits, stage, next, use, parent, got>> /\ checked' = FALSE
    BY DEF ChangeAttribute, Touched
  <1>2. /\ use = "held" /\ stage = "registered" /\ next = 1 /\ got = NoAnswer
        /\ decl \in Declarations /\ op \in Operation
    BY <1>1, IdleFacts
  <1>3. CASE /\ \E i \in DOMAIN attrs, v \in AttributeValues : attrs' = [attrs EXCEPT ![i] = v]
             /\ Touched("changes")
             /\ UNCHANGED op
    <2>1. given' \in [by : Origins, args : Given] /\ Fresh' /\ DefaultsKept'
      BY <1>1, <1>3, TouchedFacts DEF Origins
    <2>2. PICK i \in DOMAIN attrs, v \in AttributeValues : attrs' = [attrs EXCEPT ![i] = v]
      BY <1>3
    <2>3. attrs' \in Seq(AttributeValues) /\ DOMAIN attrs' = DOMAIN attrs
      BY <2>2 DEF XInv, Handled
    <2>4. Handled'
      BY <1>1, <2>1, <2>3 DEF XInv, Handled
    <2>5. AttributesKept'
      BY <1>1, <2>3 DEF XInv, AttributesKept, Kinds
    <2>6. op' \in Operation /\ Bounded'
      BY <1>2, <1>3, BoundedStable DEF XInv, IInv
    <2> QED
      BY <1>1, <1>2, <2>1, <2>4, <2>5, <2>6, InductiveIdle DEF Registered
  <1>4. CASE /\ \E s \in Sides : \E segs \in {o.segs[s] : o \in Instances[decl]} :
                   op' = [op EXCEPT !.segs[s] = segs]
             /\ UNCHANGED <<attrs, given>>
    <2>1. PICK s \in Sides : \E segs \in {o.segs[s] : o \in Instances[decl]} :
                                op' = [op EXCEPT !.segs[s] = segs]
      BY <1>4
    <2>2. PICK o \in Instances[decl] : op' = [op EXCEPT !.segs[s] = o.segs[s]]
      BY <2>1
    <2>3. PICK segs \in SUBSET Seq(Nat) : segs = o.segs[s] /\ \A x, y \in segs : x = y
      BY <1>2, DeclarationsAssumption DEF Operation
    <2>4. op'.segs = [op.segs EXCEPT ![s] = segs] /\ op'.vals = op.vals
          /\ op' = [op EXCEPT !.segs = [op.segs EXCEPT ![s] = segs]]
      BY <1>2, <2>2, <2>3 DEF Operation
    <2>5. op' \in Operation
      BY <1>2, <2>3, <2>4 DEF Operation
    <2>6. Bounded'
      <3>1. \A t \in Sides : op'.segs[t] = IF t = s THEN segs ELSE op.segs[t]
        BY <1>2, <2>4 DEF Operation
      <3>2. \A t \in Sides : Num(op, t)' = Num(op, t)
        BY <2>4 DEF Num
      <3> QED
        BY <2>3, <3>1, <3>2 DEF XInv, IInv, Bounded
    <2>7. Handled' /\ AttributesKept'
      BY <1>1, <1>4, AttributesStable DEF XInv, Handled
    <2>8. Fresh' /\ DefaultsKept'
      BY <1>1, <1>4, <2>4 DEF XInv, Fresh, DefaultsKept, Kinds
    <2> QED
      BY <1>1, <1>2, <2>5, <2>6, <2>7, <2>8, InductiveIdle DEF Registered
  <1> QED
    BY <1>3, <1>4 DEF ChangeAttribute

LEMMA InductiveInsert ==
    ASSUME XInv, Insert
    PROVE  XInv'
  <1>1. Idle /\ parent' \in Places[decl] /\ checked' = FALSE /\ UNCHANGED <<vars, use, attrs, given, got>>
    BY DEF Insert
  <1>2. UNCHANGED <<decl, traits, stage, next, op>>
    BY <1>1 DEF vars
  <1>3. /\ use = "held" /\ stage = "registered" /\ next = 1 /\ got = NoAnswer
        /\ decl \in Declarations /\ op \in Operation
    BY <1>1, IdleFacts
  <1>4. parent' \in {"none", "right", "wrong"}
    BY <1>1, <1>3, ExposureAssumption
  <1>5. Handled' /\ AttributesKept' /\ Bounded'
    BY <1>1, <1>2, <1>4, AttributesStable, BoundedStable DEF XInv, IInv, Handled
  <1>6. Fresh' /\ DefaultsKept'
    BY <1>1, <1>2 DEF XInv, Fresh, DefaultsKept, Kinds
  <1> QED
    BY <1>1, <1>2, <1>3, <1>5, <1>6, InductiveIdle DEF Registered

(***************************************************************************)
(* While it is verified.                                                   *)
(***************************************************************************)
LEMMA VerdictsType ==
    ASSUME NEW t, NEW o
    PROVE  Verdicts(t, o) \subseteq {"ok", "invalid", "undefined"}
  <1>1. \A holds : Verdict(holds) \in {"ok", "invalid"}
    BY DEF Verdict
  <1>2. \A unmet, overrun : InOrder(unmet, overrun) \in {"ok", "invalid", "undefined"}
    BY DEF InOrder
  <1>3. \A s : TypesVerdict(o, s) \in {"ok", "invalid", "undefined"}
              /\ BlocksVerdict(o, s) \in {"ok", "invalid", "undefined"}
    BY <1>2 DEF TypesVerdict, BlocksVerdict
  <1>4. \A s : SameSizesVerdict(o, s) \in {"ok", "invalid", "undefined"}
              /\ SegmentsVerdict(o, s) \in {"ok", "invalid", "undefined"}
    BY <1>1 DEF SameSizesVerdict, SegmentsVerdict
  <1>5. CASE t.name \in {TypeConstraint, AttrConstraint, IsTerminator, Other}
    BY <1>3, <1>5 DEF Verdicts
  <1>6. CASE t.name \notin {TypeConstraint, AttrConstraint, IsTerminator, Other}
    <2>1. PICK p : p = t.name[2]
      OBVIOUS
    <2>2. (CASE t.name = N(p) -> Verdict(Num(o, p) = t.arg)
             [] t.name = AtLeastN(p) -> Verdict(Num(o, p) >= t.arg)
             [] t.name = SameSizes(p) -> SameSizesVerdict(o, p)
             [] t.name = Segments(p) -> SegmentsVerdict(o, p)
             [] OTHER -> BlocksVerdict(o, p)) \in {"ok", "invalid", "undefined"}
      BY <1>1, <1>3, <1>4
    <2> QED
      BY <1>6, <2>1, <2>2 DEF Verdicts
  <1> QED
    BY <1>5, <1>6

LEMMA HeldVerdictsType ==
    ASSUME XInv
    PROVE  /\ HeldVerdicts \subseteq {"ok", "invalid", "undefined", "raised"}
           /\ "ok" \in HeldVerdicts => Accepts(next)
           /\ "ok" \in HeldVerdicts /\ traits[next].name = AttrConstraint => AttributesMet
  <1>1. CASE traits[next].name = AttrConstraint
    <2>1. HeldVerdicts = {AttributesVerdict}
      BY <1>1 DEF HeldVerdicts, AttrConstraint, Other
    <2>2. AttributesVerdict \in {"ok", "invalid", "raised"}
          /\ (AttributesVerdict = "ok" => AttributesMet)
      BY DEF AttributesVerdict, AttributesMet
    <2>3. Accepts(next)
      BY <1>1 DEF Accepts, Verdicts, TypeConstraint, AttrConstraint
    <2> QED
      BY <2>1, <2>2, <2>3
  <1>2. CASE traits[next].name = Other /\ decl \in Parented
    <2>1. HeldVerdicts = {ParentVerdict}
      BY <1>2 DEF HeldVerdicts, AttrConstraint, Other
    <2>2. ParentVerdict \in {"ok", "invalid", "undefined"}
      BY DEF ParentVerdict, XInv, Handled
    <2>3. Accepts(next)
      BY <1>2 DEF Accepts, Verdicts, TypeConstraint, Other
    <2>4. traits[next].name # AttrConstraint
      BY <1>2 DEF AttrConstraint, Other
    <2> QED
      BY <2>1, <2>2, <2>3, <2>4
  <1>3. CASE ~(traits[next].name = AttrConstraint) /\ ~(traits[next].name = Other /\ decl \in Parented)
    <2>1. HeldVerdicts = Verdicts(traits[next], op)
      BY <1>3 DEF HeldVerdicts
    <2>2. Verdicts(traits[next], op) \subseteq {"ok", "invalid", "undefined"}
      <3>1. PICK t, o : t = traits[next] /\ o = op
        OBVIOUS
      <3> QED
        BY <3>1, VerdictsType
    <2> QED
      BY <1>3, <2>1, <2>2 DEF Accepts
  <1> QED
    BY <1>1, <1>2, <1>3

LEMMA InductiveVerifyHeld ==
    ASSUME XInv, VerifyHeld
    PROVE  XInv'
  <1>1. /\ Idle /\ ~checked /\ stage' = "verifying"
        /\ UNCHANGED <<decl, traits, next, op, use, attrs, parent, given, checked, got>>
    BY DEF VerifyHeld, handle
  <1>2. use = "held" /\ stage = "registered" /\ next = 1 /\ got = NoAnswer
    BY <1>1, IdleFacts
  <1>3. 1 \in DOMAIN traits /\ \A i \in DOMAIN traits : ~(i < 1)
    BY <1>2, FirstTrait DEF XInv, Registered
  <1>4. Typed' /\ Bounded' /\ Passed'
    <2>1. Typed' /\ Bounded'
      BY <1>1, BoundedStable DEF XInv, IInv, Typed, TypeOK, Stages
    <2>2. Passed'
      BY <1>1, <1>2, <1>3 DEF Passed
    <2> QED
      BY <2>1, <2>2
  <1>5. IInv'
    BY <1>1, <1>2, <1>4, InductiveOperation DEF XInv, Registered, Ran
  <1>6. Handled' /\ AttributesKept' /\ Fresh' /\ DefaultsKept'
    BY <1>1, AttributesStable DEF XInv, Handled, Fresh, DefaultsKept, Kinds
  <1>7. Phases' /\ Current' /\ CheckedHolds' /\ Ended'
    BY <1>1, <1>2 DEF Phases, Ran, Registered, Current, CheckedHolds, Ended
  <1>8. AttributesPassed'
    BY <1>1, <1>2, <1>3 DEF AttributesPassed
  <1> QED
    BY <1>5, <1>6, <1>7, <1>8 DEF XInv

LEMMA InductiveRaise ==
    ASSUME XInv, Raise
    PROVE  XInv'
  <1>1. /\ stage = "verifying" /\ stage' = "registered" /\ next' = 1
        /\ UNCHANGED <<decl, traits, op, use, attrs, parent, given, checked, got>>
    BY DEF Raise, handle
  <1>2. use = "held" /\ got = NoAnswer /\ ~checked /\ checked \in BOOLEAN
    BY <1>1 DEF XInv, Phases, Ran, Handled
  <1>3. op' \in Operation /\ Bounded'
    BY <1>1, BoundedStable DEF XInv, IInv, Typed, TypeOK
  <1>4. Handled' /\ AttributesKept' /\ Fresh' /\ DefaultsKept'
    BY <1>1, AttributesStable DEF XInv, Handled, Fresh, DefaultsKept, Kinds
  <1> QED
    BY <1>1, <1>2, <1>3, <1>4, InductiveIdle DEF Registered, Ran

LEMMA InductiveRunHeldTrait ==
    ASSUME XInv, RunHeldTrait
    PROVE  XInv'
  <1>1. stage = "verifying" /\ UNCHANGED <<decl, traits, op, use, attrs, parent, given, checked, got>>
    BY DEF RunHeldTrait, handle
  <1>2. PICK verdict \in HeldVerdicts \ {"raised"} :
           /\ next' = IF verdict = "ok" THEN next + 1 ELSE next
           /\ stage' = CASE verdict = "ok" /\ next < Len(traits) -> "verifying"
                         [] verdict = "ok" /\ next = Len(traits) -> "valid"
                         [] verdict = "invalid" -> "invalid"
                         [] verdict = "undefined" -> "aborted"
    BY DEF RunHeldTrait
  <1>3. verdict \in {"ok", "invalid", "undefined"}
    BY <1>2, HeldVerdictsType
  <1>4. use = "held" /\ got = NoAnswer /\ ~checked
    BY <1>1 DEF XInv, Phases, Ran, Handled
  <1>5. traits \in Seq(Traits) /\ next \in Nat \ {0}
    BY DEF XInv, IInv, Typed, TypeOK
  <1>6. /\ next \in DOMAIN traits /\ \A i \in DOMAIN traits : i < next => Accepts(i)
        /\ next <= Len(traits)
    BY <1>1, <1>5 DEF XInv, IInv, Passed
  <1>7. \A i : Accepts(i)' = Accepts(i)
    BY <1>1, AcceptsStable
  <1>8. Bounded' /\ AttributesMet' = AttributesMet
    BY <1>1, BoundedStable, AttributesStable DEF XInv, IInv
  <1>9. Handled' /\ AttributesKept' /\ Fresh' /\ DefaultsKept'
    BY <1>1, AttributesStable DEF XInv, Handled, Fresh, DefaultsKept, Kinds
  <1>10. Current' /\ CheckedHolds'
    BY <1>1, <1>4 DEF Current, CheckedHolds
  <1>11. CASE verdict = "ok"
    <2>1. next' = next + 1 /\ stage' = IF next < Len(traits) THEN "verifying" ELSE "valid"
      BY <1>2, <1>5, <1>6, <1>11
    <2>2. Typed'
      BY <1>1, <2>1 DEF XInv, IInv, Typed, TypeOK, Stages
    <2>3. \A i \in DOMAIN traits : i < next + 1 => Accepts(i)
      <3>1. Accepts(next)
        BY <1>2, <1>11, HeldVerdictsType
      <3> QED
        BY <1>5, <1>6, <3>1
    <2>4. stage' = "verifying" => next + 1 \in DOMAIN traits
      BY <1>5, <2>1
    <2>5. stage' = "valid" => \A i \in DOMAIN traits : i < next + 1
      BY <1>5, <1>6, <2>1
    <2>6. Passed'
      BY <1>1, <1>7, <2>1, <2>3, <2>4, <2>5 DEF Passed
    <2>7. IInv'
      BY <1>1, <1>8, <2>1, <2>2, <2>6, InductiveOperation DEF XInv, Registered, Ran
    <2>8. \A i \in DOMAIN traits : i < next + 1 /\ traits[i].name = AttrConstraint => AttributesMet
      <3>1. traits[next].name = AttrConstraint => AttributesMet
        BY <1>2, <1>11, HeldVerdictsType
      <3>2. \A i \in DOMAIN traits : i < next /\ traits[i].name = AttrConstraint => AttributesMet
        BY <1>1 DEF XInv, AttributesPassed
      <3> QED
        BY <1>5, <3>1, <3>2
    <2>9. stage' = "valid" => AttributesMet
      <3>1. Has(AttrConstraint)
        BY <1>1 DEF XInv, IInv, TypesConstrained, Constraining, Registered, Ran
      <3> QED
        BY <2>5, <2>8, <3>1 DEF Has
    <2>10. AttributesPassed'
      BY <1>1, <1>8, <2>1, <2>8, <2>9 DEF AttributesPassed
    <2>11. Phases' /\ Ended'
      BY <1>1, <1>4, <2>1 DEF Phases, Registered, Ran, Ended
    <2> QED
      BY <1>9, <1>10, <2>7, <2>10, <2>11 DEF XInv
  <1>12. CASE verdict # "ok"
    <2>1. next' = next /\ stage' \in {"invalid", "aborted"}
          /\ (stage' = "invalid" => verdict = "invalid")
          /\ (stage' = "aborted" => verdict = "undefined")
      BY <1>2, <1>3, <1>12
    <2>2. Typed'
      BY <1>1, <2>1 DEF XInv, IInv, Typed, TypeOK, Stages
    <2>3. Passed'
      BY <1>1, <1>6, <1>7, <2>1 DEF Passed
    <2>4. IInv'
      BY <1>1, <1>8, <2>1, <2>2, <2>3, InductiveOperation DEF XInv, Registered, Ran
    <2>5. HeldVerdicts' = HeldVerdicts
      BY <1>1, <2>1, HeldVerdictsStable
    <2>6. Phases' /\ Ended' /\ AttributesPassed'
      BY <1>1, <1>2, <1>4, <2>1, <2>5 DEF Phases, Registered, Ran, Ended, AttributesPassed
    <2> QED
      BY <1>9, <1>10, <2>4, <2>6 DEF XInv
  <1> QED
    BY <1>11, <1>12

LEMMA InductiveReturn ==
    ASSUME XInv, Return
    PROVE  XInv'
  <1>1. /\ stage \in {"valid", "invalid"} /\ checked' = (stage = "valid")
        /\ stage' = "registered" /\ next' = 1
        /\ UNCHANGED <<decl, traits, op, use, attrs, parent, given, got>>
    BY DEF Return
  <1>2. use = "held" /\ got = NoAnswer
    BY <1>1 DEF XInv, Phases, Ran
  <1>3. Typed' /\ Bounded' /\ Passed'
    BY <1>1, BoundedStable DEF XInv, IInv, Typed, TypeOK, Stages, Passed
  <1>4. IInv'
    BY <1>1, <1>3, InductiveOperation DEF XInv, Registered, Ran
  <1>5. Handled' /\ AttributesKept' /\ Fresh' /\ DefaultsKept'
    BY <1>1, AttributesStable DEF XInv, Handled, Fresh, DefaultsKept, Kinds
  <1>6. CheckedHolds'
    <2>1. stage = "valid" => (\A i \in DOMAIN traits : Accepts(i)) /\ AttributesMet
      BY DEF XInv, IInv, Passed, AttributesPassed
    <2>2. \A i : Accepts(i)' = Accepts(i)
      BY <1>1, AcceptsStable
    <2> QED
      BY <1>1, <2>1, <2>2, AttributesStable DEF CheckedHolds
  <1>7. Phases' /\ Current' /\ AttributesPassed' /\ Ended'
    BY <1>1, <1>2 DEF Phases, Ran, Registered, Current, AttributesPassed, Ended
  <1> QED
    BY <1>4, <1>5, <1>6, <1>7 DEF XInv

(***************************************************************************)
(* While it is read.                                                       *)
(***************************************************************************)
LEMMA InductiveRead ==
    ASSUME XInv, Read
    PROVE  XInv'
  <1>1. PICK answer \in Answers :
           got' = answer /\ stage' = IF answer.is = "undefined" THEN "aborted" ELSE stage
    BY DEF Read
  <1>2. Idle /\ UNCHANGED <<decl, traits, next, op, use, attrs, parent, given, checked>>
    BY DEF Read
  <1>3. use = "held" /\ stage = "registered" /\ next = 1
    BY <1>2, IdleFacts
  <1>4. 1 \in DOMAIN traits /\ \A i \in DOMAIN traits : ~(i < 1)
    BY <1>3, FirstTrait DEF XInv, Registered
  <1>5. Typed' /\ Bounded'
    BY <1>1, <1>2, <1>3, BoundedStable DEF XInv, IInv, Typed, TypeOK, Stages
  <1>6. Passed'
    BY <1>1, <1>2, <1>3, <1>4 DEF Passed
  <1>7. IInv'
    BY <1>1, <1>2, <1>3, <1>5, <1>6, InductiveOperation DEF XInv, Registered, Ran
  <1>8. answer.is \in Outcomes /\ answer.values \in Seq(Sorts)
    BY AnswersTyped DEF XInv, Outcomes
  <1>9. Handled' /\ AttributesKept' /\ Fresh' /\ DefaultsKept'
    BY <1>1, <1>2, <1>8, AttributesStable DEF XInv, Handled, Fresh, DefaultsKept, Kinds
  <1>10. got' \in Answers'
    BY <1>1, <1>2, AnswersStable
  <1>11. Current' /\ Ended'
    BY <1>1, <1>3, <1>10 DEF Current, Ended
  <1>12. CheckedHolds'
    <2>1. \A i : Accepts(i)' = Accepts(i)
      BY <1>2, AcceptsStable
    <2> QED
      BY <1>2, <2>1, AttributesStable DEF XInv, CheckedHolds
  <1>13. Phases' /\ AttributesPassed'
    BY <1>1, <1>2, <1>3 DEF Phases, Registered, Ran, AttributesPassed
  <1> QED
    BY <1>7, <1>9, <1>11, <1>12, <1>13 DEF XInv

LEMMA InductiveGoOn ==
    ASSUME XInv, GoOn
    PROVE  XInv'
  <1>1. /\ got # NoAnswer /\ stage # "aborted" /\ got' = NoAnswer
        /\ UNCHANGED <<vars, use, attrs, parent, given, checked>>
    BY DEF GoOn
  <1>2. UNCHANGED <<decl, traits, stage, next, op>>
    BY <1>1 DEF vars
  <1>3. use = "held" /\ stage \notin {"verifying", "valid", "invalid", "aborted"}
    BY <1>1 DEF XInv, Phases
  <1>4. IInv'
    BY <1>1, InductiveStutter DEF XInv
  <1>5. Handled' /\ AttributesKept' /\ Fresh' /\ DefaultsKept'
    BY <1>1, <1>2, NoAnswerTyped, AttributesStable
    DEF XInv, Handled, Fresh, DefaultsKept, Kinds
  <1>6. CheckedHolds'
    <2>1. \A i : Accepts(i)' = Accepts(i)
      BY <1>2, AcceptsStable
    <2> QED
      BY <1>1, <1>2, <2>1, AttributesStable DEF XInv, CheckedHolds
  <1>7. Phases' /\ Current' /\ AttributesPassed' /\ Ended'
    BY <1>1, <1>2, <1>3 DEF XInv, Phases, Current, AttributesPassed, Ended
  <1> QED
    BY <1>4, <1>5, <1>6, <1>7 DEF XInv

LEMMA ExposedInductive ==
    ASSUME XInv, [ExposedNext]_allVars
    PROVE  XInv'
  <1>1. CASE Register \/ Expose \/ Construct \/ Meet
    BY <1>1, InductiveRegister, InductiveExpose, InductiveConstruct, InductiveMeet
  <1>2. CASE ChangeOperands \/ ChangeAttribute \/ Insert
    BY <1>2, InductiveChangeOperands, InductiveChangeAttribute, InductiveInsert
  <1>3. CASE VerifyHeld \/ Raise \/ RunHeldTrait \/ Return
    BY <1>3, InductiveVerifyHeld, InductiveRaise, InductiveRunHeldTrait, InductiveReturn
  <1>4. CASE Read \/ GoOn
    BY <1>4, InductiveRead, InductiveGoOn
  <1>5. CASE (Terminated /\ UNCHANGED handle) \/ UNCHANGED allVars
    <2>1. UNCHANGED allVars
      BY <1>5 DEF Terminated, allVars
    <2> QED
      BY <2>1, XInvStutter
  <1> QED
    BY <1>1, <1>2, <1>3, <1>4, <1>5 DEF ExposedNext
-----------------------------------------------------------------------------
(***************************************************************************)
(* What a getter says of an operation that verified.                       *)
(***************************************************************************)
LEMMA CheckedIsVerified ==
    ASSUME XInv, checked
    PROVE  Verified /\ AttributesMet
  BY DEF XInv, Phases, CheckedHolds, Verified

(* What was read under a name is what its getter returns.                  *)
LEMMA GotIsCurrent ==
    ASSUME XInv, got.of \in ValueNames
    PROVE  got = ValueOf(got.of)
  <1>1. NoAnswer.of \notin ValueNames
    <2>1. NoAnswer.of = <<>>
      BY DEF NoAnswer
    <2>2. \A name \in ValueNames : name # <<>>
      BY NameParts
    <2> QED
      BY <2>1, <2>2
  <1>2. got \in Answers
    BY <1>1 DEF XInv, Current
  <1> QED
    BY <1>2, AnswersTyped DEF XInv

(* The values that are read from a place on.                               *)
LEMMA ValuesRead ==
    ASSUME IInv, NEW name \in ValueNames, NEW size \in Nat, ValuesFrom(name, size).is = "values"
    PROVE  LET s == name[1]
               i == name[2]
           IN /\ Sized(s, i) /\ Start(s, i) \in Nat
              /\ Len(ValuesFrom(name, size).values) = size
              /\ \A x \in 1 .. size :
                    ValuesFrom(name, size).values[x] = op.vals[s][Start(s, i) + x]
  <1>1. PICK s, i : s = name[1] /\ i = name[2] /\ s \in Sides /\ i \in DOMAIN Lists(s)
    BY NameParts
  <1>2. op.vals[s] \in Seq(Sorts) /\ Num(op, s) = Len(op.vals[s])
    BY <1>1 DEF IInv, Typed, TypeOK, Operation, Num, Parts
  <1>3. Sized(s, i) /\ Start(s, i) + size <= Num(op, s)
    <2>1. ASSUME ~(Sized(s, i) /\ Start(s, i) + size <= Num(op, s)) PROVE FALSE
      <3>1. ValuesFrom(name, size) = Answer(name, "undefined", <<>>)
        BY <1>1, <2>1 DEF ValuesFrom
      <3> QED
        BY <3>1, AnswerType
    <2> QED
      BY <2>1
  <1>4. Start(s, i) \in Nat
    BY <1>1, <1>3, GroupRange
  <1>5. PICK q \in Seq(Sorts) : q = SubSeq(op.vals[s], Start(s, i) + 1, Start(s, i) + size)
    BY <1>2, <1>3, <1>4, SubSeqType
  <1>6. Len(q) = size /\ \A x \in 1 .. size : q[x] = op.vals[s][Start(s, i) + x]
    <2>1. PICK w \in Seq(Sorts), z \in Nat : w = op.vals[s] /\ z = Start(s, i)
      BY <1>2, <1>4
    <2>2. z + size <= Len(w)
      BY <1>2, <1>3, <2>1
    <2>3. /\ Len(SubSeq(w, z + 1, z + size)) = size
          /\ \A x \in 1 .. size : SubSeq(w, z + 1, z + size)[x] = w[z + x]
      BY <2>2, SubSeqType
    <2> QED
      BY <1>5, <2>1, <2>3, Zenon
  <1>7. ValuesFrom(name, size) = Answer(name, "values", q)
    BY <1>1, <1>3, <1>5 DEF ValuesFrom
  <1>8. ValuesFrom(name, size).values = q
    BY <1>7 DEF Answer
  <1> QED
    BY <1>1, <1>3, <1>4, <1>6, <1>8

LEMMA ReadsMeet ==
    ASSUME Verified, NEW name \in ValueNames, ValueOf(name).is = "values"
    PROVE  /\ Range(ValueOf(name).values) \subseteq Lists(name[1])[name[2]].accepts
           /\ Lists(name[1])[name[2]].variadic \/ Len(ValueOf(name).values) = 1
  <1>1. PICK s, i : s = name[1] /\ i = name[2] /\ s \in Sides /\ i \in DOMAIN Lists(s)
    BY NameParts
  <1>2. IInv
    BY DEF Verified
  <1>3. Tiled(op, s) /\ Accepted(op, s)
    BY <1>1, VerifiedTiles
  <1>4. i \in 1 .. Len(Lists(s))
    BY <1>1, <1>2, ListOfSide
  <1>5. PICK size \in Nat :
           /\ ValueOf(name) = ValuesFrom(name, size)
           /\ Lists(s)[i].variadic /\ Sized(s, i) => size = Cardinality(Group(op, s, i))
           /\ ~Lists(s)[i].variadic => size = 1
    <2>1. CASE Lists(s)[i].variadic
      <3>1. ValueOf(name) = ValuesFrom(name, GroupSize(name)) /\ GroupSize(name) \in Nat
        BY <1>1, <1>2, <2>1, GroupSizeType DEF ValueOf, GroupOf
      <3> QED
        BY <1>1, <2>1, <3>1 DEF GroupSize
    <2>2. CASE ~Lists(s)[i].variadic
      <3>1. ValueOf(name) = ValuesFrom(name, 1) /\ 1 \in Nat
        BY <1>1, <2>2 DEF ValueOf
      <3> QED
        BY <2>2, <3>1
    <2> QED
      BY <2>1, <2>2
  <1>6. PICK q \in Seq(Sorts) : q = ValueOf(name).values
    BY <1>2, ValueOfType DEF AnswersOf
  <1>7. /\ Sized(s, i) /\ Start(s, i) \in Nat /\ Len(q) = size
        /\ \A x \in 1 .. size : q[x] = op.vals[s][Start(s, i) + x]
    BY <1>1, <1>2, <1>5, <1>6, ValuesRead
  <1>8. size = Cardinality(Group(op, s, i))
    <2>1. CASE Lists(s)[i].variadic
      BY <1>5, <1>7, <2>1
    <2>2. CASE ~Lists(s)[i].variadic
      BY <1>3, <1>4, <1>5, <2>2 DEF Tiled
    <2> QED
      BY <2>1, <2>2
  <1>9. Group(op, s, i) = Start(s, i) + 1 .. Start(s, i) + size
    BY <1>1, <1>2, <1>7, <1>8, GroupRange
  <1>10. \A x \in 1 .. size : Start(s, i) + x \in Group(op, s, i)
    BY <1>7, <1>9
  <1>11. \A x \in DOMAIN q : q[x] \in Lists(s)[i].accepts
    BY <1>1, <1>3, <1>7, <1>10 DEF Accepted
  <1>12. Range(q) \subseteq Lists(s)[i].accepts
    BY <1>11 DEF Range
  <1> QED
    BY <1>1, <1>5, <1>6, <1>7, <1>12

(***************************************************************************)
(* What the getters of an operation rely on is there when it has verified, *)
(* as long as the declaration lowers no minimum.                           *)
(***************************************************************************)
LEMMA GroupsInside ==
    ASSUME Verified, NEW s \in Sides, MinimumKept(s), NEW i \in DOMAIN Lists(s)
    PROVE  /\ Sized(s, i)
           /\ Start(s, i) + Cardinality(Group(op, s, i)) <= Num(op, s)
           /\ ~Lists(s)[i].variadic => Cardinality(Group(op, s, i)) = 1
  <1>1. Cleared /\ IInv
    BY VerifiedIsCleared DEF Verified
  <1>2. /\ s \in Parts /\ Lists(s) \in Seq(Constraints) /\ Len(Lists(s)) \in Nat
        /\ DOMAIN Lists(s) = 1 .. Len(Lists(s)) /\ Num(op, s) \in Nat
    BY <1>1, ListOfSide
  <1>3. ~Lists(s)[i].variadic => Cardinality(Group(op, s, i)) = 1
    BY <1>2, VerifiedTiles DEF Tiled
  <1>4. CASE Has(Segments(s))
    <2>1. PICK segs \in Seq(Nat) : /\ segs = SegmentsOf(s) /\ segs \in op.segs[s]
                                   /\ SegmentsAddUp(segs, Num(op, s))
                                   /\ SegmentsFit(Lists(s), segs)
      <3>1. SegmentsOf(s) \in op.segs[s]
        BY <1>1, <1>4, SizesHold DEF SegmentsOf
      <3> QED
        BY <1>1, <1>4, <3>1, SegmentsChosen
    <2>2. PICK n \in Nat : n = Len(segs) /\ n = Len(Lists(s))
      BY <1>2, <2>1 DEF SegmentsFit
    <2>3. Sized(s, i) /\ Sizes(s) = segs
      BY <1>2, <1>4, <2>1, <2>2 DEF Sized, Sizes, SegmentsOf
    <2>4. PICK first : /\ Bounds(first, n)
                       /\ \A j \in 1 .. n + 1 : first[j] = SizedFirst(segs, j) /\ first[j] \in Nat
                       /\ \A j \in 1 .. n : first[j + 1] = first[j] + segs[j] /\ segs[j] \in Nat
      BY <2>2, SizedBounds
    <2>5. i \in 1 .. n /\ i \in 1 .. n + 1 /\ i + 1 \in 1 .. n + 1 /\ n + 1 \in 1 .. n + 1 /\ i + 1 <= n + 1
      BY <1>2, <2>2
    <2>6. first[i + 1] <= first[n + 1]
      BY <2>4, <2>5, BoundsGrow
    <2>7. first[n + 1] = Num(op, s)
      BY <2>1, <2>2, <2>4, <2>5 DEF SegmentsAddUp
    <2>8. Start(s, i) = first[i] /\ Cardinality(Group(op, s, i)) = segs[i]
      BY <1>1, <1>4, <2>3, <2>4, <2>5, GroupRange DEF Start
    <2> QED
      BY <1>3, <2>3, <2>4, <2>5, <2>6, <2>7, <2>8
  <1>5. CASE ~Has(Segments(s)) /\ Has(SameSizes(s))
    <2>1. HasVariadic(Lists(s)) /\ Sized(s, i)
      BY <1>1, <1>5, SizesHold DEF Sized
    <2>2. Num(op, s) >= NumFixed(Lists(s))
      BY <1>1, <1>2, <2>1, CountsHold
    <2>3. SameFirst(Lists(s), Num(op, s), i) + SameSize(Lists(s), Num(op, s), i) <= Num(op, s)
      BY <1>1, <1>5, <2>2, SameSizesWithin
    <2>4. /\ Start(s, i) = SameFirst(Lists(s), Num(op, s), i)
          /\ Cardinality(Group(op, s, i)) = SameSize(Lists(s), Num(op, s), i)
      BY <1>1, <1>5, <2>1, GroupRange DEF Start
    <2> QED
      BY <1>3, <2>1, <2>3, <2>4
  <1>6. CASE ~Has(Segments(s)) /\ ~Has(SameSizes(s))
    <2>1. Sized(s, i) /\ Start(s, i) = i - 1
      BY <1>6 DEF Sized, Start
    <2>2. Cardinality(Group(op, s, i)) = 1
      BY <1>1, <1>6, <2>1, GroupRange
    <2>3. Num(op, s) = Len(Lists(s))
      BY <1>1, <1>2, <1>6, SizesHold, CountsHold
    <2> QED
      BY <1>2, <1>3, <2>1, <2>2, <2>3
  <1> QED
    BY <1>4, <1>5, <1>6

LEMMA ReadsDefined ==
    ASSUME Verified, NEW name \in ValueNames, MinimumKept(name[1])
    PROVE  ValueOf(name).is = "values" /\ GroupOf(name).is = "values"
  <1>1. PICK s, i : s = name[1] /\ i = name[2] /\ s \in Sides /\ i \in DOMAIN Lists(s)
    BY NameParts
  <1>2. IInv
    BY DEF Verified
  <1>3. PICK size \in Nat : size = Cardinality(Group(op, s, i)) /\ size = GroupSize(name)
    BY <1>1, <1>2, GroupsInside, GroupSizeType DEF GroupSize
  <1>4. /\ Sized(s, i) /\ Start(s, i) + size <= Num(op, s)
        /\ ~Lists(s)[i].variadic => size = 1
    BY <1>1, <1>3, GroupsInside
  <1>5. op.vals[s] \in Seq(Sorts) /\ Num(op, s) = Len(op.vals[s]) /\ Start(s, i) \in Nat
    BY <1>1, <1>2, <1>4, GroupRange DEF IInv, Typed, TypeOK, Operation, Num, Parts
  <1>6. PICK q \in Seq(Sorts) : q = SubSeq(op.vals[s], Start(s, i) + 1, Start(s, i) + size)
    BY <1>4, <1>5, SubSeqType
  <1>7. ValuesFrom(name, size) = Answer(name, "values", q)
    BY <1>1, <1>4, <1>6 DEF ValuesFrom
  <1>8. ValuesFrom(name, size).is = "values"
    BY <1>7 DEF Answer
  <1>9. GroupOf(name) = ValuesFrom(name, size)
    BY <1>3 DEF GroupOf
  <1>10. ValueOf(name) = ValuesFrom(name, size)
    BY <1>1, <1>4, <1>9 DEF ValueOf
  <1> QED
    BY <1>8, <1>9, <1>10

(* Only a LoopLike may then read a region that is not there.               *)
LEMMA AnswersDefined ==
    ASSUME Verified, \A p \in Parts : MinimumKept(p), NEW answer \in Answers,
           answer.is = "undefined"
    PROVE  \E i \in Loops[decl] : answer.of = <<"loop", i>> /\ Lists("region")[i].variadic
  <1>1. IInv /\ Cleared /\ "region" \in Blocks /\ \A s \in Sides : s \in Parts
    BY VerifiedIsCleared DEF Verified, Blocks, Parts
  <1>2. \A name \in ValueNames : ValueOf(name).is = "values" /\ GroupOf(name).is = "values"
    BY <1>1, NameParts, ReadsDefined
  <1>3. \A i : RegionOf(i).is = "undefined" => i \in DOMAIN Lists("region") /\ Lists("region")[i].variadic
    <2>1. SUFFICES ASSUME NEW i, RegionOf(i).is = "undefined"
                   PROVE  i \in DOMAIN Lists("region") /\ Lists("region")[i].variadic
      OBVIOUS
    <2>2. i \in DOMAIN Lists("region")
      <3>1. ASSUME i \notin DOMAIN Lists("region") PROVE FALSE
        <4>1. RegionOf(i) = Answer(<<"region", i>>, "raised", <<>>)
          BY <3>1 DEF RegionOf
        <4> QED
          BY <2>1, <4>1, AnswerType
      <3> QED
        BY <3>1
    <2>3. ~(i <= Num(op, "region"))
      <3>1. ASSUME i <= Num(op, "region") PROVE FALSE
        <4>1. RegionOf(i) = Answer(<<"region", i>>, "values", <<op.vals["region"][i]>>)
          BY <2>2, <3>1 DEF RegionOf
        <4>2. RegionOf(i).is = "values"
          BY <4>1 DEF Answer
        <4> QED
          BY <2>1, <4>2
      <3> QED
        BY <3>1
    <2> QED
      BY <1>1, <2>2, <2>3, BlocksThere DEF Parts
  <1>4. CASE answer \in {ValueOf(name) : name \in ValueNames}
    BY <1>2, <1>4
  <1>5. CASE answer \in UNION {{BlockOf(b, i) : i \in DOMAIN Lists(b)} : b \in Blocks}
    <2>1. PICK b, i : b \in Blocks /\ i \in DOMAIN Lists(b) /\ answer = BlockOf(b, i)
      BY <1>5
    <2>2. CASE b = "successor" \/ Lists(b)[i].variadic
      <3>1. answer = Answer(<<b, i>>, "raised", <<>>)
        BY <2>1, <2>2 DEF BlockOf
      <3> QED
        BY <3>1, AnswerType
    <2>3. CASE ~(b = "successor" \/ Lists(b)[i].variadic)
      <3>1. b = "region" /\ answer = RegionOf(i)
        BY <2>1, <2>3 DEF BlockOf, Blocks
      <3> QED
        BY <1>3, <2>3, <3>1
    <2> QED
      BY <2>2, <2>3
  <1>6. CASE answer \in {Effects(MemoryEffects), Writes}
    BY <1>1, <1>2, <1>6, EffectsType DEF Writes
  <1>7. CASE answer \in {[RegionOf(i) EXCEPT !.of = <<"loop", i>>] : i \in Loops[decl]}
    <2>1. PICK i \in Loops[decl] : answer = [RegionOf(i) EXCEPT !.of = <<"loop", i>>]
      BY <1>7
    <2>2. PICK region \in AnswersOf(<<"region", i>>) : region = RegionOf(i)
      BY <1>1, RegionOfType
    <2>3. answer.of = <<"loop", i>> /\ answer.is = RegionOf(i).is
      BY <2>1, <2>2 DEF AnswersOf
    <2> QED
      BY <1>3, <2>3
  <1> QED
    BY <1>4, <1>5, <1>6, <1>7 DEF Answers

(***************************************************************************)
(* The groups of an operation that was constructed are the arguments of    *)
(* its constructor.  All the variadic ones have k values, unless the       *)
(* operation carries the sizes.                                            *)
(***************************************************************************)
LEMMA EqualLens ==
    ASSUME NEW tys \in Seq(Constraints), NEW k \in Nat, NEW lens \in Seq(Nat),
           Len(lens) = Len(tys),
           \A i \in 1 .. Len(tys) : lens[i] = IF tys[i].variadic THEN k ELSE 1,
           NEW i \in 1 .. Len(tys) + 1
    PROVE  SizedFirst(lens, i)
             = Cardinality(Below(Fixed(tys), i)) + k * Cardinality(Below(Variadics(tys), i))
  <1> DEFINE F(j) == Cardinality(Below(Fixed(tys), j))
             V(j) == Cardinality(Below(Variadics(tys), j))
             Wrong == {j \in 1 .. Len(tys) + 1 : SizedFirst(lens, j) # F(j) + k * V(j)}
  <1>1. PICK n \in Nat : n = Len(tys) /\ DOMAIN tys = 1 .. n
    OBVIOUS
  <1>2. Fixed(tys) \in SUBSET (DOMAIN tys) /\ Variadics(tys) \in SUBSET (DOMAIN tys)
    BY DEF Fixed, Variadics
  <1>3. F(1) = 0 /\ V(1) = 0
    BY <1>2, BelowEnds
  <1>4. \A j \in 1 .. n : /\ F(j + 1) = F(j) + (IF j \in Fixed(tys) THEN 1 ELSE 0)
                          /\ V(j + 1) = V(j) + (IF j \in Variadics(tys) THEN 1 ELSE 0)
    BY <1>1, <1>2, BelowStep
  <1>5. \A j \in 1 .. n : F(j) \in Nat /\ V(j) \in Nat
    <2>1. \A j \in 1 .. n : j \in Nat /\ j <= j
      BY <1>1
    <2> QED
      BY <1>2, <2>1, BelowGrows
  <1>6. \A j \in 1 .. n : (j \in Variadics(tys) <=> tys[j].variadic)
                          /\ (j \in Fixed(tys) <=> ~tys[j].variadic)
    BY <1>1 DEF Variadics, Fixed
  <1>7. /\ SizedFirst(lens, 1) = 0
        /\ \A j \in 1 .. n : SizedFirst(lens, j) \in Nat
                             /\ SizedFirst(lens, j + 1) = SizedFirst(lens, j) + lens[j]
    BY <1>1, SizedSteps
  <1>8. i \in 1 .. n + 1 /\ Wrong \in SUBSET Nat /\ \A j \in Wrong : j \in 1 .. n + 1
    BY <1>1
  <1>9. \A j \in Wrong : SizedFirst(lens, j) # F(j) + k * V(j)
    OBVIOUS
  <1>10. \A j \in 1 .. n + 1 : j \notin Wrong => SizedFirst(lens, j) = F(j) + k * V(j)
    BY <1>1
  <1> SUFFICES ASSUME Wrong # {} PROVE FALSE
    BY <1>8, <1>10
  <1> HIDE DEF F, V, Wrong
  <1>11. PICK j \in Wrong : \A l \in Wrong : j <= l
    BY <1>8, Least
  <1>12. k * 0 = 0
    OBVIOUS
  <1>13. j # 1
    BY <1>3, <1>7, <1>9, <1>12
  <1>14. j \in Nat /\ j - 1 \in 1 .. n /\ (j - 1) + 1 = j
    BY <1>1, <1>8, <1>13
  <1>15. j - 1 \notin Wrong
    <2>1. ASSUME j - 1 \in Wrong PROVE FALSE
      <3>1. j <= j - 1
        BY <1>11, <2>1
      <3> QED
        BY <1>14, <3>1
    <2> QED
      BY <2>1
  <1>16. PICK m \in 1 .. n : m = j - 1 /\ j = m + 1
    BY <1>14
  <1>17. SizedFirst(lens, m) = F(m) + k * V(m)
    BY <1>1, <1>10, <1>15, <1>16
  <1>18. SizedFirst(lens, m + 1) = SizedFirst(lens, m) + lens[m]
    BY <1>7
  <1>19. PICK f \in Nat, v \in Nat : f = F(m) /\ v = V(m)
    BY <1>5
  <1>20. SizedFirst(lens, m + 1) = F(m + 1) + k * V(m + 1)
    <2>1. CASE tys[m].variadic
      <3>1. lens[m] = k /\ F(m + 1) = f /\ V(m + 1) = v + 1
        BY <1>1, <1>4, <1>6, <1>19, <2>1
      <3>2. k * (v + 1) = k * v + k
        OBVIOUS
      <3> QED
        BY <1>17, <1>18, <1>19, <3>1, <3>2
    <2>2. CASE ~tys[m].variadic
      <3>1. lens[m] = 1 /\ F(m + 1) = f + 1 /\ V(m + 1) = v
        BY <1>1, <1>4, <1>6, <1>19, <2>2, SMTT(30)
      <3>2. k * v \in Nat
        OBVIOUS
      <3> QED
        BY <1>17, <1>18, <1>19, <3>1, <3>2
    <2> QED
      BY <2>1, <2>2
  <1> QED
    BY <1>9, <1>16, <1>20

(* A declaration without a specifier has no variadic name.                 *)
LEMMA SpecifierGiven ==
    ASSUME IInv, stage \in Registered, NEW s \in Sides, ~Has(Segments(s)), ~Has(SameSizes(s))
    PROVE  ~HasVariadic(Lists(s))
  <1>1. SizesSpecified(s)
    BY DEF IInv, DeclarationChecked, Registered, Ran
  <1>2. \A i \in DOMAIN decl.traits : Added(i)
    BY DEF IInv, AllAdded
  <1>3. SameSizes(s) # Unknown /\ Segments(s) # Unknown
    BY DEF SameSizes, Segments, Unknown
  <1>4. ~Declares(SameSizes(s)) /\ ~Declares(Segments(s))
    BY <1>2, <1>3 DEF Declares, Added
  <1> QED
    BY <1>1, <1>4 DEF SizesSpecified

LEMMA GroupsGiven ==
    ASSUME IInv, stage \in Registered, NEW s \in Sides, NEW args \in Seq(Seq(Sorts)),
           DOMAIN args = DOMAIN Lists(s),
           \A i \in DOMAIN args : Lists(s)[i].variadic \/ Len(args[i]) = 1,
           op.vals[s] = FlattenSeq(args),
           Has(Segments(s)) => op.segs[s] = {Lens(args)},
           Has(SameSizes(s)) =>
               /\ HasVariadic(Lists(s))
               /\ \A i, j \in Variadics(Lists(s)) : Len(args[i]) = Len(args[j]),
           NEW i \in DOMAIN Lists(s)
    PROVE  /\ Sized(s, i)
           /\ Start(s, i) = SizedFirst(Lens(args), i)
           /\ Lists(s)[i].variadic => Cardinality(Group(op, s, i)) = Len(args[i])
  <1>1. PICK tys \in Seq(Constraints) : tys = Lists(s)
    BY ListOfSide
  <1>2. PICK n \in Nat : n = Len(tys) /\ DOMAIN tys = 1 .. n
    BY <1>1
  <1>3. PICK lens \in Seq(Nat) : lens = Lens(args)
    BY LensType
  <1>4. /\ Len(args) = n /\ Len(lens) = n /\ i \in 1 .. n
        /\ \A j \in 1 .. n : lens[j] = Len(args[j])
        /\ \A j \in 1 .. n : tys[j].variadic \/ lens[j] = 1
    <2>1. /\ Len(lens) = Len(args) /\ \A j \in 1 .. Len(args) : lens[j] = Len(args[j])
          /\ DOMAIN args = 1 .. Len(args) /\ Len(args) \in Nat
      BY <1>3, LensType
    <2>2. DOMAIN args = 1 .. n /\ i \in 1 .. n
      BY <1>1, <1>2
    <2>3. Len(args) = n
      BY <2>1, <2>2
    <2>4. \A j \in 1 .. n : tys[j].variadic \/ Len(args[j]) = 1
      BY <1>1, <2>2
    <2> QED
      BY <2>1, <2>2, <2>3, <2>4
  <1>5. SizedFirst(lens, 1) = 0 /\ SizedFirst(lens, i) \in Nat
    BY <1>4, SizedSteps
  <1>6. Num(op, s) = SizedFirst(lens, n + 1) /\ Num(op, s) \in Nat /\ Num(op, s) < UintMod
    BY <1>3, <1>4, Flattened, ListOfSide DEF Num
  <1>7. CASE Has(Segments(s))
    <2>1. op.segs[s] = {lens}
      BY <1>3, <1>7
    <2>2. Sizes(s) = lens /\ Sized(s, i)
      BY <1>2, <1>4, <1>7, <2>1 DEF Sizes, Sized
    <2>3. Start(s, i) = SizedFirst(lens, i)
      BY <1>7, <2>2 DEF Start
    <2>4. Cardinality(Group(op, s, i)) = lens[i]
      BY <1>7, <2>2, GroupRange
    <2> QED
      BY <1>3, <1>4, <2>2, <2>3, <2>4
  <1>8. CASE ~Has(Segments(s)) /\ Has(SameSizes(s))
    <2>1. HasVariadic(tys) /\ Sized(s, i) /\ \A j, l \in Variadics(tys) : lens[j] = lens[l]
      BY <1>1, <1>2, <1>3, <1>4, <1>8 DEF Sized, Variadics
    <2>2. PICK v \in Variadics(tys) : TRUE
      BY <2>1 DEF HasVariadic
    <2>3. PICK k \in Nat : k = lens[v]
      <3>1. v \in 1 .. Len(lens)
        BY <1>2, <1>4 DEF Variadics
      <3> QED
        BY <3>1
    <2>4. \A j \in 1 .. Len(tys) : lens[j] = IF tys[j].variadic THEN k ELSE 1
      BY <1>2, <1>4, <2>1, <2>2, <2>3 DEF Variadics
    <2>5. \A j \in 1 .. Len(tys) + 1 :
             SizedFirst(lens, j)
               = Cardinality(Below(Fixed(tys), j)) + k * Cardinality(Below(Variadics(tys), j))
      BY <1>2, <1>4, <2>4, EqualLens
    <2>6. PICK total \in Nat \ {0} : total = Cardinality(Variadics(tys))
      BY <1>6, <2>1, SegmentSizeType
    <2>7. /\ Cardinality(Below(Fixed(tys), n + 1)) = NumFixed(tys) /\ NumFixed(tys) \in Nat
          /\ Cardinality(Below(Variadics(tys), n + 1)) = total
      <3>1. Fixed(tys) \in SUBSET (DOMAIN tys) /\ Variadics(tys) \in SUBSET (DOMAIN tys)
        BY DEF Fixed, Variadics
      <3>2. NumFixed(tys) = Cardinality(Fixed(tys))
        BY DEF NumFixed, Fixed
      <3> QED
        BY <1>2, <2>6, <3>1, <3>2, BelowEnds, NumFixedBound
    <2>8. n + 1 \in 1 .. Len(tys) + 1
      BY <1>2
    <2>9. Num(op, s) = NumFixed(tys) + k * total
      BY <1>6, <2>5, <2>7, <2>8
    <2>10. NumVariadicValues(tys, Num(op, s)) = k * total
      <3>1. PICK x \in Nat : x = k * total
        OBVIOUS
      <3>2. PICK f \in Nat, num \in Nat :
               x = k * total /\ f = NumFixed(tys) /\ num = Num(op, s)
        BY <1>6, <2>7, <3>1
      <3>3. num = f + x /\ num < UintMod
        BY <1>6, <2>9, <3>2
      <3>4. num - f = x /\ x < UintMod /\ UintMod \in Nat \ {0}
        BY <3>3, UintModAssumption
      <3>5. x \in Int /\ -UintMod < x /\ ~(x < 0)
        BY <3>4
      <3>6. x % UintMod = x
        BY <3>4, <3>5, Wrap
      <3> QED
        BY <3>2, <3>4, <3>6 DEF NumVariadicValues
    <2>11. SegmentSize(tys, Num(op, s)) = k
      <3>1. (k * total) \div total = k
        OBVIOUS
      <3> QED
        BY <2>6, <2>10, <3>1 DEF SegmentSize
    <2>12. Start(s, i) = SizedFirst(lens, i)
      <3>1. Start(s, i) = SameFirst(tys, Num(op, s), i)
        BY <1>1, <1>8 DEF Start
      <3>2. i \in 1 .. Len(tys) + 1
        BY <1>2, <1>4
      <3> QED
        BY <2>5, <2>11, <3>1, <3>2 DEF SameFirst, Fixed
    <2>13. tys[i].variadic => Cardinality(Group(op, s, i)) = lens[i]
      <3>1. Cardinality(Group(op, s, i)) = SameSize(tys, Num(op, s), i)
        BY <1>1, <1>8, <2>1, GroupRange
      <3> QED
        BY <1>2, <1>4, <2>4, <2>11, <3>1 DEF SameSize, Variadics
    <2> QED
      BY <1>1, <1>3, <1>4, <2>1, <2>12, <2>13
  <1>9. CASE ~Has(Segments(s)) /\ ~Has(SameSizes(s))
    <2>1. Variadics(tys) = {}
      BY <1>1, <1>9, SpecifierGiven DEF HasVariadic
    <2>2. ~tys[i].variadic /\ \A j \in 1 .. Len(tys) : lens[j] = IF tys[j].variadic THEN 0 ELSE 1
      BY <1>2, <1>4, <2>1 DEF Variadics
    <2>3. i \in 1 .. Len(tys) + 1 /\ 0 \in Nat
      BY <1>2, <1>4
    <2>4. SizedFirst(lens, i)
            = Cardinality(Below(Fixed(tys), i)) + 0 * Cardinality(Below(Variadics(tys), i))
      BY <1>2, <1>4, <2>2, <2>3, EqualLens
    <2>5. Below(Fixed(tys), i) = 1 .. i - 1 /\ Below(Variadics(tys), i) = {}
      BY <1>2, <1>4, <2>1 DEF Below, Fixed
    <2>6. Cardinality(1 .. i - 1) = i - 1
      <3>1. PICK m \in Nat : m = i - 1
        BY <1>4
      <3>2. Cardinality(0 + 1 .. 0 + m) = m
        BY IntervalSize
      <3> QED
        BY <3>1, <3>2
    <2>7. Cardinality({}) = 0
      BY FS_EmptySet
    <2>8. SizedFirst(lens, i) = i - 1
      BY <1>4, <2>4, <2>5, <2>6, <2>7
    <2> QED
      BY <1>1, <1>3, <1>9, <2>2, <2>8 DEF Sized, Start
  <1> QED
    BY <1>7, <1>8, <1>9

LEMMA ReadsBack ==
    ASSUME XInv, given.by = "constructor", NEW name \in ValueNames, GroupingKept(name[1])
    PROVE  /\ ValueOf(name).is = "values"
           /\ ValueOf(name).values = given.args[name[1]][name[2]]
  <1>1. PICK s, i : s = name[1] /\ i = name[2] /\ s \in Sides /\ i \in DOMAIN Lists(s)
    BY NameParts
  <1>2. IInv /\ stage \in Registered
    BY DEF XInv, Phases
  <1>3. decl \in Declarations /\ given.args \in Arguments[decl] /\ s \in Named
    BY <1>1 DEF XInv, IInv, Typed, Fresh, Named, Parts, Sides
  <1>4. PICK args \in Seq(Seq(Sorts)) : args = given.args[s]
    BY <1>3, ExposureAssumption DEF Given
  <1>5. DOMAIN args = DOMAIN Lists(s) /\ \A j \in DOMAIN args : Lists(s)[j].variadic \/ Len(args[j]) = 1
    BY <1>3, <1>4, ExposureAssumption DEF Lists
  <1>6. op.vals[s] = FlattenSeq(args)
    BY <1>1, <1>4 DEF XInv, Fresh
  <1>7. /\ Has(Segments(s)) => op.segs[s] = {Lens(args)}
        /\ Has(SameSizes(s)) =>
              /\ HasVariadic(Lists(s))
              /\ \A j, l \in Variadics(Lists(s)) : Len(args[j]) = Len(args[l])
    BY <1>1, <1>4 DEF GroupingKept, Lens
  <1>8. /\ Sized(s, i) /\ Start(s, i) = SizedFirst(Lens(args), i)
        /\ Lists(s)[i].variadic => Cardinality(Group(op, s, i)) = Len(args[i])
    <2>1. s \in Sides /\ i \in DOMAIN Lists(s)
      BY <1>1
    <2> QED
      BY <1>2, <1>5, <1>6, <1>7, <2>1, GroupsGiven
  <1>9. PICK n \in Nat : n = Len(args) /\ i \in 1 .. n
    BY <1>1, <1>5
  <1>10. PICK lens \in Seq(Nat) : lens = Lens(args) /\ Len(lens) = n /\ lens[i] = Len(args[i])
    BY <1>9, LensType
  <1>11. PICK a \in Seq(Sorts) : a = args[i]
    BY <1>9
  <1>12. PICK vals \in Seq(Sorts) :
            /\ vals = op.vals[s] /\ Len(vals) = SizedFirst(lens, n + 1)
            /\ \A x \in 1 .. Len(a) : vals[SizedFirst(lens, i) + x] = a[x]
    BY <1>6, <1>9, <1>10, <1>11, Flattened
  <1>13. PICK m \in Nat : m = Start(s, i) /\ m = SizedFirst(lens, i) /\ m + Len(a) <= Len(vals)
    <2>1. PICK first :
             /\ Bounds(first, n)
             /\ \A j \in 1 .. n + 1 : first[j] = SizedFirst(lens, j) /\ first[j] \in Nat
             /\ \A j \in 1 .. n : first[j + 1] = first[j] + lens[j] /\ lens[j] \in Nat
      BY <1>10, SizedBounds
    <2>2. i \in 1 .. n + 1 /\ i + 1 \in 1 .. n + 1 /\ n + 1 \in 1 .. n + 1 /\ i + 1 <= n + 1
      BY <1>9
    <2>3. first[i + 1] <= first[n + 1]
      BY <2>1, <2>2, BoundsGrow
    <2>4. first[i] + Len(a) <= Len(vals) /\ first[i] \in Nat /\ first[i] = SizedFirst(lens, i)
      BY <1>9, <1>10, <1>11, <1>12, <2>1, <2>2, <2>3
    <2> QED
      BY <1>8, <1>10, <2>4
  <1>14. SubSeq(vals, m + 1, m + Len(a)) = a
    <2>1. \A x \in 1 .. Len(a) : vals[m + x] = a[x]
      BY <1>12, <1>13
    <2> QED
      BY <1>13, <2>1, FoundAgain
  <1>15. ValueOf(name) = ValuesFrom(name, Len(a))
    <2>1. CASE Lists(s)[i].variadic
      <3>1. GroupSize(name) = Len(a)
        BY <1>1, <1>8, <1>11, <2>1 DEF GroupSize
      <3> QED
        BY <1>1, <2>1, <3>1 DEF ValueOf, GroupOf
    <2>2. CASE ~Lists(s)[i].variadic
      <3>1. Len(a) = 1
        BY <1>1, <1>5, <1>11, <2>2
      <3> QED
        BY <1>1, <2>2, <3>1 DEF ValueOf
    <2> QED
      BY <2>1, <2>2
  <1>16. ValuesFrom(name, Len(a)) = Answer(name, "values", a)
    BY <1>1, <1>8, <1>12, <1>13, <1>14 DEF ValuesFrom, Num
  <1> QED
    BY <1>1, <1>4, <1>11, <1>15, <1>16 DEF Answer
-----------------------------------------------------------------------------
(***************************************************************************)
(* The operation that a Python program holds, and what the bindings return *)
(* to it, are well typed whatever was constructed, parsed, changed and     *)
(* verified in whatever order; in particular the lists that the            *)
(* constructor splices and the operand that is erased leave values.        *)
(***************************************************************************)
THEOREM HandleTyped == ExposedSpec => []HandleOK
  <1>1. XInv => HandleOK
    BY DEF XInv, Handled, IInv, Typed, HandleOK
  <1>2. XInv /\ [ExposedNext]_allVars => XInv'
    BY ExposedInductive
  <1> QED
    BY <1>1, <1>2, ExposedInitially, PTL DEF ExposedSpec

(***************************************************************************)
(* An operation that the generated class constructed, verified or not,     *)
(* gives the arguments of the constructor back, by the names of any        *)
(* declaration, as long as nothing is changed and the operation says how   *)
(* they were grouped: the offsets of the getters are the lengths that      *)
(* inlineOrConcat spliced.                                                 *)
(***************************************************************************)
THEOREM ConstructedReadsBack == ExposedSpec => []FreshReadsBack
  <1>1. XInv => FreshReadsBack
    BY GotIsCurrent, ReadsBack DEF FreshReadsBack
  <1>2. XInv /\ [ExposedNext]_allVars => XInv'
    BY ExposedInductive
  <1> QED
    BY <1>1, <1>2, ExposedInitially, PTL DEF ExposedSpec

(***************************************************************************)
(* From when an operation verifies to the next change, every attribute is  *)
(* met or absent and optional, and what a getter returns meets the         *)
(* constraint of its name, one value for a name that is not variadic: for  *)
(* any declaration, also one that lowers its minimum.                      *)
(***************************************************************************)
THEOREM VerifiedReadsMeet == ExposedSpec => []CheckedReadsMeet
  <1>1. XInv => CheckedReadsMeet
    <2>1. SUFFICES ASSUME XInv, checked PROVE CheckedReadsMeet
      BY DEF CheckedReadsMeet
    <2>2. Verified /\ \A i \in DOMAIN attrs : Satisfied(i)
      BY <2>1, CheckedIsVerified DEF AttributesMet
    <2>3. ASSUME got.of \in ValueNames, got.is = "values"
          PROVE  /\ Range(got.values) \subseteq Lists(got.of[1])[got.of[2]].accepts
                 /\ Lists(got.of[1])[got.of[2]].variadic \/ Len(got.values) = 1
      <3>1. PICK name \in ValueNames : name = got.of
        BY <2>3
      <3>2. got = ValueOf(name)
        BY <2>1, <3>1, GotIsCurrent
      <3> QED
        BY <2>2, <2>3, <3>1, <3>2, ReadsMeet
    <2> QED
      BY <2>2, <2>3 DEF CheckedReadsMeet
  <1>2. XInv /\ [ExposedNext]_allVars => XInv'
    BY ExposedInductive
  <1> QED
    BY <1>1, <1>2, ExposedInitially, PTL DEF ExposedSpec

(***************************************************************************)
(* What ends the process, for a declaration that lowers no minimum and     *)
(* gives no size specifier in vain: HasParent on an operation in no block, *)
(* a read of an operation made or changed since it was last verified, or   *)
(* a LoopLike whose region is the variadic one.  A getter never runs off   *)
(* the values of an operation that verified.                               *)
(***************************************************************************)
THEOREM AbortsHaveCause == ExposedSpec => []AbortsExplained
  <1>1. XInv => AbortsExplained
    <2>1. SUFFICES ASSUME XInv, stage = "aborted", Sound PROVE AbortsExplained
      BY DEF AbortsExplained
    <2>2. IInv /\ (\A p \in Parts : MinimumKept(p)) /\ (\A s \in Sides : SpecifierUsed(s))
      BY <2>1 DEF XInv, Sound
    <2>3. CASE got \in Answers /\ got.is = "undefined"
      <3>1. CASE ~checked
        BY <2>3, <3>1 DEF AbortsExplained
      <3>2. CASE checked
        <4>1. Verified
          BY <2>1, <3>2, CheckedIsVerified
        <4>2. \E i \in Loops[decl] : got.of = <<"loop", i>> /\ Lists("region")[i].variadic
          BY <2>2, <2>3, <4>1, AnswersDefined
        <4> QED
          BY <2>3, <4>2 DEF AbortsExplained
      <3> QED
        BY <3>1, <3>2
    <2>4. CASE got = NoAnswer /\ "undefined" \in HeldVerdicts
      <3>1. "undefined" \notin Verdicts(traits[next], op)
        BY <2>1, <2>2, VerdictDefined
      <3>2. traits[next].name # AttrConstraint
        BY <2>4 DEF HeldVerdicts, AttributesVerdict, AttrConstraint, Other
      <3>3. traits[next].name = Other /\ decl \in Parented
        BY <2>4, <3>1, <3>2 DEF HeldVerdicts
      <3>4. HeldVerdicts = {ParentVerdict}
        BY <3>3 DEF HeldVerdicts, AttrConstraint, Other
      <3>5. parent = "none"
        BY <2>1, <2>4, <3>4 DEF ParentVerdict, XInv, Handled
      <3>6. got.is = "nothing"
        BY <2>4 DEF NoAnswer
      <3> QED
        BY <3>3, <3>5, <3>6 DEF AbortsExplained
    <2> QED
      BY <2>1, <2>3, <2>4 DEF XInv, Ended
  <1>2. XInv /\ [ExposedNext]_allVars => XInv'
    BY ExposedInductive
  <1> QED
    BY <1>1, <1>2, ExposedInitially, PTL DEF ExposedSpec

(***************************************************************************)
(* An operation that came through its custom form, in which parseOperation *)
(* fills the default values in, and fails on its attributes fails on a     *)
(* value that is not met or on a plain attribute that is missing, however  *)
(* many attributes its declaration has.                                    *)
(***************************************************************************)
THEOREM CustomFormFillsDefaults == ExposedSpec => []DefaultsFilled
  <1>1. XInv => DefaultsFilled
    <2>1. SUFFICES ASSUME XInv, stage = "invalid", traits[next].name = AttrConstraint,
                          given.by = "custom form"
                   PROVE  \E i \in DOMAIN attrs :
                             attrs[i] = "unmet" \/ (attrs[i] = "absent" /\ Kinds[i] = "plain")
      BY DEF DefaultsFilled
    <2>2. HeldVerdicts = {AttributesVerdict}
      <3>1. traits[next].name = AttrConstraint
        BY <2>1
      <3> QED
        BY <3>1 DEF HeldVerdicts, AttrConstraint, Other
    <2>3. AttributesVerdict = "invalid"
      BY <2>1, <2>2 DEF XInv, Ended
    <2>4. PICK failing : failing = {i \in DOMAIN attrs : ~Satisfied(i)}
      OBVIOUS
    <2>5. failing # {} /\ attrs[Min(failing)] # "raises"
      BY <2>3, <2>4 DEF AttributesVerdict
    <2>6. attrs \in Seq(AttributeValues) /\ DOMAIN attrs = DOMAIN Kinds
      BY <2>1 DEF XInv, Handled, AttributesKept
    <2>7. failing \in SUBSET Nat
      BY <2>4, <2>6
    <2>8. PICK i \in DOMAIN attrs : i = Min(failing) /\ ~Satisfied(i)
      BY <2>4, <2>5, <2>7, LeastOf
    <2>9. attrs[i] \in {"unmet", "absent"} /\ ~(attrs[i] = "absent" /\ Kinds[i] = "optional")
      <3>1. attrs[i] \in AttributeValues
        BY <2>6
      <3> QED
        BY <2>5, <2>8, <3>1 DEF Satisfied, AttributeValues
    <2>10. attrs[i] = "absent" => Kinds[i] \notin {"default", "misfit"}
      BY <2>1 DEF XInv, DefaultsKept
    <2>11. Kinds[i] \in AttributeKinds
      <3>1. Kinds \in Seq(AttributeKinds)
        BY <2>1, AttributesOf DEF XInv
      <3> QED
        BY <2>6, <3>1
    <2> QED
      BY <2>9, <2>10, <2>11 DEF AttributeKinds
  <1>2. XInv /\ [ExposedNext]_allVars => XInv'
    BY ExposedInductive
  <1> QED
    BY <1>1, <1>2, ExposedInitially, PTL DEF ExposedSpec
=============================================================================
