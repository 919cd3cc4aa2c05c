----------------------- MODULE RewritingSafetyProofs -----------------------
(***************************************************************************)
(* Theorems of Rewriting, about the operations themselves: every operation *)
(* keeps its one place in one block, disciplined functions make no driver  *)
(* read what was erased, and the replacements that a conversion follows at *)
(* its end arrive at an operation, for patterns, targets and operations of *)
(* any number.                                                             *)
(***************************************************************************)
EXTENDS RewritingProofs, FiniteSetTheorems

(***************************************************************************)
(* Lists in which nothing occurs twice.                                    *)
(***************************************************************************)
LEMMA DistinctConcat ==
    ASSUME NEW S
    PROVE  \A s, t \in Seq(S) :
              IsInjective(s \o t) <=>
                 IsInjective(s) /\ IsInjective(t) /\ ToSet(s) \cap ToSet(t) = {}
  <1> SUFFICES ASSUME NEW s \in Seq(S), NEW t \in Seq(S)
               PROVE  IsInjective(s \o t) <=>
                         IsInjective(s) /\ IsInjective(t) /\ ToSet(s) \cap ToSet(t) = {}
    OBVIOUS
  <1>1. PICK n \in Nat, m \in Nat : n = Len(s) /\ m = Len(t)
    OBVIOUS
  <1>2. PICK q \in Seq(S) : q = s \o t
    BY ConcatProperties
  <1>3. /\ DOMAIN s = 1 .. n /\ DOMAIN t = 1 .. m /\ DOMAIN q = 1 .. n + m
        /\ \A a \in 1 .. n : q[a] = s[a]
        /\ \A a \in 1 .. m : q[n + a] = t[a]
    BY <1>1, <1>2
  <1>4. ASSUME IsInjective(q)
        PROVE  IsInjective(s) /\ IsInjective(t) /\ ToSet(s) \cap ToSet(t) = {}
    <2>1. IsInjective(s)
      BY <1>1, <1>3, <1>4 DEF IsInjective
    <2>2. IsInjective(t)
      <3> SUFFICES ASSUME NEW a \in 1 .. m, NEW b \in 1 .. m, t[a] = t[b] PROVE a = b
        BY <1>3 DEF IsInjective
      <3>1. n + a \in 1 .. n + m /\ n + b \in 1 .. n + m /\ q[n + a] = q[n + b]
        BY <1>1, <1>3
      <3>2. n + a = n + b
        BY <1>3, <1>4, <3>1 DEF IsInjective
      <3> QED
        BY <1>1, <3>2
    <2>3. ASSUME NEW a \in 1 .. n, NEW b \in 1 .. m, s[a] = t[b] PROVE FALSE
      <3>1. a \in 1 .. n + m /\ n + b \in 1 .. n + m /\ a # n + b
        BY <1>1
      <3>2. q[a] = q[n + b]
        BY <1>3, <2>3
      <3> QED
        BY <1>3, <1>4, <3>1, <3>2 DEF IsInjective
    <2>4. ToSet(s) = {s[a] : a \in 1 .. n} /\ ToSet(t) = {t[b] : b \in 1 .. m}
      BY <1>3 DEF ToSet
    <2> QED
      BY <2>1, <2>2, <2>3, <2>4
  <1>5. ASSUME IsInjective(s), IsInjective(t), ToSet(s) \cap ToSet(t) = {}
        PROVE  IsInjective(q)
    <2> SUFFICES ASSUME NEW a \in 1 .. n + m, NEW b \in 1 .. n + m, q[a] = q[b] PROVE a = b
      BY <1>3 DEF IsInjective
    <2>1. \A c \in 1 .. n + m : c \in 1 .. n \/ (c - n \in 1 .. m /\ c = n + (c - n))
      BY <1>1
    <2>2. \A c \in 1 .. n : q[c] \in ToSet(s)
      BY <1>3 DEF ToSet
    <2>3. ASSUME NEW c \in 1 .. n + m, c - n \in 1 .. m PROVE q[c] = t[c - n] /\ q[c] \in ToSet(t)
      <3>1. PICK d \in 1 .. m : d = c - n
        BY <2>3
      <3>2. c = n + d
        BY <1>1, <3>1
      <3>3. q[c] = t[d]
        BY <1>3, <3>2
      <3> QED
        BY <1>3, <3>1, <3>3 DEF ToSet
    <2>4. CASE a \in 1 .. n /\ b \in 1 .. n
      BY <1>3, <1>5, <2>4 DEF IsInjective
    <2>5. CASE a - n \in 1 .. m /\ b - n \in 1 .. m
      <3>1. t[a - n] = t[b - n]
        BY <2>3, <2>5
      <3>2. a - n = b - n
        BY <1>3, <1>5, <2>5, <3>1 DEF IsInjective
      <3> QED
        BY <1>1, <3>2
    <2>6. CASE a \in 1 .. n /\ b - n \in 1 .. m
      BY <1>5, <2>2, <2>3, <2>6
    <2>7. CASE a - n \in 1 .. m /\ b \in 1 .. n
      BY <1>5, <2>2, <2>3, <2>7
    <2> QED
      BY <2>1, <2>4, <2>5, <2>6, <2>7
  <1> QED
    BY <1>2, <1>4, <1>5

LEMMA DistinctOne ==
    ASSUME NEW x
    PROVE  IsInjective(<<x>>) /\ ToSet(<<x>>) = {x} /\ IsInjective(<<>>) /\ ToSet(<<>>) = {}
  BY DEF IsInjective, ToSet

LEMMA DistinctAppend ==
    ASSUME NEW S
    PROVE  \A s \in Seq(S), x \in S :
              IsInjective(Append(s, x)) <=> IsInjective(s) /\ x \notin ToSet(s)
  <1> SUFFICES ASSUME NEW s \in Seq(S), NEW x \in S
               PROVE  IsInjective(Append(s, x)) <=> IsInjective(s) /\ x \notin ToSet(s)
    OBVIOUS
  <1>1. <<x>> \in Seq(S) /\ Append(s, x) = s \o <<x>>
    OBVIOUS
  <1>2. IsInjective(s \o <<x>>) <=> IsInjective(s) /\ IsInjective(<<x>>) /\ ToSet(s) \cap ToSet(<<x>>) = {}
    BY <1>1, DistinctConcat
  <1>3. IsInjective(<<x>>) /\ ToSet(<<x>>) = {x}
    BY DistinctOne
  <1> QED
    BY <1>1, <1>2, <1>3

LEMMA DistinctOnly ==
    ASSUME NEW S, NEW kept
    PROVE  \A s \in Seq(S) : IsInjective(s) => IsInjective(Only(s, kept))
  <1> DEFINE Right(t) == IsInjective(t) => IsInjective(Only(t, kept))
             Wrong == {t \in Seq(S) : ~Right(t)}
  <1>1. Right(<<>>)
    <2>1. Only(<<>>, kept) = <<>>
      BY OnlyOfEmpty
    <2> QED
      BY <2>1
  <1>2. ASSUME NEW s \in Seq(S), NEW x \in S, Right(s) PROVE Right(Append(s, x))
    <2> SUFFICES ASSUME IsInjective(Append(s, x)) PROVE IsInjective(Only(Append(s, x), kept))
      OBVIOUS
    <2>1. IsInjective(s) /\ x \notin ToSet(s)
      BY DistinctAppend
    <2>2. PICK q \in Seq(S) : q = Only(s, kept) /\ ToSet(q) = ToSet(s) \cap kept
      BY OnlyType
    <2>3. IsInjective(q)
      BY <1>2, <2>1, <2>2
    <2>4. IsInjective(Append(q, x))
      BY <2>1, <2>2, <2>3, DistinctAppend
    <2>5. Only(Append(s, x), kept) = IF x \in kept THEN Append(q, x) ELSE q
      BY <2>2, OnlyOfAppend
    <2> QED
      BY <2>3, <2>4, <2>5
  <1>3. Wrong \in SUBSET Seq(S)
    OBVIOUS
  <1>4. ASSUME Wrong # {} PROVE FALSE
    <2>1. \/ <<>> \in Wrong
          \/ \E s \in Seq(S), x \in S : s \notin Wrong /\ Append(s, x) \in Wrong
      BY <1>3, <1>4, Shortest
    <2> QED
      BY <1>1, <1>2, <2>1
  <1> QED
    BY <1>4

LEMMA DistinctInsert ==
    ASSUME NEW S, NEW s \in Seq(S), NEW o \in S, NEW n \in 1 .. Len(s) + 1,
           IsInjective(s), o \notin ToSet(s)
    PROVE  IsInjective(InsertAt(s, n, o))
  <1>1. PICK p \in Seq(S), q \in Seq(S) :
           /\ p = SubSeq(s, 1, n - 1) /\ q = SubSeq(s, n, Len(s)) /\ s = p \o q
           /\ ToSet(s) = ToSet(p) \cup ToSet(q)
    <2>1. /\ SubSeq(s, 1, n - 1) \in Seq(S) /\ SubSeq(s, n, Len(s)) \in Seq(S)
          /\ s = SubSeq(s, 1, n - 1) \o SubSeq(s, n, Len(s))
          /\ ToSet(s) = ToSet(SubSeq(s, 1, n - 1)) \cup ToSet(SubSeq(s, n, Len(s)))
      BY Halves
    <2> QED
      BY <2>1, Zenon
  <1>2. InsertAt(s, n, o) = p \o <<o>> \o q
    BY <1>1 DEF InsertAt
  <1>3. IsInjective(p) /\ IsInjective(q) /\ ToSet(p) \cap ToSet(q) = {}
    <2>1. \A a, b \in Seq(S) :
              IsInjective(a \o b) <=>
                 IsInjective(a) /\ IsInjective(b) /\ ToSet(a) \cap ToSet(b) = {}
      BY DistinctConcat
    <2>2. IsInjective(p \o q)
      BY <1>1
    <2> QED
      BY <2>1, <2>2
  <1>4. PICK r \in Seq(S) : r = Append(p, o) /\ r = p \o <<o>>
    <2>1. Append(p, o) \in Seq(S)
      OBVIOUS
    <2>2. Append(p, o) = p \o <<o>>
      OBVIOUS
    <2> QED
      BY <2>1, <2>2
  <1>5. ToSet(r) = ToSet(p) \cup {o}
    BY <1>4, ToSetOfAppend
  <1>6. IsInjective(r)
    <2>1. o \notin ToSet(p)
      BY <1>1
    <2>2. IsInjective(Append(p, o))
      BY <1>3, <2>1, DistinctAppend
    <2> QED
      BY <1>4, <2>2
  <1>7. ToSet(r) \cap ToSet(q) = {}
    BY <1>1, <1>3, <1>5
  <1>8. IsInjective(r \o q)
    BY <1>3, <1>6, <1>7, DistinctConcat
  <1> QED
    BY <1>2, <1>4, <1>8

LEMMA DistinctPut ==
    ASSUME NEW S, NEW s \in Seq(S), NEW o \in S, NEW before, before = End \/ before \in ToSet(s),
           IsInjective(s), o \notin ToSet(s)
    PROVE  IsInjective(Put(s, o, before))
  <1>1. CASE before = End
    <2>1. IsInjective(Append(s, o))
      BY DistinctAppend
    <2> QED
      BY <1>1, <2>1 DEF Put
  <1>2. CASE before # End
    <2>1. \E m \in DOMAIN s : s[m] = before
      BY <1>2 DEF ToSet
    <2>2. PlaceIn(s, before) \in DOMAIN s
      BY <2>1 DEF PlaceIn
    <2>3. PICK n \in 1 .. Len(s) + 1 : n = PlaceIn(s, before)
      BY <2>2
    <2>4. IsInjective(InsertAt(s, n, o))
      BY DistinctInsert
    <2> QED
      BY <1>2, <2>3, <2>4 DEF Put
  <1> QED
    BY <1>1, <1>2

(***************************************************************************)
(* The operations in their order: the bodies of the blocks, one after      *)
(* another.                                                                *)
(***************************************************************************)
LEMMA JoinsAgree ==
    ASSUME NEW n \in Nat, NEW m \in Nat, n <= m
    PROVE  \A s, t, f, g :
              Joins(s, n, f) /\ Joins(t, m, g) /\ (\A i \in 1 .. n : s[i] = t[i])
                 => \A i \in 1 .. n : f[i] = g[i]
  <1> SUFFICES ASSUME NEW s, NEW t, NEW f, NEW g, Joins(s, n, f), Joins(t, m, g),
                      \A i \in 1 .. n : s[i] = t[i]
               PROVE  \A i \in 1 .. n : f[i] = g[i]
    OBVIOUS
  <1> DEFINE Bad == {i \in 1 .. n : f[i] # g[i]}
  <1>1. ASSUME Bad # {} PROVE FALSE
    <2>1. PICK i \in Bad : \A j \in Bad : i <= j
      <3>1. Bad \in SUBSET Nat
        OBVIOUS
      <3> QED
        BY <1>1, <3>1, Least
    <2>2. i \in 1 .. n /\ i \in 1 .. m /\ s[i] = t[i]
      OBVIOUS
    <2>3. /\ f[i] = IF i = 1 THEN s[i] ELSE f[i - 1] \o s[i]
          /\ g[i] = IF i = 1 THEN t[i] ELSE g[i - 1] \o t[i]
      BY <2>2 DEF Joins
    <2>4. CASE i = 1
      BY <2>1, <2>2, <2>3, <2>4
    <2>5. CASE i # 1
      <3>1. i - 1 \in 1 .. n /\ ~(i <= i - 1)
        BY <2>2, <2>5
      <3>2. f[i - 1] = g[i - 1]
        BY <2>1, <3>1
      <3> QED
        BY <2>1, <2>2, <2>3, <2>5, <3>2
    <2> QED
      BY <2>4, <2>5
  <1> QED
    BY <1>1

LEMMA FlattenJoins ==
    ASSUME NEW S, NEW args \in Seq(S), args # <<>>
    PROVE  \E f : Joins(args, Len(args), f) /\ FlattenSeq(args) = f[Len(args)]
  <1> DEFINE Is(f) == f = [i \in 1 .. Len(args) |->
                                IF i = 1 THEN args[i] ELSE f[i - 1] \o args[i]]
             flat == CHOOSE f : Is(f)
  <1>0. PICK z \in Nat \ {0} : z = Len(args)
    BY EmptySeq
  <1>1. \E f : Is(f)
    <2>1. PICK f : Joins(args, z, f)
      BY JoinsExist
    <2> QED
      BY <1>0, <2>1 DEF Joins
  <1>2. Is(flat)
    BY <1>1
  <1>3. FlattenSeq(args) = flat[z]
    BY <1>0 DEF FlattenSeq
  <1> HIDE DEF flat
  <1> QED
    BY <1>0, <1>2, <1>3 DEF Joins

LEMMA FlattenAppend ==
    ASSUME NEW S, NEW args \in Seq(Seq(S)), NEW s \in Seq(S)
    PROVE  FlattenSeq(Append(args, s)) = FlattenSeq(args) \o s
  <1>1. PICK more \in Seq(Seq(S)) : more = Append(args, s)
    BY AppendProperties
  <1>2. PICK n \in Nat : n = Len(args)
    OBVIOUS
  <1>3. Len(more) = n + 1 /\ more[n + 1] = s /\ (\A i \in 1 .. n : args[i] = more[i]) /\ more # <<>>
    BY <1>1, <1>2
  <1>4. PICK f : Joins(more, n + 1, f) /\ FlattenSeq(more) = f[n + 1]
    BY <1>3, FlattenJoins
  <1>5. CASE n = 0
    <2>0. args = <<>>
      BY <1>2, <1>5, EmptySeq
    <2>1. FlattenSeq(args) = <<>>
      BY <1>2, <1>5, <2>0 DEF FlattenSeq
    <2>2. f[1] = more[1]
      BY <1>4, <1>5 DEF Joins
    <2>3. more[1] = s /\ <<>> \o s = s
      BY <1>3, <1>5
    <2> QED
      BY <1>1, <1>4, <1>5, <2>1, <2>2, <2>3
  <1>6. CASE n # 0
    <2>1. PICK g : Joins(args, n, g) /\ FlattenSeq(args) = g[n]
      <3>1. args # <<>>
        BY <1>2, <1>6
      <3> QED
        BY <1>2, <3>1, FlattenJoins
    <2>2. PICK m \in Nat : m = n + 1 /\ n <= m
      OBVIOUS
    <2>3. \A i \in 1 .. n : g[i] = f[i]
      <3>1. Joins(more, m, f) /\ Joins(args, n, g) /\ n \in Nat /\ m \in Nat /\ n <= m
        BY <1>4, <2>1, <2>2
      <3>2. \A i \in 1 .. n : args[i] = more[i]
        BY <1>3
      <3> QED
        <4>1. \A a, b, c, d :
              Joins(a, n, c) /\ Joins(b, m, d) /\ (\A i \in 1 .. n : a[i] = b[i])
                 => \A i \in 1 .. n : c[i] = d[i]
          BY <2>2, JoinsAgree
        <4>2. Joins(args, n, g) /\ Joins(more, m, f) /\ (\A i \in 1 .. n : args[i] = more[i])
                 => \A i \in 1 .. n : g[i] = f[i]
          BY <4>1
        <4> QED
          BY <3>1, <3>2, <4>2
    <2>4. g[n] = f[n]
      BY <1>6, <2>3
    <2>5. f[m] = f[n] \o more[m]
      <3>1. f = [i \in 1 .. m |-> IF i = 1 THEN more[i] ELSE f[i - 1] \o more[i]]
        BY <1>4, <2>2 DEF Joins
      <3>2. m \in 1 .. m /\ m # 1 /\ m - 1 = n
        BY <1>6, <2>2
      <3> QED
        BY <3>1, <3>2
    <2> QED
      BY <1>1, <1>3, <1>4, <2>1, <2>2, <2>4, <2>5
  <1> QED
    BY <1>5, <1>6

Apart(args) ==
    /\ \A n \in DOMAIN args : IsInjective(args[n])
    /\ \A m, n \in DOMAIN args : m # n => ToSet(args[m]) \cap ToSet(args[n]) = {}

LEMMA ApartAppend ==
    ASSUME NEW S, NEW args \in Seq(Seq(S)), NEW s \in Seq(S)
    PROVE  Apart(Append(args, s)) <=>
              /\ Apart(args) /\ IsInjective(s)
              /\ \A n \in DOMAIN args : ToSet(args[n]) \cap ToSet(s) = {}
  <1>1. PICK more \in Seq(Seq(S)) : more = Append(args, s)
    BY AppendProperties
  <1>2. PICK n \in Nat : n = Len(args)
    OBVIOUS
  <1>3. /\ DOMAIN args = 1 .. n /\ DOMAIN more = 1 .. n + 1
        /\ more[n + 1] = s /\ \A i \in 1 .. n : args[i] = more[i]
    BY <1>1, <1>2
  <1>4. 1 .. n + 1 = (1 .. n) \cup {n + 1} /\ n + 1 \notin 1 .. n
    BY <1>2
  <1>5. (\A k \in 1 .. n + 1 : IsInjective(more[k])) <=>
           IsInjective(s) /\ \A k \in 1 .. n : IsInjective(args[k])
    BY <1>3, <1>4
  <1>6. ASSUME Apart(more)
        PROVE  Apart(args) /\ IsInjective(s) /\ \A k \in 1 .. n : ToSet(args[k]) \cap ToSet(s) = {}
    <2>1. \A j, k \in 1 .. n : j # k => ToSet(args[j]) \cap ToSet(args[k]) = {}
      BY <1>3, <1>4, <1>6 DEF Apart
    <2>2. \A k \in 1 .. n : ToSet(args[k]) \cap ToSet(s) = {}
      BY <1>3, <1>4, <1>6 DEF Apart
    <2> QED
      BY <1>3, <1>5, <1>6, <2>1, <2>2 DEF Apart
  <1>7. ASSUME Apart(args), IsInjective(s), \A k \in 1 .. n : ToSet(args[k]) \cap ToSet(s) = {}
        PROVE  Apart(more)
    <2> SUFFICES ASSUME NEW j \in 1 .. n + 1, NEW k \in 1 .. n + 1, j # k
                 PROVE  ToSet(more[j]) \cap ToSet(more[k]) = {}
      BY <1>3, <1>5, <1>7 DEF Apart
    <2>1. CASE j \in 1 .. n /\ k \in 1 .. n
      BY <1>3, <1>7, <2>1 DEF Apart
    <2>2. CASE j = n + 1
      BY <1>3, <1>4, <1>7, <2>2
    <2>3. CASE k = n + 1
      BY <1>3, <1>4, <1>7, <2>3
    <2> QED
      BY <1>4, <2>1, <2>2, <2>3
  <1> QED
    BY <1>1, <1>3, <1>6, <1>7

LEMMA FlattenDistinct ==
    ASSUME NEW S
    PROVE  \A args \in Seq(Seq(S)) : IsInjective(FlattenSeq(args)) <=> Apart(args)
  <1> DEFINE Right(args) == IsInjective(FlattenSeq(args)) <=> Apart(args)
             Wrong == {args \in Seq(Seq(S)) : ~Right(args)}
  <1>1. Right(<<>>)
    <2>1. FlattenSeq(<<>>) = <<>>
      BY DEF FlattenSeq
    <2>2. Apart(<<>>)
      BY DEF Apart
    <2> QED
      BY <2>1, <2>2, DistinctOne
  <1>2. ASSUME NEW args \in Seq(Seq(S)), NEW s \in Seq(S), Right(args) PROVE Right(Append(args, s))
    <2>1. PICK q \in Seq(S) :
             q = FlattenSeq(args) /\ ToSet(q) = UNION {ToSet(args[i]) : i \in DOMAIN args}
      BY Flattened
    <2>2. FlattenSeq(Append(args, s)) = q \o s
      BY <2>1, FlattenAppend
    <2>3. IsInjective(q \o s) <=> IsInjective(q) /\ IsInjective(s) /\ ToSet(q) \cap ToSet(s) = {}
      BY <2>1, DistinctConcat
    <2>4. IsInjective(q) <=> Apart(args)
      BY <1>2, <2>1
    <2>5. ToSet(q) \cap ToSet(s) = {} <=> \A n \in DOMAIN args : ToSet(args[n]) \cap ToSet(s) = {}
      BY <2>1
    <2>6. Apart(Append(args, s)) <=>
              /\ Apart(args) /\ IsInjective(s)
              /\ \A n \in DOMAIN args : ToSet(args[n]) \cap ToSet(s) = {}
      BY ApartAppend
    <2> QED
      BY <2>2, <2>3, <2>4, <2>5, <2>6
  <1>3. Wrong \in SUBSET Seq(Seq(S))
    OBVIOUS
  <1>4. ASSUME Wrong # {} PROVE FALSE
    <2>1. PICK T : T = Seq(S)
      OBVIOUS
    <2>2. Wrong \in SUBSET Seq(T)
      BY <1>3, <2>1
    <2>3. \/ <<>> \in Wrong
          \/ \E args \in Seq(T), s \in T : args \notin Wrong /\ Append(args, s) \in Wrong
      <3> HIDE DEF Wrong
      <3> QED
        BY <1>4, <2>2, Shortest
    <2> QED
      BY <1>1, <1>2, <2>1, <2>3
  <1> QED
    BY <1>4

(* A list without repetitions is as long as the set of its elements is      *)
(* large, and no other list is.                                             *)
LEMMA DistinctCounts ==
    ASSUME NEW S, NEW s \in Seq(S)
    PROVE  IsInjective(s) <=> Len(s) = Cardinality(ToSet(s))
  <1>1. PICK n \in Nat : n = Len(s) /\ DOMAIN s = 1 .. n
    OBVIOUS
  <1>2. IsFiniteSet(1 .. n) /\ Cardinality(1 .. n) = n
    BY FS_Interval
  <1>3. ToSet(s) = {s[k] : k \in 1 .. n}
    BY <1>1 DEF ToSet
  <1>4. s \in Surjection(1 .. n, ToSet(s))
    <2>1. s \in [1 .. n -> ToSet(s)]
      BY <1>1, <1>3
    <2> QED
      BY <1>3, <2>1 DEF Surjection
  <1>5. Cardinality(ToSet(s)) = Cardinality(1 .. n) <=> s \in Injection(1 .. n, ToSet(s))
    BY <1>2, <1>4, FS_Surjection
  <1>6. s \in Injection(1 .. n, ToSet(s)) <=> IsInjective(s)
    BY <1>1, <1>4 DEF Injection, Surjection
  <1> QED
    BY <1>1, <1>2, <1>5, <1>6

(***************************************************************************)
(* Every operation is in one place.                                        *)
(***************************************************************************)

(* The blocks of the region are different, what is in them are operations   *)
(* that are not freed, none of them twice.                                  *)
Seated(i) ==
    /\ Filed(i) /\ IsInjective(i.region)
    /\ \A b \in Blocks : ToSet(i.body[b]) \subseteq Live(i) /\ IsInjective(i.body[b])
    /\ \A b, c \in Blocks : b # c => ToSet(i.body[b]) \cap ToSet(i.body[c]) = {}

LEMMA BodiesInOrder ==
    ASSUME NEW i \in Irs
    PROVE  \E bodies \in Seq(Seq(Ops)) :
              /\ InOrder(i) = FlattenSeq(bodies) /\ DOMAIN bodies = DOMAIN i.region
              /\ \A n \in DOMAIN i.region : bodies[n] = i.body[i.region[n]] /\ i.region[n] \in Blocks
  <1>1. i.body \in [Blocks -> Seq(Ops)] /\ i.region \in Seq(Blocks)
    BY DEF Irs
  <1>2. PICK z \in Nat : z = Len(i.region)
    BY <1>1
  <1>3. PICK bodies : bodies = [n \in 1 .. z |-> i.body[i.region[n]]]
    OBVIOUS
  <1>4. DOMAIN i.region = 1 .. z /\ \A n \in 1 .. z : i.region[n] \in Blocks
    BY <1>1, <1>2
  <1>5. bodies \in Seq(Seq(Ops))
    BY <1>1, <1>2, <1>3, <1>4
  <1>6. InOrder(i) = FlattenSeq(bodies)
    BY <1>3, <1>4 DEF InOrder
  <1> QED
    BY <1>3, <1>4, <1>5, <1>6

LEMMA SeatedPlaced ==
    ASSUME NEW i, Seated(i)
    PROVE  i \in Irs /\ Placed(i) /\ IsInjective(InOrder(i)) /\ ToSet(InOrder(i)) = Live(i) /\ InOrder(i) \in Seq(Ops)
  <1>1. i \in Irs
    BY DEF Seated, Filed
  <1>2. PICK bodies \in Seq(Seq(Ops)) :
              /\ InOrder(i) = FlattenSeq(bodies) /\ DOMAIN bodies = DOMAIN i.region
              /\ \A n \in DOMAIN i.region : bodies[n] = i.body[i.region[n]] /\ i.region[n] \in Blocks
    BY <1>1, BodiesInOrder
  <1>3. Apart(bodies)
    <2>1. \A n \in DOMAIN bodies : IsInjective(bodies[n])
      BY <1>2 DEF Seated
    <2>2. ASSUME NEW m \in DOMAIN bodies, NEW n \in DOMAIN bodies, m # n
          PROVE  ToSet(bodies[m]) \cap ToSet(bodies[n]) = {}
      <3>1. i.region[m] # i.region[n]
        BY <1>2, <2>2 DEF Seated, IsInjective
      <3> QED
        BY <1>2, <3>1 DEF Seated
    <2> QED
      BY <2>1, <2>2 DEF Apart
  <1>4. IsInjective(InOrder(i))
    BY <1>2, <1>3, FlattenDistinct
  <1>5. InOrder(i) \in Seq(Ops) /\ ToSet(InOrder(i)) = UNION {ToSet(i.body[b]) : b \in ToSet(i.region)}
    BY <1>1, InOrderType
  <1>6. ToSet(InOrder(i)) = Live(i)
    <2>1. ToSet(i.region) \subseteq Blocks
      BY <1>2 DEF ToSet
    <2>2. ToSet(InOrder(i)) \subseteq Live(i)
      BY <1>5, <2>1 DEF Seated
    <2>3. ASSUME NEW o \in Live(i) PROVE o \in ToSet(InOrder(i))
      <3>1. BlockOf(i, o) \in ToSet(i.region) /\ o \in ToSet(i.body[BlockOf(i, o)])
        BY HomeOf DEF Seated
      <3> QED
        BY <1>5, <3>1
    <2> QED
      BY <2>2, <2>3
  <1>7. Len(InOrder(i)) = Cardinality(Live(i))
    BY <1>4, <1>5, <1>6, DistinctCounts
  <1> QED
    BY <1>1, <1>4, <1>5, <1>6, <1>7 DEF Placed, Seated

LEMMA ProgramSeated ==
    ASSUME NEW i, IsProgram(i)
    PROVE  Seated(i)
  <1>1. Filed(i) /\ i \in Irs /\ Placed(i)
    BY ProgramFiled DEF Filed, IsProgram
  <1>2. PICK bodies \in Seq(Seq(Ops)) :
              /\ InOrder(i) = FlattenSeq(bodies) /\ DOMAIN bodies = DOMAIN i.region
              /\ \A n \in DOMAIN i.region : bodies[n] = i.body[i.region[n]] /\ i.region[n] \in Blocks
    BY <1>1, BodiesInOrder
  <1>3. InOrder(i) \in Seq(Ops) /\ ToSet(InOrder(i)) = UNION {ToSet(i.body[b]) : b \in ToSet(i.region)}
    BY <1>1, InOrderType
  <1>4. ToSet(InOrder(i)) = Live(i) /\ IsInjective(InOrder(i))
    BY <1>1, <1>3, DistinctCounts DEF Placed
  <1>5. Apart(bodies)
    BY <1>2, <1>4, FlattenDistinct
  <1>6. ASSUME NEW b \in Blocks PROVE ToSet(i.body[b]) \subseteq Live(i) /\ IsInjective(i.body[b])
    <2>1. CASE b \in ToSet(i.region)
      <3>1. PICK n \in DOMAIN i.region : i.region[n] = b
        BY <2>1 DEF ToSet
      <3>2. IsInjective(i.body[b])
        BY <1>2, <1>5, <3>1 DEF Apart
      <3> QED
        BY <1>3, <1>4, <2>1, <3>2
    <2>2. CASE b \notin ToSet(i.region)
      <3>1. i.body[b] = <<>>
        BY <1>1, <2>2 DEF Filed
      <3> QED
        BY <3>1, DistinctOne
    <2> QED
      BY <2>1, <2>2
  <1> QED
    BY <1>1, <1>6 DEF Seated, IsProgram, Placed

(* What the calls of a function make of the operations.                     *)
GrownAt(i, o, k, a, b, before, j) ==
    /\ Seated(j) /\ Live(j) = Live(i) \cup {o} /\ j.region = i.region
    /\ \A x \in Ops : /\ j.kind[x] = IF x = o THEN k ELSE i.kind[x]
                      /\ j.arg[x] = IF x = o THEN a ELSE i.arg[x]
    /\ \A c \in Blocks :
          /\ j.body[c] = IF c = b THEN Put(i.body[b], o, before) ELSE i.body[c]
          /\ ToSet(j.body[c]) = IF c = b THEN ToSet(i.body[b]) \cup {o} ELSE ToSet(i.body[c])

LEMMA GrownSeated ==
    ASSUME NEW i, Seated(i), NEW o \in Ops \ Live(i), NEW k \in Kinds, NEW a \in Ops \cup {None},
           NEW b \in ToSet(i.region), NEW before, before = End \/ before \in ToSet(i.body[b])
    PROVE  GrownAt(i, o, k, a, b, before, Grown(i, o, k, a, b, before))
  <1>0. PICK j : j = Grown(i, o, k, a, b, before)
    OBVIOUS
  <1>1. Filed(i) /\ i \in Irs /\ DOMAIN i = {"kind", "arg", "body", "region"} /\ i.body \in [Blocks -> Seq(Ops)]
    BY IrFields DEF Seated, Filed
  <1>2. GrownFrom(i, o, k, a, b, j)
    BY <1>0, <1>1, GrownFiled
  <1>3. b \in Blocks
    BY <1>1, RegionBlocks
  <1>4. PICK s \in Seq(Ops) : s = i.body[b] /\ IsInjective(s) /\ o \notin ToSet(s)
    <2>1. i.body[b] \in Seq(Ops) /\ IsInjective(i.body[b]) /\ o \notin ToSet(i.body[b])
      BY <1>1, <1>3 DEF Seated
    <2> QED
      BY <2>1
  <1>5. PICK q : q = Put(s, o, before) /\ IsInjective(q)
    <2>1. IsInjective(Put(s, o, before))
      BY <1>4, DistinctPut
    <2> QED
      BY <2>1
  <1>6. j.body = [i.body EXCEPT ![b] = q]
    <2>1. j = [i EXCEPT !.kind[o] = k, !.arg[o] = a, !.body[b] = q]
      BY <1>0, <1>4, <1>5 DEF Grown
    <2> QED
      BY <1>1, <2>1
  <1>7. \A c \in Blocks : j.body[c] = IF c = b THEN q ELSE i.body[c]
    BY <1>1, <1>6
  <1>8. /\ Filed(j) /\ Live(j) = Live(i) \cup {o} /\ j.region = i.region
        /\ \A x \in Ops : /\ j.kind[x] = IF x = o THEN k ELSE i.kind[x]
                          /\ j.arg[x] = IF x = o THEN a ELSE i.arg[x]
        /\ \A c \in Blocks : ToSet(j.body[c]) = IF c = b THEN ToSet(i.body[b]) \cup {o} ELSE ToSet(i.body[c])
    BY <1>2 DEF GrownFrom
  <1>9. \A c \in Blocks : ToSet(j.body[c]) \subseteq Live(j) /\ IsInjective(j.body[c])
    <2>1. \A c \in Blocks : IsInjective(j.body[c])
      BY <1>5, <1>7 DEF Seated
    <2>2. \A c \in Blocks : ToSet(j.body[c]) \subseteq Live(j)
      BY <1>3, <1>8 DEF Seated
    <2> QED
      BY <2>1, <2>2
  <1>10. \A c, d \in Blocks : c # d => ToSet(j.body[c]) \cap ToSet(j.body[d]) = {}
    <2>1. \A c \in Blocks : o \notin ToSet(i.body[c])
      BY DEF Seated
    <2>2. \A c, d \in Blocks : c # d => ToSet(i.body[c]) \cap ToSet(i.body[d]) = {}
      BY DEF Seated
    <2> QED
      BY <1>3, <1>8, <2>1, <2>2
  <1>11. Seated(j)
    BY <1>8, <1>9, <1>10 DEF Seated
  <1> QED
    BY <1>0, <1>4, <1>5, <1>7, <1>8, <1>11 DEF GrownAt

RidTo(i, gone, j) ==
    /\ Seated(j) /\ Live(j) = Live(i) \ gone /\ j.region = i.region
    /\ \A x \in Live(j) : j.kind[x] = i.kind[x] /\ j.arg[x] = i.arg[x]
    /\ \A c \in Blocks : /\ j.body[c] = Only(i.body[c], Ops \ gone)
                         /\ ToSet(j.body[c]) = ToSet(i.body[c]) \ gone

LEMMA RidSeated ==
    ASSUME NEW i, Seated(i), NEW gone
    PROVE  RidTo(i, gone, Rid(i, gone))
  <1>0. PICK j : j = Rid(i, gone)
    OBVIOUS
  <1>1. Filed(i) /\ i \in Irs
    BY DEF Seated, Filed
  <1>2. Filed(j) /\ Live(j) = Live(i) \ gone /\ j.region = i.region
    BY <1>0, <1>1, RidFiled
  <1>3. RidFrom(i, gone, j)
    BY <1>0, <1>1, RidFields
  <1>4. \A x \in Live(j) : j.kind[x] = i.kind[x] /\ j.arg[x] = i.arg[x]
    BY <1>2, <1>3 DEF RidFrom, Live
  <1>5. ASSUME NEW c \in Blocks
        PROVE  /\ j.body[c] = Only(i.body[c], Ops \ gone)
               /\ ToSet(j.body[c]) = ToSet(i.body[c]) \ gone
               /\ IsInjective(j.body[c])
    <2>1. PICK s \in Seq(Ops) : s = i.body[c] /\ IsInjective(s) /\ ToSet(s) \subseteq Ops
      <3>1. i.body[c] \in Seq(Ops) /\ IsInjective(i.body[c]) /\ ToSet(i.body[c]) \subseteq Ops
        BY <1>1, IrFields DEF Seated, Live
      <3> QED
        BY <3>1
    <2>2. j.body[c] = Only(s, Ops \ gone)
      BY <1>3, <2>1 DEF RidFrom
    <2>3. ToSet(Only(s, Ops \ gone)) = ToSet(s) \cap (Ops \ gone)
      BY <2>1, OnlyType
    <2>4. IsInjective(Only(s, Ops \ gone))
      BY <2>1, DistinctOnly
    <2> QED
      BY <2>1, <2>2, <2>3, <2>4
  <1>6. \A c \in Blocks : ToSet(j.body[c]) \subseteq Live(j) /\ IsInjective(j.body[c])
    BY <1>2, <1>5 DEF Seated
  <1>7. \A c, d \in Blocks : c # d => ToSet(j.body[c]) \cap ToSet(j.body[d]) = {}
    BY <1>5 DEF Seated
  <1>8. Seated(j)
    BY <1>2, <1>6, <1>7 DEF Seated
  <1> QED
    BY <1>0, <1>2, <1>4, <1>5, <1>8 DEF RidTo

(* An operation is in no other block than the one it is found in.           *)
LEMMA OneHome ==
    ASSUME NEW i, Seated(i), NEW o \in Live(i)
    PROVE  /\ BlockOf(i, o) \in Blocks /\ BlockOf(i, o) \in ToSet(i.region) /\ o \in ToSet(i.body[BlockOf(i, o)])
           /\ \A b \in Blocks : o \in ToSet(i.body[b]) => b = BlockOf(i, o)
  <1>1. BlockOf(i, o) \in Blocks /\ BlockOf(i, o) \in ToSet(i.region) /\ o \in ToSet(i.body[BlockOf(i, o)])
    BY HomeOf DEF Seated
  <1> QED
    BY <1>1 DEF Seated

LEMMA WithoutSeated ==
    ASSUME NEW i, Seated(i), NEW o \in Live(i)
    PROVE  Without(i, o) = Rid(i, {o}) /\ RidTo(i, {o}, Without(i, o))
  <1>0. PICK j : j = Without(i, o)
    OBVIOUS
  <1>1. /\ Filed(i) /\ i \in Irs /\ DOMAIN i = {"kind", "arg", "body", "region"}
        /\ i.kind \in [Ops -> Kinds \cup {Freed}] /\ i.arg \in [Ops -> Ops \cup {None}]
        /\ i.body \in [Blocks -> Seq(Ops)]
    BY IrFields DEF Seated, Filed
  <1>2. Filed(j) /\ j \in Irs /\ j.region = i.region
    <2>1. Filed(Without(i, o)) /\ Without(i, o).region = i.region
      BY <1>1, WithoutFiled
    <2> QED
      BY <1>0, <2>1 DEF Filed
  <1>3. PICK b \in Blocks : b = BlockOf(i, o) /\ o \in Ops /\ \A c \in Blocks : o \in ToSet(i.body[c]) => c = b
    BY OneHome DEF Live
  <1>4. j = [i EXCEPT !.kind[o] = Freed, !.arg[o] = None, !.body[b] = Only(i.body[b], Ops \ {o})]
    BY <1>0, <1>3 DEF Without
  <1>5. /\ j.kind = [i.kind EXCEPT ![o] = Freed] /\ j.arg = [i.arg EXCEPT ![o] = None]
        /\ j.body = [i.body EXCEPT ![b] = Only(i.body[b], Ops \ {o})]
    BY <1>1, <1>4
  <1>6. PICK h : h = Rid(i, {o})
    OBVIOUS
  <1>7. RidFrom(i, {o}, h)
    BY <1>1, <1>6, RidFields
  <1>8. \A x \in Ops : j.kind[x] = h.kind[x] /\ j.arg[x] = h.arg[x]
    BY <1>1, <1>5, <1>7 DEF RidFrom
  <1>9. ASSUME NEW c \in Blocks PROVE j.body[c] = h.body[c]
    <2>1. h.body[c] = Only(i.body[c], Ops \ {o})
      BY <1>7 DEF RidFrom
    <2>2. CASE c = b
      BY <1>1, <1>5, <2>1, <2>2
    <2>3. CASE c # b
      <3>1. ToSet(i.body[c]) \subseteq Ops \ {o} /\ i.body[c] \in Seq(Ops)
        BY <1>1, <1>3, <2>3 DEF Seated, Live
      <3>2. Only(i.body[c], Ops \ {o}) = i.body[c]
        BY <3>1, OnlyAll
      <3> QED
        BY <1>1, <1>5, <2>1, <2>3, <3>2
    <2> QED
      BY <2>2, <2>3
  <1>10. h \in Irs /\ h.region = j.region
    BY <1>2, <1>7 DEF RidFrom
  <1>11. j = h
    BY <1>2, <1>8, <1>9, <1>10, SameIr
  <1> QED
    BY <1>0, <1>6, <1>11, RidSeated

ReroutedTo(i, o, v, j) ==
    /\ Seated(j) /\ Live(j) = Live(i) /\ j.kind = i.kind /\ j.body = i.body /\ j.region = i.region
    /\ \A u \in Ops : j.arg[u] = IF i.arg[u] = o THEN v ELSE i.arg[u]

LEMMA ReroutedSeated ==
    ASSUME NEW i, Seated(i), NEW o \in Ops, NEW v \in Ops \cup {None}
    PROVE  ReroutedTo(i, o, v, Rerouted(i, o, v))
  <1>0. PICK j : j = Rerouted(i, o, v)
    OBVIOUS
  <1>1. Filed(i) /\ DOMAIN i = {"kind", "arg", "body", "region"}
    BY IrFields DEF Seated, Filed
  <1>2. Filed(j) /\ Live(j) = Live(i)
    BY <1>0, <1>1, ReroutedFiled
  <1>3. j = [i EXCEPT !.arg = [u \in Ops |-> IF i.arg[u] = o THEN v ELSE i.arg[u]]]
    BY <1>0 DEF Rerouted
  <1>4. /\ j.kind = i.kind /\ j.body = i.body /\ j.region = i.region
        /\ j.arg = [u \in Ops |-> IF i.arg[u] = o THEN v ELSE i.arg[u]]
    BY <1>1, <1>3
  <1>5. Seated(j)
    BY <1>2, <1>4 DEF Seated
  <1> QED
    BY <1>0, <1>2, <1>4, <1>5 DEF ReroutedTo

SplitTo(i, o, new, j) ==
    /\ Seated(j) /\ Live(j) = Live(i) /\ j.kind = i.kind /\ j.arg = i.arg
    /\ ToSet(i.region) \subseteq ToSet(j.region)

(* The body that is split, and the two it becomes.                          *)
SplitIn(i, o, new, j, b, n, m) ==
    /\ b = BlockOf(i, o) /\ n \in 1 .. Len(i.body[b]) /\ i.body[b][n] = o
    /\ m \in 1 .. Len(i.region) /\ i.region[m] = b
    /\ j.region = InsertAt(i.region, m + 1, new)
    /\ \A d \in Blocks : j.body[d] = IF d = new THEN SubSeq(i.body[b], n, Len(i.body[b]))
                                     ELSE IF d = b THEN SubSeq(i.body[b], 1, n - 1) ELSE i.body[d]

LEMMA SplitFields ==
    ASSUME NEW i, Filed(i), NEW o \in Live(i), NEW new \in Blocks \ ToSet(i.region)
    PROVE  /\ \E b, n, m : SplitIn(i, o, new, Split(i, o, new), b, n, m)
           /\ Split(i, o, new).kind = i.kind /\ Split(i, o, new).arg = i.arg
  <1>0. PICK j : j = Split(i, o, new)
    OBVIOUS
  <1>1. /\ i \in Irs /\ DOMAIN i = {"kind", "arg", "body", "region"}
        /\ i.body \in [Blocks -> Seq(Ops)] /\ i.region \in Seq(Blocks)
    BY IrFields DEF Filed
  <1>2. PICK b \in Blocks : b = BlockOf(i, o) /\ b \in ToSet(i.region) /\ o \in ToSet(i.body[b])
    BY HomeOf
  <1>3. PICK s \in Seq(Ops) : s = i.body[b]
    BY <1>1
  <1>4. PICK n \in 1 .. Len(s) : n = PlaceIn(s, o) /\ s[n] = o
    <2>1. \E m \in DOMAIN s : s[m] = o
      BY <1>2, <1>3 DEF ToSet
    <2>2. PlaceIn(s, o) \in DOMAIN s /\ s[PlaceIn(s, o)] = o
      BY <2>1 DEF PlaceIn
    <2> QED
      BY <2>2
  <1>5. PICK m \in 1 .. Len(i.region) : m = PlaceIn(i.region, b) /\ i.region[m] = b
    <2>1. \E m \in DOMAIN i.region : i.region[m] = b
      BY <1>2 DEF ToSet
    <2>2. PlaceIn(i.region, b) \in DOMAIN i.region /\ i.region[PlaceIn(i.region, b)] = b
      BY <2>1 DEF PlaceIn
    <2> QED
      BY <1>1, <2>2
  <1>6. PICK p, q, r : p = SubSeq(s, 1, n - 1) /\ q = SubSeq(s, n, Len(s)) /\ r = InsertAt(i.region, m + 1, new)
    OBVIOUS
  <1>7. j = [i EXCEPT !.body[b] = p, !.body[new] = q, !.region = r]
    BY <1>0, <1>2, <1>3, <1>4, <1>5, <1>6 DEF Split
  <1>8. /\ j.kind = i.kind /\ j.arg = i.arg /\ j.region = r
        /\ j.body = [i.body EXCEPT ![b] = p, ![new] = q]
    BY <1>1, <1>7
  <1>9. \A d \in Blocks : j.body[d] = IF d = new THEN q ELSE IF d = b THEN p ELSE i.body[d]
    BY <1>1, <1>2, <1>8
  <1>10. SplitIn(i, o, new, j, b, n, m)
    BY <1>2, <1>3, <1>4, <1>5, <1>6, <1>8, <1>9 DEF SplitIn
  <1> QED
    BY <1>0, <1>8, <1>10

LEMMA SplitSeated ==
    ASSUME NEW i, Seated(i), NEW o \in Live(i), NEW new \in Blocks \ ToSet(i.region)
    PROVE  SplitTo(i, o, new, Split(i, o, new))
  <1>0. PICK j : j = Split(i, o, new)
    OBVIOUS
  <1>1. /\ Filed(i) /\ i \in Irs /\ i.body \in [Blocks -> Seq(Ops)] /\ i.region \in Seq(Blocks)
    BY IrFields DEF Seated, Filed
  <1>2. Filed(j) /\ ToSet(i.region) \subseteq ToSet(j.region)
    BY <1>0, <1>1, SplitFiled
  <1>3. j.kind = i.kind /\ j.arg = i.arg /\ \E b, n, m : SplitIn(i, o, new, j, b, n, m)
    BY <1>0, <1>1, SplitFields
  <1>4. PICK b, n, m : SplitIn(i, o, new, j, b, n, m)
    BY <1>3
  <1>5. Live(j) = Live(i)
    BY <1>3 DEF Live
  <1>6. b \in Blocks /\ b \in ToSet(i.region) /\ b # new
    BY <1>4, OneHome DEF SplitIn
  <1>7. PICK s \in Seq(Ops) : s = i.body[b] /\ IsInjective(s) /\ ToSet(s) \subseteq Live(i)
    BY <1>1, <1>6 DEF Seated
  <1>8. n \in 1 .. Len(s)
    BY <1>4, <1>7 DEF SplitIn
  <1>9. PICK p \in Seq(Ops), q \in Seq(Ops) :
           /\ p = SubSeq(s, 1, n - 1) /\ q = SubSeq(s, n, Len(s)) /\ s = p \o q
           /\ ToSet(s) = ToSet(p) \cup ToSet(q)
    <2>1. n \in 1 .. Len(s) + 1
      BY <1>8
    <2>2. /\ SubSeq(s, 1, n - 1) \in Seq(Ops) /\ SubSeq(s, n, Len(s)) \in Seq(Ops)
          /\ s = SubSeq(s, 1, n - 1) \o SubSeq(s, n, Len(s))
          /\ ToSet(s) = ToSet(SubSeq(s, 1, n - 1)) \cup ToSet(SubSeq(s, n, Len(s)))
      BY <2>1, Halves
    <2> QED
      BY <2>2, Zenon
  <1>10. IsInjective(p) /\ IsInjective(q) /\ ToSet(p) \cap ToSet(q) = {}
    <2>1. IsInjective(p \o q)
      BY <1>7, <1>9
    <2>2. IsInjective(p \o q) <=>
             IsInjective(p) /\ IsInjective(q) /\ ToSet(p) \cap ToSet(q) = {}
      <3>1. \A s1, s2 \in Seq(Ops) : IsInjective(s1 \o s2) <=>
               IsInjective(s1) /\ IsInjective(s2) /\ ToSet(s1) \cap ToSet(s2) = {}
        BY DistinctConcat
      <3> QED
        BY <3>1
    <2> QED
      BY <2>1, <2>2
  <1>11. \A d \in Blocks : j.body[d] = IF d = new THEN q ELSE IF d = b THEN p ELSE i.body[d]
    BY <1>4, <1>7, <1>9 DEF SplitIn
  <1>12. \A d \in Blocks : ToSet(j.body[d]) \subseteq Live(j) /\ IsInjective(j.body[d])
    BY <1>5, <1>7, <1>9, <1>10, <1>11 DEF Seated
  <1>13. ToSet(i.body[new]) = {}
    <2>1. i.body[new] = <<>>
      BY <1>1 DEF Filed
    <2> QED
      BY <2>1, DistinctOne
  <1>14. \A c, d \in Blocks : c # d => ToSet(j.body[c]) \cap ToSet(j.body[d]) = {}
    <2>1. \A d \in Blocks \ {b} : ToSet(i.body[d]) \cap ToSet(s) = {}
      BY <1>6, <1>7 DEF Seated
    <2>2. \A c, d \in Blocks : c # d => ToSet(i.body[c]) \cap ToSet(i.body[d]) = {}
      BY DEF Seated
    <2> QED
      BY <1>9, <1>10, <1>11, <2>1, <2>2
  <1>15. IsInjective(j.region)
    <2>1. m + 1 \in 1 .. Len(i.region) + 1 /\ j.region = InsertAt(i.region, m + 1, new)
      BY <1>1, <1>4 DEF SplitIn
    <2>2. IsInjective(i.region) /\ new \notin ToSet(i.region)
      BY DEF Seated
    <2> QED
      BY <1>1, <2>1, <2>2, DistinctInsert
  <1>16. Seated(j)
    BY <1>2, <1>12, <1>14, <1>15 DEF Seated
  <1> QED
    BY <1>0, <1>2, <1>3, <1>5, <1>16 DEF SplitTo

(***************************************************************************)
(* What an action does while the driver runs.                              *)
(***************************************************************************)
Underway == phase \in {"start", "pop", "legalize", "match", "call"}

Playing ==
    /\ Underway /\ Typed /\ (phase = "pop" => greedy)
    /\ greedy => phase # "legalize" /\ Paced
    /\ ~greedy => Shape
    /\ Seated(ir) /\ Placing(ToSet(ir.region), point, call, phase)

LEMMA Invited ==
    ASSUME ConversionInv, GreedyInv, Underway, phase = "pop" => greedy, Seated(ir),
           Placing(ToSet(ir.region), point, call, phase)
    PROVE  Playing
  <1>1. CASE greedy
    <2>1. phase # "legalize" /\ Turning
      BY <1>1 DEF GreedyInv, Underway, Turning
    <2> QED
      BY <1>1, <2>1 DEF GreedyInv, Playing
  <1>2. CASE ~greedy
    <2>1. Running
      BY <1>2 DEF Underway, Running
    <2> QED
      BY <1>2, <2>1 DEF ConversionInv, Playing
  <1> QED
    BY <1>1, <1>2

LEMMA MatchTyped ==
    ASSUME Playing, phase \in {"match", "call"}
    PROVE  /\ root \in Ops /\ frames \in Seq(Frame) /\ frames # <<>> /\ frame = frames[Len(frames)]
           /\ frame \in Frame /\ log \in Seq(Entry)
           /\ greedy => Len(frames) = 1
           /\ ~greedy => Len(frames) > 1 /\ frame.mark \in 0 .. Len(log)
  <1>1. frames \in Seq(Frame) /\ log \in Seq(Entry)
    BY DEF Playing, Typed
  <1>2. CASE greedy
    <2>1. Len(frames) = 1 /\ root \in Ops
      BY <1>2 DEF Playing, Paced, Matching
    <2>2. frames[1] \in Frame /\ frames # <<>>
      <3>1. \A fs \in Seq(Frame) : Len(fs) = 1 => fs[1] \in Frame /\ fs # <<>>
        OBVIOUS
      <3> QED
        BY <1>1, <2>1, <3>1
    <2> QED
      BY <1>1, <1>2, <2>1, <2>2 DEF frame
  <1>3. CASE ~greedy
    <2>1. Shape /\ Typed /\ Len(frames) > 1
      BY <1>3 DEF Playing, Shape
    <2> QED
      BY <1>1, <1>3, <2>1, RootTyped
  <1> QED
    BY <1>2, <1>3

LEMMA CallFacts ==
    ASSUME Playing, phase = "call"
    PROVE  /\ script = patterns[frame.tried] /\ frame.tried \in DOMAIN patterns /\ IsPattern(script)
           /\ DOMAIN call = {"at", "held", "home", "made", "saved"}
           /\ call.at \in Nat \ {0} /\ call.held \in Ops \cup {None} /\ call.made \in Seq(Ops)
           /\ Argument \in Ops \cup {None} /\ script.calls \in Seq(Calls)
           /\ \A do : Calling(do) =>
                 /\ now \in Calls /\ now.do = do /\ Does(script, {do})
                 /\ call.at \in DOMAIN script.calls /\ now = script.calls[call.at]
  <1>1. frame.tried \in DOMAIN patterns /\ call.at # 0
    BY DEF Playing, Paced, Shape
  <1>2. /\ script = patterns[frame.tried] /\ IsPattern(script)
        /\ DOMAIN call = {"at", "held", "home", "made", "saved"}
        /\ call.at \in Nat \ {0} /\ call.held \in Ops \cup {None} /\ call.made \in Seq(Ops)
    BY <1>1 DEF Playing, Typed, script, IsPass, patterns
  <1>3. Argument \in Ops \cup {None}
    BY <1>2 DEF Argument, Last
  <1>4. script.calls \in Seq(Calls)
    BY <1>2 DEF IsPattern
  <1>5. ASSUME NEW do, Calling(do)
        PROVE  /\ now \in Calls /\ now.do = do /\ Does(script, {do})
               /\ call.at \in DOMAIN script.calls /\ now = script.calls[call.at]
    <2>1. call.at \in 1 .. Len(script.calls) /\ now = script.calls[call.at] /\ now.do = do
      BY <1>2, <1>4, <1>5 DEF Calling, now
    <2>2. call.at \in DOMAIN script.calls
      BY <1>4, <2>1
    <2> QED
      BY <1>4, <2>1, <2>2 DEF Does
  <1> QED
    BY <1>1, <1>2, <1>3, <1>4, <1>5

(* The next call of the function.                                           *)
Continued(made, saved) ==
    /\ DOMAIN call' = {"at", "held", "home", "made", "saved"}
    /\ call'.at = call.at + 1 /\ call'.held = call.held /\ call'.home = call.home
    /\ call'.made = made /\ call'.saved = saved
    /\ phase' = "call" /\ pass' = pass /\ origin' = origin /\ frames' = frames
    /\ changed' = changed /\ round' = round /\ result' = result

LEMMA Continues ==
    ASSUME Playing, phase = "call", phase' = phase, pass' = pass, origin' = origin, frames' = frames,
           changed' = changed, round' = round, result' = result
    PROVE  /\ Called => Continued(call.made, call.saved)
           /\ \A o \in Ops : call' = [call EXCEPT !.at = @ + 1, !.made = Append(@, o)]
                 => Continued(Append(call.made, o), call.saved)
           /\ \A p : call' = [call EXCEPT !.at = @ + 1, !.saved = p] => Continued(call.made, p)
  <1>1. DOMAIN call = {"at", "held", "home", "made", "saved"} /\ call.at \in Nat
    BY DEF Playing, Typed
  <1>2. ASSUME Called PROVE Continued(call.made, call.saved)
    BY <1>1, <1>2 DEF Called, Continued
  <1>3. ASSUME NEW o \in Ops, call' = [call EXCEPT !.at = @ + 1, !.made = Append(@, o)]
        PROVE  Continued(Append(call.made, o), call.saved)
    BY <1>1, <1>3 DEF Continued
  <1>4. ASSUME NEW p, call' = [call EXCEPT !.at = @ + 1, !.saved = p] PROVE Continued(call.made, p)
    BY <1>1, <1>4 DEF Continued
  <1> QED
    BY <1>2, <1>3, <1>4

(* An operation is made, by the builder or behind its back.                 *)
Created(o, k, j) ==
    /\ o \in Ops \ Live(ir) /\ k \in Kinds
    /\ GrownAt(ir, o, k, Argument, point.block, point.before, j) /\ ir' = j
    /\ point.block \in ToSet(ir.region) /\ (point.before = End \/ point.before \in ToSet(ir.body[point.block]))
    /\ Continued(Append(call.made, o), call.saved) /\ point' = point
    /\ work' = (IF greedy THEN Listed(work, o) ELSE work)
    /\ log' = (IF greedy THEN log ELSE Append(log, [did |-> "create", op |-> o]))
    /\ ~RootFreed /\ Sound(point)

LEMMA CreateDoes ==
    ASSUME Playing, Create
    PROVE  \/ RootFreed /\ Fault("freed")
           \/ ~Sound(point) /\ Fault("point")
           \/ \E o, k, j : Created(o, k, j)
  <1>1. phase = "call" /\ Calling("create")
    BY DEF Create, Calling
  <1>2. Argument \in Ops \cup {None} /\ now \in Calls /\ now.do = "create"
    BY <1>1, CallFacts
  <1>3. PICK k \in Kinds : k = now.kind
    BY <1>2 DEF Calls
  <1>4. CASE RootFreed
    BY <1>4 DEF Create
  <1>5. CASE ~RootFreed /\ ~Sound(point)
    BY <1>5 DEF Create
  <1>6. CASE ~RootFreed /\ Sound(point)
    <2>1. PICK o \in Fresh :
             /\ ir' = Grown(ir, o, now.kind, Argument, point.block, point.before)
             /\ call' = [call EXCEPT !.at = @ + 1, !.made = Append(@, o)]
             /\ work' = IF greedy THEN Listed(work, o) ELSE work
             /\ log' = IF greedy THEN log ELSE Append(log, [did |-> "create", op |-> o])
             /\ UNCHANGED <<pass, origin, point, frames, changed, round, phase, result>>
      BY <1>6 DEF Create
    <2>2. o \in Ops \ Live(ir)
      BY DEF Fresh
    <2>3. Filed(ir) /\ Seated(ir) /\ point \in PointsOf(ToSet(ir.region))
      BY DEF Playing, Seated, Placing
    <2>4. PICK a \in Ops \cup {None}, b \in ToSet(ir.region), before \in Ops \cup {End} :
             /\ a = Argument /\ b = point.block /\ before = point.before
             /\ before = End \/ before \in ToSet(ir.body[b])
      BY <1>2, <1>6, <2>3, SoundPoint
    <2>5. PICK i, j : i = ir /\ j = Grown(i, o, k, a, b, before)
      OBVIOUS
    <2>6. GrownAt(i, o, k, a, b, before, j)
      <3>1. Seated(i) /\ o \in Ops \ Live(i) /\ b \in ToSet(i.region) /\ (before = End \/ before \in ToSet(i.body[b]))
        BY <2>2, <2>3, <2>4, <2>5
      <3> QED
        BY <2>5, <3>1, GrownSeated
    <2>7. Continued(Append(call.made, o), call.saved)
      BY <1>1, <2>1, <2>2, Continues
    <2>8. GrownAt(ir, o, k, Argument, point.block, point.before, j) /\ ir' = j
      BY <1>3, <2>1, <2>4, <2>5, <2>6
    <2>9. Created(o, k, j)
      BY <1>6, <2>1, <2>2, <2>4, <2>7, <2>8 DEF Created
    <2> QED
      BY <2>9
  <1> QED
    BY <1>4, <1>5, <1>6

Pushed(o, k, b, j) ==
    /\ o \in Ops \ Live(ir) /\ k \in Kinds /\ b = BlockOf(ir, root) /\ b \in ToSet(ir.region)
    /\ GrownAt(ir, o, k, call.held, b, End, j) /\ ir' = j
    /\ Continued(call.made, call.saved) /\ point' = point /\ work' = work /\ log' = log
    /\ ~RootFreed

LEMMA PushDoes ==
    ASSUME Playing, Push
    PROVE  \/ RootFreed /\ Fault("freed")
           \/ \E o, k, b, j : Pushed(o, k, b, j)
  <1>1. phase = "call" /\ Calling("append")
    BY DEF Push, Calling
  <1>2. call.held \in Ops \cup {None} /\ now \in Calls /\ now.do = "append" /\ root \in Ops
    BY <1>1, CallFacts, MatchTyped
  <1>3. PICK k \in Kinds : k = now.kind
    BY <1>2 DEF Calls
  <1>4. CASE RootFreed
    BY <1>4 DEF Push
  <1>5. CASE ~RootFreed
    <2>1. PICK o \in Fresh :
             /\ ir' = Grown(ir, o, now.kind, call.held, BlockOf(ir, root), End)
             /\ Called /\ UNCHANGED <<pass, origin, point, frames, work, log, changed, round, phase, result>>
      BY <1>5 DEF Push
    <2>2. o \in Ops \ Live(ir)
      BY DEF Fresh
    <2>3. Seated(ir) /\ root \in Live(ir)
      BY <1>2, <1>5 DEF Playing, RootFreed, Live
    <2>4. PICK a \in Ops \cup {None}, b \in ToSet(ir.region) : a = call.held /\ b = BlockOf(ir, root)
      BY <1>2, <2>3, OneHome
    <2>5. PICK i, j : i = ir /\ j = Grown(i, o, k, a, b, End)
      OBVIOUS
    <2>6. GrownAt(i, o, k, a, b, End, j)
      <3>1. Seated(i) /\ o \in Ops \ Live(i) /\ b \in ToSet(i.region)
        BY <2>2, <2>3, <2>4, <2>5
      <3> QED
        BY <2>5, <3>1, GrownSeated
    <2>7. Continued(call.made, call.saved)
      BY <1>1, <2>1, Continues
    <2>8. GrownAt(ir, o, k, call.held, b, End, j) /\ ir' = j
      BY <1>3, <2>1, <2>4, <2>5, <2>6
    <2>9. Pushed(o, k, b, j)
      BY <1>5, <2>1, <2>2, <2>4, <2>7, <2>8 DEF Pushed
    <2> QED
      BY <2>9
  <1> QED
    BY <1>4, <1>5

(* An operation is erased, its users rerouted, in the greedy driver at once *)
(* and in a conversion at its end.                                          *)
Taken(o, by, w, h, j) ==
    /\ o \in Live(ir) /\ by \in Ops \cup {None} /\ w \in Seq(Ops) /\ ToSet(w) \subseteq ToSet(work) \cup Live(ir)
    /\ ReroutedTo(ir, o, by, h) /\ RidTo(h, {o}, j) /\ ir' = j
    /\ Continued(call.made, call.saved) /\ point' = point /\ work' = Dropped(w, h, o) /\ log' = log

Noted(o, by) ==
    /\ o \in Live(ir) /\ by \in Ops \cup {None}
    /\ Continued(call.made, call.saved) /\ point' = point /\ ir' = ir /\ work' = work
    /\ log' = Append(log, [did |-> "replace", op |-> o, by |-> by])

Retired(o, by) ==
    IF greedy THEN \E w, h, j : Taken(o, by, w, h, j) ELSE Noted(o, by)

LEMMA RetireDoes ==
    ASSUME Playing, phase = "call", NEW o \in Live(ir), NEW by \in Ops \cup {None}, NEW w \in Seq(Ops),
           ToSet(w) \subseteq ToSet(work) \cup Live(ir), Retire(o, by, w), Called,
           UNCHANGED <<pass, origin, point, frames, changed, round, phase, result>>
    PROVE  Retired(o, by)
  <1>1. Continued(call.made, call.saved)
    BY Continues
  <1>2. CASE greedy
    <2>1. PICK h : h = Rerouted(ir, o, by)
      OBVIOUS
    <2>2. ir' = Without(h, o) /\ work' = Dropped(w, h, o) /\ log' = log
      BY <1>2, <2>1 DEF Retire
    <2>3. Seated(ir) /\ o \in Ops
      BY DEF Playing, Live
    <2>4. ReroutedTo(ir, o, by, h)
      BY <2>1, <2>3, ReroutedSeated
    <2>5. PICK j : j = Without(h, o)
      OBVIOUS
    <2>6. RidTo(h, {o}, j)
      <3>1. Seated(h) /\ o \in Live(h)
        BY <2>4 DEF ReroutedTo
      <3> QED
        BY <2>5, <3>1, WithoutSeated
    <2>7. Taken(o, by, w, h, j)
      BY <1>1, <2>2, <2>4, <2>5, <2>6 DEF Taken
    <2> QED
      BY <1>2, <2>7 DEF Retired
  <1>3. CASE ~greedy
    <2>1. log' = Append(log, [did |-> "replace", op |-> o, by |-> by]) /\ ir' = ir /\ work' = work
      BY <1>3 DEF Retire
    <2>2. Noted(o, by)
      BY <1>1, <2>1 DEF Noted
    <2> QED
      BY <1>3, <2>2 DEF Retired
  <1> QED
    BY <1>2, <1>3

LEMMA UsersLive ==
    ASSUME Seated(ir), NEW o, NEW s \in {InUse(o), Reverse(InUse(o))}
    PROVE  s \in Seq(Ops) /\ ToSet(s) \subseteq Live(ir)
  <1>1. InOrder(ir) \in Seq(Ops) /\ Filed(ir)
    BY SeatedPlaced DEF Seated
  <1>2. PICK t \in Seq(Ops) : t = InUse(o) /\ ToSet(t) \subseteq Live(ir)
    <2>1. /\ InUse(o) \in Seq(Ops)
          /\ ToSet(InUse(o)) = ToSet(InOrder(ir)) \cap Users(ir, o)
      BY <1>1, OnlyType DEF InUse
    <2>2. Users(ir, o) \subseteq Live(ir)
      BY DEF Users
    <2> QED
      BY <2>1, <2>2
  <1>3. s \in Seq(Ops)
    BY <1>1, UsersTyped
  <1>4. PICK n \in Nat : n = Len(t) /\ DOMAIN t = 1 .. n
    OBVIOUS
  <1>5. \A m \in 1 .. n : (n - m) + 1 \in 1 .. n
    OBVIOUS
  <1>6. Reverse(t) = [m \in 1 .. n |-> t[(n - m) + 1]]
    BY <1>4 DEF Reverse
  <1>7. ToSet(Reverse(t)) \subseteq ToSet(t)
    BY <1>4, <1>5, <1>6 DEF ToSet
  <1> QED
    BY <1>2, <1>3, <1>7

LEMMA WorkMembers ==
    ASSUME NEW w \in Seq(Ops)
    PROVE  /\ \A o \in Ops \cup {None} : ToSet(Listed(w, o)) = ToSet(w) \cup ({o} \ {None})
           /\ \A s \in Seq(Ops) : ToSet(AllListed(w, s)) = ToSet(w) \cup ToSet(s)
           /\ \A i \in Irs : \A o \in Ops :
                 ToSet(Dropped(w, i, o)) \subseteq (ToSet(w) \cup ({i.arg[o]} \ {None})) \ {o}
  <1>0. None \notin Ops /\ ToSet(w) \subseteq Ops
    <2>1. None \notin Ops
      BY RewritingAssumption DEF None
    <2> QED
      BY <2>1 DEF ToSet
  <1>1. ASSUME NEW o \in Ops \cup {None} PROVE ToSet(Listed(w, o)) = ToSet(w) \cup ({o} \ {None})
    <2>1. o # None => ToSet(Append(w, o)) = ToSet(w) \cup {o}
      BY ToSetOfAppend
    <2> QED
      BY <1>0, <2>1 DEF Listed
  <1>2. ASSUME NEW s \in Seq(Ops) PROVE ToSet(AllListed(w, s)) = ToSet(w) \cup ToSet(s)
    <2>1. PICK q \in Seq(Ops) : q = Only(s, Ops \ ToSet(w)) /\ ToSet(q) = ToSet(s) \cap (Ops \ ToSet(w))
      BY OnlyType
    <2>2. ToSet(w \o q) = ToSet(w) \cup ToSet(q)
      BY <2>1, ToSetOfConcat
    <2>3. ToSet(s) \subseteq Ops
      BY DEF ToSet
    <2> QED
      BY <2>1, <2>2, <2>3 DEF AllListed
  <1>3. ASSUME NEW i \in Irs, NEW o \in Ops
        PROVE  ToSet(Dropped(w, i, o)) \subseteq (ToSet(w) \cup ({i.arg[o]} \ {None})) \ {o}
    <2>1. i.arg[o] \in Ops \cup {None}
      BY IrFields
    <2>2. PICK v \in Seq(Ops) : /\ v = IF i.arg[o] # None /\ Cardinality(Users(i, i.arg[o])) < 2
                                       THEN Listed(w, i.arg[o]) ELSE w
                                /\ ToSet(v) \subseteq ToSet(w) \cup ({i.arg[o]} \ {None})
      BY <1>1, <2>1, WorkTyped
    <2>3. ToSet(Only(v, Ops \ {o})) = ToSet(v) \cap (Ops \ {o})
      BY OnlyType
    <2>4. Dropped(w, i, o) = Only(v, Ops \ {o})
      BY <2>2 DEF Dropped
    <2> QED
      BY <2>2, <2>3, <2>4
  <1> QED
    BY <1>1, <1>2, <1>3

LEMMA ReplaceDoes ==
    ASSUME Playing, Replace
    PROVE  \/ RootFreed /\ Fault("freed")
           \/ Argument # None /\ Argument \notin Live(ir) /\ Fault("freed")
           \/ root \in Live(ir) /\ Argument \in Live(ir) \cup {None} /\ Retired(root, Argument)
  <1>1. phase = "call" /\ Calling("replace")
    BY DEF Replace, Calling
  <1>2. Argument \in Ops \cup {None} /\ root \in Ops
    BY <1>1, CallFacts, MatchTyped
  <1>3. CASE RootFreed \/ (Argument # None /\ ir.kind[Argument] = Freed)
    BY <1>2, <1>3 DEF Replace, Live
  <1>4. CASE ~(RootFreed \/ (Argument # None /\ ir.kind[Argument] = Freed))
    <2>1. PICK users \in {InUse(root), Reverse(InUse(root))} :
             /\ Retire(root, Argument, IF greedy THEN AllListed(work, users) ELSE work)
             /\ Called
             /\ UNCHANGED <<pass, origin, point, frames, changed, round, phase, result>>
      BY <1>4 DEF Replace
    <2>2. root \in Live(ir) /\ Argument \in Live(ir) \cup {None}
      BY <1>2, <1>4 DEF RootFreed, Live
    <2>3. users \in Seq(Ops) /\ ToSet(users) \subseteq Live(ir)
      BY UsersLive DEF Playing
    <2>4. CASE greedy
      <3>1. work \in Seq(Ops)
        BY <2>4 DEF Playing, Paced
      <3>2. PICK w \in Seq(Ops) : w = AllListed(work, users) /\ ToSet(w) \subseteq ToSet(work) \cup Live(ir)
        BY <2>3, <3>1, WorkTyped, WorkMembers
      <3>3. Retire(root, Argument, w)
        BY <2>1, <2>4, <3>2
      <3>4. Retired(root, Argument)
        BY <1>1, <1>2, <2>1, <2>2, <3>2, <3>3, RetireDoes
      <3> QED
        BY <2>2, <3>4
    <2>5. CASE ~greedy
      <3>1. log' = Append(log, [did |-> "replace", op |-> root, by |-> Argument]) /\ ir' = ir /\ work' = work
        BY <2>1, <2>5 DEF Retire
      <3>2. Continued(call.made, call.saved)
        BY <1>1, <2>1, Continues
      <3>3. Noted(root, Argument)
        BY <1>2, <2>1, <2>2, <3>1, <3>2 DEF Noted
      <3>4. Retired(root, Argument)
        BY <2>5, <3>3 DEF Retired
      <3> QED
        BY <2>2, <3>4
    <2> QED
      BY <2>4, <2>5
  <1> QED
    BY <1>3, <1>4

LEMMA EraseDoes ==
    ASSUME Playing, phase = "call", NEW o \in Ops, EraseOp(o)
    PROVE  \/ o \notin Live(ir) /\ Fault("freed")
           \/ Fault("used")
           \/ o \in Live(ir) /\ (greedy => Users(ir, o) = {}) /\ Retired(o, o)
  <1>1. CASE ir.kind[o] = Freed
    BY <1>1 DEF EraseOp, Live
  <1>2. CASE ir.kind[o] # Freed /\ greedy /\ Users(ir, o) # {}
    <2>1. Fault("used")
      BY <1>2 DEF EraseOp
    <2> QED
      BY <2>1
  <1>3. CASE ir.kind[o] # Freed /\ ~(greedy /\ Users(ir, o) # {})
    <2>1. /\ Retire(o, o, work) /\ Called
          /\ UNCHANGED <<pass, origin, point, frames, changed, round, phase, result>>
      BY <1>3 DEF EraseOp
    <2>2. o \in Live(ir)
      BY <1>3 DEF Live
    <2>3. CASE greedy
      <3>1. work \in Seq(Ops)
        BY <2>3 DEF Playing, Paced
      <3>2. Retired(o, o)
        BY <2>1, <2>2, <3>1, RetireDoes
      <3> QED
        BY <1>3, <2>2, <3>2
    <2>4. CASE ~greedy
      <3>1. log' = Append(log, [did |-> "replace", op |-> o, by |-> o]) /\ ir' = ir /\ work' = work
        BY <2>1, <2>4 DEF Retire
      <3>2. Continued(call.made, call.saved)
        BY <2>1, Continues
      <3>3. Noted(o, o)
        BY <2>1, <2>2, <3>1, <3>2 DEF Noted
      <3>4. Retired(o, o)
        BY <2>4, <3>3 DEF Retired
      <3> QED
        BY <2>2, <2>4, <3>4
    <2> QED
      BY <2>3, <2>4
  <1> QED
    BY <1>1, <1>2, <1>3

LEMMA EraseDefDoes ==
    ASSUME Playing, EraseDef
    PROVE  \/ call.held # None /\ call.held \notin Live(ir) /\ Fault("freed")
           \/ Fault("used")
           \/ /\ call.held # None /\ call.held \in Live(ir) /\ (greedy => Users(ir, call.held) = {})
              /\ Retired(call.held, call.held)
           \/ call.held = None /\ Continued(call.made, call.saved) /\ UNCHANGED <<ir, point, work, log>>
  <1>1. phase = "call" /\ Calling("eraseDef")
    BY DEF EraseDef, Calling
  <1>2. call.held \in Ops \cup {None}
    BY <1>1, CallFacts
  <1>3. CASE call.held # None
    <2>1. EraseOp(call.held) /\ call.held \in Ops
      BY <1>2, <1>3 DEF EraseDef
    <2> QED
      BY <1>1, <1>3, <2>1, EraseDoes
  <1>4. CASE call.held = None
    <2>1. Called /\ UNCHANGED <<pass, origin, ir, point, frames, work, log, changed, round, phase, result>>
      BY <1>4 DEF EraseDef
    <2>2. Continued(call.made, call.saved)
      BY <1>1, <2>1, Continues
    <2> QED
      BY <1>4, <2>1, <2>2
  <1> QED
    BY <1>3, <1>4

Unlinked(j) ==
    /\ root \in Live(ir) /\ root \notin Replaced /\ Users(ir, root) = {} /\ RidTo(ir, {root}, j) /\ ir' = j
    /\ Continued(call.made, call.saved) /\ point' = point /\ work' = work /\ log' = log

LEMMA UnlinkDoes ==
    ASSUME Playing, Unlink
    PROVE  \/ Fault("freed") \/ Fault("used")
           \/ \E j : Unlinked(j)
  <1>1. phase = "call" /\ Calling("unlink")
    BY DEF Unlink, Calling
  <1>2. root \in Ops
    BY <1>1, MatchTyped
  <1>3. CASE RootFreed \/ root \in Replaced
    <2>1. Fault("freed")
      BY <1>3 DEF Unlink
    <2> QED
      BY <2>1
  <1>4. CASE ~RootFreed /\ root \notin Replaced /\ Users(ir, root) # {}
    <2>1. Fault("used")
      BY <1>4 DEF Unlink
    <2> QED
      BY <2>1
  <1>5. CASE ~RootFreed /\ root \notin Replaced /\ Users(ir, root) = {}
    <2>1. /\ ir' = Without(ir, root) /\ Called
          /\ UNCHANGED <<pass, origin, point, frames, work, log, changed, round, phase, result>>
      BY <1>5 DEF Unlink
    <2>2. root \in Live(ir) /\ Seated(ir)
      BY <1>2, <1>5 DEF RootFreed, Live, Playing
    <2>3. PICK j : j = Without(ir, root)
      OBVIOUS
    <2>4. RidTo(ir, {root}, j)
      BY <2>2, <2>3, WithoutSeated
    <2>5. Continued(call.made, call.saved)
      BY <1>1, <2>1, Continues
    <2>6. Unlinked(j)
      BY <1>5, <2>1, <2>2, <2>3, <2>4, <2>5 DEF Unlinked
    <2> QED
      BY <2>6
  <1> QED
    BY <1>3, <1>4, <1>5

Parted(new, j) ==
    /\ root \in Live(ir) /\ new \in Blocks \ ToSet(ir.region) /\ j = Split(ir, root, new)
    /\ SplitTo(ir, root, new, j) /\ ir' = j
    /\ Continued(call.made, call.saved) /\ point' = point /\ work' = work /\ log' = log

LEMMA SplitDoes ==
    ASSUME Playing, SplitBlock
    PROVE  \/ RootFreed /\ Fault("freed")
           \/ \E new, j : Parted(new, j)
  <1>1. phase = "call" /\ Calling("split")
    BY DEF SplitBlock, Calling
  <1>2. root \in Ops
    BY <1>1, MatchTyped
  <1>3. CASE RootFreed
    BY <1>3 DEF SplitBlock
  <1>4. CASE ~RootFreed
    <2>1. PICK new \in Blocks \ ToSet(ir.region) :
             /\ ir' = Split(ir, root, new) /\ Called
             /\ UNCHANGED <<pass, origin, point, frames, work, log, changed, round, phase, result>>
      BY <1>4 DEF SplitBlock
    <2>2. root \in Live(ir) /\ Seated(ir)
      BY <1>2, <1>4 DEF RootFreed, Live, Playing
    <2>3. PICK j : j = Split(ir, root, new)
      OBVIOUS
    <2>4. SplitTo(ir, root, new, j)
      BY <2>2, <2>3, SplitSeated
    <2>5. Continued(call.made, call.saved)
      BY <1>1, <2>1, Continues
    <2>6. Parted(new, j)
      BY <2>1, <2>2, <2>3, <2>4, <2>5 DEF Parted
    <2> QED
      BY <2>6
  <1> QED
    BY <1>3, <1>4

(* The operation at a place is in the block of the place.                   *)
SoundIn(i, p) == p.before = End \/ p.before \in ToSet(i.body[p.block])

Moved(do, p) ==
    /\ Calling(do) /\ do \in Moves /\ p = PointFor(do) /\ point' = p
    /\ p \in PointsOf(ToSet(ir.region)) /\ SoundIn(ir, p)
    /\ do \in {"before", "after"} => root \in Live(ir)
    /\ Continued(call.made, call.saved) /\ ir' = ir /\ work' = work /\ log' = log

LEMMA NextIn ==
    ASSUME NEW s \in Seq(Ops)
    PROVE  /\ First(s) = End \/ First(s) \in ToSet(s)
           /\ \A o \in ToSet(s) : Following(s, o) = End \/ Following(s, o) \in ToSet(s)
  <1>1. ASSUME NEW t \in Seq(Ops) PROVE First(t) = End \/ First(t) \in ToSet(t)
    <2>1. t # <<>> => 1 \in DOMAIN t
      OBVIOUS
    <2> QED
      BY <2>1 DEF First, ToSet
  <1>2. ASSUME NEW o \in ToSet(s)
        PROVE  Following(s, o) = End \/ Following(s, o) \in ToSet(s)
    <2>1. \E n \in DOMAIN s : s[n] = o
      BY DEF ToSet
    <2>2. PICK n \in 1 .. Len(s) : n = PlaceIn(s, o)
      BY <2>1 DEF PlaceIn
    <2>3. PICK m \in 1 .. Len(s) + 1 : m = n + 1
      OBVIOUS
    <2>4. /\ SubSeq(s, m, Len(s)) \in Seq(Ops)
          /\ ToSet(s) = ToSet(SubSeq(s, 1, m - 1)) \cup ToSet(SubSeq(s, m, Len(s)))
      BY Halves
    <2>5. First(SubSeq(s, m, Len(s))) = End \/ First(SubSeq(s, m, Len(s))) \in ToSet(SubSeq(s, m, Len(s)))
      BY <1>1, <2>4
    <2> QED
      BY <2>2, <2>3, <2>4, <2>5 DEF Following
  <1> QED
    BY <1>1, <1>2

LEMMA SetPointDoes ==
    ASSUME Playing, SetPoint
    PROVE  \/ RootFreed /\ now.do \in {"before", "after"} /\ Fault("freed")
           \/ \E do, p : Moved(do, p)
  <1>1. phase = "call" /\ Filed(ir) /\ Placing(ToSet(ir.region), point, call, "call")
    BY DEF SetPoint, Calling, Playing, Seated
  <1>2. PICK do \in Moves : Calling(do) /\ now.do = do
    BY DEF SetPoint, Calling, Moves
  <1>3. CASE RootFreed /\ now.do \in {"before", "after"}
    BY <1>3 DEF SetPoint
  <1>4. CASE ~(RootFreed /\ now.do \in {"before", "after"})
    <2>1. /\ point' = PointFor(do) /\ Called
          /\ UNCHANGED <<pass, origin, ir, frames, work, log, changed, round, phase, result>>
      BY <1>2, <1>4 DEF SetPoint
    <2>2. root \in Ops
      BY <1>1, MatchTyped
    <2>3. PICK p \in PointsOf(ToSet(ir.region)) : p = PointFor(do)
      BY <1>1, <1>2, <1>4, <2>2, PointForIn
    <2>4. Continued(call.made, call.saved)
      BY <1>1, <2>1, Continues
    <2>5. do \in {"before", "after"} => root \in Live(ir)
      BY <1>2, <1>4, <2>2 DEF RootFreed, Live
    <2>6. SoundIn(ir, p)
      <3>1. \A b \in ToSet(ir.region) : ir.body[b] \in Seq(Ops)
        BY <1>1, IrFields, RegionBlocks DEF Filed
      <3>2. CASE do \in {"start", "end"}
        <4>1. PICK b \in ToSet(ir.region) : call.home = <<b>>
          BY <1>1 DEF Placing
        <4>2. p = [block |-> b, before |-> IF do = "start" THEN First(ir.body[b]) ELSE End]
          BY <2>3, <3>2, <4>1 DEF PointFor
        <4> QED
          BY <3>1, <4>2, NextIn DEF SoundIn
      <3>3. CASE do \in {"before", "after"}
        <4>1. PICK b \in ToSet(ir.region) : b = BlockOf(ir, root) /\ root \in ToSet(ir.body[b])
          BY <1>1, <2>5, <3>3, HomeOf
        <4>2. p = [block |-> b, before |-> IF do = "before" THEN root ELSE Following(ir.body[b], root)]
          BY <2>3, <3>3, <4>1 DEF PointFor
        <4> QED
          BY <3>1, <4>1, <4>2, NextIn DEF SoundIn
      <3> QED
        BY <3>2, <3>3 DEF Moves
    <2>7. Moved(do, p)
      BY <1>2, <2>1, <2>3, <2>4, <2>5, <2>6 DEF Moved
    <2> QED
      BY <2>7
  <1> QED
    BY <1>3, <1>4

Recalled(saved, p) ==
    /\ p \in PointsOf(ToSet(ir.region)) /\ saved \in Seq(PointsOf(ToSet(ir.region)))
    /\ Continued(call.made, saved) /\ point' = p /\ ir' = ir /\ work' = work /\ log' = log

LEMMA SavesDoes ==
    ASSUME Playing
    PROVE  /\ SavePoint => Recalled(<<point>>, point)
           /\ RestorePoint => Recalled(call.saved, IF call.saved = <<>> THEN point ELSE call.saved[1])
  <1>1. PICK r : r = ToSet(ir.region) /\ Placing(r, point, call, phase)
    BY DEF Playing
  <1>2. point \in PointsOf(r) /\ call.saved \in Seq(PointsOf(r)) /\ <<point>> \in Seq(PointsOf(r))
    BY <1>1 DEF Placing
  <1>3. \A s \in Seq(PointsOf(r)) : s # <<>> => s[1] \in PointsOf(r)
    OBVIOUS
  <1>4. ASSUME SavePoint PROVE Recalled(<<point>>, point)
    <2>1. /\ call' = [call EXCEPT !.at = @ + 1, !.saved = <<point>>] /\ phase = "call"
          /\ UNCHANGED <<pass, origin, ir, point, frames, work, log, changed, round, phase, result>>
      BY <1>4 DEF SavePoint, Calling
    <2>2. Continued(call.made, <<point>>)
      BY <2>1, Continues
    <2> QED
      BY <1>1, <1>2, <2>1, <2>2 DEF Recalled
  <1>5. ASSUME RestorePoint
        PROVE  Recalled(call.saved, IF call.saved = <<>> THEN point ELSE call.saved[1])
    <2>1. /\ point' = (IF call.saved = <<>> THEN point ELSE call.saved[1]) /\ Called /\ phase = "call"
          /\ UNCHANGED <<pass, origin, ir, frames, work, log, changed, round, phase, result>>
      BY <1>5 DEF RestorePoint, Calling
    <2>2. Continued(call.made, call.saved)
      BY <2>1, Continues
    <2> QED
      BY <1>1, <1>2, <1>3, <2>1, <2>2 DEF Recalled
  <1> QED
    BY <1>4, <1>5

(***************************************************************************)
(* What the drivers do between the calls.                                  *)
(***************************************************************************)
Steady == pass' = pass /\ origin' = origin /\ round' = round

(* The greedy driver takes an operation from its worklist.                  *)
Swept(o, j) ==
    /\ greedy /\ o \in Live(ir) /\ o = Last(work) /\ work' = Dropped(Front(work), ir, o)
    /\ Users(ir, o) = {} /\ RidTo(ir, {o}, j) /\ ir' = j
    /\ Steady /\ changed' = TRUE /\ phase' = "pop"
    /\ UNCHANGED <<point, frames, call, log, result>>

Begun(o) ==
    /\ greedy /\ o \in Live(ir) /\ o = Last(work) /\ work' = Front(work)
    /\ frames' = <<Framed(o)>> /\ phase' = "match"
    /\ point' = [block |-> BlockOf(ir, o), before |-> o]
    /\ point' \in PointsOf(ToSet(ir.region)) /\ SoundIn(ir, point')
    /\ Steady /\ UNCHANGED <<ir, call, log, changed, result>>

LEMMA HomePoint ==
    ASSUME Seated(ir), NEW o \in Live(ir)
    PROVE  /\ [block |-> BlockOf(ir, o), before |-> o] \in PointsOf(ToSet(ir.region))
           /\ SoundIn(ir, [block |-> BlockOf(ir, o), before |-> o])
  <1>1. PICK r : r = ToSet(ir.region) /\ r \subseteq Blocks
    BY RegionBlocks DEF Seated
  <1>2. PICK b \in r : b = BlockOf(ir, o) /\ o \in ToSet(ir.body[b])
    BY <1>1, OneHome
  <1>3. o \in Ops
    BY DEF Live
  <1>4. [block |-> b, before |-> o] \in PointsOf(r)
    BY <1>1, <1>3, PointIn
  <1> QED
    BY <1>1, <1>2, <1>4 DEF SoundIn

LEMMA PopDoes ==
    ASSUME Playing, Pop
    PROVE  \/ work # <<>> /\ Last(work) \notin Live(ir) /\ Fault("freed")
           \/ \E o, j : Swept(o, j)
           \/ \E o : Begun(o)
  <1>1. greedy /\ phase = "pop" /\ work # <<>> /\ work \in Seq(Ops) /\ Seated(ir)
    BY DEF Pop, Playing, Paced
  <1>2. PICK o \in Ops : o = Last(work)
    BY <1>1, LastOut
  <1>3. CASE ir.kind[o] = Freed
    <2>1. ~Dead(o) /\ o \notin Live(ir)
      BY <1>3, RewritingAssumption DEF Dead, Freed, Live
    <2>2. Fault("freed")
      BY <1>2, <1>3, <2>1, Zenon DEF Pop
    <2> QED
      BY <1>1, <1>2, <2>1, <2>2
  <1>4. CASE ir.kind[o] # Freed /\ Dead(o)
    <2>1. /\ ir' = Without(ir, o) /\ changed' = TRUE
          /\ work' = Dropped(Front(work), ir, o)
          /\ UNCHANGED <<pass, origin, point, frames, call, log, round, phase, result>>
      BY <1>2, <1>4, Zenon DEF Pop
    <2>2. o \in Live(ir) /\ Users(ir, o) = {}
      BY <1>4 DEF Live, Dead
    <2>3. PICK j : j = Without(ir, o) /\ RidTo(ir, {o}, j)
      BY <1>1, <2>2, WithoutSeated
    <2>4. Swept(o, j)
      BY <1>1, <1>2, <2>1, <2>2, <2>3 DEF Swept, Steady
    <2> QED
      BY <2>4
  <1>5. CASE ir.kind[o] # Freed /\ ~Dead(o)
    <2>1. /\ work' = Front(work) /\ frames' = <<Framed(o)>> /\ phase' = "match"
          /\ point' = [block |-> BlockOf(ir, o), before |-> o]
          /\ UNCHANGED <<pass, origin, ir, call, log, changed, round, result>>
      BY <1>2, <1>5, Zenon DEF Pop
    <2>2. o \in Live(ir)
      BY <1>5 DEF Live
    <2>3. point' \in PointsOf(ToSet(ir.region)) /\ SoundIn(ir, point')
      BY <1>1, <2>1, <2>2, HomePoint
    <2>4. Begun(o)
      BY <1>1, <1>2, <2>1, <2>2, <2>3 DEF Begun, Steady
    <2> QED
      BY <2>4
  <1> QED
    BY <1>3, <1>4, <1>5

(* A conversion goes on with its list, or from one list to another.         *)
Relisted(fs, ph) ==
    /\ frames' = fs /\ phase' = ph /\ Steady
    /\ UNCHANGED <<ir, point, call, work, log, changed, result>>

LEMMA LegalizeDoes ==
    ASSUME Playing, Legalize
    PROVE  /\ frame.todo # <<>> /\ phase = "legalize" /\ ~greedy
           /\ \/ ir.kind[Head(frame.todo)] = Freed /\ Fault("freed")
              \/ Relisted([frames EXCEPT ![Len(frames)].todo = Tail(@)], "legalize")
              \/ ir.kind[Head(frame.todo)] # Freed /\ Relisted(Append(frames, Framed(Head(frame.todo))), "match")
  <1>1. frame.todo # <<>> /\ phase = "legalize" /\ ~greedy
    BY DEF Legalize, Playing
  <1>2. PICK o : o = Head(frame.todo)
    OBVIOUS
  <1>3. CASE ir.kind[o] = Freed
    <2>1. Fault("freed")
      BY <1>2, <1>3, Zenon DEF Legalize
    <2> QED
      BY <1>1, <1>2, <1>3, <2>1
  <1>4. CASE ir.kind[o] # Freed /\ (o \in Replaced \/ Action(ir.kind[o]) = "legal")
    <2>1. /\ frames' = [frames EXCEPT ![Len(frames)].todo = Tail(@)]
          /\ UNCHANGED <<pass, origin, ir, point, call, work, log, changed, round, phase, result>>
      BY <1>2, <1>4, Zenon DEF Legalize
    <2> QED
      BY <1>1, <2>1 DEF Relisted, Steady
  <1>5. CASE ir.kind[o] # Freed /\ ~(o \in Replaced \/ Action(ir.kind[o]) = "legal")
    <2>1. /\ frames' = Append(frames, Framed(o)) /\ phase' = "match"
          /\ UNCHANGED <<pass, origin, ir, point, call, work, log, changed, round, result>>
      BY <1>2, <1>5, Zenon DEF Legalize
    <2> QED
      BY <1>1, <1>2, <1>5, <2>1 DEF Relisted, Steady
  <1> QED
    BY <1>3, <1>4, <1>5

(* The end of a conversion.                                                 *)
Closed ==
    /\ ~greedy /\ phase = "legalize" /\ ir' = Applied /\ phase' = "done" /\ Steady
    /\ UNCHANGED <<point, work, log, changed>>

LEMMA LegalizedDoes ==
    ASSUME Playing, Legalized
    PROVE  /\ frame.todo = <<>> /\ phase = "legalize" /\ ~greedy
           /\ Fault("used") \/ Closed \/ (Len(frames) # 1 /\ Relisted(Advanced, "legalize"))
  <1>1. frame.todo = <<>> /\ phase = "legalize" /\ ~greedy
    BY DEF Legalized, Playing
  <1>2. CASE Len(frames) = 1 /\ UsedWhenErased
    <2>1. Fault("used")
      BY <1>2 DEF Legalized
    <2> QED
      BY <1>1, <2>1
  <1>3. CASE Len(frames) = 1 /\ ~UsedWhenErased
    <2>1. ir' = Applied /\ Stop("done", IF Accepted(Applied) THEN "success" ELSE "failure")
      BY <1>3 DEF Legalized
    <2> QED
      BY <1>1, <2>1 DEF Closed, Stop, Steady
  <1>4. CASE Len(frames) # 1
    <2>1. /\ frames' = Advanced
          /\ UNCHANGED <<pass, origin, ir, point, call, work, log, changed, round, phase, result>>
      BY <1>4, Zenon DEF Legalized
    <2> QED
      BY <1>1, <1>4, <2>1 DEF Relisted, Steady
  <1> QED
    BY <1>2, <1>3, <1>4

(* What was created since a mark is given up.                               *)
GaveUp(n, j) ==
    /\ ~greedy /\ n \in 0 .. Len(log) /\ Undoable(n)
    /\ RidTo(ir, MadeIn(log, n), j) /\ ir' = j /\ log' = SubSeq(log, 1, n)
    /\ Steady /\ UNCHANGED <<point, work, changed>>

LEMMA GiveUpDoes ==
    ASSUME Playing, ~greedy, NEW n \in 0 .. Len(log), Undoable(n), ir' = Undone(n), log' = SubSeq(log, 1, n),
           UNCHANGED <<pass, origin, point, work, changed, round>>
    PROVE  \E j : GaveUp(n, j)
  <1>1. log \in Seq(Entry) /\ Seated(ir)
    BY DEF Playing, Typed
  <1>2. ToSet(CreatedSince(n)) = MadeIn(log, n)
    BY <1>1, LogReads
  <1>3. PICK j : j = Undone(n) /\ j = Rid(ir, MadeIn(log, n))
    BY <1>2 DEF Undone
  <1>4. RidTo(ir, MadeIn(log, n), j)
    BY <1>1, <1>3, RidSeated
  <1>5. GaveUp(n, j)
    BY <1>3, <1>4 DEF GaveUp, Steady
  <1> QED
    BY <1>5

(* A pattern is applied to the operation, or does not suit it.              *)
Invoked(n) ==
    /\ root \in Live(ir) /\ n \in DOMAIN patterns /\ frames' = Retried(n)
    /\ \/ phase' = "match" /\ call' = call
       \/ /\ phase' = "call"
          /\ \E b \in ToSet(ir.region) :
                /\ b = BlockOf(ir, root)
                /\ call' = [NoCall EXCEPT !.at = 1, !.held = ir.arg[root], !.home = <<b>>]
    /\ point' = IF greedy THEN point ELSE [block |-> BlockOf(ir, root), before |-> root]
    /\ point' \in PointsOf(ToSet(ir.region))
    /\ IF greedy THEN point' = point ELSE SoundIn(ir, point')
    /\ Steady /\ UNCHANGED <<ir, work, log, changed, result>>

(* No pattern is left for the operation.                                    *)
Passed ==
    /\ greedy /\ frames' = <<>> /\ phase' = "pop" /\ Steady
    /\ UNCHANGED <<ir, point, call, work, log, changed, result>>

(* The conversion fails, or the pattern does that created the operation.    *)
Lost ==
    \/ /\ phase' = "done" /\ \E j : GaveUp(0, j)
    \/ \E n, j :
          /\ n = frames[Len(frames) - 1].mark /\ GaveUp(n, j) /\ Len(frames) > 2
          /\ frames' = [Front(frames) EXCEPT ![Len(frames) - 1].todo = <<>>]
          /\ phase' = "match" /\ call' = call /\ result' = result

LEMMA UnconvertedDoes ==
    ASSUME Playing, phase = "match", ~greedy, Unconverted
    PROVE  \/ \E n \in 0 .. Len(log) :
                 /\ ~Undoable(n) /\ Fault("undo")
                 /\ n = 0 \/ (Len(frames) > 2 /\ n = frames[Len(frames) - 1].mark)
           \/ Lost
           \/ Len(frames) = 2 /\ Relisted(Advanced, "legalize")
  <1>1. frames \in Seq(Frame) /\ Len(frames) \in Nat /\ log \in Seq(Entry) /\ Len(log) \in Nat
    BY DEF Playing, Typed
  <1>2. 0 \in 0 .. Len(log)
    BY <1>1
  <1>3. CASE Len(frames) > 2
    <2>1. PICK n \in Nat : n = Len(frames) - 1 /\ Len(frames) = n + 1 /\ n > 1
      BY <1>1, <1>3
    <2>2. n \in 1 .. Len(frames)
      BY <1>3, <2>1
    <2>3. frames[n] \in Frame
      BY <1>1, <2>2
    <2>4. PICK mark \in Nat : mark = frames[n].mark
      BY <2>3 DEF Frame
    <2>5. mark \in 0 .. Len(log)
      BY <1>1, <2>2, <2>4 DEF Playing, Shape
    <2>6. frames[Len(frames) - 1].mark = mark
      BY <2>1, <2>4
    <2>7. IF ~Undoable(mark) THEN Fault("undo")
          ELSE /\ ir' = Undone(mark) /\ log' = SubSeq(log, 1, mark)
               /\ frames' = [Front(frames) EXCEPT ![Len(frames) - 1].todo = <<>>]
               /\ UNCHANGED <<pass, origin, point, call, work, changed, round, phase, result>>
      <3>1. ~(Len(frames) = 2)
        BY <2>1
      <3> QED
        BY <2>6, <3>1, Zenon DEF Unconverted, GiveUp
    <2>8. CASE ~Undoable(mark)
      BY <1>3, <2>5, <2>6, <2>7, <2>8
    <2>9. CASE Undoable(mark)
      <3>1. PICK j : GaveUp(mark, j)
        BY <2>5, <2>7, <2>9, GiveUpDoes
      <3> QED
        BY <1>3, <2>5, <2>6, <2>7, <2>9, <3>1 DEF Lost
    <2> QED
      BY <2>8, <2>9
  <1>4. CASE Len(frames) = 2
    <2>1. CASE GiveUp(0, Surrender) /\ ~Undoable(0)
      BY <1>2, <2>1 DEF GiveUp
    <2>2. CASE GiveUp(0, Surrender) /\ Undoable(0)
      <3>1. /\ ir' = Undone(0) /\ log' = SubSeq(log, 1, 0) /\ phase' = "done"
            /\ UNCHANGED <<pass, origin, point, work, changed, round>>
        BY <2>2, Zenon DEF GiveUp, Surrender
      <3>2. \E j : GaveUp(0, j)
        BY <1>2, <2>2, <3>1, GiveUpDoes
      <3> QED
        BY <3>1, <3>2 DEF Lost
    <2>3. CASE ~GiveUp(0, Surrender)
      <3>1. ~(Len(frames) > 2)
        BY <1>4
      <3>2. /\ phase' = "legalize" /\ frames' = Advanced
            /\ UNCHANGED <<pass, origin, ir, point, call, work, log, changed, round, result>>
        BY <2>3, <3>1, Zenon DEF Unconverted
      <3> QED
        BY <1>4, <3>2 DEF Relisted, Steady
    <2> QED
      BY <2>1, <2>2, <2>3
  <1>5. Len(frames) > 2 \/ Len(frames) = 2
    BY Zenon DEF Unconverted
  <1> QED
    BY <1>3, <1>4, <1>5

LEMMA MatchDoes ==
    ASSUME Playing, Match
    PROVE  \/ root \notin Live(ir) /\ Fault("freed")
           \/ root \in Live(ir) /\ ~greedy /\ Unconverted
           \/ root \in Live(ir) /\ Passed
           \/ \E n : Invoked(n)
  <1>1. phase = "match" /\ Seated(ir) /\ Placing(ToSet(ir.region), point, call, phase)
    BY DEF Match, Playing
  <1>2. root \in Ops
    BY <1>1, MatchTyped
  <1>3. CASE ir.kind[root] = Freed
    <2>1. Fault("freed")
      BY <1>3 DEF Match
    <2> QED
      BY <1>3, <2>1 DEF Live
  <1>4. CASE ir.kind[root] # Freed /\ Untried = {}
    <2>1. Unmatched /\ root \in Live(ir)
      BY <1>2, <1>4 DEF Match, Live
    <2>2. CASE ~greedy
      BY <2>1, <2>2 DEF Unmatched
    <2>3. CASE greedy
      BY <2>1, <2>3 DEF Unmatched, Passed, Steady
    <2> QED
      BY <2>2, <2>3
  <1>5. CASE ir.kind[root] # Freed /\ Untried # {}
    <2>1. PICK n : n = Min(Untried)
      OBVIOUS
    <2>2. /\ frames' = Retried(n)
          /\ IF Suits(patterns[n], root)
             THEN /\ phase' = "call"
                  /\ call' = [NoCall EXCEPT !.at = 1, !.held = ir.arg[root],
                                            !.home = <<BlockOf(ir, root)>>]
             ELSE UNCHANGED <<phase, call>>
          /\ point' = IF greedy THEN point ELSE [block |-> BlockOf(ir, root), before |-> root]
          /\ UNCHANGED <<pass, origin, ir, work, log, changed, round, result>>
      BY <1>5, <2>1, Zenon DEF Match
    <2>3. n \in DOMAIN patterns
      <3>1. Untried \in SUBSET Nat
        BY DEF Untried, Playing, Typed, IsPass, patterns
      <3>2. \E m \in Untried : \A k \in Untried : m <= k
        BY <1>5, <3>1, Least
      <3>3. n \in Untried
        BY <2>1, <3>2 DEF Min
      <3> QED
        BY <3>3 DEF Untried
    <2>4. root \in Live(ir)
      BY <1>2, <1>5 DEF Live
    <2>5. PICK b \in ToSet(ir.region) : b = BlockOf(ir, root)
      BY <1>1, <2>4, OneHome
    <2>6. /\ point' \in PointsOf(ToSet(ir.region))
          /\ IF greedy THEN point' = point ELSE SoundIn(ir, point')
      <3>1. point \in PointsOf(ToSet(ir.region))
        BY <1>1 DEF Placing
      <3>2. /\ [block |-> BlockOf(ir, root), before |-> root] \in PointsOf(ToSet(ir.region))
            /\ SoundIn(ir, [block |-> BlockOf(ir, root), before |-> root])
        BY <1>1, <2>4, HomePoint
      <3> QED
        BY <2>2, <3>1, <3>2
    <2>7. Invoked(n)
      BY <1>1, <2>2, <2>3, <2>4, <2>5, <2>6 DEF Invoked, Steady
    <2> QED
      BY <2>7
  <1> QED
    BY <1>3, <1>4, <1>5

(* The answer of the function.                                              *)
Followed ==
    /\ ~greedy /\ root \in Replaced /\ script.answer = "True" /\ phase' = "legalize" /\ call' = NoCall
    /\ frames' = [frames EXCEPT ![Len(frames)].todo = CreatedSince(frame.mark)]
    /\ Steady /\ UNCHANGED <<ir, point, work, log, changed, result>>

Applauded ==
    /\ greedy /\ script.answer = "True" /\ changed' = TRUE /\ frames' = <<>> /\ phase' = "pop"
    /\ call' = NoCall /\ Steady /\ UNCHANGED <<ir, point, work, log, result>>

Declined ==
    /\ greedy /\ script.answer # "True" /\ phase' = "match" /\ call' = NoCall
    /\ Steady /\ UNCHANGED <<ir, point, frames, work, log, changed, result>>

Discarded(n, j) ==
    /\ script.answer # "True" /\ n = frame.mark /\ GaveUp(n, j)
    /\ phase' = "match" /\ call' = NoCall /\ frames' = frames /\ result' = result

LEMMA AnswerDoes ==
    ASSUME Playing, Answer
    PROVE  /\ phase = "call" /\ call.at > Len(script.calls)
           /\ \/ phase' = "raised" /\ Steady /\ UNCHANGED <<ir, point, frames, work, log, changed, result>>
              \/ ~greedy /\ script.answer = "True" /\ root \notin Replaced /\ Fault("kept")
              \/ Followed \/ Applauded \/ Declined
              \/ \E n \in 0 .. Len(log) :
                    /\ ~greedy /\ script.answer # "True" /\ n = frame.mark /\ ~Undoable(n) /\ Fault("undo")
              \/ \E n, j : Discarded(n, j)
  <1>1. phase = "call" /\ call.at > Len(script.calls)
    BY DEF Answer
  <1>2. CASE script.answer = "raises"
    <2>1. /\ phase' = "raised"
          /\ UNCHANGED <<pass, origin, ir, point, frames, work, log, changed, round, result>>
      BY <1>2 DEF Answer
    <2> QED
      BY <1>1, <2>1 DEF Steady
  <1>3. CASE script.answer = "True"
    <2>0. script.answer # "raises" /\ Succeeded(script)
      BY <1>3 DEF Succeeded
    <2>1. CASE greedy
      <3>1. /\ changed' = TRUE /\ frames' = <<>> /\ phase' = "pop" /\ call' = NoCall
            /\ UNCHANGED <<pass, origin, ir, point, work, log, round, result>>
        BY <2>0, <2>1, Zenon DEF Answer
      <3> QED
        BY <1>1, <1>3, <2>1, <3>1 DEF Applauded, Steady
    <2>2. CASE ~greedy /\ root \notin Replaced
      <3>1. Fault("kept")
        BY <2>0, <2>2, Zenon DEF Answer
      <3> QED
        BY <1>1, <1>3, <2>2, <3>1
    <2>3. CASE ~greedy /\ root \in Replaced
      <3>1. /\ frames' = [frames EXCEPT ![Len(frames)].todo = CreatedSince(frame.mark)]
            /\ phase' = "legalize" /\ call' = NoCall
            /\ UNCHANGED <<pass, origin, ir, point, work, log, changed, round, result>>
        BY <2>0, <2>3, Zenon DEF Answer
      <3> QED
        BY <1>1, <1>3, <2>3, <3>1 DEF Followed, Steady
    <2> QED
      BY <2>1, <2>2, <2>3
  <1>4. CASE script.answer # "raises" /\ script.answer # "True"
    <2>0. ~Succeeded(script)
      BY <1>4 DEF Succeeded
    <2>1. CASE greedy
      <3>1. /\ phase' = "match" /\ call' = NoCall
            /\ UNCHANGED <<pass, origin, ir, point, frames, work, log, changed, round, result>>
        BY <1>4, <2>0, <2>1, Zenon DEF Answer
      <3> QED
        BY <1>1, <1>4, <2>1, <3>1 DEF Declined, Steady
    <2>2. CASE ~greedy
      <3>1. PICK n \in 0 .. Len(log) : n = frame.mark
        BY <1>1, <2>2, MatchTyped
      <3>2. GiveUp(n, /\ phase' = "match" /\ call' = NoCall
                      /\ UNCHANGED <<pass, origin, point, frames, work, changed, round, result>>)
        BY <1>4, <2>0, <2>2, <3>1, Zenon DEF Answer
      <3>3. CASE ~Undoable(n)
        <4>1. Fault("undo")
          BY <3>2, <3>3 DEF GiveUp
        <4> QED
          BY <1>1, <1>4, <2>2, <3>1, <3>3, <4>1
      <3>4. CASE Undoable(n)
        <4>1. /\ ir' = Undone(n) /\ log' = SubSeq(log, 1, n) /\ phase' = "match" /\ call' = NoCall
              /\ UNCHANGED <<pass, origin, point, frames, work, changed, round, result>>
          BY <3>2, <3>4, Zenon DEF GiveUp
        <4>2. PICK j : GaveUp(n, j)
          BY <2>2, <3>4, <4>1, GiveUpDoes
        <4>3. Discarded(n, j)
          BY <1>4, <3>1, <4>1, <4>2 DEF Discarded
        <4> QED
          BY <1>1, <4>3
      <3> QED
        BY <3>3, <3>4
    <2> QED
      BY <2>1, <2>2
  <1> QED
    BY <1>2, <1>3, <1>4

(***************************************************************************)
(* Every operation keeps its one place, whatever the functions do.         *)
(***************************************************************************)
Phases == {"start", "pop", "legalize", "match", "call", "cut"} \cup Ended

Founded ==
    /\ IsPass(pass) /\ origin \in Programs /\ point \in Points /\ work \in Seq(Ops)
    /\ changed \in BOOLEAN /\ round \in 0 .. MaxIterations - 1 /\ phase \in Phases

PlaceInv ==
    /\ Founded /\ Placed(ir)
    /\ phase = "pop" => greedy
    /\ greedy \/ phase # "done" => Seated(ir)
    /\ Underway => Placing(ToSet(ir.region), point, call, phase)

LEMMA PlaceGoes ==
    ASSUME PlaceInv, pass' = pass, origin' = origin, round' \in 0 .. MaxIterations - 1,
           changed' \in BOOLEAN, work' \in Seq(Ops), phase' \in Phases,
           phase' = "pop" => greedy, NEW i, ir' = i, Seated(i), point' \in PointsOf(ToSet(i.region)),
           phase' \in {"start", "pop", "legalize", "match", "call"} =>
              Placing(ToSet(i.region), point', call', phase')
    PROVE  PlaceInv'
  <1>1. Placed(i)
    BY SeatedPlaced
  <1>2. point' \in Points
    BY DEF PointsOf
  <1>3. Founded'
    BY <1>2 DEF PlaceInv, Founded
  <1>4. Placed(ir)' /\ Seated(ir)' /\ ToSet(ir.region)' = ToSet(i.region) /\ greedy' = greedy
    BY <1>1 DEF Placed, Seated, Filed, Live, InOrder, greedy
  <1> QED
    BY <1>3, <1>4 DEF PlaceInv, Underway

LEMMA PlaceStays ==
    ASSUME PlaceInv, Playing, Steady, changed' \in BOOLEAN, work' \in Seq(Ops), phase' \in Phases,
           phase' = "pop" => greedy, ir' = ir, point' = point,
           \/ call' = call /\ phase' # "call"
           \/ call' = NoCall /\ phase' # "call"
           \/ phase' \notin {"start", "pop", "legalize", "match", "call"}
    PROVE  PlaceInv'
  <1>1. PICK i : i = ir
    OBVIOUS
  <1>2. Seated(i) /\ Placing(ToSet(i.region), point, call, phase)
    BY <1>1 DEF Playing
  <1>3. point' \in PointsOf(ToSet(i.region))
    BY <1>2 DEF Placing
  <1>4. phase' \in {"start", "pop", "legalize", "match", "call"} =>
           Placing(ToSet(i.region), point', call', phase')
    <2>1. CASE call' = call /\ phase' # "call"
      BY <1>2, <2>1 DEF Placing
    <2>2. CASE call' = NoCall /\ phase' # "call"
      BY <1>3, <2>2, PlacingIdle
    <2> QED
      BY <2>1, <2>2
  <1>5. round' \in 0 .. MaxIterations - 1
    BY DEF Steady, PlaceInv, Founded
  <1> QED
    BY <1>1, <1>2, <1>3, <1>4, <1>5, PlaceGoes DEF Steady

LEMMA PlaceFaults ==
    ASSUME PlaceInv, Playing, NEW what, Fault(what)
    PROVE  PlaceInv'
  <1>1. /\ phase' = "fault" /\ ir' = ir /\ pass' = pass /\ origin' = origin /\ point' = point
        /\ work' = work /\ changed' = changed /\ round' = round
    BY DEF Fault, Stop
  <1>2. changed \in BOOLEAN /\ work \in Seq(Ops)
    BY DEF PlaceInv, Founded
  <1>3. phase' \in Phases /\ phase' # "pop"
    BY <1>1 DEF Phases, Ended
  <1> QED
    BY <1>1, <1>2, <1>3, PlaceStays DEF Steady

LEMMA PlaceDrives ==
    ASSUME PlaceInv, Playing, Walk \/ Iterate \/ Collect \/ Legalize \/ Legalized
    PROVE  PlaceInv'
  <1>1. changed \in BOOLEAN /\ work \in Seq(Ops) /\ Seated(ir)
    BY DEF PlaceInv, Founded, Playing
  <1>2. CASE Walk
    <2>1. work' = InOrder(ir) /\ InOrder(ir) \in Seq(Ops) /\ phase' \in Phases
      BY <1>1, <1>2, SeatedPlaced DEF Walk, Phases
    <2> QED
      BY <1>2, <2>1, PlaceStays DEF Walk, Steady
  <1>3. CASE Iterate
    <2>1. CASE changed /\ round + 1 < MaxIterations
      <3>1. /\ round' = round + 1 /\ phase' = "start"
            /\ UNCHANGED <<pass, origin, ir, point, frames, call, work, log, changed, result>>
        BY <1>3, <2>1 DEF Iterate
      <3>2. round' \in 0 .. MaxIterations - 1 /\ phase' \in Phases
        BY <2>1, <3>1, RewritingAssumption DEF PlaceInv, Founded, Phases
      <3>3. PICK i : i = ir
        OBVIOUS
      <3>4. Placing(ToSet(i.region), point, call, phase) /\ phase = "pop"
        BY <1>3, <3>3 DEF Playing, Iterate
      <3>5. point' \in PointsOf(ToSet(i.region)) /\ Placing(ToSet(i.region), point', call', phase')
        BY <3>1, <3>4 DEF Placing
      <3> QED
        BY <1>1, <3>1, <3>2, <3>3, <3>5, PlaceGoes
    <2>2. CASE ~(changed /\ round + 1 < MaxIterations)
      <3>1. phase' = "done" /\ Steady /\ changed' = changed /\ work' = work /\ ir' = ir /\ point' = point
        BY <1>3, <2>2 DEF Iterate, Stop, Steady
      <3> QED
        BY <1>1, <3>1, PlaceStays DEF Phases, Ended
    <2> QED
      BY <2>1, <2>2
  <1>4. CASE Collect
    <2>1. /\ phase' = "legalize" /\ ir' = ir /\ point' = point /\ call' = call /\ work' = work
          /\ changed' = changed /\ Steady
      BY <1>4 DEF Collect, Steady
    <2> QED
      BY <1>1, <2>1, PlaceStays DEF Phases
  <1>5. ASSUME NEW fs, NEW ph \in {"legalize", "match"}, Relisted(fs, ph) PROVE PlaceInv'
    BY <1>1, <1>5, PlaceStays DEF Phases, Relisted
  <1>6. CASE Legalize
    BY <1>5, <1>6, LegalizeDoes, PlaceFaults
  <1>7. CASE Legalized
    <2>1. CASE Closed
      <3>1. Live(Applied) = Live(Rid(ir, Replaced)) /\ InOrder(Applied) = InOrder(Rid(ir, Replaced))
            /\ Applied.body = Rid(ir, Replaced).body
        BY <1>1, IrFields DEF Applied, Rid, Live, InOrder, Seated, Filed
      <3>2. Placed(Rid(ir, Replaced))
        BY <1>1, RidSeated, SeatedPlaced DEF RidTo
      <3>3. PICK i, j : i = Applied /\ j = Rid(ir, Replaced)
        OBVIOUS
      <3>4. Placed(i)
        BY <3>1, <3>2, <3>3 DEF Placed
      <3>5. ir' = i /\ phase' = "done" /\ Steady /\ ~greedy /\ changed' = changed /\ work' = work /\ point' = point
        BY <2>1, <3>3 DEF Closed
      <3>6. Placed(ir)' /\ ~greedy'
        BY <3>4, <3>5 DEF Placed, Live, InOrder, greedy, Steady
      <3>7. Founded'
        BY <3>5 DEF PlaceInv, Founded, Phases, Ended, Steady
      <3> QED
        BY <3>5, <3>6, <3>7 DEF PlaceInv, Underway
    <2> QED
      BY <1>5, <1>7, <2>1, LegalizedDoes, PlaceFaults
  <1> QED
    BY <1>2, <1>3, <1>4, <1>6, <1>7

LEMMA PlacePops ==
    ASSUME PlaceInv, Playing, Pop
    PROVE  PlaceInv'
  <1>1. changed \in BOOLEAN /\ work \in Seq(Ops) /\ Seated(ir) /\ ir \in Irs
    BY DEF PlaceInv, Founded, Playing, Seated, Filed
  <1>2. ASSUME NEW o, NEW j, Swept(o, j) PROVE PlaceInv'
    <2>1. work # <<>>
      BY DEF Pop
    <2>2. o \in Ops /\ work' \in Seq(Ops)
      BY <1>1, <1>2, <2>1, LastOut, WorkTyped DEF Swept
    <2>3. Seated(j) /\ j.region = ir.region /\ phase = "pop"
      BY <1>2 DEF Swept, RidTo, Pop
    <2>4. Placing(ToSet(ir.region), point, call, phase)
      BY DEF Playing
    <2>5. Placing(ToSet(j.region), point', call', phase') /\ point' \in PointsOf(ToSet(j.region))
      BY <1>2, <2>3, <2>4 DEF Placing, Swept
    <2>6. round' \in 0 .. MaxIterations - 1 /\ phase' \in Phases /\ greedy
      BY <1>2 DEF Swept, Steady, PlaceInv, Founded, Phases
    <2> QED
      BY <1>2, <2>2, <2>3, <2>5, <2>6, PlaceGoes DEF Swept, Steady
  <1>3. ASSUME NEW o, Begun(o) PROVE PlaceInv'
    <2>1. work # <<>>
      BY DEF Pop
    <2>2. work' \in Seq(Ops)
      BY <1>1, <1>3, <2>1, LastOut DEF Begun
    <2>3. PICK i : i = ir
      OBVIOUS
    <2>4. Placing(ToSet(ir.region), point, call, phase)
      BY DEF Playing
    <2>5. Placing(ToSet(i.region), point', call', phase') /\ point' \in PointsOf(ToSet(i.region)) /\ ir' = i
      BY <1>3, <2>3, <2>4 DEF Placing, Begun
    <2>6. round' \in 0 .. MaxIterations - 1 /\ phase' \in Phases /\ greedy /\ changed' \in BOOLEAN
      BY <1>1, <1>3 DEF Begun, Steady, PlaceInv, Founded, Phases
    <2> QED
      BY <1>1, <1>3, <2>2, <2>3, <2>5, <2>6, PlaceGoes DEF Begun, Steady
  <1> QED
    BY <1>2, <1>3, PopDoes, PlaceFaults

LEMMA PlaceUndoes ==
    ASSUME PlaceInv, Playing, NEW n, NEW j, GaveUp(n, j), phase' \in {"done", "match"},
           phase' = "match" => call' \in {call, NoCall}
    PROVE  PlaceInv'
  <1>1. Seated(j) /\ j.region = ir.region /\ ir' = j /\ point' = point /\ Steady
    BY DEF GaveUp, RidTo
  <1>2. Placing(ToSet(ir.region), point, call, phase)
    BY DEF Playing
  <1>3. point' \in PointsOf(ToSet(j.region))
    BY <1>1, <1>2 DEF Placing
  <1>4. phase' = "match" => Placing(ToSet(j.region), point', call', phase')
    BY <1>1, <1>2, <1>3, PlacingIdle DEF Placing
  <1>5. changed' \in BOOLEAN /\ work' \in Seq(Ops) /\ round' \in 0 .. MaxIterations - 1 /\ phase' \in Phases
    BY DEF GaveUp, Steady, PlaceInv, Founded, Phases, Ended
  <1> QED
    BY <1>1, <1>3, <1>4, <1>5, PlaceGoes DEF Steady

LEMMA PlaceMatches ==
    ASSUME PlaceInv, Playing, Match
    PROVE  PlaceInv'
  <1>1. changed \in BOOLEAN /\ work \in Seq(Ops) /\ Seated(ir) /\ phase = "match"
    BY DEF PlaceInv, Founded, Playing, Match
  <1>2. CASE ~greedy /\ Unconverted
    <2>1. ASSUME Lost PROVE PlaceInv'
      BY <2>1, PlaceUndoes DEF Lost
    <2>2. ASSUME Relisted(Advanced, "legalize") PROVE PlaceInv'
      BY <1>1, <2>2, PlaceStays DEF Relisted, Phases
    <2> QED
      BY <1>1, <1>2, <2>1, <2>2, UnconvertedDoes, PlaceFaults
  <1>3. CASE Passed
    BY <1>1, <1>3, PlaceStays DEF Passed, Phases
  <1>4. ASSUME NEW n, Invoked(n) PROVE PlaceInv'
    <2>1. PICK i : i = ir
      OBVIOUS
    <2>2. Placing(ToSet(i.region), point, call, phase) /\ point' \in PointsOf(ToSet(i.region)) /\ ir' = i
      BY <1>4, <2>1 DEF Playing, Invoked
    <2>3. Placing(ToSet(i.region), point', call', phase')
      <3>1. CASE phase' = "match" /\ call' = call
        BY <2>2, <3>1 DEF Placing
      <3>2. CASE phase' = "call" /\ \E b \in ToSet(i.region) :
                   call' = [NoCall EXCEPT !.at = 1, !.held = ir.arg[root], !.home = <<b>>]
        <4>1. PICK b \in ToSet(i.region) :
                     call' = [NoCall EXCEPT !.at = 1, !.held = ir.arg[root], !.home = <<b>>]
          BY <3>2
        <4>2. Placing(ToSet(i.region), point', [NoCall EXCEPT !.at = 1, !.held = ir.arg[root], !.home = <<b>>], phase')
          BY <2>2, PlacingBegins
        <4> QED
          BY <4>1, <4>2
      <3> QED
        BY <1>4, <2>1, <3>1, <3>2 DEF Invoked
    <2>4. changed' \in BOOLEAN /\ work' \in Seq(Ops) /\ round' \in 0 .. MaxIterations - 1 /\ phase' \in Phases
          /\ phase' # "pop"
      BY <1>1, <1>4 DEF Invoked, Steady, PlaceInv, Founded, Phases
    <2> QED
      BY <1>1, <1>4, <2>1, <2>2, <2>3, <2>4, PlaceGoes DEF Invoked, Steady
  <1> QED
    BY <1>2, <1>3, <1>4, MatchDoes, PlaceFaults

LEMMA PlaceAnswers ==
    ASSUME PlaceInv, Playing, Answer
    PROVE  PlaceInv'
  <1>1. changed \in BOOLEAN /\ work \in Seq(Ops)
    BY DEF PlaceInv, Founded
  <1>2. CASE phase' = "raised" /\ Steady /\ UNCHANGED <<ir, point, frames, work, log, changed, result>>
    BY <1>1, <1>2, PlaceStays DEF Phases, Ended
  <1>3. CASE Followed \/ Applauded \/ Declined
    BY <1>1, <1>3, PlaceStays DEF Phases, Followed, Applauded, Declined
  <1>4. ASSUME NEW n, NEW j, Discarded(n, j) PROVE PlaceInv'
    BY <1>4, PlaceUndoes DEF Discarded
  <1> QED
    BY <1>2, <1>3, <1>4, AnswerDoes, PlaceFaults

(* A call goes on to the next.                                              *)
LEMMA PlaceCalls ==
    ASSUME PlaceInv, Playing, phase = "call", NEW made, NEW saved, Continued(made, saved), work' \in Seq(Ops),
           NEW i, ir' = i, Seated(i), ToSet(ir.region) \subseteq ToSet(i.region),
           point' \in PointsOf(ToSet(i.region)), saved \in Seq(PointsOf(ToSet(i.region)))
    PROVE  PlaceInv'
  <1>1. Placing(ToSet(ir.region), point, call, phase)
    BY DEF Playing
  <1>2. Placing(ToSet(i.region), point', call', phase')
    BY <1>1 DEF Placing, Continued
  <1>3. /\ changed' \in BOOLEAN /\ round' \in 0 .. MaxIterations - 1 /\ phase' \in Phases /\ phase' # "pop"
        /\ pass' = pass /\ origin' = origin
    BY DEF Continued, PlaceInv, Founded, Phases
  <1> QED
    BY <1>2, <1>3, PlaceGoes

LEMMA PlaceKeeps ==
    ASSUME PlaceInv, Playing, phase = "call", NEW made, Continued(made, call.saved), work' \in Seq(Ops),
           NEW i, ir' = i, Seated(i), ToSet(ir.region) \subseteq ToSet(i.region), point' = point
    PROVE  PlaceInv'
  <1>1. PICK r : r = ToSet(ir.region)
    OBVIOUS
  <1>2. point \in PointsOf(r) /\ call.saved \in Seq(PointsOf(r)) /\ r \subseteq ToSet(i.region)
    BY <1>1 DEF Playing, Placing
  <1>3. PointsOf(r) \subseteq PointsOf(ToSet(i.region))
    BY <1>2 DEF PointsOf
  <1>4. \A A, B : A \subseteq B => Seq(A) \subseteq Seq(B)
    OBVIOUS
  <1>5. point' \in PointsOf(ToSet(i.region)) /\ call.saved \in Seq(PointsOf(ToSet(i.region)))
    BY <1>2, <1>3, <1>4
  <1> QED
    BY <1>5, PlaceCalls

LEMMA PlaceInserts ==
    ASSUME PlaceInv, Playing, Create \/ Push
    PROVE  PlaceInv'
  <1>1. phase = "call" /\ work \in Seq(Ops)
    BY DEF Create, Push, Calling, PlaceInv, Founded
  <1>2. ASSUME NEW o, NEW k, NEW j, Created(o, k, j) PROVE PlaceInv'
    <2>1. Seated(j) /\ j.region = ir.region /\ ir' = j
      BY <1>2 DEF Created, GrownAt
    <2>2. work' \in Seq(Ops)
      BY <1>1, <1>2, WorkTyped DEF Created
    <2> QED
      BY <1>1, <1>2, <2>1, <2>2, PlaceKeeps DEF Created
  <1>3. ASSUME NEW o, NEW k, NEW b, NEW j, Pushed(o, k, b, j) PROVE PlaceInv'
    <2>1. Seated(j) /\ j.region = ir.region /\ ir' = j
      BY <1>3 DEF Pushed, GrownAt
    <2> QED
      BY <1>1, <1>3, <2>1, PlaceKeeps DEF Pushed
  <1> QED
    BY <1>2, <1>3, CreateDoes, PushDoes, PlaceFaults

LEMMA PlaceRetires ==
    ASSUME PlaceInv, Playing, phase = "call", NEW o, NEW by, Retired(o, by)
    PROVE  PlaceInv'
  <1>1. CASE greedy
    <2>1. PICK w, h, j : Taken(o, by, w, h, j)
      BY <1>1 DEF Retired
    <2>2. Seated(j) /\ j.region = ir.region /\ ir' = j /\ h \in Irs
      BY <2>1 DEF Taken, RidTo, ReroutedTo, Seated, Filed
    <2>3. work' \in Seq(Ops)
      BY <2>1, <2>2, WorkTyped DEF Taken, Live
    <2> QED
      BY <2>1, <2>2, <2>3, PlaceKeeps DEF Taken
  <1>2. CASE ~greedy
    <2>1. Noted(o, by) /\ work \in Seq(Ops)
      BY <1>2 DEF Retired, PlaceInv, Founded
    <2>2. PICK i : i = ir
      OBVIOUS
    <2>3. Seated(i) /\ ir' = i
      BY <2>1, <2>2 DEF Playing, Noted
    <2> QED
      BY <2>1, <2>2, <2>3, PlaceKeeps DEF Noted
  <1> QED
    BY <1>1, <1>2

LEMMA PlaceErases ==
    ASSUME PlaceInv, Playing, Replace \/ Erase \/ EraseDef \/ Unlink \/ SplitBlock
    PROVE  PlaceInv'
  <1>1. phase = "call" /\ work \in Seq(Ops) /\ Seated(ir)
    BY DEF Replace, Erase, EraseDef, Unlink, SplitBlock, Calling, PlaceInv, Founded, Playing
  <1>2. root \in Ops
    BY <1>1, MatchTyped
  <1>3. CASE Replace
    BY <1>1, <1>3, ReplaceDoes, PlaceRetires, PlaceFaults
  <1>4. CASE Erase
    <2>1. EraseOp(root)
      BY <1>4 DEF Erase
    <2> QED
      BY <1>1, <1>2, <2>1, EraseDoes, PlaceRetires, PlaceFaults
  <1>5. CASE EraseDef
    <2>1. ASSUME Continued(call.made, call.saved), UNCHANGED <<ir, point, work, log>> PROVE PlaceInv'
      <3>1. PICK i : i = ir
        OBVIOUS
      <3> QED
        BY <1>1, <2>1, <3>1, PlaceKeeps
    <2> QED
      BY <1>1, <1>5, <2>1, EraseDefDoes, PlaceRetires, PlaceFaults
  <1>6. CASE Unlink
    <2>1. ASSUME NEW j, Unlinked(j) PROVE PlaceInv'
      BY <1>1, <2>1, PlaceKeeps DEF Unlinked, RidTo
    <2> QED
      BY <1>6, <2>1, UnlinkDoes, PlaceFaults
  <1>7. CASE SplitBlock
    <2>1. ASSUME NEW new, NEW j, Parted(new, j) PROVE PlaceInv'
      BY <1>1, <2>1, PlaceKeeps DEF Parted, SplitTo
    <2> QED
      BY <1>7, <2>1, SplitDoes, PlaceFaults
  <1> QED
    BY <1>3, <1>4, <1>5, <1>6, <1>7

LEMMA PlaceMoves ==
    ASSUME PlaceInv, Playing, SetPoint \/ SavePoint \/ RestorePoint
    PROVE  PlaceInv'
  <1>1. phase = "call" /\ work \in Seq(Ops)
    BY DEF SetPoint, SavePoint, RestorePoint, Calling, PlaceInv, Founded
  <1>2. PICK i : i = ir
    OBVIOUS
  <1>3. Seated(i) /\ call.saved \in Seq(PointsOf(ToSet(i.region)))
    BY <1>2 DEF Playing, Placing
  <1>4. ASSUME NEW do, NEW p, Moved(do, p) PROVE PlaceInv'
    BY <1>1, <1>2, <1>3, <1>4, PlaceCalls DEF Moved
  <1>5. ASSUME NEW saved, NEW p, Recalled(saved, p) PROVE PlaceInv'
    BY <1>1, <1>2, <1>3, <1>5, PlaceCalls DEF Recalled
  <1> QED
    BY <1>4, <1>5, SetPointDoes, SavesDoes, PlaceFaults

LEMMA PlaceStarts ==
    ASSUME Init
    PROVE  PlaceInv
  <1>1. /\ IsPass(pass) /\ IsProgram(ir) /\ origin \in Programs
    BY RewritingAssumption DEF Init
  <1>2. Seated(ir) /\ Placed(ir) /\ ir.region # <<>> /\ ir.region \in Seq(Blocks)
    BY <1>1, ProgramSeated, ProgramFiled, SeatedPlaced
  <1>3. PICK r : r = ToSet(ir.region) /\ r \subseteq Blocks
    BY <1>2, RegionBlocks DEF Seated
  <1>4. \A s \in Seq(Blocks) : s # <<>> => s[1] \in ToSet(s)
    BY DEF ToSet
  <1>5. PICK b \in r : b = ir.region[1]
    BY <1>2, <1>3, <1>4
  <1>6. point \in PointsOf(r)
    BY <1>3, <1>5, PointIn DEF Init
  <1>7. Placing(r, point, call, phase)
    BY <1>6, PlacingIdle DEF Init
  <1>8. Founded
    <2>1. point \in Points
      BY <1>6 DEF PointsOf
    <2>2. round = 0 /\ MaxIterations \in Nat \ {0} /\ work = <<>> /\ changed = FALSE /\ phase = "start"
      BY RewritingAssumption DEF Init
    <2>3. round \in 0 .. MaxIterations - 1 /\ work \in Seq(Ops)
      BY <2>2
    <2> QED
      BY <1>1, <2>1, <2>2, <2>3 DEF Founded, Phases
  <1> QED
    BY <1>2, <1>3, <1>7, <1>8 DEF PlaceInv, Init

LEMMA PlaceStutters ==
    ASSUME PlaceInv, UNCHANGED vars
    PROVE  PlaceInv'
  <1>1. /\ pass' = pass /\ origin' = origin /\ ir' = ir /\ point' = point /\ work' = work /\ call' = call
        /\ changed' = changed /\ round' = round /\ phase' = phase
    BY DEF vars
  <1>2. Founded'
    BY <1>1 DEF PlaceInv, Founded
  <1>3. Placed(ir)' /\ (Seated(ir)' <=> Seated(ir)) /\ greedy' = greedy
    BY <1>1 DEF PlaceInv, Placed, Seated, Filed, Live, InOrder, greedy
  <1> QED
    BY <1>1, <1>2, <1>3 DEF PlaceInv, Underway

LEMMA Moving ==
    ASSUME Next, ~(UNCHANGED vars)
    PROVE  Underway
  BY DEF Next, Walk, Pop, Iterate, Collect, Legalize, Legalized, Match, Answer, Create, Push, Replace, Erase,
         EraseDef, Unlink, SplitBlock, SetPoint, SavePoint, RestorePoint, Exhausted, Finished, Calling, Underway

LEMMA PlaceInductive ==
    ASSUME ConversionInv, GreedyInv, PlaceInv, [Next]_vars
    PROVE  PlaceInv'
  <1>1. CASE UNCHANGED vars
    BY <1>1, PlaceStutters
  <1>2. CASE Next /\ ~(UNCHANGED vars)
    <2>1. Playing
      BY <1>2, Moving, Invited DEF PlaceInv, Underway
    <2>2. CASE Exhausted
      <3>1. phase' = "cut" /\ Steady /\ changed' = changed /\ work' = work /\ ir' = ir /\ point' = point
        BY <2>2 DEF Exhausted, Stop, Steady
      <3> QED
        BY <2>1, <3>1, PlaceStays DEF Phases, PlaceInv, Founded
    <2>3. ~Finished
      BY <1>2 DEF Finished
    <2> QED
      BY <1>2, <2>1, <2>2, <2>3, PlaceDrives, PlacePops, PlaceMatches, PlaceAnswers, PlaceInserts, PlaceErases,
         PlaceMoves DEF Next
  <1> QED
    BY <1>1, <1>2

LEMMA PlaceAlways == Spec => [](ConversionInv /\ GreedyInv /\ PlaceInv)
  <1>1. Init => ConversionInv /\ GreedyInv /\ PlaceInv
    BY ConversionStarts, GreedyStarts, PlaceStarts
  <1>2. ConversionInv /\ GreedyInv /\ PlaceInv /\ [Next]_vars => (ConversionInv /\ GreedyInv /\ PlaceInv)'
    BY ConversionInductive, GreedyInductive, PlaceInductive
  <1> QED
    BY <1>1, <1>2, PTL DEF Spec

(* Whatever the functions of the patterns do, through the builder or behind *)
(* it, every operation that was not erased is in one place of one block of  *)
(* the region, and nothing else is in a block.                              *)
THEOREM OperationsStayPlaced == Spec => []Placed(ir)
  <1>1. PlaceInv => Placed(ir)
    BY DEF PlaceInv
  <1> QED
    BY <1>1, PlaceAlways, PTL

(***************************************************************************)
(* What a function did so far, and what the discipline says of it.         *)
(***************************************************************************)
Over == {m \in DOMAIN script.calls : m < call.at}
Ran(dos) == \E m \in Over : script.calls[m].do \in dos

(* The calls that may take the insertion point away, and that one did after *)
(* the point was last set.                                                  *)
Upsets(c) == c.do \in Retires \cup {"split"} \/ (c.do = "eraseDef" /\ call.held # None)
Upset ==
    \E m \in Over : Upsets(script.calls[m]) /\ \A l \in Over : l > m => script.calls[l].do \notin Moves

(* A conversion erases only at its end. A function that erases its root     *)
(* behind its back does so before it is replaced, and the conversion comes  *)
(* to no end after that.                                                    *)
Harmed == ~greedy /\ phase \in {"match", "call"} /\ root \notin Live(ir)
Sane == IF greedy THEN All(Disciplined) ELSE ~Harmed

LEMMA Disciplines ==
    ASSUME Playing, phase = "call"
    PROVE  /\ All(Disciplined) => Disciplined(script)
           /\ Sane /\ greedy => Disciplined(script)
  <1>1. script = patterns[frame.tried] /\ frame.tried \in DOMAIN patterns
    BY CallFacts
  <1>2. All(Disciplined) => Disciplined(script)
    BY <1>1 DEF All
  <1> QED
    BY <1>2 DEF Sane

LEMMA RanBefore ==
    ASSUME Playing, phase = "call", NEW do, Calling(do), Orderly(script)
    PROVE  /\ do \in Retires \cup Inserts \cup {"before", "after", "split"} => ~Ran(Retires)
           /\ do \in Inserts \cup {"eraseDef", "replace"} => ~Ran({"eraseDef"})
           /\ do = "create" => ~Upset
           /\ Does(script, {"restore"}) =>
                 /\ do \notin Retires \cup {"eraseDef", "split"}
                 /\ ~Ran(Retires \cup {"eraseDef", "split"})
  <1>1. /\ script.calls \in Seq(Calls) /\ call.at \in DOMAIN script.calls /\ now = script.calls[call.at]
        /\ now.do = do /\ call.at \in Nat
    BY CallFacts
  <1>2. DOMAIN script.calls = 1 .. Len(script.calls) /\ Len(script.calls) \in Nat
    BY <1>1
  <1>3. \A m \in Over : m \in DOMAIN script.calls /\ m < call.at
    BY DEF Over
  <1>4. ASSUME do \in Retires \cup Inserts \cup {"before", "after", "split"}, Ran(Retires) PROVE FALSE
    <2>1. PICK m \in Over : script.calls[m].do \in Retires
      BY <1>4 DEF Ran
    <2>2. script.calls[call.at].do \notin Retires \cup Inserts \cup {"before", "after", "split"}
      BY <1>1, <1>3, <2>1 DEF Orderly
    <2> QED
      BY <1>1, <1>4, <2>2
  <1>5. ASSUME do \in Inserts \cup {"eraseDef", "replace"}, Ran({"eraseDef"}) PROVE FALSE
    <2>1. PICK m \in Over : script.calls[m].do = "eraseDef"
      BY <1>5 DEF Ran
    <2>2. script.calls[call.at].do \notin Inserts \cup {"eraseDef", "replace"}
      BY <1>1, <1>3, <2>1 DEF Orderly
    <2> QED
      BY <1>1, <1>5, <2>2
  <1>6. ASSUME do = "create", Upset PROVE FALSE
    <2>1. PICK m \in Over :
             Upsets(script.calls[m]) /\ \A l \in Over : l > m => script.calls[l].do \notin Moves
      BY <1>6 DEF Upset
    <2>2. script.calls[m].do \in Retires \cup {"eraseDef", "split"}
      BY <2>1 DEF Upsets
    <2>3. \E l \in m + 1 .. call.at - 1 : script.calls[l].do \in Moves
      BY <1>1, <1>3, <1>6, <2>1, <2>2 DEF Orderly
    <2>4. PICK l \in m + 1 .. call.at - 1 : script.calls[l].do \in Moves
      BY <2>3
    <2>5. l \in Over /\ l > m
      BY <1>1, <1>2, <1>3, <2>1 DEF Over
    <2> QED
      BY <2>1, <2>4, <2>5
  <1>7. ASSUME Does(script, {"restore"})
        PROVE  /\ do \notin Retires \cup {"eraseDef", "split"}
               /\ ~Ran(Retires \cup {"eraseDef", "split"})
    <2>1. ~Does(script, Retires \cup {"eraseDef", "split"})
      BY <1>7 DEF Orderly
    <2> QED
      BY <1>1, <1>3, <2>1 DEF Does, Ran
  <1> QED
    BY <1>4, <1>5, <1>6, <1>7

LEMMA RanNext ==
    ASSUME Playing, phase = "call", NEW do, Calling(do), NEW made, NEW saved, Continued(made, saved)
    PROVE  /\ script' = script /\ root' = root
           /\ \A dos : Ran(dos)' <=> Ran(dos) \/ do \in dos
           /\ do \notin Moves => (Upset' <=> Upset \/ Upsets(now))
  <1>1. /\ script.calls \in Seq(Calls) /\ call.at \in DOMAIN script.calls /\ now = script.calls[call.at]
        /\ now.do = do /\ call.at \in Nat \ {0}
    BY CallFacts
  <1>2. script' = script /\ root' = root /\ call'.at = call.at + 1 /\ call'.held = call.held
    BY DEF Continued, script, patterns, frame, root
  <1>3. Over' = Over \cup {call.at} /\ \A m \in Over : m < call.at
    BY <1>1, <1>2 DEF Over
  <1>4. \A dos : Ran(dos)' <=> Ran(dos) \/ do \in dos
    BY <1>1, <1>2, <1>3 DEF Ran
  <1>5. ASSUME do \notin Moves PROVE Upset' <=> Upset \/ Upsets(now)
    <2>1. \A c : Upsets(c)' <=> Upsets(c)
      BY <1>2 DEF Upsets
    <2>2. Upset' <=> \E m \in Over' :
             Upsets(script.calls[m]) /\ \A l \in Over' : l > m => script.calls[l].do \notin Moves
      BY <1>2, <2>1 DEF Upset
    <2>3. \A m \in Over : m \in Nat /\ call.at \in Nat
      BY <1>1 DEF Over
    <2>4. \A m \in Over' :
             (\A l \in Over' : l > m => script.calls[l].do \notin Moves)
             <=> (\A l \in Over : l > m => script.calls[l].do \notin Moves)
      BY <1>1, <1>3, <1>5
    <2>5. \A l \in Over : ~(l > call.at)
      BY <1>1, <1>3, <2>3
    <2> QED
      BY <1>1, <1>3, <2>2, <2>4, <2>5 DEF Upset
  <1> QED
    BY <1>2, <1>4, <1>5

LEMMA RanAtEnds ==
    ASSUME Playing, phase = "call"
    PROVE  call.at > Len(script.calls) => \A dos : Ran(dos) <=> Does(script, dos)
  <1>1. script.calls \in Seq(Calls) /\ call.at \in Nat \ {0}
    BY CallFacts
  <1>2. DOMAIN script.calls = 1 .. Len(script.calls) /\ Len(script.calls) \in Nat
    BY <1>1
  <1>3. call.at > Len(script.calls) => Over = DOMAIN script.calls
    BY <1>1, <1>2 DEF Over
  <1> QED
    BY <1>3 DEF Does, Ran

(***************************************************************************)
(* Every operand of an operation that was not erased was not erased        *)
(* either, and none is defined by what uses it: operations have ranks,     *)
(* lower than those of the operations that use them.  A pattern creates    *)
(* operations between the operand of its root and its root, so what a      *)
(* conversion replaces by them falls too.                                  *)
(***************************************************************************)
Defined(i) == \A o \in Live(i) : i.arg[o] \in Live(i) \cup {None}
Ranked(i, rk) ==
    rk \in [Ops -> Nat] /\ \A o \in Live(i) : i.arg[o] # None => rk[i.arg[o]] < rk[o]

Falls(l, rk) ==
    \A k \in 1 .. Len(l) :
        l[k].did = "replace" /\ l[k].by \notin {None, l[k].op} => rk[l[k].by] < rk[l[k].op]

(* What an entry names was there when it was written, and stays.            *)
Named(i, l, k) ==
    /\ l[k].op \in Live(i) /\ l[k].by \in Live(i) \cup {None}
    /\ \A n \in k .. Len(l) : l[k].op \notin MadeIn(l, n) /\ l[k].by \notin MadeIn(l, n)
Kept(i, l) == \A k \in 1 .. Len(l) : l[k].did = "replace" => Named(i, l, k)

RootStays == ~greedy \/ ~Ran(Retires)
HeldStays == ~greedy \/ ~Ran({"eraseDef"})

SafeCall(rk) ==
    phase = "call" =>
        /\ RootStays => root \in Live(ir) /\ ir.arg[root] = call.held
        /\ HeldStays => call.held \in Live(ir) \cup {None}
        /\ RootStays /\ HeldStays => \A o \in ToSet(call.made) : o \in Live(ir) /\ rk[o] < rk[root]
        /\ RootStays /\ ~HeldStays => call.held = None

Sorted(rk) == Ranked(ir, rk) /\ (~greedy => Falls(log, rk)) /\ SafeCall(rk)

SafeInv ==
    Sane /\ Underway =>
        /\ Defined(ir)
        /\ \E rk : Sorted(rk)
        /\ greedy => ToSet(work) \subseteq Live(ir) /\ (phase = "match" => root \in Live(ir))
        /\ ~greedy => Kept(ir, log)

HarmInv == Harmed /\ phase = "call" => root \notin GoneIn(log, Len(log)) /\ call.held # root

(* Room for the rank of an operation that is created.                       *)
Raised(rk, o, a) ==
    [x \in Ops |-> IF x # o THEN 2 * rk[x] + 1 ELSE IF a = None THEN 0 ELSE 2 * rk[a] + 2]

LEMMA RankGrows ==
    ASSUME NEW i, Defined(i), NEW rk, Ranked(i, rk), NEW o \in Ops \ Live(i), NEW k, NEW a \in Live(i) \cup {None},
           NEW b, NEW before, NEW j, GrownAt(i, o, k, a, b, before, j)
    PROVE  /\ Defined(j) /\ Ranked(j, Raised(rk, o, a))
           /\ \A x, y \in Ops \ {o} : rk[x] < rk[y] => Raised(rk, o, a)[x] < Raised(rk, o, a)[y]
           /\ \A y \in Ops \ {o} : a = None \/ rk[a] < rk[y] => Raised(rk, o, a)[o] < Raised(rk, o, a)[y]
  <1>1. PICK r : r = Raised(rk, o, a)
    OBVIOUS
  <1>2. rk \in [Ops -> Nat] /\ Live(i) \subseteq Ops /\ a \in Ops \cup {None}
    BY DEF Ranked, Live
  <1>3. \A x \in Ops : /\ rk[x] \in Nat
                       /\ r[x] = IF x # o THEN 2 * rk[x] + 1 ELSE IF a = None THEN 0 ELSE 2 * rk[a] + 2
    BY <1>1, <1>2 DEF Raised
  <1>4. a # None => a \in Ops /\ rk[a] \in Nat
    BY <1>2
  <1>5. r \in [Ops -> Nat]
    <2>1. \A x \in Ops : r[x] \in Nat
      BY <1>3, <1>4
    <2>2. r = [x \in Ops |-> r[x]]
      BY <1>1 DEF Raised
    <2> QED
      BY <2>1, <2>2
  <1>6. \A x, y \in Ops \ {o} : rk[x] < rk[y] => r[x] < r[y]
    BY <1>3
  <1>7. \A y \in Ops \ {o} : a = None \/ rk[a] < rk[y] => r[o] < r[y]
    BY <1>3, <1>4
  <1>8. Live(j) = Live(i) \cup {o} /\ \A x \in Ops : j.arg[x] = IF x = o THEN a ELSE i.arg[x]
    BY DEF GrownAt
  <1>9. Defined(j)
    BY <1>2, <1>8 DEF Defined
  <1>10. ASSUME NEW x \in Live(j), j.arg[x] # None PROVE r[j.arg[x]] < r[x]
    <2>1. CASE x = o
      <3>1. j.arg[x] = a /\ a \in Live(i) /\ a # o
        BY <1>2, <1>8, <1>10, <2>1
      <3> QED
        BY <1>2, <1>3, <1>4, <1>10, <2>1, <3>1
    <2>2. CASE x # o
      <3>1. x \in Live(i) /\ j.arg[x] = i.arg[x] /\ i.arg[x] \in Live(i)
        BY <1>2, <1>8, <1>10, <2>2 DEF Defined
      <3>2. rk[i.arg[x]] < rk[x]
        BY <1>10, <3>1 DEF Ranked
      <3> QED
        BY <1>2, <1>6, <2>2, <3>1, <3>2
    <2> QED
      BY <2>1, <2>2
  <1> QED
    BY <1>1, <1>5, <1>6, <1>7, <1>9, <1>10 DEF Ranked

LEMMA RankRid ==
    ASSUME NEW i, Defined(i), NEW gone, NEW j, RidTo(i, gone, j),
           \A u \in Live(i) \ gone : i.arg[u] \notin gone
    PROVE  Defined(j) /\ \A rk : Ranked(i, rk) => Ranked(j, rk)
  <1>1. Live(j) = Live(i) \ gone /\ \A x \in Live(j) : j.arg[x] = i.arg[x]
    BY DEF RidTo
  <1> QED
    BY <1>1 DEF Defined, Ranked

LEMMA RankErased ==
    ASSUME NEW i, Defined(i), NEW o, NEW j, RidTo(i, {o}, j), Users(i, o) = {}
    PROVE  Defined(j) /\ \A rk : Ranked(i, rk) => Ranked(j, rk)
  <1>1. \A u \in Live(i) \ {o} : i.arg[u] \notin {o}
    BY DEF Users
  <1> QED
    BY <1>1, RankRid

(* Users of the operation come to use another of a lower rank.              *)
LEMMA RankTaken ==
    ASSUME NEW i, Defined(i), NEW o \in Live(i), NEW by \in Live(i) \cup {None}, by = o => Users(i, o) = {},
           NEW h, ReroutedTo(i, o, by, h), NEW j, RidTo(h, {o}, j),
           NEW rk, Ranked(i, rk), by \notin {None, o} => rk[by] < rk[o]
    PROVE  Defined(j) /\ Ranked(j, rk)
  <1>1. Live(h) = Live(i) /\ \A u \in Ops : h.arg[u] = IF i.arg[u] = o THEN by ELSE i.arg[u]
    BY DEF ReroutedTo
  <1>2. \A x \in Live(i) : x \in Ops
    BY DEF Live
  <1>3. rk \in [Ops -> Nat]
    BY DEF Ranked
  <1>4. Defined(h) /\ \A u \in Live(h) \ {o} : h.arg[u] \notin {o}
    BY <1>1, <1>2 DEF Defined, Users
  <1>5. ASSUME NEW u \in Live(h), h.arg[u] # None PROVE rk[h.arg[u]] < rk[u]
    <2>1. u \in Live(i) /\ u \in Ops
      BY <1>1, <1>2
    <2>2. CASE i.arg[u] = o
      <3>1. by # o
        BY <2>1, <2>2 DEF Users
      <3>2. h.arg[u] = by /\ by \in Live(i) /\ rk[by] < rk[o] /\ rk[o] < rk[u]
        BY <1>1, <1>2, <1>5, <2>1, <2>2, <3>1, RewritingAssumption DEF Ranked, None
      <3> QED
        BY <1>2, <1>3, <2>1, <3>2
    <2>3. CASE i.arg[u] # o
      BY <1>1, <1>5, <2>1, <2>3 DEF Ranked
    <2> QED
      BY <2>2, <2>3
  <1>6. Ranked(h, rk)
    BY <1>3, <1>5 DEF Ranked
  <1> QED
    BY <1>4, <1>6, RankRid

LEMMA KeptCreate ==
    ASSUME log \in Seq(Entry), NEW i, Kept(i, log), NEW o \in Ops \ Live(i), NEW j, Live(j) = Live(i) \cup {o},
           NEW d, d = [did |-> "create", op |-> o], NEW l, l = Append(log, d)
    PROVE  Kept(j, l)
  <1>1. PICK e \in Entry : e = [did |-> "create", op |-> o] /\ e.did = "create" /\ e.op = o
    BY DEF Entry
  <1>2. /\ l \in Seq(Entry) /\ Len(l) = Len(log) + 1 /\ Len(log) \in Nat /\ l[Len(l)] = e
        /\ \A k \in 1 .. Len(log) : l[k] = log[k]
    BY <1>1
  <1>3. \A n \in 0 .. Len(log) : MadeIn(l, n) = MadeIn(log, n) \cup {o}
    BY <1>1, LogGrows
  <1>4. MadeIn(l, Len(l)) = {}
    BY <1>2 DEF MadeIn
  <1>5. ASSUME NEW k \in 1 .. Len(l), l[k].did = "replace"
        PROVE  k \in 1 .. Len(log) /\ l[k] = log[k] /\ Named(i, log, k)
    <2>1. k # Len(l)
      BY <1>1, <1>2, <1>5
    <2>2. k \in 1 .. Len(log)
      BY <1>2, <2>1
    <2> QED
      BY <1>2, <1>5, <2>2 DEF Kept
  <1>6. ASSUME NEW k \in 1 .. Len(l), l[k].did = "replace" PROVE Named(j, l, k)
    <2>1. k \in 1 .. Len(log) /\ l[k] = log[k] /\ Named(i, log, k)
      BY <1>5, <1>6
    <2>2. l[k].op # o /\ l[k].by # o
      BY <2>1, RewritingAssumption DEF Named, None
    <2>3. ASSUME NEW n \in k .. Len(l) PROVE l[k].op \notin MadeIn(l, n) /\ l[k].by \notin MadeIn(l, n)
      <3>1. CASE n = Len(l)
        BY <1>4, <3>1
      <3>2. CASE n # Len(l)
        <4>1. n \in k .. Len(log) /\ n \in 0 .. Len(log)
          BY <1>2, <3>2
        <4> QED
          BY <1>3, <2>1, <2>2, <4>1 DEF Named
      <3> QED
        BY <3>1, <3>2
    <2> QED
      BY <2>1, <2>3 DEF Named
  <1> QED
    BY <1>6 DEF Kept

LEMMA FallsCreate ==
    ASSUME log \in Seq(Entry), NEW i, Kept(i, log), NEW o, NEW d, d = [did |-> "create", op |-> o],
           NEW l, l = Append(log, d), NEW rk, Falls(log, rk),
           NEW r, \A x, y \in Live(i) : rk[x] < rk[y] => r[x] < r[y]
    PROVE  Falls(l, r)
  <1>1. /\ Len(l) = Len(log) + 1 /\ Len(log) \in Nat /\ l[Len(l)].did = "create"
        /\ \A k \in 1 .. Len(log) : l[k] = log[k]
    OBVIOUS
  <1>2. ASSUME NEW k \in 1 .. Len(l), l[k].did = "replace", l[k].by \notin {None, l[k].op}
        PROVE  r[l[k].by] < r[l[k].op]
    <2>1. k \in 1 .. Len(log) /\ l[k] = log[k]
      BY <1>1, <1>2
    <2>2. l[k].op \in Live(i) /\ l[k].by \in Live(i) /\ rk[l[k].by] < rk[l[k].op]
      BY <1>2, <2>1 DEF Kept, Named, Falls
    <2> QED
      BY <2>2
  <1> QED
    BY <1>2 DEF Falls

LEMMA KeptReplace ==
    ASSUME log \in Seq(Entry), NEW i, Kept(i, log), NEW o \in Live(i), NEW by \in Live(i) \cup {None},
           NEW d, d = [did |-> "replace", op |-> o, by |-> by], NEW l, l = Append(log, d)
    PROVE  Kept(i, l)
  <1>1. PICK e \in Entry :
           e = [did |-> "replace", op |-> o, by |-> by] /\ e.did = "replace" /\ e.op = o /\ e.by = by
    BY DEF Entry, Live
  <1>2. /\ l \in Seq(Entry) /\ Len(l) = Len(log) + 1 /\ Len(log) \in Nat /\ l[Len(l)] = e
        /\ \A k \in 1 .. Len(log) : l[k] = log[k]
    BY <1>1
  <1>3. \A n \in 0 .. Len(log) : MadeIn(l, n) = MadeIn(log, n)
    BY <1>1, LogGrows
  <1>4. MadeIn(l, Len(l)) = {}
    BY <1>2 DEF MadeIn
  <1>5. ASSUME NEW k \in 1 .. Len(l), l[k].did = "replace", k # Len(l)
        PROVE  k \in 1 .. Len(log) /\ l[k] = log[k] /\ Named(i, log, k)
    <2>1. k \in 1 .. Len(log)
      BY <1>2, <1>5
    <2> QED
      BY <1>2, <1>5, <2>1 DEF Kept
  <1>6. ASSUME NEW k \in 1 .. Len(l), l[k].did = "replace" PROVE Named(i, l, k)
    <2>1. CASE k = Len(l)
      <3>1. k .. Len(l) = {Len(l)}
        BY <1>2, <2>1
      <3> QED
        BY <1>1, <1>2, <1>4, <2>1, <3>1 DEF Named
    <2>2. CASE k # Len(l)
      <3>1. k \in 1 .. Len(log) /\ l[k] = log[k] /\ Named(i, log, k)
        BY <1>5, <1>6, <2>2
      <3>2. \A n \in k .. Len(l) : n = Len(l) \/ (n \in k .. Len(log) /\ n \in 0 .. Len(log))
        <4>1. PICK z \in Nat : z = Len(log) /\ Len(l) = z + 1
          BY <1>2
        <4>2. k \in 1 .. z
          BY <3>1, <4>1
        <4>3. \A n \in k .. z + 1 : n = z + 1 \/ (n \in k .. z /\ n \in 0 .. z)
          BY <4>1, <4>2
        <4> QED
          BY <4>1, <4>3
      <3> QED
        BY <1>3, <1>4, <3>1, <3>2 DEF Named
    <2> QED
      BY <2>1, <2>2
  <1> QED
    BY <1>6 DEF Kept

LEMMA FallsReplace ==
    ASSUME log \in Seq(Entry), NEW o, NEW by, NEW d, d = [did |-> "replace", op |-> o, by |-> by],
           NEW l, l = Append(log, d), NEW rk, Falls(log, rk), by \notin {None, o} => rk[by] < rk[o]
    PROVE  Falls(l, rk)
  <1>1. /\ Len(l) = Len(log) + 1 /\ Len(log) \in Nat /\ l[Len(l)].op = o /\ l[Len(l)].by = by
        /\ \A k \in 1 .. Len(log) : l[k] = log[k]
    OBVIOUS
  <1>2. ASSUME NEW k \in 1 .. Len(l), l[k].did = "replace", l[k].by \notin {None, l[k].op}
        PROVE  rk[l[k].by] < rk[l[k].op]
    <2>1. CASE k = Len(l)
      BY <1>1, <1>2, <2>1
    <2>2. CASE k # Len(l)
      <3>1. k \in 1 .. Len(log) /\ l[k] = log[k]
        BY <1>1, <2>2
      <3> QED
        BY <1>2, <3>1 DEF Falls
    <2> QED
      BY <2>1, <2>2
  <1> QED
    BY <1>2 DEF Falls

LEMMA LoggedCut ==
    ASSUME log \in Seq(Entry), NEW i, Kept(i, log), NEW n \in 0 .. Len(log), NEW j, Live(j) = Live(i) \ MadeIn(log, n),
           NEW l, l = SubSeq(log, 1, n)
    PROVE  Kept(j, l) /\ \A rk : Falls(log, rk) => Falls(l, rk)
  <1>1. l \in Seq(Entry) /\ Len(l) = n /\ Len(log) \in Nat /\ n \in Nat
    BY LogCut
  <1>2. \A k \in 1 .. n : l[k] = log[k] /\ k \in 1 .. Len(log)
    BY <1>1
  <1>3. \A m \in 0 .. n : MadeIn(l, m) \subseteq MadeIn(log, m)
    BY <1>1, LogCut
  <1>4. ASSUME NEW k \in 1 .. Len(l), l[k].did = "replace" PROVE Named(j, l, k)
    <2>1. k \in 1 .. n /\ l[k] = log[k] /\ Named(i, log, k)
      BY <1>1, <1>2, <1>4 DEF Kept
    <2>2. n \in k .. Len(log) /\ \A m \in k .. Len(l) : m \in 0 .. n /\ m \in k .. Len(log)
      BY <1>1, <2>1
    <2> QED
      BY <1>3, <2>1, <2>2 DEF Named
  <1> QED
    BY <1>1, <1>2, <1>4 DEF Kept, Falls

LEMMA SamePatterns ==
    ASSUME pass' = pass
    PROVE  /\ greedy' = greedy /\ patterns' = patterns
           /\ All(Disciplined)' <=> All(Disciplined)
  <1>1. greedy' = greedy /\ patterns' = patterns
    BY DEF greedy, patterns
  <1>2. \A p : Disciplined(p)' <=> Disciplined(p)
    BY <1>1 DEF Disciplined, Orderly, Does, Removes
  <1>3. All(Disciplined)' <=> All(Disciplined)
    BY <1>1, <1>2 DEF All
  <1> QED
    BY <1>1, <1>3

LEMMA SaneBefore ==
    ASSUME pass' = pass, Harmed => Harmed', Sane'
    PROVE  Sane
  BY SamePatterns DEF Sane

LEMMA SafeOver ==
    ASSUME phase' \notin {"start", "pop", "legalize", "match", "call"}
    PROVE  SafeInv'
  BY DEF SafeInv, Underway

LEMMA SafeFaults ==
    ASSUME NEW what, Fault(what)
    PROVE  SafeInv'
  BY SafeOver DEF Fault, Stop

LEMMA SafeNext ==
    ASSUME pass' = pass, Harmed => Harmed', NEW i, ir' = i, NEW l, log' = l,
           Sane => /\ Defined(i)
                   /\ \E rk : Ranked(i, rk) /\ (~greedy => Falls(l, rk)) /\ SafeCall(rk)'
                   /\ greedy => ToSet(work') \subseteq Live(i) /\ (phase' = "match" => root' \in Live(i))
                   /\ ~greedy => Kept(i, l)
    PROVE  SafeInv'
  <1>1. greedy' = greedy /\ (Sane' => Sane)
    BY SamePatterns, SaneBefore
  <1>2. CASE Sane
    <2>1. PICK rk : Ranked(i, rk) /\ (~greedy => Falls(l, rk)) /\ SafeCall(rk)'
      BY <1>2
    <2>2. Ranked(ir, rk)' /\ (~greedy => Falls(log, rk))'
      BY <1>1, <2>1 DEF Ranked, Live, Falls
    <2>3. Sorted(rk)'
      BY <2>1, <2>2 DEF Sorted
    <2>4. Defined(ir)' /\ (~greedy => Kept(ir, log))'
      BY <1>1, <1>2 DEF Defined, Live, Kept, Named
    <2>5. (greedy => ToSet(work) \subseteq Live(ir) /\ (phase = "match" => root \in Live(ir)))'
      BY <1>1, <1>2 DEF Live
    <2> QED
      BY <2>3, <2>4, <2>5 DEF SafeInv
  <1> QED
    BY <1>1, <1>2 DEF SafeInv

LEMMA SafeIdle ==
    ASSUME SafeInv, Playing, pass' = pass, Harmed => Harmed', ir' = ir, log' = log, phase' # "call",
           Sane /\ greedy => ToSet(work') \subseteq Live(ir) /\ (phase' = "match" => root' \in Live(ir))
    PROVE  SafeInv'
  <1>1. PICK i, l : i = ir /\ l = log
    OBVIOUS
  <1>2. ASSUME Sane
        PROVE  /\ Defined(i) /\ (~greedy => Kept(i, l))
               /\ \E rk : Ranked(i, rk) /\ (~greedy => Falls(l, rk)) /\ SafeCall(rk)'
    <2>1. PICK rk : Sorted(rk)
      BY <1>2 DEF SafeInv, Playing
    <2>2. SafeCall(rk)'
      BY DEF SafeCall
    <2> QED
      BY <1>1, <1>2, <2>1, <2>2 DEF SafeInv, Playing, Sorted
  <1> QED
    BY <1>1, <1>2, SafeNext

LEMMA SafeDrives ==
    ASSUME SafeInv, Playing, Walk \/ Iterate \/ Collect \/ Legalize \/ Legalized
    PROVE  SafeInv'
  <1>1. /\ Sane /\ greedy => ToSet(work) \subseteq Live(ir)
        /\ ~Harmed
    <2>1. phase \notin {"match", "call"}
      BY DEF Walk, Iterate, Collect, Legalize, Legalized
    <2> QED
      BY <2>1 DEF SafeInv, Playing, Harmed
  <1>2. CASE Walk
    <2>1. ToSet(InOrder(ir)) = Live(ir)
      BY SeatedPlaced DEF Playing
    <2> QED
      BY <1>1, <1>2, <2>1, SafeIdle DEF Walk
  <1>3. CASE Iterate
    <2>1. pass' = pass /\ ir' = ir /\ log' = log /\ work' = work /\ phase' \in {"start", "done"}
      BY <1>3 DEF Iterate, Stop
    <2> QED
      BY <1>1, <2>1, SafeIdle
  <1>4. CASE Collect
    <2>1. pass' = pass /\ ir' = ir /\ log' = log /\ work' = work /\ phase' = "legalize" /\ ~greedy
      BY <1>4 DEF Collect
    <2> QED
      BY <1>1, <2>1, SafeIdle
  <1>5. ASSUME NEW fs, NEW ph \in {"legalize", "match"}, Relisted(fs, ph), ~greedy PROVE SafeInv'
    BY <1>1, <1>5, SafeIdle DEF Relisted, Steady
  <1>6. CASE Legalize
    BY <1>5, <1>6, LegalizeDoes, SafeFaults
  <1>7. CASE Legalized
    <2>1. Closed => SafeInv'
      BY SafeOver DEF Closed
    <2> QED
      BY <1>5, <1>7, <2>1, LegalizedDoes, SafeFaults
  <1> QED
    BY <1>2, <1>3, <1>4, <1>6, <1>7

LEMMA SafePops ==
    ASSUME SafeInv, Playing, Pop
    PROVE  SafeInv'
  <1>1. /\ work \in Seq(Ops) /\ work # <<>> /\ greedy /\ phase = "pop" /\ Seated(ir) /\ ir \in Irs
        /\ ~Harmed
    BY DEF Pop, Playing, Paced, Seated, Filed, Harmed
  <1>2. Last(work) \in Ops /\ Front(work) \in Seq(Ops) /\ ToSet(work) = ToSet(Front(work)) \cup {Last(work)}
    BY <1>1, LastOut
  <1>3. Sane => Defined(ir) /\ ToSet(work) \subseteq Live(ir) /\ \E rk : Sorted(rk)
    BY <1>1 DEF SafeInv, Playing
  <1>4. ASSUME NEW o, NEW j, Swept(o, j) PROVE SafeInv'
    <2>1. /\ o = Last(work) /\ Users(ir, o) = {} /\ RidTo(ir, {o}, j) /\ ir' = j /\ pass' = pass /\ log' = log
          /\ work' = Dropped(Front(work), ir, o) /\ phase' = "pop" /\ o \in Live(ir)
      BY <1>4 DEF Swept, Steady
    <2>2. Live(j) = Live(ir) \ {o}
      BY <2>1 DEF RidTo
    <2>3. ASSUME Sane
          PROVE  /\ Defined(j) /\ ToSet(work') \subseteq Live(j)
                 /\ \E rk : Ranked(j, rk) /\ (~greedy => Falls(log, rk)) /\ SafeCall(rk)'
      <3>1. PICK rk : Sorted(rk)
        BY <1>3, <2>3
      <3>2. Defined(j) /\ Ranked(j, rk)
        BY <1>3, <2>1, <2>3, <3>1, RankErased DEF Sorted
      <3>3. SafeCall(rk)'
        BY <2>1 DEF SafeCall
      <3>4. ir.arg[o] \in Live(ir) \cup {None}
        BY <1>3, <2>1, <2>3 DEF Defined
      <3>5. ToSet(work') \subseteq (ToSet(Front(work)) \cup ({ir.arg[o]} \ {None})) \ {o}
        BY <1>1, <1>2, <2>1, WorkMembers
      <3> QED
        BY <1>1, <1>2, <1>3, <2>2, <2>3, <3>2, <3>3, <3>4, <3>5
    <2> QED
      BY <1>1, <2>1, <2>3, SafeNext
  <1>5. ASSUME NEW o, Begun(o) PROVE SafeInv'
    <2>1. /\ work' = Front(work) /\ frames' = <<Framed(o)>> /\ phase' = "match" /\ o \in Live(ir)
          /\ pass' = pass /\ ir' = ir /\ log' = log
      BY <1>5 DEF Begun, Steady
    <2>2. root' = o
      BY <2>1 DEF root, frame, Framed
    <2> QED
      BY <1>1, <1>2, <1>3, <2>1, <2>2, SafeIdle
  <1> QED
    BY <1>4, <1>5, PopDoes, SafeFaults

LEMMA SafeUndoes ==
    ASSUME SafeInv, Playing, NEW n, NEW j, GaveUp(n, j), phase' \in {"done", "match"}, Harmed => Harmed'
    PROVE  SafeInv'
  <1>1. /\ ~greedy /\ n \in 0 .. Len(log) /\ Undoable(n) /\ RidTo(ir, MadeIn(log, n), j) /\ ir' = j
        /\ log' = SubSeq(log, 1, n) /\ pass' = pass
    BY DEF GaveUp, Steady
  <1>2. log \in Seq(Entry) /\ Live(j) = Live(ir) \ MadeIn(log, n)
    BY <1>1 DEF Playing, Typed, RidTo
  <1>3. PICK l : l = SubSeq(log, 1, n)
    OBVIOUS
  <1>4. ASSUME Sane
        PROVE  /\ Defined(j) /\ Kept(j, l)
               /\ \E rk : Ranked(j, rk) /\ (~greedy => Falls(l, rk)) /\ SafeCall(rk)'
    <2>1. PICK rk : Sorted(rk)
      BY <1>4 DEF SafeInv, Playing
    <2>2. Defined(ir) /\ Kept(ir, log) /\ Ranked(ir, rk) /\ Falls(log, rk)
      BY <1>1, <1>4, <2>1 DEF SafeInv, Playing, Sorted
    <2>3. \A u \in Live(ir) \ MadeIn(log, n) : ir.arg[u] \notin MadeIn(log, n)
      BY <1>1, <1>2, LogReads DEF Undoable
    <2>4. Defined(j) /\ Ranked(j, rk)
      BY <1>1, <2>2, <2>3, RankRid
    <2>5. Kept(j, l) /\ Falls(l, rk)
      BY <1>1, <1>2, <1>3, <2>2, LoggedCut
    <2>6. SafeCall(rk)'
      BY DEF SafeCall
    <2> QED
      BY <2>4, <2>5, <2>6
  <1> QED
    BY <1>1, <1>3, <1>4, SafeNext

LEMMA CallBegins ==
    ASSUME Playing, phase = "match", NEW n, Invoked(n)
    PROVE  /\ root' = root /\ frames' \in Seq(Frame) /\ frame'.todo = frame.todo
           /\ phase' = "call" =>
                 /\ (\A dos : ~Ran(dos)') /\ ~Upset'
                 /\ call'.held = ir.arg[root] /\ call'.made = <<>> /\ call'.saved = <<>>
  <1>1. frames \in Seq(Frame) /\ frames # <<>> /\ n \in DOMAIN patterns /\ frames' = Retried(n) /\ pass' = pass
    BY MatchTyped DEF Invoked, Steady
  <1>2. n \in Nat /\ IsPattern(patterns[n])
    BY <1>1 DEF Playing, Typed, IsPass, patterns
  <1>3. PICK gs \in Seq(Frame) :
               /\ gs = [frames EXCEPT ![Len(frames)].tried = n]
               /\ Len(gs) = Len(frames) /\ gs[Len(frames)].op = frames[Len(frames)].op
               /\ gs[Len(frames)].tried = n /\ gs[Len(frames)].todo = frames[Len(frames)].todo
    BY <1>1, <1>2, FrameTried
  <1>4. frames' = gs
    BY <1>1, <1>3 DEF Retried
  <1>5. root' = root /\ frame'.tried = n /\ frame'.todo = frame.todo
    BY <1>3, <1>4 DEF root, frame
  <1>6. script' = patterns[n] /\ script'.calls \in Seq(Calls)
    BY <1>1, <1>2, <1>5 DEF script, patterns, IsPattern
  <1>7. ASSUME phase' = "call"
        PROVE  /\ (\A dos : ~Ran(dos)') /\ ~Upset'
               /\ call'.held = ir.arg[root] /\ call'.made = <<>> /\ call'.saved = <<>>
    <2>1. PICK b : call' = [NoCall EXCEPT !.at = 1, !.held = ir.arg[root], !.home = <<b>>]
      BY <1>7 DEF Invoked
    <2>2. call'.at = 1 /\ call'.held = ir.arg[root] /\ call'.made = <<>> /\ call'.saved = <<>>
      BY <2>1 DEF NoCall
    <2>3. Over' = {}
      BY <1>6, <2>2 DEF Over
    <2> QED
      BY <2>2, <2>3 DEF Ran, Upset
  <1> QED
    BY <1>3, <1>4, <1>5, <1>7

LEMMA SafeMatches ==
    ASSUME SafeInv, Playing, Match
    PROVE  SafeInv'
  <1>1. phase = "match" /\ frames \in Seq(Frame) /\ frames # <<>> /\ root \in Ops
    BY MatchTyped DEF Match
  <1>2. Sane /\ greedy => ToSet(work) \subseteq Live(ir)
    BY DEF SafeInv, Playing
  <1>0. CASE RootFreed
    <2>1. Fault("freed")
      BY <1>0 DEF Match, RootFreed
    <2> QED
      BY <2>1, SafeFaults
  <1>6. ~RootFreed => ~Harmed
    BY <1>1 DEF Harmed, RootFreed, Live
  <1>3. CASE ~RootFreed /\ ~greedy /\ Unconverted
    <2>1. ASSUME Lost PROVE SafeInv'
      BY <1>3, <1>6, <2>1, SafeUndoes DEF Lost
    <2>2. ASSUME Relisted(Advanced, "legalize") PROVE SafeInv'
      BY <1>3, <1>6, <2>2, SafeIdle DEF Relisted, Steady
    <2> QED
      BY <1>1, <1>3, <2>1, <2>2, UnconvertedDoes, SafeFaults
  <1>4. CASE ~RootFreed /\ Passed
    BY <1>2, <1>4, <1>6, SafeIdle DEF Passed, Steady
  <1>5. ASSUME ~RootFreed, NEW n, Invoked(n) PROVE SafeInv'
    <2>1. /\ root \in Live(ir) /\ n \in DOMAIN patterns /\ frames' = Retried(n)
          /\ pass' = pass /\ ir' = ir /\ work' = work /\ log' = log
      BY <1>5 DEF Invoked, Steady
    <2>3. root' = root
      BY <1>1, <1>5, CallBegins
    <2>4. CASE phase' = "match"
      BY <1>2, <1>5, <1>6, <2>1, <2>3, <2>4, SafeIdle
    <2>5. CASE phase' = "call"
      <3>2. call'.held = ir.arg[root] /\ call'.made = <<>> /\ \A dos : ~Ran(dos)'
        BY <1>1, <1>5, <2>5, CallBegins
      <3>3. PICK i, l : i = ir /\ l = log
        OBVIOUS
      <3>4. ASSUME Sane
            PROVE  /\ Defined(i) /\ (~greedy => Kept(i, l))
                   /\ \E rk : Ranked(i, rk) /\ (~greedy => Falls(l, rk)) /\ SafeCall(rk)'
        <4>1. PICK rk : Sorted(rk)
          BY <3>4 DEF SafeInv, Playing
        <4>2. Defined(ir)
          BY <3>4 DEF SafeInv, Playing
        <4>4. /\ root' \in Live(ir)' /\ ir.arg'[root'] = call'.held /\ call'.held \in Live(ir)' \cup {None}
              /\ ToSet(call'.made) = {}
          BY <2>1, <2>3, <3>2, <4>2 DEF Live, Defined, ToSet
        <4>5. RootStays' /\ HeldStays'
          BY <3>2 DEF RootStays, HeldStays
        <4>6. SafeCall(rk)'
          BY <4>4, <4>5 DEF SafeCall
        <4> QED
          BY <3>3, <3>4, <4>1, <4>2, <4>6 DEF SafeInv, Playing, Sorted
      <3> QED
        BY <1>2, <1>5, <1>6, <2>1, <2>5, <3>3, <3>4, SafeNext
    <2> QED
      BY <1>5, <2>4, <2>5 DEF Invoked
  <1> QED
    BY <1>0, <1>3, <1>4, <1>5, MatchDoes, SafeFaults

LEMMA SafeAnswers ==
    ASSUME SafeInv, HarmInv, Playing, Answer
    PROVE  SafeInv'
  <1>1. phase = "call" /\ call.at > Len(script.calls)
    BY DEF Answer
  <1>2. Sane /\ greedy => ToSet(work) \subseteq Live(ir)
    BY DEF SafeInv, Playing
  <1>3. CASE Followed
    <2>1. ~Harmed
      <3>1. log \in Seq(Entry) /\ Len(log) \in 0 .. Len(log)
        BY DEF Playing, Typed
      <3>2. root \in GoneIn(log, Len(log))
        BY <1>3, <3>1, LogReads DEF Followed
      <3> QED
        BY <1>1, <3>2 DEF HarmInv
    <2> QED
      BY <1>3, <2>1, SafeIdle DEF Followed, Steady
  <1>4. CASE Applauded
    <2>1. ~Harmed
      BY <1>4 DEF Applauded, Harmed
    <2> QED
      BY <1>2, <1>4, <2>1, SafeIdle DEF Applauded, Steady
  <1>5. CASE Declined
    <2>1. /\ greedy /\ script.answer # "True" /\ frames' = frames /\ phase' = "match" /\ pass' = pass
          /\ ir' = ir /\ log' = log /\ work' = work
      BY <1>5 DEF Declined, Steady
    <2>2. root' = root
      BY <2>1 DEF root, frame
    <2>3. ASSUME Sane PROVE root \in Live(ir)
      <3>1. ~Does(script, Retires)
        <4>1. ~Does(script, Retires \cup {"split"})
          BY <1>1, <2>1, <2>3, Disciplines DEF Disciplined
        <4> QED
          BY <4>1 DEF Does
      <3>2. ~Ran(Retires)
        BY <1>1, <3>1, RanAtEnds
      <3>3. PICK rk : SafeCall(rk)
        BY <2>3 DEF SafeInv, Playing, Sorted
      <3> QED
        BY <1>1, <3>2, <3>3 DEF SafeCall, RootStays
    <2>4. ~Harmed
      BY <2>1 DEF Harmed
    <2> QED
      BY <1>2, <2>1, <2>2, <2>3, <2>4, SafeIdle
  <1>6. ASSUME NEW n, NEW j, Discarded(n, j) PROVE SafeInv'
    <2>1. GaveUp(n, j) /\ phase' = "match" /\ frames' = frames /\ pass' = pass /\ ir' = j
          /\ Live(j) \subseteq Live(ir)
      BY <1>6 DEF Discarded, GaveUp, RidTo, Steady
    <2>2. root' = root /\ greedy' = greedy
      BY <2>1, SamePatterns DEF root, frame
    <2>3. Harmed => Harmed'
      BY <2>1, <2>2 DEF Harmed, Live
    <2> QED
      BY <2>1, <2>3, SafeUndoes
  <1> QED
    BY <1>3, <1>4, <1>5, <1>6, AnswerDoes, SafeFaults, SafeOver

(* What is to be shown of an action that goes on to the next call.          *)
RootLeft(do) == RootStays /\ (~greedy \/ do \notin Retires)
HeldLeft(do) == HeldStays /\ (~greedy \/ do # "eraseDef")
SafeAfter(i, rk, do, made) ==
    /\ RootLeft(do) => root \in Live(i) /\ i.arg[root] = call.held
    /\ HeldLeft(do) => call.held \in Live(i) \cup {None}
    /\ RootLeft(do) /\ HeldLeft(do) => \A o \in ToSet(made) : o \in Live(i) /\ rk[o] < rk[root]
    /\ RootLeft(do) /\ ~HeldLeft(do) => call.held = None

LEMMA SafeCalls ==
    ASSUME Playing, phase = "call", NEW do, Calling(do), NEW made, NEW saved, Continued(made, saved),
           NEW i, ir' = i, NEW l, log' = l, ~greedy /\ root \in Live(i) => root \in Live(ir),
           Sane => /\ Defined(i) /\ (greedy => ToSet(work') \subseteq Live(i)) /\ (~greedy => Kept(i, l))
                   /\ \E rk : Ranked(i, rk) /\ (~greedy => Falls(l, rk)) /\ SafeAfter(i, rk, do, made)
    PROVE  SafeInv'
  <1>1. /\ pass' = pass /\ phase' = "call" /\ call'.held = call.held /\ call'.made = made
        /\ root' = root /\ greedy' = greedy
    BY RanNext, SamePatterns DEF Continued
  <1>2. (RootStays' <=> RootLeft(do)) /\ (HeldStays' <=> HeldLeft(do))
    <2>1. (Ran(Retires)' <=> Ran(Retires) \/ do \in Retires)
          /\ (Ran({"eraseDef"})' <=> Ran({"eraseDef"}) \/ do \in {"eraseDef"})
      BY RanNext
    <2> QED
      BY <1>1, <2>1 DEF RootStays, HeldStays, RootLeft, HeldLeft
  <1>3. ASSUME NEW rk, SafeAfter(i, rk, do, made) PROVE SafeCall(rk)'
    <2>1. Live(ir)' = Live(i)
      BY DEF Live
    <2> QED
      BY <1>1, <1>2, <1>3, <2>1 DEF SafeAfter, SafeCall
  <1>4. Sane => /\ Defined(i) /\ (~greedy => Kept(i, l))
                /\ \E rk : Ranked(i, rk) /\ (~greedy => Falls(l, rk)) /\ SafeCall(rk)'
                /\ greedy => ToSet(work') \subseteq Live(i) /\ (phase' = "match" => root' \in Live(i))
    BY <1>1, <1>3
  <1>5. Harmed => Harmed'
    BY <1>1 DEF Harmed, Live
  <1> QED
    BY <1>1, <1>4, <1>5, SafeNext

(* The state before the call.                                               *)
LEMMA SafeBefore ==
    ASSUME SafeInv, Playing, phase = "call", Sane
    PROVE  /\ Defined(ir) /\ (greedy => ToSet(work) \subseteq Live(ir)) /\ (~greedy => Kept(ir, log))
           /\ \E rk : /\ Ranked(ir, rk) /\ (~greedy => Falls(log, rk)) /\ SafeCall(rk)
                      /\ \A do : do \notin Retires \cup {"eraseDef"} => SafeAfter(ir, rk, do, call.made)
  <1>1. PICK rk : Sorted(rk)
    BY DEF SafeInv, Playing
  <1>2. Defined(ir) /\ (greedy => ToSet(work) \subseteq Live(ir)) /\ (~greedy => Kept(ir, log))
    BY DEF SafeInv, Playing
  <1>3. SafeCall(rk)
    BY <1>1 DEF Sorted
  <1>4. ASSUME NEW do, do \notin Retires \cup {"eraseDef"} PROVE SafeAfter(ir, rk, do, call.made)
    BY <1>3, <1>4 DEF SafeCall, SafeAfter, RootLeft, HeldLeft
  <1> QED
    BY <1>1, <1>2, <1>3, <1>4 DEF Sorted

(* A call that changes neither operations nor log.                          *)
LEMMA SafeQuiet ==
    ASSUME SafeInv, Playing, phase = "call", NEW do, Calling(do), NEW saved, Continued(call.made, saved),
           NEW i, ir' = i, Live(i) = Live(ir), i.arg = ir.arg, log' = log, work' = work,
           do \notin Retires, do = "eraseDef" => call.held = None
    PROVE  SafeInv'
  <1>1. ASSUME Sane
        PROVE  /\ Defined(i) /\ (greedy => ToSet(work') \subseteq Live(i)) /\ (~greedy => Kept(i, log))
               /\ \E rk : Ranked(i, rk) /\ (~greedy => Falls(log, rk)) /\ SafeAfter(i, rk, do, call.made)
    <2>1. Defined(ir) /\ (greedy => ToSet(work) \subseteq Live(ir)) /\ (~greedy => Kept(ir, log))
      BY <1>1, SafeBefore
    <2>2. PICK rk : Ranked(ir, rk) /\ (~greedy => Falls(log, rk)) /\ SafeCall(rk)
      BY <1>1, SafeBefore
    <2>3. SafeAfter(i, rk, do, call.made)
      BY <2>2 DEF SafeCall, SafeAfter, RootLeft, HeldLeft
    <2>4. Defined(i) /\ Ranked(i, rk) /\ (~greedy => Kept(i, log))
      BY <2>1, <2>2 DEF Defined, Ranked, Kept, Named
    <2> QED
      BY <2>1, <2>2, <2>3, <2>4
  <1>2. PICK l : l = log
    OBVIOUS
  <1> QED
    BY <1>1, <1>2, SafeCalls

LEMMA ArgumentBelow ==
    ASSUME Playing, phase = "call", NEW rk, Ranked(ir, rk), SafeCall(rk), RootStays, HeldStays
    PROVE  /\ root \in Live(ir) /\ ir.arg[root] = call.held /\ root # None
           /\ Argument \in Live(ir) \cup {None} /\ Argument # root
           /\ Argument # None => rk[Argument] < rk[root]
           /\ call.held # None => rk[call.held] < rk[root]
  <1>1. /\ root \in Live(ir) /\ ir.arg[root] = call.held /\ call.held \in Live(ir) \cup {None}
        /\ \A o \in ToSet(call.made) : o \in Live(ir) /\ rk[o] < rk[root]
    BY DEF SafeCall
  <1>2. call.held # None => rk[call.held] < rk[root]
    BY <1>1 DEF Ranked
  <1>3. call.made \in Seq(Ops)
    BY CallFacts
  <1>4. call.made # <<>> => Last(call.made) \in ToSet(call.made)
    BY <1>3 DEF Last, ToSet
  <1>5. rk[root] \in Nat /\ root # None
    BY <1>1, RewritingAssumption DEF Ranked, Live, None
  <1>6. Argument \in Live(ir) \cup {None} /\ (Argument # None => rk[Argument] < rk[root])
    BY <1>1, <1>2, <1>4 DEF Argument
  <1>7. Argument # root
    BY <1>5, <1>6
  <1> QED
    BY <1>1, <1>2, <1>5, <1>6, <1>7

LEMMA NothingErased ==
    ASSUME Playing, phase = "call", Sane, NEW do, Calling(do)
    PROVE  /\ do \in Retires \cup Inserts \cup {"before", "after", "split"} => RootStays
           /\ do \in Inserts \cup {"eraseDef", "replace"} => HeldStays
           /\ greedy => do # "unlink"
  <1>1. greedy => do # "unlink"
    <2>1. greedy => Disciplined(script) /\ Does(script, {do})
      BY Disciplines, CallFacts
    <2> QED
      BY <2>1 DEF Disciplined
  <1>2. greedy => Orderly(script)
    BY Disciplines DEF Disciplined
  <1> QED
    BY <1>1, <1>2, RanBefore DEF RootStays, HeldStays

LEMMA SafeInserts ==
    ASSUME SafeInv, Playing, phase = "call", NEW do \in Inserts, Calling(do),
           NEW o \in Ops \ Live(ir), NEW k, NEW a \in {Argument, call.held}, NEW b, NEW before,
           NEW j, GrownAt(ir, o, k, a, b, before, j), ir' = j,
           NEW made \in {call.made, Append(call.made, o)}, Continued(made, call.saved),
           greedy => ToSet(work') \subseteq ToSet(work) \cup {o},
           log' = log \/ log' = Append(log, [did |-> "create", op |-> o]), ~RootFreed
    PROVE  SafeInv'
  <1>1. PICK l : l = log'
    OBVIOUS
  <1>2. Live(j) = Live(ir) \cup {o} /\ Live(ir) \subseteq Ops /\ log \in Seq(Entry) /\ call.made \in Seq(Ops)
        /\ \A x \in Ops : j.arg[x] = IF x = o THEN a ELSE ir.arg[x]
    BY CallFacts DEF GrownAt, Live, Playing, Typed
  <1>3. ToSet(made) \subseteq ToSet(call.made) \cup {o}
    BY <1>2, ToSetOfAppend
  <1>4. ASSUME Sane
        PROVE  /\ Defined(j) /\ (greedy => ToSet(work') \subseteq Live(j)) /\ (~greedy => Kept(j, l))
               /\ \E rk : Ranked(j, rk) /\ (~greedy => Falls(l, rk)) /\ SafeAfter(j, rk, do, made)
    <2>1. Defined(ir) /\ (greedy => ToSet(work) \subseteq Live(ir)) /\ (~greedy => Kept(ir, log))
      BY <1>4, SafeBefore
    <2>2. PICK rk : Ranked(ir, rk) /\ (~greedy => Falls(log, rk)) /\ SafeCall(rk)
      BY <1>4, SafeBefore
    <2>3. RootStays /\ HeldStays
      BY <1>4, NothingErased
    <2>4. /\ root \in Live(ir) /\ ir.arg[root] = call.held /\ call.held \in Live(ir) \cup {None}
          /\ a \in Live(ir) \cup {None} /\ (a # None => rk[a] < rk[root])
          /\ \A x \in ToSet(call.made) : x \in Live(ir) /\ rk[x] < rk[root]
      BY <2>2, <2>3, ArgumentBelow DEF SafeCall
    <2>5. PICK r : r = Raised(rk, o, a)
      OBVIOUS
    <2>6. /\ Defined(j) /\ Ranked(j, r)
          /\ \A x, y \in Ops \ {o} : rk[x] < rk[y] => r[x] < r[y]
          /\ \A y \in Ops \ {o} : a = None \/ rk[a] < rk[y] => r[o] < r[y]
      BY <2>1, <2>2, <2>4, <2>5, RankGrows
    <2>7. root \in Ops \ {o} /\ \A x \in Live(ir) : x \in Ops \ {o}
      BY <1>2, <2>4
    <2>8. \A x \in ToSet(made) : x \in Live(j) /\ r[x] < r[root]
      BY <1>2, <1>3, <2>4, <2>6, <2>7
    <2>9. SafeAfter(j, r, do, made)
      <3>1. root \in Live(j) /\ j.arg[root] = call.held /\ call.held \in Live(j) \cup {None}
        BY <1>2, <2>4, <2>7
      <3>2. HeldLeft(do)
        BY <2>3 DEF HeldLeft, Inserts
      <3> QED
        BY <2>8, <3>1, <3>2 DEF SafeAfter
    <2>10. ~greedy => Kept(j, l) /\ Falls(l, r)
      <3>1. CASE log' = log
        <4>1. ~greedy => Kept(j, log)
          BY <1>2, <2>1 DEF Kept, Named
        <4>2. ~greedy => Falls(log, r)
          BY <2>1, <2>2, <2>6, <2>7, RewritingAssumption DEF Kept, Named, Falls, None
        <4> QED
          BY <1>1, <3>1, <4>1, <4>2
      <3>2. CASE log' = Append(log, [did |-> "create", op |-> o])
        <4>1. \A x, y \in Live(ir) : rk[x] < rk[y] => r[x] < r[y]
          BY <2>6, <2>7
        <4>2. ASSUME ~greedy PROVE Kept(j, l) /\ Falls(l, r)
          <5>1. Kept(ir, log) /\ Falls(log, rk) /\ l = Append(log, [did |-> "create", op |-> o])
            BY <1>1, <2>1, <2>2, <3>2, <4>2
          <5>2. PICK i : i = ir /\ Kept(i, log) /\ Live(i) = Live(ir) /\ Live(j) = Live(i) \cup {o}
            BY <1>2, <5>1
          <5>3. Kept(j, l) /\ Falls(l, r)
            <6>1. /\ log \in Seq(Entry) /\ Kept(i, log) /\ o \in Ops \ Live(i) /\ Live(j) = Live(i) \cup {o}
              BY <1>2, <5>1, <5>2
            <6>2. PICK d : d = [did |-> "create", op |-> o] /\ l = Append(log, d)
              BY <5>1
            <6>3. Falls(log, rk) /\ \A x, y \in Live(i) : rk[x] < rk[y] => r[x] < r[y]
              BY <4>1, <5>1, <5>2
            <6>4. Kept(j, l)
              BY <6>1, <6>2, KeptCreate
            <6>5. Falls(l, r)
              BY <6>1, <6>2, <6>3, FallsCreate
            <6> QED
              BY <6>4, <6>5
          <5> QED
            BY <5>3
        <4> QED
          BY <4>2
      <3> QED
        BY <3>1, <3>2
    <2>11. greedy => ToSet(work') \subseteq Live(j)
      BY <1>2, <2>1
    <2> QED
      BY <2>6, <2>9, <2>10, <2>11
  <1>5. root \in Live(ir)
    BY MatchTyped DEF RootFreed, Live
  <1> QED
    BY <1>1, <1>4, <1>5, SafeCalls

LEMMA SafeCreates ==
    ASSUME SafeInv, Playing, Create \/ Push
    PROVE  SafeInv'
  <1>1. phase = "call" /\ (Create => Calling("create")) /\ (Push => Calling("append"))
    BY DEF Create, Push, Calling
  <1>2. greedy => work \in Seq(Ops)
    BY DEF Playing, Paced
  <1>3. ASSUME Create, NEW o, NEW k, NEW j, Created(o, k, j) PROVE SafeInv'
    <2>1. /\ o \in Ops \ Live(ir) /\ GrownAt(ir, o, k, Argument, point.block, point.before, j) /\ ir' = j
          /\ Continued(Append(call.made, o), call.saved)
          /\ work' = (IF greedy THEN Listed(work, o) ELSE work)
          /\ log' = (IF greedy THEN log ELSE Append(log, [did |-> "create", op |-> o])) /\ ~RootFreed
      BY <1>3 DEF Created
    <2>2. greedy => ToSet(work') \subseteq ToSet(work) \cup {o}
      BY <1>2, <2>1, WorkMembers
    <2>3. Calling("create") /\ "create" \in Inserts
      BY <1>1, <1>3 DEF Inserts
    <2> QED
      BY <1>1, <2>1, <2>2, <2>3, SafeInserts
  <1>4. ASSUME Push, NEW o, NEW k, NEW b, NEW j, Pushed(o, k, b, j) PROVE SafeInv'
    <2>1. /\ o \in Ops \ Live(ir) /\ GrownAt(ir, o, k, call.held, b, End, j) /\ ir' = j
          /\ Continued(call.made, call.saved) /\ work' = work /\ log' = log /\ ~RootFreed
      BY <1>4 DEF Pushed
    <2>2. Calling("append") /\ "append" \in Inserts
      BY <1>1, <1>4 DEF Inserts
    <2> QED
      BY <1>1, <2>1, <2>2, SafeInserts
  <1> QED
    BY <1>3, <1>4, CreateDoes, PushDoes, SafeFaults

(* An operation is erased, or will be, and another is used in its place.    *)
LEMMA SafeRetires ==
    ASSUME SafeInv, Playing, phase = "call", NEW do \in Retires \cup {"eraseDef"}, Calling(do),
           NEW o, NEW by, Retired(o, by), by \in Live(ir) \cup {None},
           by = o => (greedy => Users(ir, o) = {}),
           \/ do \in Retires /\ o = root
           \/ do = "eraseDef" /\ o = call.held /\ by = o /\ call.held # None /\ (greedy => Users(ir, o) = {}),
           \A rk : Ranked(ir, rk) /\ SafeCall(rk) /\ Sane /\ by \notin {None, o} => rk[by] < rk[o]
    PROVE  SafeInv'
  <1>1. CASE greedy
    <2>1. PICK w, h, j : Taken(o, by, w, h, j)
      BY <1>1 DEF Retired
    <2>2. /\ o \in Live(ir) /\ w \in Seq(Ops) /\ ToSet(w) \subseteq ToSet(work) \cup Live(ir)
          /\ ReroutedTo(ir, o, by, h) /\ RidTo(h, {o}, j) /\ ir' = j /\ log' = log
          /\ Continued(call.made, call.saved) /\ work' = Dropped(w, h, o)
      BY <2>1 DEF Taken
    <2>3. /\ Live(h) = Live(ir) /\ Live(j) = Live(ir) \ {o} /\ h \in Irs
          /\ \A u \in Ops : h.arg[u] = IF ir.arg[u] = o THEN by ELSE ir.arg[u]
          /\ \A u \in Live(j) : j.arg[u] = h.arg[u]
          /\ Live(ir) \subseteq Ops /\ o # None
      BY <2>2, RewritingAssumption DEF ReroutedTo, RidTo, Seated, Filed, Live, None
    <2>4. ASSUME Sane
          PROVE  /\ Defined(j) /\ ToSet(work') \subseteq Live(j)
                 /\ \E rk : Ranked(j, rk) /\ SafeAfter(j, rk, do, call.made)
      <3>1. Defined(ir) /\ ToSet(work) \subseteq Live(ir)
        BY <1>1, <2>4, SafeBefore
      <3>2. PICK rk : Ranked(ir, rk) /\ SafeCall(rk)
        BY <2>4, SafeBefore
      <3>3. /\ by \notin {None, o} => rk[by] < rk[o]
            /\ by = o => Users(ir, o) = {}
        BY <1>1, <2>4, <3>2
      <3>8. PICK i : i = ir
        OBVIOUS
      <3>9. Defined(j) /\ Ranked(j, rk)
        BY <2>2, <3>1, <3>2, <3>3, <3>8, RankTaken
      <3>4. h.arg[o] \in Live(ir) \cup {None}
        BY <2>2, <2>3, <3>1 DEF Defined
      <3>5. ToSet(work') \subseteq (ToSet(w) \cup ({h.arg[o]} \ {None})) \ {o}
        BY <2>2, <2>3, WorkMembers
      <3>6. ToSet(work') \subseteq Live(j)
        BY <2>2, <2>3, <3>1, <3>4, <3>5
      <3>7. SafeAfter(j, rk, do, call.made)
        <4>1. do # "unlink"
          BY <1>1, <2>4, NothingErased
        <4>2. CASE do \in Retires
          <5>1. ~RootLeft(do) /\ o = root /\ RootStays
            BY <1>1, <2>4, <4>2, NothingErased DEF RootLeft, Retires
          <5>2. HeldLeft(do) => call.held \in Live(j) \cup {None}
            <6>1. ASSUME HeldStays PROVE call.held # root /\ call.held \in Live(ir) \cup {None}
              <7>1. /\ call.held # None => rk[call.held] < rk[root]
                    /\ root \in Live(ir) /\ ir.arg[root] = call.held /\ root # None
                BY <3>2, <5>1, <6>1, ArgumentBelow
              <7>2. rk[root] \in Nat
                BY <2>3, <3>2, <7>1 DEF Ranked
              <7> QED
                BY <3>2, <6>1, <7>1, <7>2 DEF SafeCall
            <6> QED
              BY <2>3, <5>1, <6>1 DEF HeldLeft
          <5> QED
            BY <5>1, <5>2 DEF SafeAfter
        <4>3. CASE do = "eraseDef"
          <5>1. ~HeldLeft(do) /\ o = call.held /\ Users(ir, o) = {}
            BY <1>1, <4>3 DEF HeldLeft, Retires
          <5>2. ~RootStays
            <6>1. ASSUME RootStays PROVE root \in Live(ir) /\ ir.arg[root] = o
              BY <3>2, <5>1, <6>1 DEF SafeCall
            <6> QED
              BY <5>1, <6>1 DEF Users
          <5> QED
            BY <5>1, <5>2 DEF SafeAfter, RootLeft
        <4> QED
          BY <4>2, <4>3
      <3> QED
        BY <3>6, <3>7, <3>9
    <2> QED
      BY <1>1, <2>2, <2>4, SafeCalls
  <1>2. CASE ~greedy
    <2>1. /\ o \in Live(ir) /\ Continued(call.made, call.saved) /\ ir' = ir
          /\ log' = Append(log, [did |-> "replace", op |-> o, by |-> by])
      BY <1>2 DEF Retired, Noted
    <2>2. PICK i, d, l : i = ir /\ d = [did |-> "replace", op |-> o, by |-> by] /\ l = Append(log, d)
      OBVIOUS
    <2>3. ASSUME Sane
          PROVE  /\ Defined(i) /\ Kept(i, l)
                 /\ \E rk : Ranked(i, rk) /\ Falls(l, rk) /\ SafeAfter(i, rk, do, call.made)
      <3>1. Defined(ir) /\ Kept(ir, log)
        BY <1>2, <2>3, SafeBefore
      <3>2. PICK rk : Ranked(ir, rk) /\ SafeCall(rk) /\ Falls(log, rk)
        BY <1>2, <2>3, SafeBefore
      <3>3. log \in Seq(Entry)
        BY DEF Playing, Typed
      <3>4. Kept(i, l)
        BY <2>1, <2>2, <3>1, <3>3, KeptReplace
      <3>5. Falls(l, rk)
        BY <2>1, <2>2, <2>3, <3>1, <3>2, <3>3, FallsReplace
      <3>6. SafeAfter(i, rk, do, call.made)
        BY <1>2, <2>2, <3>2 DEF SafeCall, SafeAfter, RootLeft, HeldLeft, RootStays, HeldStays
      <3> QED
        BY <2>2, <3>1, <3>2, <3>4, <3>5, <3>6
    <2> QED
      BY <1>2, <2>1, <2>2, <2>3, SafeCalls
  <1> QED
    BY <1>1, <1>2

LEMMA Insane ==
    ASSUME pass' = pass, ~Sane, Harmed => Harmed'
    PROVE  SafeInv'
  BY SaneBefore DEF SafeInv

LEMMA RetiresGoOn ==
    ASSUME NEW o, NEW by, Retired(o, by)
    PROVE  Continued(call.made, call.saved) /\ pass' = pass /\ o \in Live(ir)
  <1>1. Continued(call.made, call.saved) /\ o \in Live(ir)
    BY DEF Retired, Taken, Noted
  <1> QED
    BY <1>1 DEF Continued

LEMMA SafeReplace ==
    ASSUME SafeInv, Playing, Replace
    PROVE  SafeInv'
  <1>1. phase = "call" /\ Calling("replace") /\ "replace" \in Retires
    BY DEF Replace, Calling, Retires
  <1>2. ASSUME root \in Live(ir), Argument \in Live(ir) \cup {None}, Retired(root, Argument)
        PROVE  SafeInv'
    <2>1. pass' = pass
      BY <1>2, RetiresGoOn
    <2>2. CASE Sane
      <3>1. RootStays /\ HeldStays
        BY <1>1, <2>2, NothingErased
      <3>2. PICK rk : Ranked(ir, rk) /\ SafeCall(rk)
        BY <1>1, <2>2, SafeBefore
      <3>3. Argument # root
        BY <1>1, <3>1, <3>2, ArgumentBelow
      <3>4. ASSUME NEW r, Ranked(ir, r), SafeCall(r), Argument # None PROVE r[Argument] < r[root]
        BY <1>1, <3>1, <3>4, ArgumentBelow
      <3> QED
        BY <1>1, <1>2, <3>3, <3>4, SafeRetires
    <2>3. ~Harmed
      BY <1>2 DEF Harmed
    <2> QED
      BY <2>1, <2>2, <2>3, Insane
  <1> QED
    BY <1>2, ReplaceDoes, SafeFaults

LEMMA SafeErases ==
    ASSUME SafeInv, Playing, Erase \/ EraseDef
    PROVE  SafeInv'
  <1>1. phase = "call" /\ (Erase => Calling("erase")) /\ (EraseDef => Calling("eraseDef")) /\ "erase" \in Retires
    BY DEF Erase, EraseDef, Calling, Retires
  <1>2. root \in Ops /\ None \notin Ops
    BY <1>1, MatchTyped, RewritingAssumption DEF None
  <1>3. CASE Erase
    <2>1. EraseOp(root) /\ Calling("erase")
      BY <1>1, <1>3 DEF Erase
    <2>2. ASSUME root \in Live(ir), greedy => Users(ir, root) = {}, Retired(root, root) PROVE SafeInv'
      BY <1>1, <1>2, <2>1, <2>2, SafeRetires
    <2> QED
      BY <1>1, <1>2, <2>1, <2>2, EraseDoes, SafeFaults
  <1>4. CASE EraseDef
    <2>1. Calling("eraseDef") /\ "eraseDef" \notin Retires
      BY <1>1, <1>4 DEF Retires
    <2>2. ASSUME call.held # None, call.held \in Live(ir), greedy => Users(ir, call.held) = {},
                 Retired(call.held, call.held)
          PROVE  SafeInv'
      BY <1>1, <2>1, <2>2, SafeRetires
    <2>3. ASSUME call.held = None, Continued(call.made, call.saved), UNCHANGED <<ir, point, work, log>>
          PROVE  SafeInv'
      <3>1. PICK i : i = ir
        OBVIOUS
      <3> QED
        BY <1>1, <2>1, <2>3, <3>1, SafeQuiet
    <2> QED
      BY <1>4, <2>2, <2>3, EraseDefDoes, SafeFaults
  <1> QED
    BY <1>3, <1>4

LEMMA SafeMoves ==
    ASSUME SafeInv, Playing, Unlink \/ SplitBlock \/ SetPoint \/ SavePoint \/ RestorePoint
    PROVE  SafeInv'
  <1>1. /\ phase = "call" /\ (Unlink => Calling("unlink")) /\ (SplitBlock => Calling("split"))
        /\ (SavePoint => Calling("save")) /\ (RestorePoint => Calling("restore"))
    BY DEF Unlink, SplitBlock, SetPoint, SavePoint, RestorePoint, Calling
  <1>2. CASE Unlink
    <2>1. ASSUME NEW j, Unlinked(j) PROVE SafeInv'
      <3>1. /\ pass' = pass /\ frames' = frames /\ phase' = "call" /\ ir' = j
            /\ Live(j) = Live(ir) \ {root} /\ root \in Live(ir)
        BY <2>1 DEF Unlinked, RidTo, Continued
      <3>2. root' = root /\ greedy' = greedy /\ Live(ir)' = Live(j)
        BY <3>1, SamePatterns DEF root, frame, Live
      <3>3. CASE greedy
        BY <1>1, <1>2, <3>1, <3>3, NothingErased, Insane DEF Harmed
      <3>4. CASE ~greedy
        <4>1. ~Sane'
          BY <3>1, <3>2, <3>4 DEF Sane, Harmed
        <4> QED
          BY <4>1 DEF SafeInv
      <3> QED
        BY <3>3, <3>4
    <2> QED
      BY <1>2, <2>1, UnlinkDoes, SafeFaults
  <1>3. CASE SplitBlock
    <2>1. Calling("split") /\ "split" \notin Retires
      BY <1>1, <1>3 DEF Retires
    <2>2. ASSUME NEW new, NEW j, Parted(new, j) PROVE SafeInv'
      <3>1. Live(j) = Live(ir) /\ j.arg = ir.arg /\ ir' = j /\ Continued(call.made, call.saved)
            /\ log' = log /\ work' = work
        BY <2>2 DEF Parted, SplitTo, Live
      <3> QED
        BY <1>1, <2>1, <3>1, SafeQuiet
    <2> QED
      BY <1>3, <2>2, SplitDoes, SafeFaults
  <1>4. PICK i : i = ir
    OBVIOUS
  <1>5. ASSUME NEW do, NEW p, Moved(do, p) PROVE SafeInv'
    <2>1. Calling(do) /\ do \notin Retires \cup {"eraseDef"} /\ Continued(call.made, call.saved)
          /\ ir' = ir /\ log' = log /\ work' = work
      BY <1>5 DEF Moved, Moves, Retires
    <2> QED
      BY <1>1, <1>4, <2>1, SafeQuiet
  <1>6. ASSUME NEW saved, NEW p, Recalled(saved, p), NEW do \in {"save", "restore"}, Calling(do) PROVE SafeInv'
    <2>1. do \notin Retires \cup {"eraseDef"} /\ Continued(call.made, saved) /\ ir' = ir /\ log' = log /\ work' = work
      BY <1>6 DEF Recalled, Retires
    <2> QED
      BY <1>1, <1>4, <1>6, <2>1, SafeQuiet
  <1> QED
    BY <1>1, <1>2, <1>3, <1>5, <1>6, SetPointDoes, SavesDoes, SafeFaults

LEMMA SafeStarts ==
    ASSUME Init
    PROVE  SafeInv
  <1>1. /\ ir \in Programs /\ frames = <<>> /\ work = <<>> /\ log = <<>> /\ phase = "start"
    BY DEF Init
  <1>2. Ordered(ir) /\ Seated(ir)
    BY <1>1, ProgramsVerified, ProgramSeated, RewritingAssumption
  <1>3. Defined(ir)
    BY <1>2 DEF Ordered, Defined
  <1>4. InOrder(ir) \in Seq(Ops) /\ ToSet(InOrder(ir)) = Live(ir)
    BY <1>2, SeatedPlaced, BodiesInOrder
  <1>5. PICK s \in Seq(Ops) : s = InOrder(ir)
    BY <1>4
  <1>6. ASSUME NEW o \in Live(ir) PROVE PlaceIn(s, o) \in Nat
    <2>1. \E n \in DOMAIN s : s[n] = o
      BY <1>4, <1>5 DEF ToSet
    <2> QED
      BY <2>1 DEF PlaceIn
  <1>7. PICK rk : rk = [o \in Ops |-> IF o \in Live(ir) THEN PlaceIn(s, o) ELSE 0]
    OBVIOUS
  <1>8. rk \in [Ops -> Nat] /\ Live(ir) \subseteq Ops /\ \A o \in Live(ir) : rk[o] = PlaceIn(s, o)
    BY <1>6, <1>7 DEF Live
  <1>9. Ranked(ir, rk)
    BY <1>2, <1>5, <1>8 DEF Ranked, Ordered
  <1>10. Falls(log, rk) /\ Kept(ir, log)
    BY <1>1 DEF Falls, Kept
  <1>11. SafeCall(rk) /\ ToSet(work) = {}
    BY <1>1 DEF SafeCall, ToSet
  <1> QED
    BY <1>1, <1>3, <1>9, <1>10, <1>11 DEF SafeInv, Sorted

LEMMA SafeStutters ==
    ASSUME SafeInv, UNCHANGED vars
    PROVE  SafeInv'
  <1>1. /\ pass' = pass /\ ir' = ir /\ frames' = frames /\ call' = call /\ work' = work /\ log' = log
        /\ phase' = phase
    BY DEF vars
  <1>2. greedy' = greedy /\ patterns' = patterns /\ (All(Disciplined)' <=> All(Disciplined))
    BY <1>1, SamePatterns
  <1>3. root' = root /\ script' = script
    BY <1>1, <1>2 DEF root, frame, script
  <1>4. (\A dos : Ran(dos)' <=> Ran(dos)) /\ Live(ir)' = Live(ir)
    BY <1>1, <1>3 DEF Ran, Over, Live
  <1>9. Sane' <=> Sane
    BY <1>1, <1>2, <1>3, <1>4 DEF Sane, Harmed
  <1>5. (RootStays' <=> RootStays) /\ (HeldStays' <=> HeldStays)
    BY <1>2, <1>4 DEF RootStays, HeldStays
  <1>6. \A rk : SafeCall(rk)' <=> SafeCall(rk)
    BY <1>1, <1>3, <1>4, <1>5 DEF SafeCall
  <1>7. (\E rk : Sorted(rk))' <=> (\E rk : Sorted(rk))
    BY <1>1, <1>2, <1>4, <1>6 DEF Sorted, Ranked, Falls
  <1>8. (Defined(ir)' <=> Defined(ir)) /\ (Kept(ir, log)' <=> Kept(ir, log))
    BY <1>1, <1>4 DEF Defined, Kept, Named
  <1> QED
    BY <1>1, <1>2, <1>3, <1>4, <1>7, <1>8, <1>9 DEF SafeInv, Underway

LEMMA SafeInductive ==
    ASSUME ConversionInv, GreedyInv, PlaceInv, SafeInv, HarmInv, [Next]_vars
    PROVE  SafeInv'
  <1>1. CASE UNCHANGED vars
    BY <1>1, SafeStutters
  <1>2. CASE Next /\ ~(UNCHANGED vars)
    <2>1. Playing
      BY <1>2, Moving, Invited DEF PlaceInv, Underway
    <2>2. CASE Exhausted
      BY <2>2, SafeOver DEF Exhausted, Stop
    <2>3. ~Finished
      BY <1>2 DEF Finished
    <2> QED
      BY <1>2, <2>1, <2>2, <2>3, SafeDrives, SafePops, SafeMatches, SafeAnswers, SafeCreates, SafeReplace,
         SafeErases, SafeMoves DEF Next
  <1> QED
    BY <1>1, <1>2

LEMMA HarmOver ==
    ASSUME phase' # "call"
    PROVE  HarmInv'
  BY DEF HarmInv

LEMMA HarmFaults ==
    ASSUME NEW what, Fault(what)
    PROVE  HarmInv'
  BY HarmOver DEF Fault, Stop

LEMMA GoneAppend ==
    ASSUME NEW l \in Seq(Entry), NEW e \in Entry
    PROVE  GoneIn(Append(l, e), Len(Append(l, e))) \subseteq GoneIn(l, Len(l)) \cup {e.op}
  <1>1. PICK m : m = Append(l, e)
    OBVIOUS
  <1>2. Len(m) = Len(l) + 1 /\ m[Len(l) + 1] = e /\ \A k \in 1 .. Len(l) : m[k] = l[k]
    BY <1>1
  <1>3. ASSUME NEW k \in 1 .. Len(m), m[k].did = "replace" PROVE m[k].op \in GoneIn(l, Len(l)) \cup {e.op}
    <2>1. Len(l) \in Nat
      OBVIOUS
    <2>2. CASE k \in 1 .. Len(l)
      BY <1>2, <1>3, <2>2 DEF GoneIn
    <2>3. CASE k = Len(l) + 1
      BY <1>2, <2>3
    <2> QED
      BY <1>2, <2>1, <2>2, <2>3
  <1> QED
    BY <1>1, <1>3 DEF GoneIn

(* A call goes on with the root there, or as it was gone before.            *)
LEMMA HarmCalls ==
    ASSUME HarmInv, phase = "call", NEW made, NEW saved, Continued(made, saved),
           NEW i, ir' = i, NEW l, log' = l, root \in Live(ir) => root \in Live(i),
           root \notin Live(ir) /\ call.held # root /\ root \in GoneIn(l, Len(l)) => root \in GoneIn(log, Len(log))
    PROVE  HarmInv'
  <1>1. /\ phase' = "call" /\ frames' = frames /\ pass' = pass /\ call'.held = call.held
    BY DEF Continued
  <1>2. root' = root /\ greedy' = greedy
    BY <1>1, SamePatterns DEF root, frame
  <1>3. Harmed' => Harmed
    BY <1>1, <1>2 DEF Harmed, Live
  <1>4. GoneIn(log, Len(log))' = GoneIn(l, Len(l))
    BY DEF GoneIn
  <1>5. Harmed => root \notin Live(ir)
    BY DEF Harmed
  <1> QED
    BY <1>1, <1>2, <1>3, <1>4, <1>5 DEF HarmInv

LEMMA HarmInserts ==
    ASSUME HarmInv, Playing, Create \/ Push
    PROVE  HarmInv'
  <1>1. phase = "call"
    BY DEF Create, Push, Calling
  <1>2. ~RootFreed => root \in Live(ir)
    BY <1>1, MatchTyped DEF RootFreed, Live
  <1>3. PICK l : l = log'
    OBVIOUS
  <1>4. ASSUME NEW o, NEW k, NEW j, Created(o, k, j) PROVE HarmInv'
    <2>1. ~RootFreed /\ Continued(Append(call.made, o), call.saved) /\ ir' = j /\ Live(j) = Live(ir) \cup {o}
      BY <1>4 DEF Created, GrownAt
    <2> QED
      BY <1>1, <1>2, <1>3, <2>1, HarmCalls
  <1>5. ASSUME NEW o, NEW k, NEW b, NEW j, Pushed(o, k, b, j) PROVE HarmInv'
    <2>1. ~RootFreed /\ Continued(call.made, call.saved) /\ ir' = j /\ Live(j) = Live(ir) \cup {o}
      BY <1>5 DEF Pushed, GrownAt
    <2> QED
      BY <1>1, <1>2, <1>3, <2>1, HarmCalls
  <1> QED
    BY <1>4, <1>5, CreateDoes, PushDoes, HarmFaults

LEMMA HarmRetires ==
    ASSUME HarmInv, Playing, phase = "call", NEW o, NEW by, Retired(o, by),
           o = root \/ o = call.held
    PROVE  HarmInv'
  <1>1. CASE greedy
    <2>1. greedy'
      BY <1>1, RetiresGoOn, SamePatterns
    <2> QED
      BY <2>1 DEF HarmInv, Harmed
  <1>2. CASE ~greedy
    <2>1. PICK i, l : i = ir' /\ l = log'
      OBVIOUS
    <2>2. /\ o \in Live(ir) /\ by \in Ops \cup {None} /\ i = ir /\ Continued(call.made, call.saved)
          /\ l = Append(log, [did |-> "replace", op |-> o, by |-> by])
      BY <1>2, <2>1 DEF Retired, Noted
    <2>3. PICK e \in Entry : e = [did |-> "replace", op |-> o, by |-> by] /\ e.op = o
      BY <2>2 DEF Entry, Live
    <2>4. log \in Seq(Entry) /\ l = Append(log, e)
      BY <2>2, <2>3 DEF Playing, Typed
    <2>5. GoneIn(l, Len(l)) \subseteq GoneIn(log, Len(log)) \cup {o}
      BY <2>3, <2>4, GoneAppend
    <2>6. root \notin Live(ir) /\ call.held # root /\ root \in GoneIn(l, Len(l)) => root \in GoneIn(log, Len(log))
      BY <2>2, <2>5
    <2> QED
      BY <2>1, <2>2, <2>6, HarmCalls
  <1> QED
    BY <1>1, <1>2

LEMMA HarmErases ==
    ASSUME HarmInv, Playing, Replace \/ Erase \/ EraseDef
    PROVE  HarmInv'
  <1>1. phase = "call" /\ (Erase => EraseOp(root))
    BY DEF Replace, Erase, EraseDef, Calling
  <1>2. root \in Ops
    BY <1>1, MatchTyped
  <1>3. \A by : (Retired(root, by) => HarmInv') /\ (Retired(call.held, by) => HarmInv')
    BY <1>1, HarmRetires
  <1>4. ASSUME Continued(call.made, call.saved), UNCHANGED <<ir, point, work, log>> PROVE HarmInv'
    <2>1. PICK i, l : i = ir' /\ l = log' /\ i = ir /\ l = log
      BY <1>4
    <2> QED
      BY <1>1, <1>4, <2>1, HarmCalls
  <1> QED
    BY <1>1, <1>2, <1>3, <1>4, ReplaceDoes, EraseDoes, EraseDefDoes, HarmFaults

LEMMA HarmMoves ==
    ASSUME SafeInv, HarmInv, Playing, Unlink \/ SplitBlock \/ SetPoint \/ SavePoint \/ RestorePoint
    PROVE  HarmInv'
  <1>1. phase = "call" /\ (Unlink => Calling("unlink"))
    BY DEF Unlink, SplitBlock, SetPoint, SavePoint, RestorePoint, Calling
  <1>2. PICK l : l = log'
    OBVIOUS
  <1>3. ASSUME NEW j, Unlinked(j) PROVE HarmInv'
    <2>1. /\ root \in Live(ir) /\ root \notin Replaced /\ frames' = frames /\ pass' = pass /\ log' = log
          /\ call'.held = call.held
      BY <1>3 DEF Unlinked, Continued
    <2>2. root' = root /\ greedy' = greedy
      BY <2>1, SamePatterns DEF root, frame
    <2>3. log \in Seq(Entry) /\ Len(log) \in 0 .. Len(log)
      BY DEF Playing, Typed
    <2>4. root \notin GoneIn(log, Len(log))
      BY <2>1, <2>3, LogReads
    <2>5. ASSUME ~greedy PROVE call.held # root
      <3>1. Sane /\ RootStays /\ HeldStays
        BY <2>1, <2>5 DEF Sane, Harmed, RootStays, HeldStays
      <3>2. PICK rk : Ranked(ir, rk) /\ SafeCall(rk)
        BY <1>1, <3>1, SafeBefore
      <3>3. call.held # None => rk[call.held] < rk[root]
        BY <1>1, <3>1, <3>2, ArgumentBelow
      <3>4. root # None /\ root \in Ops
        BY <2>1, RewritingAssumption DEF Live, None
      <3>5. rk[root] \in Nat
        BY <3>2, <3>4 DEF Ranked
      <3> QED
        BY <3>3, <3>4, <3>5
    <2>6. GoneIn(log, Len(log))' = GoneIn(log, Len(log))
      BY <2>1 DEF GoneIn
    <2> QED
      BY <2>1, <2>2, <2>4, <2>5, <2>6 DEF HarmInv, Harmed
  <1>4. ASSUME NEW new, NEW j, Parted(new, j) PROVE HarmInv'
    <2>1. Live(j) = Live(ir) /\ ir' = j /\ Continued(call.made, call.saved) /\ log' = log
      BY <1>4 DEF Parted, SplitTo, Live
    <2> QED
      BY <1>1, <1>2, <2>1, HarmCalls
  <1>5. ASSUME NEW made, NEW saved, Continued(made, saved), ir' = ir, log' = log PROVE HarmInv'
    <2>1. PICK i : i = ir
      OBVIOUS
    <2> QED
      BY <1>1, <1>2, <1>5, <2>1, HarmCalls
  <1>6. \A do, p : Moved(do, p) => HarmInv'
    BY <1>5 DEF Moved
  <1>7. \A saved, p : Recalled(saved, p) => HarmInv'
    BY <1>5 DEF Recalled
  <1> QED
    BY <1>3, <1>4, <1>6, <1>7, UnlinkDoes, SplitDoes, SetPointDoes, SavesDoes, HarmFaults

LEMMA HarmMatches ==
    ASSUME Playing, Match
    PROVE  HarmInv'
  <1>1. phase = "match"
    BY DEF Match
  <1>2. ASSUME NEW n, Invoked(n) PROVE HarmInv'
    <2>1. root \in Live(ir) /\ ir' = ir /\ root' = root
      BY <1>1, <1>2, CallBegins DEF Invoked
    <2>2. ~Harmed'
      BY <2>1 DEF Harmed, Live
    <2> QED
      BY <2>2 DEF HarmInv
  <1>3. (Lost => HarmInv') /\ (Relisted(Advanced, "legalize") => HarmInv') /\ (Passed => HarmInv')
    BY HarmOver DEF Lost, Relisted, Passed
  <1> QED
    BY <1>1, <1>2, <1>3, UnconvertedDoes, MatchDoes, HarmFaults

LEMMA HarmInductive ==
    ASSUME ConversionInv, GreedyInv, PlaceInv, SafeInv, HarmInv, [Next]_vars
    PROVE  HarmInv'
  <1>1. CASE UNCHANGED vars
    <2>1. /\ pass' = pass /\ phase' = phase /\ ir' = ir /\ frames' = frames /\ log' = log /\ call' = call
      BY <1>1 DEF vars
    <2>2. root' = root /\ greedy' = greedy
      BY <2>1, SamePatterns DEF root, frame
    <2> QED
      BY <2>1, <2>2 DEF HarmInv, Harmed, GoneIn, Live
  <1>2. CASE Next /\ ~(UNCHANGED vars)
    <2>1. Playing
      BY <1>2, Moving, Invited DEF PlaceInv, Underway
    <2>2. CASE Exhausted
      BY <2>2, HarmOver DEF Exhausted, Stop
    <2>3. ~Finished
      BY <1>2 DEF Finished
    <2>4. CASE Walk \/ Pop \/ Iterate \/ Collect \/ Legalize \/ Legalized
      BY <2>1, <2>4, HarmOver DEF Walk, Pop, Iterate, Collect, Legalize, Legalized, Fault, Stop
    <2>5. CASE Answer
      <3>1. /\ (Followed => HarmInv') /\ (Applauded => HarmInv') /\ (Declined => HarmInv')
            /\ (phase' = "raised" => HarmInv') /\ \A n, j : Discarded(n, j) => HarmInv'
        BY HarmOver DEF Followed, Applauded, Declined, Discarded
      <3> QED
        BY <2>1, <2>5, <3>1, AnswerDoes, HarmFaults
    <2> QED
      BY <1>2, <2>1, <2>2, <2>3, <2>4, <2>5, HarmMatches, HarmInserts, HarmErases, HarmMoves DEF Next
  <1> QED
    BY <1>1, <1>2

LEMMA SafeAlways == Spec => [](ConversionInv /\ GreedyInv /\ PlaceInv /\ SafeInv /\ HarmInv)
  <1>1. Init => SafeInv /\ HarmInv
    <2>1. Init => HarmInv
      BY DEF Init, HarmInv
    <2> QED
      BY <2>1, SafeStarts
  <1>2. ConversionInv /\ GreedyInv /\ PlaceInv /\ SafeInv /\ HarmInv /\ [Next]_vars => SafeInv' /\ HarmInv'
    BY SafeInductive, HarmInductive
  <1> QED
    BY <1>1, <1>2, PlaceAlways, PTL DEF Spec

(***************************************************************************)
(* With disciplined functions the builder inserts where its place is, and  *)
(* the log of a conversion can be taken back: what it says was created is  *)
(* there, is used by nothing that is older, and waits in no list of a      *)
(* frame that is older.                                                    *)
(***************************************************************************)
PointInv ==
    All(Disciplined) /\ Underway =>
        /\ phase = "call" =>
              /\ ~Upset => SoundIn(ir, point)
              /\ Does(script, {"restore"}) /\ call.saved # <<>> => SoundIn(ir, call.saved[1])
        /\ greedy /\ phase = "match" => SoundIn(ir, point)

Layered(i, l) ==
    /\ MadeOnce(l) /\ MadeIn(l, 0) \subseteq Live(i)
    /\ \A n \in 0 .. Len(l) : \A o \in Live(i) : i.arg[o] \in MadeIn(l, n) => o \in MadeIn(l, n)

Waiting(i, fs, l) ==
    /\ \A n \in 1 .. Len(fs) : ToSet(fs[n].todo) \subseteq Live(i)
    /\ \A n \in 1 .. Len(fs) : \A m \in 1 .. n - 1 : ToSet(fs[m].todo) \cap MadeIn(l, fs[n].mark) = {}

LogInv ==
    ~greedy /\ All(Disciplined) /\ Underway =>
        /\ Layered(ir, log) /\ Waiting(ir, frames, log)
        /\ phase \in {"match", "call"} => frame.todo = <<>>
        /\ phase = "call" /\ Ran(Retires) => root \in GoneIn(log, Len(log))

LEMMA UpsetRan ==
    ASSUME Upset
    PROVE  Ran(Retires \cup {"split"}) \/ (Ran({"eraseDef"}) /\ call.held # None)
  BY DEF Upset, Upsets, Ran

LEMMA PointOver ==
    ASSUME phase' \notin {"start", "pop", "legalize", "match", "call"}
    PROVE  PointInv'
  BY DEF PointInv, Underway

LEMMA PointFaults ==
    ASSUME NEW what, Fault(what)
    PROVE  PointInv'
  BY PointOver DEF Fault, Stop

LEMMA PointIdle ==
    ASSUME pass' = pass, phase' # "call", NEW i, ir' = i,
           All(Disciplined) /\ greedy /\ phase' = "match" => SoundIn(i, point')
    PROVE  PointInv'
  <1>1. greedy' = greedy /\ (All(Disciplined)' <=> All(Disciplined))
    BY SamePatterns
  <1>2. SoundIn(ir, point)' <=> SoundIn(i, point')
    BY DEF SoundIn
  <1> QED
    BY <1>1, <1>2 DEF PointInv

LEMMA PointCalls ==
    ASSUME Playing, phase = "call", NEW do, Calling(do), NEW made, NEW saved, Continued(made, saved),
           NEW i, ir' = i,
           All(Disciplined) => /\ ~Upset' => SoundIn(i, point')
                               /\ Does(script, {"restore"}) /\ saved # <<>> => SoundIn(i, saved[1])
    PROVE  PointInv'
  <1>1. phase' = "call" /\ pass' = pass /\ call'.saved = saved /\ script' = script
    BY RanNext DEF Continued
  <1>2. All(Disciplined)' <=> All(Disciplined)
    BY <1>1, SamePatterns
  <1>3. Does(script, {"restore"})' <=> Does(script, {"restore"})
    BY <1>1 DEF Does
  <1>4. /\ SoundIn(ir, point)' <=> SoundIn(i, point')
        /\ SoundIn(ir, call.saved[1])' <=> SoundIn(i, saved[1])
    BY <1>1 DEF SoundIn
  <1> QED
    BY <1>1, <1>2, <1>3, <1>4 DEF PointInv

(* A call that takes no operation out of its block.                         *)
LEMMA PointKeeps ==
    ASSUME PointInv, Playing, phase = "call", NEW do, Calling(do), do \notin Moves, NEW made, Continued(made, call.saved),
           NEW i, ir' = i, \A b \in Blocks : ToSet(ir.body[b]) \subseteq ToSet(i.body[b]), point' = point
    PROVE  PointInv'
  <1>1. PICK r : r = ToSet(ir.region) /\ r \subseteq Blocks
    BY RegionBlocks DEF Playing, Seated
  <1>2. point \in PointsOf(r) /\ call.saved \in Seq(PointsOf(r))
    BY <1>1 DEF Playing, Placing
  <1>3. \A p \in PointsOf(r) : SoundIn(ir, p) => SoundIn(i, p)
    BY <1>1 DEF PointsOf, SoundIn
  <1>4. call.saved # <<>> => call.saved[1] \in PointsOf(r)
    BY <1>2
  <1>5. ASSUME All(Disciplined)
        PROVE  /\ ~Upset' => SoundIn(i, point')
               /\ Does(script, {"restore"}) /\ call.saved # <<>> => SoundIn(i, call.saved[1])
    <2>1. Upset' <=> Upset \/ Upsets(now)
      BY RanNext
    <2>2. /\ ~Upset => SoundIn(ir, point)
          /\ Does(script, {"restore"}) /\ call.saved # <<>> => SoundIn(ir, call.saved[1])
      BY <1>5 DEF PointInv, Playing
    <2> QED
      BY <1>2, <1>3, <1>4, <2>1, <2>2
  <1> QED
    BY <1>5, PointCalls

(* One that may, and after which the place is set again.                    *)
LEMMA PointLost ==
    ASSUME Playing, phase = "call", NEW do, Calling(do), do \in Retires \cup {"eraseDef", "split"},
           do = "eraseDef" => call.held # None, NEW made, NEW saved, Continued(made, saved)
    PROVE  PointInv'
  <1>1. PICK i : i = ir'
    OBVIOUS
  <1>2. Upset'
    <2>1. do \notin Moves /\ now.do = do
      BY CallFacts DEF Moves, Retires
    <2>2. Upsets(now)
      BY <2>1 DEF Upsets
    <2> QED
      BY <2>1, <2>2, RanNext
  <1>3. All(Disciplined) => ~Does(script, {"restore"})
    <2>1. All(Disciplined) => Orderly(script)
      BY Disciplines DEF Disciplined
    <2> QED
      BY <2>1, RanBefore
  <1> QED
    BY <1>1, <1>2, <1>3, PointCalls

LEMMA PointInserts ==
    ASSUME PointInv, Playing, Create \/ Push
    PROVE  PointInv'
  <1>1. phase = "call" /\ (Create => Calling("create")) /\ (Push => Calling("append"))
        /\ "create" \notin Moves /\ "append" \notin Moves
    BY DEF Create, Push, Calling, Moves
  <1>2. ASSUME Create, NEW o, NEW k, NEW j, Created(o, k, j) PROVE PointInv'
    <2>1. /\ ir' = j /\ Continued(Append(call.made, o), call.saved) /\ point' = point
          /\ \A b \in Blocks : ToSet(ir.body[b]) \subseteq ToSet(j.body[b])
      BY <1>2 DEF Created, GrownAt
    <2> QED
      BY <1>1, <1>2, <2>1, PointKeeps
  <1>3. ASSUME Push, NEW o, NEW k, NEW b, NEW j, Pushed(o, k, b, j) PROVE PointInv'
    <2>1. /\ ir' = j /\ Continued(call.made, call.saved) /\ point' = point
          /\ \A c \in Blocks : ToSet(ir.body[c]) \subseteq ToSet(j.body[c])
      BY <1>3 DEF Pushed, GrownAt
    <2> QED
      BY <1>1, <1>3, <2>1, PointKeeps
  <1> QED
    BY <1>2, <1>3, CreateDoes, PushDoes, PointFaults

LEMMA PointRetires ==
    ASSUME PointInv, Playing, Replace \/ Erase \/ EraseDef \/ Unlink \/ SplitBlock
    PROVE  PointInv'
  <1>1. PICK do \in Retires \cup {"eraseDef", "split"} :
           /\ phase = "call" /\ Calling(do) /\ (Replace => do = "replace") /\ (Erase => do = "erase")
           /\ (EraseDef => do = "eraseDef") /\ (Unlink => do = "unlink") /\ (SplitBlock => do = "split")
    BY DEF Replace, Erase, EraseDef, Unlink, SplitBlock, Calling, Retires
  <1>2. root \in Ops /\ None \notin Ops
    BY <1>1, MatchTyped, RewritingAssumption DEF None
  <1>3. PICK i : i = ir
    OBVIOUS
  <1>4. ASSUME NEW o, NEW by, Retired(o, by), EraseDef => call.held # None PROVE PointInv'
    <2>1. Continued(call.made, call.saved)
      BY <1>4, RetiresGoOn
    <2>2. CASE EraseDef \/ do # "eraseDef"
      BY <1>1, <1>4, <2>1, <2>2, PointLost
    <2>3. CASE ~EraseDef /\ do = "eraseDef"
      BY <1>1, <2>3
    <2> QED
      BY <2>2, <2>3
  <1>5. CASE Replace
    BY <1>1, <1>4, <1>5, ReplaceDoes, PointFaults
  <1>6. CASE Erase
    <2>1. EraseOp(root)
      BY <1>6 DEF Erase
    <2> QED
      BY <1>1, <1>2, <1>4, <1>6, <2>1, EraseDoes, PointFaults
  <1>7. CASE EraseDef
    <2>1. ASSUME Continued(call.made, call.saved), UNCHANGED <<ir, point, work, log>> PROVE PointInv'
      <3>1. do \notin Moves
        BY <1>1 DEF Moves, Retires
      <3> QED
        BY <1>1, <1>3, <2>1, <3>1, PointKeeps
    <2> QED
      BY <1>4, <1>7, <2>1, EraseDefDoes, PointFaults
  <1>8. CASE Unlink
    <2>1. ASSUME NEW j, Unlinked(j) PROVE PointInv'
      BY <1>1, <1>8, <2>1, PointLost DEF Unlinked
    <2> QED
      BY <1>8, <2>1, UnlinkDoes, PointFaults
  <1>9. CASE SplitBlock
    <2>1. ASSUME NEW new, NEW j, Parted(new, j) PROVE PointInv'
      BY <1>1, <1>9, <2>1, PointLost DEF Parted
    <2> QED
      BY <1>9, <2>1, SplitDoes, PointFaults
  <1> QED
    BY <1>5, <1>6, <1>7, <1>8, <1>9

LEMMA PointMoves ==
    ASSUME PointInv, Playing, SetPoint \/ SavePoint \/ RestorePoint
    PROVE  PointInv'
  <1>1. /\ phase = "call" /\ (SavePoint => Calling("save")) /\ (RestorePoint => Calling("restore"))
    BY DEF SetPoint, SavePoint, RestorePoint, Calling
  <1>2. PICK i : i = ir
    OBVIOUS
  <1>3. All(Disciplined) => /\ ~Upset => SoundIn(i, point)
                            /\ Does(script, {"restore"}) /\ call.saved # <<>> => SoundIn(i, call.saved[1])
    BY <1>1, <1>2 DEF PointInv, Playing
  <1>4. ASSUME NEW do, NEW p, Moved(do, p) PROVE PointInv'
    <2>1. Calling(do) /\ Continued(call.made, call.saved) /\ ir' = i /\ point' = p /\ SoundIn(i, p)
      BY <1>2, <1>4 DEF Moved
    <2> QED
      BY <1>1, <1>3, <2>1, PointCalls
  <1>5. ASSUME NEW do \in {"save", "restore"}, Calling(do), NEW saved, NEW p, Recalled(saved, p),
               do = "save" => saved = <<point>> /\ p = point,
               do = "restore" => saved = call.saved /\ p = IF saved = <<>> THEN point ELSE saved[1]
        PROVE  PointInv'
    <2>1. Continued(call.made, saved) /\ ir' = i /\ point' = p
      BY <1>2, <1>5 DEF Recalled
    <2>2. Upset' <=> Upset
      <3>1. do \notin Moves /\ now.do = do /\ ~Upsets(now)
        BY <1>1, <1>5, CallFacts DEF Moves, Retires, Upsets
      <3> QED
        BY <1>1, <1>5, <2>1, <3>1, RanNext
    <2>3. ASSUME All(Disciplined), Does(script, {"restore"}) PROVE ~Upset
      <3>1. Orderly(script)
        BY <1>1, <2>3, Disciplines DEF Disciplined
      <3>2. ~Ran(Retires \cup {"eraseDef", "split"})
        BY <1>1, <1>5, <2>3, <3>1, RanBefore
      <3> QED
        BY <3>2, UpsetRan DEF Ran
    <2>4. do = "restore" => Does(script, {"restore"})
      BY <1>1, <1>5, CallFacts
    <2>5. ASSUME All(Disciplined)
          PROVE  /\ ~Upset' => SoundIn(i, point')
                 /\ Does(script, {"restore"}) /\ saved # <<>> => SoundIn(i, saved[1])
      <3>1. CASE do = "save"
        <4>1. saved[1] = point
          BY <1>5, <3>1
        <4> QED
          BY <1>3, <1>5, <2>1, <2>2, <2>3, <2>5, <3>1, <4>1
      <3>2. CASE do = "restore"
        BY <1>3, <1>5, <2>1, <2>2, <2>3, <2>4, <2>5, <3>2
      <3> QED
        BY <1>5, <3>1, <3>2
    <2> QED
      BY <1>1, <1>5, <2>1, <2>5, PointCalls
  <1> QED
    BY <1>1, <1>4, <1>5, SetPointDoes, SavesDoes, PointFaults

LEMMA PointDrives ==
    ASSUME PointInv, Playing, Walk \/ Pop \/ Iterate \/ Collect \/ Legalize \/ Legalized
    PROVE  PointInv'
  <1>1. ASSUME NEW ph \in {"start", "pop", "legalize", "match"}, phase' = ph, pass' = pass,
               greedy /\ ph = "match" => SoundIn(ir', point')
        PROVE  PointInv'
    <2>1. PICK i : i = ir'
      OBVIOUS
    <2> QED
      BY <1>1, <2>1, PointIdle
  <1>2. CASE Walk \/ Iterate \/ Collect
    <2>1. pass' = pass /\ phase' \in {"start", "pop", "legalize", "done"}
      BY <1>2 DEF Walk, Iterate, Collect, Stop
    <2> QED
      BY <1>1, <2>1, PointOver
  <1>3. CASE Pop
    <2>1. ASSUME NEW o, NEW j, Swept(o, j) PROVE PointInv'
      BY <1>1, <2>1 DEF Swept, Steady
    <2>2. ASSUME NEW o, Begun(o) PROVE PointInv'
      BY <1>1, <2>2 DEF Begun, Steady
    <2> QED
      BY <1>3, <2>1, <2>2, PopDoes, PointFaults
  <1>4. ASSUME NEW fs, NEW ph \in {"legalize", "match"}, Relisted(fs, ph), ~greedy PROVE PointInv'
    BY <1>1, <1>4 DEF Relisted, Steady
  <1>5. CASE Legalize
    BY <1>4, <1>5, LegalizeDoes, PointFaults
  <1>6. CASE Legalized
    <2>1. Closed => PointInv'
      BY PointOver DEF Closed
    <2> QED
      BY <1>4, <1>6, <2>1, LegalizedDoes, PointFaults
  <1> QED
    BY <1>2, <1>3, <1>5, <1>6

LEMMA PointMatches ==
    ASSUME PointInv, Playing, Match
    PROVE  PointInv'
  <1>1. phase = "match"
    BY DEF Match
  <1>2. PICK i : i = ir
    OBVIOUS
  <1>3. All(Disciplined) /\ greedy => SoundIn(i, point)
    BY <1>1, <1>2 DEF PointInv, Playing
  <1>4. CASE ~greedy /\ Unconverted
    <2>1. ASSUME Lost PROVE PointInv'
      <3>1. PICK j : j = ir'
        OBVIOUS
      <3>2. pass' = pass /\ phase' \in {"done", "match"}
        BY <2>1 DEF Lost, GaveUp, Steady
      <3> QED
        BY <1>4, <3>1, <3>2, PointIdle
    <2>2. ASSUME Relisted(Advanced, "legalize") PROVE PointInv'
      BY <1>2, <2>2, PointIdle DEF Relisted, Steady
    <2> QED
      BY <1>1, <1>4, <2>1, <2>2, UnconvertedDoes, PointFaults
  <1>5. CASE Passed
    BY <1>2, <1>5, PointIdle DEF Passed, Steady
  <1>6. ASSUME NEW n, Invoked(n) PROVE PointInv'
    <2>1. pass' = pass /\ ir' = i /\ IF greedy THEN point' = point ELSE SoundIn(i, point')
      BY <1>2, <1>6 DEF Invoked, Steady
    <2>2. All(Disciplined) => SoundIn(i, point')
      BY <1>3, <2>1
    <2>3. CASE phase' = "match"
      BY <2>1, <2>2, <2>3, PointIdle
    <2>4. CASE phase' = "call"
      <3>1. call'.saved = <<>>
        BY <1>1, <1>6, <2>4, CallBegins
      <3>2. All(Disciplined)' <=> All(Disciplined)
        BY <2>1, SamePatterns
      <3>3. SoundIn(ir, point)' <=> SoundIn(i, point')
        BY <2>1 DEF SoundIn
      <3> QED
        BY <2>2, <2>4, <3>1, <3>2, <3>3 DEF PointInv
    <2> QED
      BY <1>6, <2>3, <2>4 DEF Invoked
  <1> QED
    BY <1>4, <1>5, <1>6, MatchDoes, PointFaults

LEMMA PointAnswers ==
    ASSUME SafeInv, PointInv, Playing, Answer
    PROVE  PointInv'
  <1>1. phase = "call" /\ call.at > Len(script.calls)
    BY DEF Answer
  <1>2. PICK i, j : i = ir /\ j = ir'
    OBVIOUS
  <1>3. CASE Followed \/ Applauded
    <2>1. pass' = pass /\ ir' = j /\ phase' \in {"legalize", "pop"}
      BY <1>2, <1>3 DEF Followed, Applauded, Steady
    <2> QED
      BY <2>1, PointIdle
  <1>4. CASE Declined
    <2>1. /\ greedy /\ script.answer # "True" /\ phase' = "match" /\ pass' = pass /\ ir' = i /\ point' = point
      BY <1>2, <1>4 DEF Declined, Steady
    <2>2. ASSUME All(Disciplined) PROVE SoundIn(i, point)
      <3>1. Sane /\ Disciplined(script)
        BY <1>1, <2>1, <2>2, Disciplines DEF Sane
      <3>2. ~Does(script, Retires \cup {"split"})
        BY <2>1, <3>1 DEF Disciplined
      <3>3. ~Ran(Retires \cup {"split"})
        BY <1>1, <3>2, RanAtEnds
      <3>4. ~Ran(Retires)
        BY <3>3 DEF Ran
      <3>5. PICK rk : SafeCall(rk)
        BY <3>1 DEF SafeInv, Playing, Sorted
      <3>6. ~(Ran({"eraseDef"}) /\ call.held # None)
        BY <1>1, <2>1, <3>4, <3>5 DEF SafeCall, RootStays, HeldStays
      <3>7. ~Upset
        BY <3>3, <3>6, UpsetRan
      <3> QED
        BY <1>1, <1>2, <2>2, <3>7 DEF PointInv, Playing
    <2> QED
      BY <2>1, <2>2, PointIdle
  <1>5. ASSUME NEW n, NEW h, Discarded(n, h) PROVE PointInv'
    <2>1. ~greedy /\ pass' = pass /\ phase' = "match" /\ ir' = j
      BY <1>2, <1>5 DEF Discarded, GaveUp, Steady
    <2> QED
      BY <2>1, PointIdle
  <1> QED
    BY <1>3, <1>4, <1>5, AnswerDoes, PointFaults, PointOver

LEMMA PointStutters ==
    ASSUME PointInv, UNCHANGED vars
    PROVE  PointInv'
  <1>1. /\ pass' = pass /\ ir' = ir /\ frames' = frames /\ call' = call /\ point' = point /\ phase' = phase
    BY DEF vars
  <1>2. greedy' = greedy /\ patterns' = patterns /\ (All(Disciplined)' <=> All(Disciplined))
    BY <1>1, SamePatterns
  <1>3. script' = script
    BY <1>1, <1>2 DEF frame, script
  <1>4. (Upset' <=> Upset) /\ (Does(script, {"restore"})' <=> Does(script, {"restore"}))
    BY <1>1, <1>3 DEF Upset, Upsets, Over, Does
  <1> QED
    BY <1>1, <1>2, <1>4 DEF PointInv, Underway, SoundIn

LEMMA PointInductive ==
    ASSUME ConversionInv, GreedyInv, PlaceInv, SafeInv, PointInv, [Next]_vars
    PROVE  PointInv'
  <1>1. CASE UNCHANGED vars
    BY <1>1, PointStutters
  <1>2. CASE Next /\ ~(UNCHANGED vars)
    <2>1. Playing
      BY <1>2, Moving, Invited DEF PlaceInv, Underway
    <2>2. CASE Exhausted
      BY <2>2, PointOver DEF Exhausted, Stop
    <2>3. ~Finished
      BY <1>2 DEF Finished
    <2> QED
      BY <1>2, <2>1, <2>2, <2>3, PointDrives, PointMatches, PointAnswers, PointInserts, PointRetires,
         PointMoves DEF Next
  <1> QED
    BY <1>1, <1>2

LEMMA LayeredCreate ==
    ASSUME log \in Seq(Entry), NEW i, Defined(i), Layered(i, log), NEW o \in Ops \ Live(i), NEW j,
           Live(j) = Live(i) \cup {o}, \A x \in Live(i) : j.arg[x] = i.arg[x],
           NEW d, d = [did |-> "create", op |-> o], NEW l, l = Append(log, d)
    PROVE  Layered(j, l)
  <1>1. PICK e \in Entry : e = [did |-> "create", op |-> o] /\ e.did = "create" /\ e.op = o
    BY DEF Entry
  <1>2. /\ l \in Seq(Entry) /\ Len(l) = Len(log) + 1 /\ Len(log) \in Nat /\ l[Len(l)] = e
        /\ DOMAIN l = 1 .. Len(l) /\ DOMAIN log = 1 .. Len(log)
        /\ \A k \in 1 .. Len(log) : l[k] = log[k]
    BY <1>1
  <1>3. \A n \in 0 .. Len(log) : MadeIn(l, n) = MadeIn(log, n) \cup {o}
    BY <1>1, LogGrows
  <1>4. MadeIn(l, Len(l)) = {}
    BY <1>2 DEF MadeIn
  <1>5. \A k \in 1 .. Len(log) : log[k].did = "create" => log[k].op \in Live(i) /\ log[k].op # o
    <2>1. \A k \in 1 .. Len(log) : log[k].did = "create" => log[k].op \in MadeIn(log, 0)
      BY <1>2 DEF MadeIn
    <2> QED
      BY <2>1 DEF Layered
  <1>6. MadeOnce(l)
    <2> SUFFICES ASSUME NEW x \in 1 .. Len(l), NEW y \in 1 .. Len(l), l[x].did = "create", l[y].did = "create",
                        l[x].op = l[y].op
                 PROVE  x = y
      BY <1>2 DEF MadeOnce
    <2>1. \A k \in 1 .. Len(l) : k = Len(l) \/ k \in 1 .. Len(log)
      BY <1>2
    <2>2. CASE x \in 1 .. Len(log) /\ y \in 1 .. Len(log)
      BY <1>2, <2>2 DEF Layered, MadeOnce
    <2>3. CASE ~(x \in 1 .. Len(log) /\ y \in 1 .. Len(log))
      BY <1>1, <1>2, <1>5, <2>1, <2>3
    <2> QED
      BY <2>2, <2>3
  <1>7. MadeIn(l, 0) \subseteq Live(j)
    BY <1>2, <1>3 DEF Layered
  <1>8. ASSUME NEW n \in 0 .. Len(l), NEW x \in Live(j), j.arg[x] \in MadeIn(l, n) PROVE x \in MadeIn(l, n)
    <2>1. n \in 0 .. Len(log) /\ MadeIn(l, n) = MadeIn(log, n) \cup {o}
      BY <1>2, <1>3, <1>4, <1>8
    <2>2. CASE x = o
      BY <2>1, <2>2
    <2>3. CASE x # o
      <3>1. x \in Live(i) /\ j.arg[x] = i.arg[x] /\ i.arg[x] \in Live(i) \cup {None}
        BY <2>3 DEF Defined
      <3>2. i.arg[x] # o
        BY <3>1, RewritingAssumption DEF None
      <3> QED
        BY <1>8, <2>1, <3>1, <3>2 DEF Layered
    <2> QED
      BY <2>2, <2>3
  <1> QED
    BY <1>6, <1>7, <1>8 DEF Layered

LEMMA LayeredReplace ==
    ASSUME log \in Seq(Entry), NEW i, Layered(i, log), NEW o \in Ops, NEW by \in Ops \cup {None},
           NEW d, d = [did |-> "replace", op |-> o, by |-> by], NEW l, l = Append(log, d)
    PROVE  Layered(i, l)
  <1>1. PICK e \in Entry : e = [did |-> "replace", op |-> o, by |-> by] /\ e.did = "replace"
    BY DEF Entry
  <1>2. /\ l \in Seq(Entry) /\ Len(l) = Len(log) + 1 /\ Len(log) \in Nat /\ l[Len(l)] = e
        /\ DOMAIN l = 1 .. Len(l) /\ DOMAIN log = 1 .. Len(log)
        /\ \A k \in 1 .. Len(log) : l[k] = log[k]
    BY <1>1
  <1>3. \A n \in 0 .. Len(log) : MadeIn(l, n) = MadeIn(log, n)
    BY <1>1, LogGrows
  <1>4. MadeIn(l, Len(l)) = {}
    BY <1>2 DEF MadeIn
  <1>5. MadeOnce(l)
    <2> SUFFICES ASSUME NEW x \in 1 .. Len(l), NEW y \in 1 .. Len(l), l[x].did = "create", l[y].did = "create",
                        l[x].op = l[y].op
                 PROVE  x = y
      BY <1>2 DEF MadeOnce
    <2>1. x \in 1 .. Len(log) /\ y \in 1 .. Len(log)
      BY <1>1, <1>2
    <2> QED
      BY <1>2, <2>1 DEF Layered, MadeOnce
  <1>6. MadeIn(l, 0) \subseteq Live(i)
    BY <1>2, <1>3 DEF Layered
  <1>7. ASSUME NEW n \in 0 .. Len(l), NEW x \in Live(i), i.arg[x] \in MadeIn(l, n) PROVE x \in MadeIn(l, n)
    <2>1. n \in 0 .. Len(log) /\ MadeIn(l, n) = MadeIn(log, n)
      BY <1>2, <1>3, <1>4, <1>7
    <2> QED
      BY <1>7, <2>1 DEF Layered
  <1> QED
    BY <1>5, <1>6, <1>7 DEF Layered

LEMMA LayeredCut ==
    ASSUME log \in Seq(Entry), NEW i, Layered(i, log), NEW n \in 0 .. Len(log), NEW j, RidTo(i, MadeIn(log, n), j),
           NEW l, l = SubSeq(log, 1, n)
    PROVE  Layered(j, l)
  <1>1. /\ l \in Seq(Entry) /\ Len(l) = n /\ Len(log) \in Nat /\ n \in Nat
        /\ DOMAIN l = 1 .. n /\ DOMAIN log = 1 .. Len(log)
    BY LogCut
  <1>2. \A k \in 1 .. n : l[k] = log[k] /\ k \in 1 .. Len(log)
    BY <1>1
  <1>3. \A m \in 0 .. n : MadeIn(log, m) = MadeIn(l, m) \cup MadeIn(log, n)
    BY <1>1, LogCut
  <1>4. Live(j) = Live(i) \ MadeIn(log, n) /\ \A x \in Live(j) : j.arg[x] = i.arg[x]
    BY DEF RidTo
  <1>5. MadeOnce(l)
    BY <1>1, <1>2 DEF Layered, MadeOnce
  <1>6. ASSUME NEW m \in 0 .. n, NEW x \in MadeIn(l, m) PROVE x \notin MadeIn(log, n)
    <2>1. PICK p \in 1 .. n : l[p].did = "create" /\ l[p].op = x
      BY <1>1, <1>6 DEF MadeIn
    <2>2. ASSUME NEW q \in n + 1 .. Len(log), log[q].did = "create", log[q].op = x PROVE FALSE
      <3>1. p \in DOMAIN log /\ q \in DOMAIN log /\ p # q
        BY <1>1, <2>1
      <3> QED
        BY <1>2, <2>1, <2>2, <3>1 DEF Layered, MadeOnce
    <2> QED
      BY <2>2 DEF MadeIn
  <1>7. MadeIn(l, 0) \subseteq Live(j)
    BY <1>1, <1>3, <1>4, <1>6 DEF Layered
  <1>8. ASSUME NEW m \in 0 .. Len(l), NEW x \in Live(j), j.arg[x] \in MadeIn(l, m) PROVE x \in MadeIn(l, m)
    <2>1. m \in 0 .. n /\ m \in 0 .. Len(log) /\ x \in Live(i) /\ x \notin MadeIn(log, n) /\ i.arg[x] \in MadeIn(log, m)
      BY <1>1, <1>3, <1>4, <1>8
    <2>2. x \in MadeIn(log, m)
      BY <2>1 DEF Layered
    <2> QED
      BY <1>3, <2>1, <2>2
  <1> QED
    BY <1>5, <1>7, <1>8 DEF Layered

LEMMA TailWithin ==
    ASSUME NEW S, NEW s \in Seq(S), s # <<>>
    PROVE  ToSet(Tail(s)) \subseteq ToSet(s)
  <1>1. PICK n \in Nat : n = Len(s) /\ n > 0
    OBVIOUS
  <1>2. Len(Tail(s)) = n - 1 /\ \A k \in 1 .. n - 1 : Tail(s)[k] = s[k + 1]
    BY <1>1, HeadTailProperties
  <1>3. DOMAIN Tail(s) = 1 .. n - 1 /\ DOMAIN s = 1 .. n
    BY <1>1, <1>2, HeadTailProperties
  <1>4. \A k \in 1 .. n - 1 : k + 1 \in 1 .. n
    BY <1>1
  <1> QED
    BY <1>2, <1>3, <1>4 DEF ToSet

Marked(fs, l) == \A n \in 1 .. Len(fs) : fs[n].mark \in 0 .. Len(l)

LEMMA WaitingCreate ==
    ASSUME log \in Seq(Entry), NEW fs \in Seq(Frame), Marked(fs, log), NEW i, Waiting(i, fs, log),
           NEW o \in Ops \ Live(i), NEW j, Live(j) = Live(i) \cup {o},
           NEW d, d = [did |-> "create", op |-> o], NEW l, l = Append(log, d)
    PROVE  Waiting(j, fs, l)
  <1>1. PICK e \in Entry : e = [did |-> "create", op |-> o] /\ e.did = "create" /\ e.op = o
    BY DEF Entry
  <1>2. \A n \in 0 .. Len(log) : MadeIn(l, n) = MadeIn(log, n) \cup {o}
    BY <1>1, LogGrows
  <1>3. \A n \in 1 .. Len(fs) : \A m \in 1 .. n - 1 : m \in 1 .. Len(fs)
    OBVIOUS
  <1>4. \A n \in 1 .. Len(fs) : ToSet(fs[n].todo) \subseteq Live(i) /\ fs[n].mark \in 0 .. Len(log)
    BY DEF Waiting, Marked
  <1>5. \A n \in 1 .. Len(fs) : ToSet(fs[n].todo) \subseteq Live(j)
    BY <1>4
  <1>6. ASSUME NEW n \in 1 .. Len(fs), NEW m \in 1 .. n - 1
        PROVE  ToSet(fs[m].todo) \cap MadeIn(l, fs[n].mark) = {}
    <2>1. MadeIn(l, fs[n].mark) = MadeIn(log, fs[n].mark) \cup {o}
      BY <1>2, <1>4
    <2>2. o \notin ToSet(fs[m].todo)
      BY <1>3, <1>4
    <2> QED
      BY <2>1, <2>2 DEF Waiting
  <1> QED
    BY <1>5, <1>6 DEF Waiting

LEMMA WaitingReplace ==
    ASSUME log \in Seq(Entry), NEW fs, Marked(fs, log), NEW i, Waiting(i, fs, log),
           NEW o \in Ops, NEW by \in Ops \cup {None},
           NEW d, d = [did |-> "replace", op |-> o, by |-> by], NEW l, l = Append(log, d)
    PROVE  Waiting(i, fs, l)
  <1>1. PICK e \in Entry : e = [did |-> "replace", op |-> o, by |-> by] /\ e.did = "replace"
    BY DEF Entry
  <1>2. \A n \in 0 .. Len(log) : MadeIn(l, n) = MadeIn(log, n)
    BY <1>1, LogGrows
  <1> QED
    BY <1>2 DEF Waiting, Marked

LEMMA WaitingFewer ==
    ASSUME NEW i, NEW l, NEW fs \in Seq(Frame), NEW gs \in Seq(Frame), Waiting(i, fs, l), Len(gs) <= Len(fs),
           \A n \in 1 .. Len(gs) : gs[n].mark = fs[n].mark /\ ToSet(gs[n].todo) \subseteq ToSet(fs[n].todo)
    PROVE  Waiting(i, gs, l)
  <1>1. \A n \in 1 .. Len(gs) : n \in 1 .. Len(fs) /\ \A m \in 1 .. n - 1 : m \in 1 .. Len(gs)
    OBVIOUS
  <1> QED
    BY <1>1 DEF Waiting

LEMMA WaitingMore ==
    ASSUME NEW i, NEW l, NEW fs \in Seq(Frame), NEW gs \in Seq(Frame), Waiting(i, fs, l), Len(gs) = Len(fs),
           \A n \in 1 .. Len(fs) - 1 : gs[n] = fs[n],
           gs[Len(fs)].mark = fs[Len(fs)].mark /\ ToSet(gs[Len(fs)].todo) \subseteq Live(i)
    PROVE  Waiting(i, gs, l)
  <1>1. \A n \in 1 .. Len(fs) : n = Len(fs) \/ n \in 1 .. Len(fs) - 1
    OBVIOUS
  <1>2. \A n \in 1 .. Len(fs) : \A m \in 1 .. n - 1 : m \in 1 .. Len(fs) - 1
    OBVIOUS
  <1>3. \A n \in 1 .. Len(fs) : gs[n].mark = fs[n].mark
    BY <1>1
  <1> QED
    BY <1>1, <1>2, <1>3 DEF Waiting

LEMMA WaitingPush ==
    ASSUME NEW i, NEW l \in Seq(Entry), NEW fs \in Seq(Frame), Waiting(i, fs, l), NEW f \in Frame,
           f.mark = Len(l), f.todo = <<>>
    PROVE  Waiting(i, Append(fs, f), l)
  <1>1. PICK gs \in Seq(Frame) : gs = Append(fs, f)
    BY AppendProperties
  <1>2. PICK z \in Nat : z = Len(fs)
    OBVIOUS
  <1>3. Len(gs) = z + 1 /\ gs[z + 1] = f /\ \A n \in 1 .. z : gs[n] = fs[n]
    BY <1>1, <1>2
  <1>4. MadeIn(l, Len(l)) = {} /\ ToSet(<<>>) = {}
    BY DEF MadeIn, ToSet
  <1>5. \A n \in 1 .. z + 1 : n = z + 1 \/ n \in 1 .. z
    BY <1>2
  <1>6. \A n \in 1 .. z : \A m \in 1 .. n - 1 : m \in 1 .. z
    BY <1>2
  <1>7. ASSUME NEW n \in 1 .. z + 1 PROVE ToSet(gs[n].todo) \subseteq Live(i)
    BY <1>2, <1>3, <1>4, <1>5 DEF Waiting
  <1>8. ASSUME NEW n \in 1 .. z + 1, NEW m \in 1 .. n - 1
        PROVE  ToSet(gs[m].todo) \cap MadeIn(l, gs[n].mark) = {}
    <2>1. CASE n = z + 1
      BY <1>3, <1>4, <2>1
    <2>2. CASE n \in 1 .. z
      BY <1>2, <1>3, <1>6, <2>2 DEF Waiting
    <2> QED
      BY <1>5, <2>1, <2>2
  <1> QED
    BY <1>1, <1>3, <1>7, <1>8 DEF Waiting

(* What is created since the innermost frame is taken back.                 *)
LEMMA WaitingCut ==
    ASSUME log \in Seq(Entry), NEW fs \in Seq(Frame), fs # <<>>, Marked(fs, log), NEW i, Waiting(i, fs, log),
           \A n \in 1 .. Len(fs) : fs[n].mark <= fs[Len(fs)].mark,
           fs[Len(fs)].todo = <<>>, NEW n, n = fs[Len(fs)].mark, NEW j, Live(j) = Live(i) \ MadeIn(log, n),
           NEW l, l = SubSeq(log, 1, n)
    PROVE  Waiting(j, fs, l)
  <1>1. PICK z \in Nat : z = Len(fs) /\ z \in 1 .. z
    OBVIOUS
  <1>2. n \in 0 .. Len(log) /\ n \in Nat /\ \A x \in 1 .. z : fs[x].mark \in 0 .. n
    BY <1>1 DEF Marked
  <1>3. \A m \in 0 .. n : MadeIn(l, m) \subseteq MadeIn(log, m)
    BY <1>2, LogCut
  <1>4. \A x \in 1 .. z : x = z \/ x \in 1 .. z - 1
    BY <1>1
  <1>5. ToSet(<<>>) = {}
    BY DEF ToSet
  <1>6. ASSUME NEW x \in 1 .. z PROVE ToSet(fs[x].todo) \subseteq Live(j)
    BY <1>1, <1>4, <1>5 DEF Waiting
  <1>7. ASSUME NEW x \in 1 .. z, NEW m \in 1 .. x - 1 PROVE ToSet(fs[m].todo) \cap MadeIn(l, fs[x].mark) = {}
    BY <1>1, <1>2, <1>3 DEF Waiting
  <1> QED
    BY <1>1, <1>6, <1>7 DEF Waiting

LEMMA LogOver ==
    ASSUME phase' \notin {"start", "pop", "legalize", "match", "call"} \/ greedy'
    PROVE  LogInv'
  BY DEF LogInv, Underway

LEMMA LogFaults ==
    ASSUME NEW what, Fault(what)
    PROVE  LogInv'
  BY LogOver DEF Fault, Stop

LEMMA LogNext ==
    ASSUME pass' = pass, NEW i, ir' = i, NEW l, log' = l, NEW fs, frames' = fs,
           ~greedy /\ All(Disciplined) =>
              /\ Layered(i, l) /\ Waiting(i, fs, l)
              /\ phase' \in {"match", "call"} => frame'.todo = <<>>
              /\ phase' = "call" /\ Ran(Retires)' => root' \in GoneIn(l, Len(l))
    PROVE  LogInv'
  <1>1. greedy' = greedy /\ (All(Disciplined)' <=> All(Disciplined))
    BY SamePatterns
  <1>2. CASE ~greedy /\ All(Disciplined)
    <2>0. /\ Layered(i, l) /\ Waiting(i, fs, l)
          /\ phase' \in {"match", "call"} => frame'.todo = <<>>
          /\ phase' = "call" /\ Ran(Retires)' => root' \in GoneIn(l, Len(l))
      BY <1>2
    <2>5. MadeOnce(log)' <=> MadeOnce(l)
      BY DEF MadeOnce
    <2>6. (MadeIn(log, 0) \subseteq Live(ir))'
      BY <2>0 DEF Layered, MadeIn, Live
    <2>7. (\A n \in 0 .. Len(log) : \A o \in Live(ir) : ir.arg[o] \in MadeIn(log, n) => o \in MadeIn(log, n))'
      BY <2>0 DEF Layered, MadeIn, Live
    <2>1. Layered(ir, log)'
      BY <2>0, <2>5, <2>6, <2>7 DEF Layered
    <2>8. (\A n \in 1 .. Len(frames) : ToSet(frames[n].todo) \subseteq Live(ir))'
      BY <2>0 DEF Waiting, Live
    <2>9. (\A n \in 1 .. Len(frames) : \A m \in 1 .. n - 1 :
              ToSet(frames[m].todo) \cap MadeIn(log, frames[n].mark) = {})'
      BY <2>0 DEF Waiting, MadeIn
    <2>3. Waiting(ir, frames, log)'
      BY <2>8, <2>9 DEF Waiting
    <2>4. (phase \in {"match", "call"} => frame.todo = <<>>)'
      BY <2>0
    <2>2. (phase = "call" /\ Ran(Retires) => root \in GoneIn(log, Len(log)))'
      BY <2>0 DEF GoneIn
    <2> QED
      BY <2>1, <2>2, <2>3, <2>4 DEF LogInv
  <1> QED
    BY <1>1, <1>2 DEF LogInv

LEMMA LogBefore ==
    ASSUME LogInv, Playing, ~greedy, All(Disciplined)
    PROVE  /\ Layered(ir, log) /\ Waiting(ir, frames, log)
           /\ phase \in {"match", "call"} => frame.todo = <<>>
           /\ phase = "call" /\ Ran(Retires) => root \in GoneIn(log, Len(log))
           /\ frames \in Seq(Frame) /\ log \in Seq(Entry) /\ Marked(frames, log)
           /\ \A n \in 2 .. Len(frames) :
                 /\ frames[n - 1].todo # <<>> /\ frames[n].op = Head(frames[n - 1].todo)
                 /\ \A m \in 1 .. n - 1 : frames[m].mark <= frames[n].mark
  <1>1. /\ Layered(ir, log) /\ Waiting(ir, frames, log)
        /\ phase \in {"match", "call"} => frame.todo = <<>>
        /\ phase = "call" /\ Ran(Retires) => root \in GoneIn(log, Len(log))
    BY DEF LogInv, Playing
  <1>2. frames \in Seq(Frame) /\ log \in Seq(Entry) /\ Shape
    BY DEF Playing, Typed
  <1>3. Marked(frames, log)
    <2>0. \A n \in 1 .. Len(frames) : frames[n] \in Frame
      BY <1>2
    <2>1. \A n \in 1 .. Len(frames) : frames[n].mark \in Nat /\ frames[n].mark <= Len(log)
      BY <1>2, <2>0 DEF Shape, Frame
    <2>2. Len(log) \in Nat
      BY <1>2
    <2> QED
      BY <2>1, <2>2 DEF Marked
  <1> QED
    BY <1>1, <1>2, <1>3 DEF Shape, Nesting

(* What is next in the frame below is the operation of the innermost one.   *)
LEMMA RootWaits ==
    ASSUME LogInv, Playing, ~greedy, All(Disciplined), phase \in {"match", "call"}
    PROVE  root \in Live(ir)
  <1>1. PICK n \in Nat : n = Len(frames) /\ n > 1
    BY MatchTyped
  <1>2. n - 1 \in 1 .. n /\ n \in 2 .. n /\ frames \in Seq(Frame)
    BY <1>1, LogBefore
  <1>5. frames[n - 1] \in Frame
    BY <1>1, <1>2
  <1>3. frames[n - 1].todo # <<>> /\ root = Head(frames[n - 1].todo) /\ frames[n - 1].todo \in Seq(Ops)
    BY <1>1, <1>2, <1>5, LogBefore DEF root, frame, Frame
  <1>4. root \in ToSet(frames[n - 1].todo)
    BY <1>3, HeadTail
  <1> QED
    BY <1>1, <1>2, <1>4, LogBefore DEF Waiting

(* The frame goes on with the rest of its list, or the one below it does.   *)
LEMMA LogRelists ==
    ASSUME LogInv, Playing, ~greedy, NEW gs \in Seq(Frame), NEW ph \in {"legalize"}, Relisted(gs, ph),
           Len(gs) <= Len(frames),
           \A n \in 1 .. Len(gs) : gs[n].mark = frames[n].mark /\ ToSet(gs[n].todo) \subseteq ToSet(frames[n].todo)
    PROVE  LogInv'
  <1>1. pass' = pass /\ ir' = ir /\ log' = log /\ frames' = gs /\ phase' = "legalize"
    BY DEF Relisted, Steady
  <1>2. PICK i, l : i = ir /\ l = log
    OBVIOUS
  <1>3. ~greedy /\ All(Disciplined) => Layered(i, l) /\ Waiting(i, gs, l)
    BY <1>2, LogBefore, WaitingFewer
  <1> QED
    BY <1>1, <1>2, <1>3, LogNext

LEMMA ListShrinks ==
    ASSUME Playing, ~greedy, frames # <<>>
    PROVE  /\ frame.todo # <<>> =>
                 \E gs \in Seq(Frame) :
                    /\ gs = [frames EXCEPT ![Len(frames)].todo = Tail(@)] /\ Len(gs) <= Len(frames)
                    /\ \A n \in 1 .. Len(gs) : /\ gs[n].mark = frames[n].mark
                                               /\ ToSet(gs[n].todo) \subseteq ToSet(frames[n].todo)
           /\ Len(frames) > 1 =>
                 \E gs \in Seq(Frame) :
                    /\ gs = Advanced /\ Len(gs) <= Len(frames)
                    /\ \A n \in 1 .. Len(gs) : /\ gs[n].mark = frames[n].mark
                                               /\ ToSet(gs[n].todo) \subseteq ToSet(frames[n].todo)
  <1>1. frames \in Seq(Frame) /\ Shape
    BY DEF Playing, Typed
  <1>2. PICK z \in Nat : z = Len(frames) /\ z \in 1 .. z
    BY <1>1
  <1>0. \A n \in 1 .. z : frames[n] \in Frame
    BY <1>1, <1>2
  <1>3. \A n \in 1 .. z : frames[n].todo \in Seq(Ops)
    BY <1>0 DEF Frame
  <1>4. ASSUME frame.todo # <<>>
        PROVE  \E gs \in Seq(Frame) :
                  /\ gs = [frames EXCEPT ![Len(frames)].todo = Tail(@)] /\ Len(gs) <= Len(frames)
                  /\ \A n \in 1 .. Len(gs) : /\ gs[n].mark = frames[n].mark
                                             /\ ToSet(gs[n].todo) \subseteq ToSet(frames[n].todo)
    <2>1. frames[z].todo # <<>> /\ frames[z].todo \in Seq(Ops)
      BY <1>2, <1>3, <1>4 DEF frame
    <2>2. PICK v \in Seq(Ops) : v = Tail(frames[z].todo) /\ ToSet(v) \subseteq ToSet(frames[z].todo)
      BY <2>1, HeadTail, TailWithin
    <2>3. PICK gs \in Seq(Frame) :
             /\ gs = [frames EXCEPT ![Len(frames)].todo = v]
             /\ Len(gs) = Len(frames) /\ \A m \in 1 .. Len(frames) - 1 : gs[m] = frames[m]
             /\ gs[Len(frames)].todo = v /\ gs[Len(frames)].mark = frames[Len(frames)].mark
      BY <1>1, <2>2, FrameTodo
    <2>4. gs = [frames EXCEPT ![Len(frames)].todo = Tail(@)]
      BY <1>2, <2>2, <2>3
    <2>5. \A n \in 1 .. z : n = z \/ n \in 1 .. z - 1
      BY <1>2
    <2>6. \A n \in 1 .. z : gs[n].mark = frames[n].mark /\ ToSet(gs[n].todo) \subseteq ToSet(frames[n].todo)
      BY <1>2, <2>2, <2>3, <2>5
    <2>7. Len(gs) <= Len(frames) /\ Len(gs) = z
      BY <1>2, <2>3
    <2> QED
      BY <2>4, <2>6, <2>7, Zenon
  <1>5. ASSUME Len(frames) > 1
        PROVE  \E gs \in Seq(Frame) :
                  /\ gs = Advanced /\ Len(gs) <= Len(frames)
                  /\ \A n \in 1 .. Len(gs) : /\ gs[n].mark = frames[n].mark
                                             /\ ToSet(gs[n].todo) \subseteq ToSet(frames[n].todo)
    <2>1. PICK y \in Nat : y = z - 1 /\ y \in 1 .. z /\ z \in 2 .. z /\ y \in 1 .. y /\ y <= z
      BY <1>2, <1>5
    <2>2. frames[y].todo # <<>> /\ frames[y].todo \in Seq(Ops)
      BY <1>1, <1>2, <1>3, <2>1 DEF Shape, Nesting
    <2>3. PICK v \in Seq(Ops) : v = Tail(frames[y].todo) /\ ToSet(v) \subseteq ToSet(frames[y].todo)
      BY <2>2, HeadTail, TailWithin
    <2>4. PICK gs \in Seq(Frame) :
             /\ gs = [Front(frames) EXCEPT ![Len(frames) - 1].todo = v]
             /\ Len(gs) = Len(frames) - 1 /\ \A m \in 1 .. Len(frames) - 2 : gs[m] = frames[m]
             /\ gs[Len(frames) - 1].op = frames[Len(frames) - 1].op
             /\ gs[Len(frames) - 1].mark = frames[Len(frames) - 1].mark
             /\ gs[Len(frames) - 1].todo = v
      BY <1>1, <1>5, <2>3, FramePopped, ZenonT(30)
    <2>5. gs = Advanced
      <3>1. Front(frames) \in Seq(Frame) /\ Len(Front(frames)) = y /\ Front(frames)[y] = frames[y]
        BY <1>1, <1>2, <2>1, SubSeqProperties DEF Front
      <3> QED
        BY <1>2, <2>1, <2>3, <2>4, <3>1 DEF Advanced
    <2>6. \A n \in 1 .. y : n = y \/ n \in 1 .. Len(frames) - 2
      BY <1>2, <2>1
    <2>7. \A n \in 1 .. y : gs[n].mark = frames[n].mark /\ ToSet(gs[n].todo) \subseteq ToSet(frames[n].todo)
      BY <1>2, <2>1, <2>3, <2>4, <2>6
    <2> QED
      BY <1>2, <2>1, <2>4, <2>5, <2>7
  <1> QED
    BY <1>4, <1>5

(* The greedy driver writes no log.                                         *)
LEMMA LogGreedy ==
    ASSUME pass' = pass, greedy
    PROVE  LogInv'
  <1>1. greedy'
    BY SamePatterns
  <1> QED
    BY <1>1, LogOver

LEMMA LogDrives ==
    ASSUME LogInv, Playing, Walk \/ Pop \/ Iterate \/ Collect \/ Legalize \/ Legalized
    PROVE  LogInv'
  <1>1. CASE Walk \/ Pop \/ Iterate
    <2>1. greedy
      BY <1>1 DEF Walk, Pop, Iterate
    <2>2. \A o, j : (Swept(o, j) => pass' = pass) /\ (Begun(o) => pass' = pass)
      BY DEF Swept, Begun, Steady
    <2>3. Walk \/ Iterate => pass' = pass
      BY DEF Walk, Iterate, Stop
    <2>4. Pop => pass' = pass \/ \E what : Fault(what)
      BY <2>2, PopDoes
    <2> QED
      BY <1>1, <2>1, <2>3, <2>4, LogGreedy, LogFaults
  <1>2. PICK i, l : i = ir /\ l = log
    OBVIOUS
  <1>3. CASE Collect
    <2>1. /\ ~greedy /\ phase = "start" /\ pass' = pass /\ ir' = i /\ log' = l /\ phase' = "legalize"
          /\ frames' = <<[Framed(None) EXCEPT !.todo = InOrder(ir)]>>
      BY <1>2, <1>3 DEF Collect
    <2>2. log \in Seq(Entry) /\ log = <<>> /\ InOrder(ir) \in Seq(Ops) /\ ToSet(InOrder(ir)) = Live(ir)
      BY <2>1, SeatedPlaced, BodiesInOrder DEF Playing, Typed, Shape, Seated, Filed
    <2>3. PICK f : f = [Framed(None) EXCEPT !.todo = InOrder(ir)]
      OBVIOUS
    <2>4. f.todo = InOrder(ir)
      BY <2>3 DEF Framed
    <2>9. PICK fs : fs = <<f>>
      OBVIOUS
    <2>5. fs = <<f>> /\ Len(fs) = 1 /\ fs[1] = f
      BY <2>9
    <2>6. Waiting(i, fs, l)
      <3>1. \A n \in 1 .. 1 : n = 1
        OBVIOUS
      <3>2. 1 .. 0 = {}
        OBVIOUS
      <3>3. \A n \in 1 .. Len(fs) : ToSet(fs[n].todo) \subseteq Live(i)
        BY <1>2, <2>2, <2>4, <2>5, <3>1
      <3>4. \A n \in 1 .. Len(fs) : \A m \in 1 .. n - 1 : ToSet(fs[m].todo) \cap MadeIn(l, fs[n].mark) = {}
        BY <2>5, <3>1, <3>2
      <3> QED
        BY <3>3, <3>4 DEF Waiting
    <2>7. frames' = fs
      BY <2>1, <2>3, <2>5
    <2>8. ~greedy /\ All(Disciplined) => Layered(i, l)
      BY <1>2, LogBefore
    <2> QED
      BY <2>1, <2>6, <2>7, <2>8, LogNext
  <1>4. CASE Legalize \/ Legalized
    <2>1. ~greedy /\ phase = "legalize" /\ frames # <<>> /\ frames \in Seq(Frame) /\ log \in Seq(Entry)
      BY <1>4, LegalizeDoes, LegalizedDoes DEF Playing, Typed, Shape
    <2>2. CASE Legalized
      <3>1. Closed => LogInv'
        BY LogOver DEF Closed
      <3>2. ASSUME Len(frames) # 1, Relisted(Advanced, "legalize") PROVE LogInv'
        <4>0. \A fs \in Seq(Frame) : fs # <<>> => Len(fs) \in Nat \ {0}
          OBVIOUS
        <4>9. PICK z \in Nat \ {0} : z = Len(frames)
          BY <2>1, <4>0
        <4>11. z # 1
          BY <3>2, <4>9, Zenon
        <4>1. Len(frames) > 1
          BY <4>9, <4>11
        <4>2. PICK gs \in Seq(Frame) :
                    /\ gs = Advanced /\ Len(gs) <= Len(frames)
                    /\ \A n \in 1 .. Len(gs) : /\ gs[n].mark = frames[n].mark
                                               /\ ToSet(gs[n].todo) \subseteq ToSet(frames[n].todo)
          BY <2>1, <4>1, ListShrinks
        <4>3. Relisted(gs, "legalize")
          BY <3>2, <4>2
        <4> QED
          BY <2>1, <4>2, <4>3, LogRelists
      <3> QED
        BY <2>2, <3>1, <3>2, LegalizedDoes, LogFaults
    <2>3. CASE Legalize
      <3>1. frame.todo # <<>>
        BY <2>3, LegalizeDoes
      <3>2. ASSUME Relisted([frames EXCEPT ![Len(frames)].todo = Tail(@)], "legalize") PROVE LogInv'
        <4>1. PICK gs \in Seq(Frame) :
                    /\ gs = [frames EXCEPT ![Len(frames)].todo = Tail(@)] /\ Len(gs) <= Len(frames)
                    /\ \A n \in 1 .. Len(gs) : /\ gs[n].mark = frames[n].mark
                                               /\ ToSet(gs[n].todo) \subseteq ToSet(frames[n].todo)
          BY <2>1, <3>1, ListShrinks
        <4>2. Relisted(gs, "legalize")
          BY <3>2, <4>1
        <4> QED
          BY <2>1, <4>1, <4>2, LogRelists
      <3>3. ASSUME Relisted(Append(frames, Framed(Head(frame.todo))), "match") PROVE LogInv'
        <4>1. frame \in Frame
          <5>1. frames[Len(frames)] \in Frame
            BY <2>1
          <5> QED
            BY <5>1 DEF frame
        <4>2. Head(frame.todo) \in Ops
          BY <3>1, <4>1, HeadTail DEF Frame
        <4>9. PICK f : f = Framed(Head(frame.todo))
          OBVIOUS
        <4>10. Len(log) \in Nat /\ <<>> \in Seq(Ops)
          BY <2>1
        <4>3. f \in Frame /\ f = Framed(Head(frame.todo)) /\ f.mark = Len(log) /\ f.todo = <<>>
          BY <4>2, <4>9, <4>10 DEF Framed, Frame
        <4>4. PICK fs : fs = Append(frames, f)
          OBVIOUS
        <4>5. fs[Len(fs)] = f
          BY <2>1, <4>4
        <4>6. /\ pass' = pass /\ ir' = i /\ log' = l /\ frames' = fs /\ phase' = "match"
          BY <1>2, <3>3, <4>3, <4>4 DEF Relisted, Steady
        <4>7. frame'.todo = <<>>
          BY <4>3, <4>5, <4>6 DEF frame
        <4>8. ASSUME All(Disciplined) PROVE Layered(i, l) /\ Waiting(i, fs, l)
          <5>1. Layered(i, l) /\ Waiting(i, frames, l) /\ l \in Seq(Entry)
            BY <1>2, <2>1, <4>8, LogBefore
          <5>2. f.mark = Len(l)
            BY <1>2, <4>3
          <5> QED
            BY <2>1, <4>3, <4>4, <5>1, <5>2, WaitingPush
        <4> QED
          BY <4>6, <4>7, <4>8, LogNext
      <3> QED
        BY <2>3, <3>2, <3>3, LegalizeDoes, LogFaults
    <2> QED
      BY <1>4, <2>2, <2>3
  <1> QED
    BY <1>1, <1>3, <1>4

(* A pattern is given up: the frames that are left wait for nothing that is *)
(* taken back.                                                              *)
LEMMA LogUndoes ==
    ASSUME LogInv, Playing, ~greedy, NEW n, NEW j, GaveUp(n, j), NEW gs \in Seq(Frame), frames' = gs,
           gs # <<>>, Len(gs) <= Len(frames), gs[Len(gs)].mark = n, gs[Len(gs)].todo = <<>>,
           \A m \in 1 .. Len(gs) - 1 : gs[m] = frames[m], gs[Len(gs)].mark = frames[Len(gs)].mark,
           phase' = "match"
    PROVE  LogInv'
  <1>1. /\ n \in 0 .. Len(log) /\ RidTo(ir, MadeIn(log, n), j) /\ ir' = j /\ log' = SubSeq(log, 1, n)
        /\ pass' = pass
    BY DEF GaveUp, Steady
  <1>2. PICK l, i : l = SubSeq(log, 1, n) /\ i = ir
    OBVIOUS
  <1>3. PICK z \in Nat : z = Len(gs) /\ z \in 1 .. z /\ z <= Len(frames)
    OBVIOUS
  <1>4. ToSet(<<>>) = {} /\ Len(frames) \in Nat
    BY DEF ToSet, Playing, Typed
  <1>5. \A m \in 1 .. z : m = z \/ m \in 1 .. z - 1
    BY <1>3
  <1>6. \A m \in 1 .. z : gs[m].mark = frames[m].mark /\ ToSet(gs[m].todo) \subseteq ToSet(frames[m].todo)
    BY <1>3, <1>4, <1>5
  <1>7. ASSUME All(Disciplined) PROVE Layered(j, l) /\ Waiting(j, gs, l)
    <2>1. /\ Layered(i, log) /\ Waiting(i, frames, log) /\ frames \in Seq(Frame) /\ log \in Seq(Entry)
          /\ Marked(frames, log)
      BY <1>2, <1>7, LogBefore
    <2>2. \A m \in 1 .. z : m \in 1 .. Len(frames)
      BY <1>3, <1>4
    <2>3. Marked(gs, log)
      BY <1>3, <1>6, <2>1, <2>2 DEF Marked
    <2>4. Waiting(i, gs, log)
      BY <1>3, <1>6, <2>1, WaitingFewer
    <2>5. \A m \in 1 .. z : gs[m].mark <= gs[z].mark
      <3>1. \A m \in 1 .. z - 1 : frames[m].mark <= frames[z].mark
        <4>1. z > 1 => z \in 2 .. Len(frames)
          BY <1>3, <1>4
        <4>2. \A m \in 1 .. z - 1 : z > 1
          BY <1>3
        <4> QED
          BY <1>7, <4>1, <4>2, LogBefore
      <3>2. gs[z].mark \in Nat
        BY <1>3, <2>3 DEF Marked
      <3> QED
        BY <1>3, <1>5, <1>6, <3>1, <3>2
    <2>6. RidTo(i, MadeIn(log, n), j) /\ Live(j) = Live(i) \ MadeIn(log, n)
      BY <1>1, <1>2 DEF RidTo
    <2>7. Layered(j, l)
      BY <1>1, <1>2, <2>1, <2>6, LayeredCut
    <2>8. Waiting(j, gs, l)
      BY <1>2, <1>3, <2>1, <2>3, <2>4, <2>5, <2>6, WaitingCut
    <2> QED
      BY <2>7, <2>8
  <1>8. frame'.todo = <<>>
    BY DEF frame
  <1> QED
    BY <1>1, <1>2, <1>7, <1>8, LogNext

LEMMA LogMatches ==
    ASSUME LogInv, Playing, Match
    PROVE  LogInv'
  <1>1. phase = "match" /\ frames \in Seq(Frame) /\ frames # <<>>
    BY MatchTyped DEF Match
  <1>2. CASE greedy
    <2>1. (Passed => pass' = pass) /\ \A n : Invoked(n) => pass' = pass
      BY DEF Passed, Invoked, Steady
    <2> QED
      BY <1>2, <2>1, MatchDoes, LogGreedy, LogFaults
  <1>3. ASSUME ~greedy, Unconverted PROVE LogInv'
    <2>1. Len(frames) > 1 /\ Len(frames) \in Nat
      BY <1>1, <1>3, MatchTyped
    <2>2. ASSUME Lost PROVE LogInv'
      <3>1. CASE phase' = "done"
        BY <3>1, LogOver
      <3>2. CASE phase' # "done"
        <4>1. PICK n, j : /\ n = frames[Len(frames) - 1].mark /\ GaveUp(n, j) /\ Len(frames) > 2
                          /\ frames' = [Front(frames) EXCEPT ![Len(frames) - 1].todo = <<>>]
                          /\ phase' = "match"
          BY <2>2, <3>2 DEF Lost
        <4>2. <<>> \in Seq(Ops)
          OBVIOUS
        <4>3. PICK gs \in Seq(Frame) :
                 /\ gs = [Front(frames) EXCEPT ![Len(frames) - 1].todo = <<>>]
                 /\ Len(gs) = Len(frames) - 1 /\ \A m \in 1 .. Len(frames) - 2 : gs[m] = frames[m]
                 /\ gs[Len(frames) - 1].mark = frames[Len(frames) - 1].mark
                 /\ gs[Len(frames) - 1].todo = <<>>
          BY <1>1, <2>1, <4>2, FramePopped, ZenonT(30)
        <4>4. PICK z \in Nat : z = Len(frames) /\ z > 2
          BY <2>1, <4>1
        <4>5. Len(gs) = z - 1 /\ Len(gs) <= z /\ Len(gs) - 1 = z - 2 /\ gs # <<>>
          BY <4>3, <4>4
        <4>6. /\ gs[Len(gs)].mark = n /\ gs[Len(gs)].todo = <<>>
              /\ gs[Len(gs)].mark = frames[Len(gs)].mark
              /\ \A m \in 1 .. Len(gs) - 1 : gs[m] = frames[m]
          BY <4>1, <4>3, <4>4, <4>5
        <4>7. frames' = gs
          BY <4>1, <4>3
        <4> QED
          BY <1>3, <4>1, <4>4, <4>5, <4>6, <4>7, LogUndoes
      <3> QED
        BY <3>1, <3>2
    <2>3. ASSUME Relisted(Advanced, "legalize") PROVE LogInv'
      <3>1. PICK gs \in Seq(Frame) :
                  /\ gs = Advanced /\ Len(gs) <= Len(frames)
                  /\ \A n \in 1 .. Len(gs) : /\ gs[n].mark = frames[n].mark
                                             /\ ToSet(gs[n].todo) \subseteq ToSet(frames[n].todo)
        BY <1>1, <1>3, <2>1, ListShrinks
      <3>2. Relisted(gs, "legalize")
        BY <2>3, <3>1
      <3> QED
        BY <1>3, <3>1, <3>2, LogRelists
    <2> QED
      BY <1>1, <1>3, <2>2, <2>3, UnconvertedDoes, LogFaults
  <1>4. ASSUME ~greedy, NEW n, Invoked(n) PROVE LogInv'
    <2>1. PICK i, l : i = ir /\ l = log
      OBVIOUS
    <2>2. n \in DOMAIN patterns /\ frames' = Retried(n) /\ pass' = pass /\ ir' = i /\ log' = l
      BY <1>4, <2>1 DEF Invoked, Steady
    <2>3. n \in Nat
      BY <2>2 DEF Playing, Typed, IsPass, patterns
    <2>4. PICK gs \in Seq(Frame) :
             /\ gs = [frames EXCEPT ![Len(frames)].tried = n]
             /\ Len(gs) = Len(frames) /\ \A m \in 1 .. Len(frames) - 1 : gs[m] = frames[m]
             /\ gs[Len(frames)].mark = frames[Len(frames)].mark
             /\ gs[Len(frames)].todo = frames[Len(frames)].todo
      BY <1>1, <2>3, FrameTried, ZenonT(30)
    <2>5. frames' = gs
      BY <2>2, <2>4 DEF Retried
    <2>6. PICK z \in Nat : z = Len(frames) /\ \A m \in 1 .. z : m = z \/ m \in 1 .. z - 1
      BY <1>1
    <2>7. \A m \in 1 .. Len(gs) : gs[m].mark = frames[m].mark /\ ToSet(gs[m].todo) \subseteq ToSet(frames[m].todo)
      BY <2>4, <2>6
    <2>8. Len(gs) <= Len(frames)
      BY <2>4, <2>6
    <2>9. frame'.todo = frame.todo /\ (phase' = "call" => ~Ran(Retires)')
      BY <1>1, <1>4, CallBegins
    <2>10. ~greedy /\ All(Disciplined) =>
              /\ Layered(i, l) /\ Waiting(i, gs, l)
              /\ phase' \in {"match", "call"} => frame'.todo = <<>>
              /\ phase' = "call" /\ Ran(Retires)' => root' \in GoneIn(l, Len(l))
      BY <1>1, <2>1, <2>7, <2>8, <2>9, LogBefore, WaitingFewer
    <2> QED
      BY <2>2, <2>5, <2>10, LogNext
  <1>5. Passed => greedy
    BY DEF Passed
  <1> QED
    BY <1>2, <1>3, <1>4, <1>5, MatchDoes, LogFaults

LEMMA LogAnswers ==
    ASSUME LogInv, Playing, Answer
    PROVE  LogInv'
  <1>1. phase = "call" /\ frames \in Seq(Frame) /\ frames # <<>> /\ log \in Seq(Entry)
    BY MatchTyped DEF Answer
  <1>2. PICK i, l : i = ir /\ l = log
    OBVIOUS
  <1>3. CASE Applauded \/ Declined
    BY <1>3, LogGreedy DEF Applauded, Declined, Steady
  <1>4. CASE Followed
    <2>1. /\ ~greedy /\ phase' = "legalize" /\ pass' = pass /\ ir' = i /\ log' = l
          /\ frames' = [frames EXCEPT ![Len(frames)].todo = CreatedSince(frame.mark)]
      BY <1>2, <1>4 DEF Followed, Steady
    <2>2. frame.mark \in 0 .. Len(log)
      BY <1>1, <2>1, MatchTyped
    <2>3. PICK v \in Seq(Ops) : v = CreatedSince(frame.mark) /\ ToSet(v) = MadeIn(log, frame.mark)
      BY <1>1, <2>2, LogReads
    <2>4. PICK gs \in Seq(Frame) :
             /\ gs = [frames EXCEPT ![Len(frames)].todo = v]
             /\ Len(gs) = Len(frames) /\ \A m \in 1 .. Len(frames) - 1 : gs[m] = frames[m]
             /\ gs[Len(frames)].todo = v /\ gs[Len(frames)].mark = frames[Len(frames)].mark
      BY <1>1, <2>3, FrameTodo, ZenonT(30)
    <2>5. frames' = gs
      BY <2>1, <2>3, <2>4
    <2>6. MadeIn(log, frame.mark) \subseteq MadeIn(log, 0)
      BY <1>1, <2>2 DEF MadeIn
    <2>7. ASSUME All(Disciplined) PROVE Layered(i, l) /\ Waiting(i, gs, l)
      <3>1. Layered(i, l) /\ Waiting(i, frames, l)
        BY <1>2, <2>1, <2>7, LogBefore
      <3>2. ToSet(v) \subseteq Live(i)
        BY <1>2, <2>3, <2>6, <3>1 DEF Layered
      <3>3. ToSet(gs[Len(frames)].todo) \subseteq Live(i)
        BY <2>4, <3>2
      <3> QED
        BY <1>1, <2>4, <3>1, <3>3, WaitingMore
    <2> QED
      BY <2>1, <2>5, <2>7, LogNext
  <1>5. ASSUME NEW n, NEW j, Discarded(n, j) PROVE LogInv'
    <2>1. ~greedy /\ GaveUp(n, j) /\ phase' = "match" /\ frames' = frames /\ n = frame.mark /\ pass' = pass
      BY <1>5 DEF Discarded, GaveUp, Steady
    <2>2. CASE All(Disciplined)
      <3>1. frame.todo = <<>>
        BY <1>1, <2>1, <2>2, LogBefore
      <3>2. PICK gs : gs = frames
        OBVIOUS
      <3>3. gs[Len(gs)].mark = n /\ gs[Len(gs)].todo = <<>>
        BY <2>1, <3>1, <3>2 DEF frame
      <3>4. /\ gs \in Seq(Frame) /\ gs # <<>> /\ Len(gs) <= Len(frames) /\ frames' = gs
            /\ \A m \in 1 .. Len(gs) - 1 : gs[m] = frames[m]
            /\ gs[Len(gs)].mark = frames[Len(gs)].mark
        BY <1>1, <2>1, <3>2
      <3> QED
        BY <2>1, <3>3, <3>4, LogUndoes
    <2>3. CASE ~All(Disciplined)
      BY <2>1, <2>3, SamePatterns DEF LogInv
    <2> QED
      BY <2>2, <2>3
  <1> QED
    BY <1>3, <1>4, <1>5, AnswerDoes, LogFaults, LogOver

(* A call of a function.                                                    *)
LEMMA LogCalls ==
    ASSUME LogInv, Playing, phase = "call", NEW do, Calling(do), NEW made, NEW saved, Continued(made, saved),
           NEW i, ir' = i, NEW l, log' = l,
           ~greedy /\ All(Disciplined) =>
              /\ Layered(i, l) /\ Waiting(i, frames, l) /\ GoneIn(log, Len(log)) \subseteq GoneIn(l, Len(l))
              /\ do \in Retires => root \in GoneIn(l, Len(l))
    PROVE  LogInv'
  <1>1. pass' = pass /\ frames' = frames /\ phase' = "call"
    BY DEF Continued
  <1>2. root' = root /\ (Ran(Retires)' <=> Ran(Retires) \/ do \in Retires)
    BY RanNext
  <1>3. frame' = frame
    BY <1>1 DEF frame
  <1>4. PICK fs : fs = frames
    OBVIOUS
  <1>5. ~greedy /\ All(Disciplined) =>
           /\ Layered(i, l) /\ Waiting(i, fs, l)
           /\ phase' \in {"match", "call"} => frame'.todo = <<>>
           /\ phase' = "call" /\ Ran(Retires)' => root' \in GoneIn(l, Len(l))
    BY <1>2, <1>3, <1>4, LogBefore
  <1> QED
    BY <1>1, <1>4, <1>5, LogNext

(* One that writes no log and leaves the uses of operations as they are.    *)
LEMMA LogKeeps ==
    ASSUME LogInv, Playing, phase = "call", NEW do, Calling(do), NEW made, NEW saved, Continued(made, saved),
           NEW i, ir' = i, Live(i) = Live(ir), i.arg = ir.arg, log' = log, do \notin Retires
    PROVE  LogInv'
  <1>1. PICK l : l = log
    OBVIOUS
  <1>2. ~greedy /\ All(Disciplined) => Layered(i, l) /\ Waiting(i, frames, l)
    BY <1>1, LogBefore DEF Layered, Waiting
  <1> QED
    BY <1>1, <1>2, LogCalls

LEMMA LogInserts ==
    ASSUME SafeInv, LogInv, Playing, Create \/ Push
    PROVE  LogInv'
  <1>1. phase = "call" /\ (Create => Calling("create")) /\ (Push => Calling("append"))
    BY DEF Create, Push, Calling
  <1>2. ASSUME Create, NEW o, NEW k, NEW j, Created(o, k, j) PROVE LogInv'
    <2>1. /\ ir' = j /\ Continued(Append(call.made, o), call.saved) /\ o \in Ops \ Live(ir)
          /\ GrownAt(ir, o, k, Argument, point.block, point.before, j)
          /\ ~greedy => log' = Append(log, [did |-> "create", op |-> o])
      BY <1>2 DEF Created
    <2>2. CASE greedy
      BY <2>1, <2>2, LogGreedy DEF Continued
    <2>3. CASE ~greedy
      <3>1. PICK d, l, fs : d = [did |-> "create", op |-> o] /\ l = Append(log, d) /\ fs = frames
        OBVIOUS
      <3>2. log' = l /\ log \in Seq(Entry) /\ "create" \notin Retires
        BY <2>1, <2>3, <3>1 DEF Playing, Typed, Retires
      <3>3. Live(j) = Live(ir) \cup {o} /\ \A x \in Live(ir) : j.arg[x] = ir.arg[x]
        BY <2>1 DEF GrownAt, Live
      <3>4. ASSUME All(Disciplined) PROVE Layered(j, l) /\ Waiting(j, frames, l)
        <4>1. Layered(ir, log) /\ Waiting(ir, frames, log) /\ frames \in Seq(Frame) /\ Marked(frames, log)
          BY <2>3, <3>4, LogBefore
        <4>2. Defined(ir)
          <5>1. Sane
            BY <1>1, <2>3, <3>4, RootWaits DEF Sane, Harmed
          <5> QED
            BY <1>1, <5>1, SafeBefore
        <4>3. Layered(j, l)
          BY <2>1, <3>1, <3>2, <3>3, <4>1, <4>2, LayeredCreate
        <4>4. Waiting(j, frames, l)
          BY <2>1, <3>1, <3>2, <3>3, <4>1, WaitingCreate
        <4> QED
          BY <4>3, <4>4
      <3>5. GoneIn(log, Len(log)) \subseteq GoneIn(l, Len(l))
        <4>1. PICK e \in Entry : e = [did |-> "create", op |-> o] /\ e.did = "create"
          BY <2>1 DEF Entry
        <4>2. Len(log) \in 0 .. Len(log) /\ Len(l) = Len(log) + 1
          BY <3>1, <3>2
        <4> QED
          BY <3>1, <3>2, <4>1, <4>2, LogGrows
      <3> QED
        BY <1>1, <1>2, <2>1, <3>2, <3>4, <3>5, LogCalls
    <2> QED
      BY <2>2, <2>3
  <1>3. ASSUME Push, NEW o, NEW k, NEW b, NEW j, Pushed(o, k, b, j) PROVE LogInv'
    <2>1. Continued(call.made, call.saved) /\ pass' = pass
      BY <1>3 DEF Pushed, Continued
    <2>2. CASE greedy
      BY <2>1, <2>2, LogGreedy
    <2>3. CASE ~greedy
      <3>1. Does(script, {"append"})
        BY <1>1, <1>3, CallFacts
      <3>2. ~All(Disciplined)
        BY <1>1, <2>3, <3>1, Disciplines DEF Disciplined
      <3> QED
        BY <2>1, <3>2, SamePatterns DEF LogInv
    <2> QED
      BY <2>2, <2>3
  <1> QED
    BY <1>2, <1>3, CreateDoes, PushDoes, LogFaults

LEMMA LogNotes ==
    ASSUME LogInv, Playing, phase = "call", NEW do \in Retires \cup {"eraseDef"}, Calling(do),
           NEW o, NEW by, Retired(o, by), do \in Retires => o = root
    PROVE  LogInv'
  <1>1. CASE greedy
    BY <1>1, LogGreedy, RetiresGoOn
  <1>2. CASE ~greedy
    <2>1. /\ o \in Live(ir) /\ by \in Ops \cup {None} /\ Continued(call.made, call.saved) /\ ir' = ir
          /\ log' = Append(log, [did |-> "replace", op |-> o, by |-> by])
      BY <1>2 DEF Retired, Noted
    <2>2. PICK i, d, l : i = ir /\ d = [did |-> "replace", op |-> o, by |-> by] /\ l = Append(log, d)
      OBVIOUS
    <2>3. log' = l /\ log \in Seq(Entry) /\ o \in Ops /\ ir' = i
      BY <2>1, <2>2 DEF Playing, Typed, Live
    <2>4. ASSUME All(Disciplined) PROVE Layered(i, l) /\ Waiting(i, frames, l)
      <3>1. Layered(i, log) /\ Waiting(i, frames, log) /\ frames \in Seq(Frame) /\ Marked(frames, log)
        BY <1>2, <2>2, <2>4, LogBefore
      <3>2. Layered(i, l)
        BY <2>1, <2>2, <2>3, <3>1, LayeredReplace
      <3>3. Waiting(i, frames, l)
        BY <2>1, <2>2, <2>3, <3>1, WaitingReplace
      <3> QED
        BY <3>2, <3>3
    <2>5. GoneIn(log, Len(log)) \subseteq GoneIn(l, Len(l)) /\ o \in GoneIn(l, Len(l))
      <3>1. PICK e \in Entry : e = [did |-> "replace", op |-> o, by |-> by] /\ e.did = "replace" /\ e.op = o
        BY <2>1, <2>3 DEF Entry
      <3>2. Len(log) \in 0 .. Len(log) /\ Len(l) = Len(log) + 1
        BY <2>2, <2>3
      <3> QED
        BY <2>2, <2>3, <3>1, <3>2, LogGrows
    <2> QED
      BY <2>1, <2>3, <2>4, <2>5, LogCalls
  <1> QED
    BY <1>1, <1>2

LEMMA LogErases ==
    ASSUME LogInv, Playing, Replace \/ Erase \/ EraseDef
    PROVE  LogInv'
  <1>1. /\ phase = "call" /\ (Replace => Calling("replace")) /\ (Erase => Calling("erase"))
        /\ (EraseDef => Calling("eraseDef")) /\ {"replace", "erase"} \subseteq Retires /\ "eraseDef" \notin Retires
    BY DEF Replace, Erase, EraseDef, Calling, Retires
  <1>2. root \in Ops
    BY <1>1, MatchTyped
  <1>3. CASE Replace
    <2>1. Retired(root, Argument) => LogInv'
      BY <1>1, <1>3, LogNotes
    <2> QED
      BY <1>3, <2>1, ReplaceDoes, LogFaults
  <1>4. CASE Erase
    <2>1. EraseOp(root)
      BY <1>4 DEF Erase
    <2>2. Retired(root, root) => LogInv'
      BY <1>1, <1>4, LogNotes
    <2> QED
      BY <1>1, <1>2, <2>1, <2>2, EraseDoes, LogFaults
  <1>5. CASE EraseDef
    <2>1. Calling("eraseDef")
      BY <1>1, <1>5
    <2>2. Retired(call.held, call.held) => LogInv'
      BY <1>1, <2>1, LogNotes
    <2>3. ASSUME call.held = None, Continued(call.made, call.saved), UNCHANGED <<ir, point, work, log>>
          PROVE  LogInv'
      <3>1. PICK i : i = ir
        OBVIOUS
      <3> QED
        BY <1>1, <2>1, <2>3, <3>1, LogKeeps
    <2> QED
      BY <1>5, <2>2, <2>3, EraseDefDoes, LogFaults
  <1> QED
    BY <1>3, <1>4, <1>5

LEMMA LogMoves ==
    ASSUME LogInv, Playing, Unlink \/ SplitBlock \/ SetPoint \/ SavePoint \/ RestorePoint
    PROVE  LogInv'
  <1>1. /\ phase = "call" /\ (Unlink => Calling("unlink")) /\ (SplitBlock => Calling("split"))
        /\ (SavePoint => Calling("save")) /\ (RestorePoint => Calling("restore"))
    BY DEF Unlink, SplitBlock, SetPoint, SavePoint, RestorePoint, Calling
  <1>2. CASE Unlink
    <2>1. Does(script, {"unlink"})
      BY <1>1, <1>2, CallFacts
    <2>2. \A j : Unlinked(j) => pass' = pass
      BY DEF Unlinked, Continued
    <2>3. ~All(Disciplined)
      BY <1>1, <2>1, Disciplines DEF Disciplined
    <2>4. pass' = pass => LogInv'
      BY <2>3, SamePatterns DEF LogInv
    <2> QED
      BY <1>2, <2>2, <2>4, UnlinkDoes, LogFaults
  <1>3. CASE SplitBlock
    <2>1. Calling("split") /\ "split" \notin Retires
      BY <1>1, <1>3 DEF Retires
    <2>2. ASSUME NEW new, NEW j, Parted(new, j) PROVE LogInv'
      <3>1. Live(j) = Live(ir) /\ j.arg = ir.arg /\ ir' = j /\ Continued(call.made, call.saved) /\ log' = log
        BY <2>2 DEF Parted, SplitTo, Live
      <3> QED
        BY <1>1, <2>1, <3>1, LogKeeps
    <2> QED
      BY <1>3, <2>2, SplitDoes, LogFaults
  <1>4. PICK i : i = ir
    OBVIOUS
  <1>5. ASSUME NEW do, NEW p, Moved(do, p) PROVE LogInv'
    <2>1. Calling(do) /\ do \notin Retires /\ Continued(call.made, call.saved) /\ ir' = ir /\ log' = log
      BY <1>5 DEF Moved, Moves, Retires
    <2> QED
      BY <1>1, <1>4, <2>1, LogKeeps
  <1>6. ASSUME NEW saved, NEW p, Recalled(saved, p), NEW do \in {"save", "restore"}, Calling(do) PROVE LogInv'
    <2>1. do \notin Retires /\ Continued(call.made, saved) /\ ir' = ir /\ log' = log
      BY <1>6 DEF Recalled, Retires
    <2> QED
      BY <1>1, <1>4, <1>6, <2>1, LogKeeps
  <1> QED
    BY <1>1, <1>2, <1>3, <1>5, <1>6, SetPointDoes, SavesDoes, LogFaults

LEMMA LogStarts ==
    ASSUME Init
    PROVE  LogInv
  <1>1. log = <<>> /\ frames = <<>> /\ phase = "start"
    BY DEF Init
  <1>2. Len(<<>>) = 0 /\ DOMAIN <<>> = {} /\ 1 .. 0 = {} /\ \A n \in 0 .. 0 : n + 1 .. 0 = {}
    OBVIOUS
  <1>3. \A n \in 0 .. 0 : MadeIn(<<>>, n) = {}
    BY <1>2 DEF MadeIn
  <1>4. Layered(ir, log)
    BY <1>1, <1>2, <1>3 DEF Layered, MadeOnce
  <1>5. Waiting(ir, frames, log)
    BY <1>1, <1>2 DEF Waiting
  <1> QED
    BY <1>1, <1>4, <1>5 DEF LogInv

LEMMA LogStutters ==
    ASSUME LogInv, UNCHANGED vars
    PROVE  LogInv'
  <1>1. /\ pass' = pass /\ ir' = ir /\ frames' = frames /\ call' = call /\ log' = log /\ phase' = phase
    BY DEF vars
  <1>2. greedy' = greedy /\ patterns' = patterns /\ (All(Disciplined)' <=> All(Disciplined))
    BY <1>1, SamePatterns
  <1>3. script' = script /\ frame' = frame /\ root' = root
    BY <1>1, <1>2 DEF frame, root, script
  <1>4. Ran(Retires)' <=> Ran(Retires)
    BY <1>1, <1>3 DEF Ran, Over
  <1>5. (Layered(ir, log)' <=> Layered(ir, log)) /\ (Waiting(ir, frames, log)' <=> Waiting(ir, frames, log))
    BY <1>1 DEF Layered, MadeOnce, MadeIn, Live, Waiting
  <1>6. (root \in GoneIn(log, Len(log)))' <=> root \in GoneIn(log, Len(log))
    BY <1>1, <1>3 DEF GoneIn
  <1> QED
    BY <1>1, <1>2, <1>3, <1>4, <1>5, <1>6 DEF LogInv, Underway

LEMMA LogInductive ==
    ASSUME ConversionInv, GreedyInv, PlaceInv, SafeInv, LogInv, [Next]_vars
    PROVE  LogInv'
  <1>1. CASE UNCHANGED vars
    BY <1>1, LogStutters
  <1>2. CASE Next /\ ~(UNCHANGED vars)
    <2>1. Playing
      BY <1>2, Moving, Invited DEF PlaceInv, Underway
    <2>2. CASE Exhausted
      BY <2>2, LogOver DEF Exhausted, Stop
    <2>3. ~Finished
      BY <1>2 DEF Finished
    <2> QED
      BY <1>2, <2>1, <2>2, <2>3, LogDrives, LogMatches, LogAnswers, LogInserts, LogErases, LogMoves DEF Next
  <1> QED
    BY <1>1, <1>2

LEMMA DisciplineAlways == Spec => [](ConversionInv /\ GreedyInv /\ PlaceInv /\ SafeInv /\ PointInv /\ LogInv)
  <1>1. Init => PointInv /\ LogInv
    <2>1. Init => PointInv
      BY DEF Init, PointInv, greedy
    <2> QED
      BY <2>1, LogStarts
  <1>2. ConversionInv /\ GreedyInv /\ PlaceInv /\ SafeInv /\ PointInv /\ LogInv /\ [Next]_vars
           => PointInv' /\ LogInv'
    BY PointInductive, LogInductive
  <1> QED
    BY <1>1, <1>2, SafeAlways, PTL DEF Spec

(***************************************************************************)
(* So nothing that was erased is read, and what a conversion undoes or is  *)
(* told that it replaced is as the log says.                               *)
(***************************************************************************)
Harmless == phase' = "fault" => result' = "used"

LEMMA UsedHarmless ==
    ASSUME Fault("used")
    PROVE  Harmless
  BY DEF Fault, Stop, Harmless

LEMMA CallsHarmless ==
    ASSUME NEW made, NEW saved, Continued(made, saved)
    PROVE  Harmless
  BY DEF Continued, Harmless

LEMMA LogUndoable ==
    ASSUME LogInv, Playing, ~greedy, All(Disciplined), NEW n \in 0 .. Len(log)
    PROVE  Undoable(n)
  <1>1. Layered(ir, log) /\ log \in Seq(Entry)
    BY LogBefore
  <1>2. ToSet(CreatedSince(n)) = MadeIn(log, n)
    BY <1>1, LogReads
  <1>3. MadeIn(log, n) \subseteq MadeIn(log, 0)
    BY <1>1 DEF MadeIn
  <1> QED
    BY <1>1, <1>2, <1>3 DEF Undoable, Layered

LEMMA HarmlessDrives ==
    ASSUME SafeInv, LogInv, Playing, All(Disciplined),
           Walk \/ Pop \/ Iterate \/ Collect \/ Legalize \/ Legalized
    PROVE  Harmless
  <1>1. CASE Walk \/ Iterate \/ Collect
    BY <1>1 DEF Walk, Iterate, Collect, Stop, Harmless
  <1>2. CASE Pop
    <2>1. greedy /\ phase = "pop" /\ work \in Seq(Ops)
      BY <1>2 DEF Pop, Playing, Paced
    <2>2. ToSet(work) \subseteq Live(ir)
      BY <2>1 DEF SafeInv, Sane, Playing
    <2>3. work # <<>> => Last(work) \in Live(ir)
      BY <2>1, <2>2, LastOut
    <2>4. \A o, j : (Swept(o, j) => Harmless) /\ (Begun(o) => Harmless)
      BY DEF Swept, Begun, Harmless
    <2> QED
      BY <1>2, <2>3, <2>4, PopDoes
  <1>3. CASE Legalize
    <2>1. frame.todo # <<>> /\ phase = "legalize" /\ ~greedy
      BY <1>3, LegalizeDoes
    <2>2. frames \in Seq(Frame) /\ frames # <<>> /\ Waiting(ir, frames, log)
      BY <2>1, LogBefore DEF Playing, Typed, Shape
    <2>3. PICK z \in Nat : z = Len(frames) /\ z \in 1 .. z
      BY <2>2
    <2>4. frames[z] \in Frame /\ frame = frames[z]
      BY <2>2, <2>3 DEF frame
    <2>5. Head(frame.todo) \in ToSet(frame.todo)
      BY <2>1, <2>4, HeadTail DEF Frame
    <2>6. Head(frame.todo) \in Live(ir)
      BY <2>2, <2>3, <2>4, <2>5 DEF Waiting
    <2>7. \A fs, ph : Relisted(fs, ph) /\ ph # "fault" => Harmless
      BY DEF Relisted, Harmless
    <2> QED
      BY <1>3, <2>6, <2>7, LegalizeDoes DEF Live
  <1>4. CASE Legalized
    <2>1. (Closed => Harmless) /\ (Relisted(Advanced, "legalize") => Harmless)
      BY DEF Closed, Relisted, Harmless
    <2> QED
      BY <1>4, <2>1, LegalizedDoes, UsedHarmless
  <1> QED
    BY <1>1, <1>2, <1>3, <1>4

LEMMA HarmlessMatches ==
    ASSUME SafeInv, LogInv, Playing, All(Disciplined), Match
    PROVE  Harmless
  <1>1. phase = "match"
    BY DEF Match
  <1>2. root \in Live(ir)
    BY <1>1, RootWaits DEF SafeInv, Sane, Playing
  <1>3. ASSUME ~greedy, Unconverted PROVE Harmless
    <2>1. (Lost => Harmless) /\ (Relisted(Advanced, "legalize") => Harmless)
      BY DEF Lost, Relisted, Harmless
    <2> QED
      BY <1>1, <1>3, <2>1, UnconvertedDoes, LogUndoable
  <1>4. (Passed => Harmless) /\ \A n : Invoked(n) => Harmless
    BY DEF Passed, Invoked, Harmless
  <1> QED
    BY <1>2, <1>3, <1>4, MatchDoes

LEMMA HarmlessAnswers ==
    ASSUME SafeInv, LogInv, Playing, All(Disciplined), Answer
    PROVE  Harmless
  <1>1. phase = "call" /\ call.at > Len(script.calls)
    BY DEF Answer
  <1>2. ASSUME ~greedy, script.answer = "True" PROVE root \in Replaced
    <2>1. Does(script, Retires)
      BY <1>1, <1>2, Disciplines DEF Disciplined, Removes
    <2>2. Ran(Retires)
      BY <1>1, <2>1, RanAtEnds
    <2>3. log \in Seq(Entry) /\ root \in GoneIn(log, Len(log))
      BY <1>1, <1>2, <2>2, LogBefore
    <2>4. Len(log) \in 0 .. Len(log)
      BY <2>3
    <2> QED
      BY <2>3, <2>4, LogReads
  <1>3. /\ phase' = "raised" => Harmless
        /\ (Followed => Harmless) /\ (Applauded => Harmless) /\ (Declined => Harmless)
        /\ \A n, j : Discarded(n, j) => Harmless
    BY DEF Followed, Applauded, Declined, Discarded, Harmless
  <1> QED
    BY <1>2, <1>3, AnswerDoes, LogUndoable

(* What the calls of a disciplined function read is there.                  *)
LEMMA CallsRead ==
    ASSUME SafeInv, LogInv, Playing, phase = "call", All(Disciplined), NEW do, Calling(do)
    PROVE  /\ do \in Retires \cup Inserts \cup {"before", "after", "split"} => root \in Live(ir) /\ ~RootFreed
           /\ do \in Inserts \cup {"eraseDef", "replace"} => call.held \in Live(ir) \cup {None}
           /\ do = "replace" => Argument \in Live(ir) \cup {None}
           /\ do # "unlink"
  <1>1. Sane
    BY RootWaits DEF Sane, Harmed
  <1>2. PICK rk : Ranked(ir, rk) /\ SafeCall(rk)
    BY <1>1, SafeBefore
  <1>3. /\ do \in Retires \cup Inserts \cup {"before", "after", "split"} => RootStays
        /\ do \in Inserts \cup {"eraseDef", "replace"} => HeldStays
        /\ do # "unlink"
    <2>1. Disciplined(script) /\ Does(script, {do})
      BY Disciplines, CallFacts
    <2> QED
      BY <1>1, <2>1, NothingErased DEF Disciplined
  <1>4. /\ RootStays => root \in Live(ir)
        /\ HeldStays => call.held \in Live(ir) \cup {None}
    BY <1>2 DEF SafeCall
  <1>5. root \in Live(ir) => ~RootFreed
    BY DEF Live, RootFreed
  <1>6. do = "replace" => Argument \in Live(ir) \cup {None}
    BY <1>2, <1>3, ArgumentBelow DEF Retires
  <1> QED
    BY <1>3, <1>4, <1>5, <1>6

LEMMA HarmlessInserts ==
    ASSUME SafeInv, PointInv, LogInv, Playing, All(Disciplined), Create \/ Push
    PROVE  Harmless
  <1>1. /\ phase = "call" /\ (Create => Calling("create")) /\ (Push => Calling("append"))
        /\ {"create", "append"} \subseteq Inserts
    BY DEF Create, Push, Calling, Inserts
  <1>2. ~RootFreed
    BY <1>1, CallsRead
  <1>3. ASSUME Create PROVE Sound(point)
    <2>1. ~Upset
      BY <1>1, <1>3, Disciplines, RanBefore DEF Disciplined
    <2>2. SoundIn(ir, point)
      BY <1>1, <2>1 DEF PointInv, Playing
    <2>3. Seated(ir) /\ point.block \in Blocks
      BY RegionBlocks DEF Playing, Seated, Placing, PointsOf
    <2>4. CASE point.before = End
      BY <2>4 DEF Sound
    <2>5. CASE point.before # End
      <3>1. point.before \in ToSet(ir.body[point.block]) /\ point.before \in Live(ir)
        BY <2>2, <2>3, <2>5 DEF SoundIn, Seated
      <3>2. BlockOf(ir, point.before) = point.block
        BY <2>3, <3>1, OneHome
      <3> QED
        BY <3>1, <3>2 DEF Sound, Live
    <2> QED
      BY <2>4, <2>5
  <1>4. ASSUME NEW o, NEW k, NEW j, Created(o, k, j) PROVE Harmless
    BY <1>4, CallsHarmless DEF Created
  <1>5. ASSUME NEW o, NEW k, NEW b, NEW j, Pushed(o, k, b, j) PROVE Harmless
    BY <1>5, CallsHarmless DEF Pushed
  <1> QED
    BY <1>2, <1>3, <1>4, <1>5, CreateDoes, PushDoes

LEMMA HarmlessErases ==
    ASSUME SafeInv, LogInv, Playing, All(Disciplined), Replace \/ Erase \/ EraseDef
    PROVE  Harmless
  <1>1. /\ phase = "call" /\ (Replace => Calling("replace")) /\ (Erase => Calling("erase"))
        /\ (EraseDef => Calling("eraseDef")) /\ {"replace", "erase"} \subseteq Retires
    BY DEF Replace, Erase, EraseDef, Calling, Retires
  <1>2. root \in Ops
    BY <1>1, MatchTyped
  <1>3. \A o, by : Retired(o, by) => Harmless
    BY RetiresGoOn, CallsHarmless
  <1>4. Replace => ~RootFreed /\ Argument \in Live(ir) \cup {None}
    BY <1>1, CallsRead
  <1>5. Erase => root \in Live(ir) /\ EraseOp(root)
    BY <1>1, CallsRead DEF Erase
  <1>6. EraseDef => call.held \in Live(ir) \cup {None}
    BY <1>1, CallsRead
  <1> QED
    BY <1>1, <1>2, <1>3, <1>4, <1>5, <1>6, ReplaceDoes, EraseDoes, EraseDefDoes, UsedHarmless, CallsHarmless

LEMMA HarmlessMoves ==
    ASSUME SafeInv, LogInv, Playing, All(Disciplined), Unlink \/ SplitBlock \/ SetPoint \/ SavePoint \/ RestorePoint
    PROVE  Harmless
  <1>1. /\ phase = "call" /\ (Unlink => Calling("unlink")) /\ (SplitBlock => Calling("split"))
        /\ SetPoint => Calling(now.do)
    BY DEF Unlink, SplitBlock, SetPoint, SavePoint, RestorePoint, Calling
  <1>2. ~Unlink
    BY <1>1, CallsRead
  <1>3. SplitBlock => ~RootFreed
    BY <1>1, CallsRead
  <1>4. SetPoint /\ now.do \in {"before", "after"} => ~RootFreed
    BY <1>1, CallsRead
  <1>5. /\ \A new, j : Parted(new, j) => Harmless
        /\ \A do, p : Moved(do, p) => Harmless
        /\ \A saved, p : Recalled(saved, p) => Harmless
    BY CallsHarmless DEF Parted, Moved, Recalled
  <1> QED
    BY <1>2, <1>3, <1>4, <1>5, SplitDoes, SetPointDoes, SavesDoes

LEMMA FaultInductive ==
    ASSUME ConversionInv, GreedyInv, PlaceInv, SafeInv, PointInv, LogInv, NoFault, [Next]_vars
    PROVE  NoFault'
  <1>1. CASE UNCHANGED vars
    <2>1. pass' = pass /\ phase' = phase /\ result' = result
      BY <1>1 DEF vars
    <2> QED
      BY <2>1, SamePatterns DEF NoFault
  <1>2. CASE Next /\ ~(UNCHANGED vars)
    <2>1. Playing
      BY <1>2, Moving, Invited DEF PlaceInv, Underway
    <2>2. CASE Exhausted
      BY <2>2 DEF Exhausted, Stop, NoFault
    <2>3. ~Finished
      BY <1>2 DEF Finished
    <2>4. pass' = pass
      BY <1>2 DEF Next, Walk, Pop, Iterate, Collect, Legalize, Legalized, Match, Unmatched, Unconverted, GiveUp,
         Surrender, Answer, Create, Push, Replace, Erase, EraseDef, EraseOp, Unlink, SplitBlock, SetPoint,
         SavePoint, RestorePoint, Exhausted, Finished, Fault, Stop, vars
    <2>5. All(Disciplined)' <=> All(Disciplined)
      BY <2>4, SamePatterns
    <2>6. All(Disciplined) /\ ~Exhausted => Harmless
      BY <1>2, <2>1, <2>3, HarmlessDrives, HarmlessMatches, HarmlessAnswers, HarmlessInserts,
         HarmlessErases, HarmlessMoves DEF Next
    <2> QED
      BY <2>2, <2>5, <2>6 DEF NoFault, Harmless
  <1> QED
    BY <1>1, <1>2

(* With disciplined functions no erased operation is ever read, by the      *)
(* driver from its worklist or its lists, by a later pattern for the same   *)
(* root, by the builder of ExposeBuilder.cpp through its insertion point or *)
(* by a call of a function: the only fault is to erase what is still used.  *)
THEOREM DisciplinedNeverFault == Spec => []NoFault
  <1>1. Init => NoFault
    BY DEF Init, NoFault
  <1>2. ConversionInv /\ GreedyInv /\ PlaceInv /\ SafeInv /\ PointInv /\ LogInv /\ NoFault /\ [Next]_vars => NoFault'
    BY FaultInductive
  <1> QED
    BY <1>1, <1>2, DisciplineAlways, PTL DEF Spec

(***************************************************************************)
(* At the end of a conversion a use goes to what replaces its operand, to  *)
(* what replaces that, and so on.  With ranks that fall this ends, at an   *)
(* operation or at None, so that what a conversion leaves has its type.    *)
(***************************************************************************)
Follows(S, N, nx, f) == f = [o \in S |-> IF o \in N THEN f[nx[o]] ELSE o]

FollowsBelow(S, N, nx, rk, n, g) ==
    \A o \in S : rk[o] < n => g[o] = IF o \in N THEN g[nx[o]] ELSE o

LEMMA FollowsStart ==
    ASSUME NEW S, NEW N \in SUBSET S, NEW nx \in [N -> S], NEW rk \in [S -> Nat],
           \A o \in N : rk[nx[o]] < rk[o], NEW n \in Nat
    PROVE  \E g \in [S -> S] : FollowsBelow(S, N, nx, rk, n, g)
  <1> DEFINE Wrong == {m \in Nat : ~\E g \in [S -> S] : FollowsBelow(S, N, nx, rk, m, g)}
  <1>1. ASSUME Wrong # {} PROVE FALSE
    <2>1. PICK m \in Wrong : \A j \in Wrong : m <= j
      <3> HIDE DEF Wrong
      <3>1. Wrong \in SUBSET Nat
        BY DEF Wrong
      <3> QED
        BY <1>1, <3>1, Least
    <2>2. m # 0
      <3>1. PICK g \in [S -> S] : g = [o \in S |-> o]
        OBVIOUS
      <3>2. \A o \in S : ~(rk[o] < 0)
        OBVIOUS
      <3>3. FollowsBelow(S, N, nx, rk, 0, g)
        BY <3>2 DEF FollowsBelow
      <3> QED
        BY <2>1, <3>3
    <2>3. PICK k \in Nat : m = k + 1
      BY <2>1, <2>2
    <2>4. PICK g \in [S -> S] : FollowsBelow(S, N, nx, rk, k, g)
      BY <2>1, <2>3
    <2>5. PICK h : h = [o \in S |-> IF rk[o] = k THEN (IF o \in N THEN g[nx[o]] ELSE o) ELSE g[o]]
      OBVIOUS
    <2>6. h \in [S -> S]
      BY <2>4, <2>5
    <2>7. ASSUME NEW o \in S, rk[o] < m PROVE h[o] = IF o \in N THEN h[nx[o]] ELSE o
      <3>1. rk[o] = k \/ rk[o] < k
        BY <2>3, <2>7
      <3>2. h[o] = IF o \in N THEN g[nx[o]] ELSE o
        BY <2>4, <2>5, <2>7, <3>1 DEF FollowsBelow
      <3>3. o \in N => nx[o] \in S /\ rk[nx[o]] < k
        BY <2>3, <3>1
      <3>4. o \in N => h[nx[o]] = g[nx[o]]
        BY <2>5, <3>3
      <3> QED
        BY <3>2, <3>4
    <2> QED
      BY <2>1, <2>6, <2>7 DEF FollowsBelow
  <1> QED
    BY <1>1

LEMMA FollowsAgree ==
    ASSUME NEW S, NEW N \in SUBSET S, NEW nx \in [N -> S], NEW rk \in [S -> Nat],
           \A o \in N : rk[nx[o]] < rk[o], NEW n \in Nat, NEW m \in Nat,
           NEW g, FollowsBelow(S, N, nx, rk, n, g), NEW h, FollowsBelow(S, N, nx, rk, m, h),
           NEW o \in S, rk[o] < n, rk[o] < m
    PROVE  g[o] = h[o]
  <1> DEFINE Wrong == {k \in Nat : \E x \in S : rk[x] = k /\ k < n /\ k < m /\ g[x] # h[x]}
  <1>1. ASSUME Wrong # {} PROVE FALSE
    <2>1. PICK k \in Wrong : \A j \in Wrong : k <= j
      <3> HIDE DEF Wrong
      <3>1. Wrong \in SUBSET Nat
        BY DEF Wrong
      <3> QED
        BY <1>1, <3>1, Least
    <2>2. PICK x \in S : rk[x] = k /\ k < n /\ k < m /\ g[x] # h[x]
      BY <2>1
    <2>3. (g[x] = IF x \in N THEN g[nx[x]] ELSE x) /\ (h[x] = IF x \in N THEN h[nx[x]] ELSE x)
      BY <2>2 DEF FollowsBelow
    <2>4. x \in N
      BY <2>2, <2>3
    <2>5. nx[x] \in S /\ rk[nx[x]] < k /\ rk[nx[x]] \in Nat
      BY <2>2, <2>4
    <2>6. rk[nx[x]] \notin Wrong
      BY <2>1, <2>5
    <2>7. g[nx[x]] = h[nx[x]]
      BY <2>1, <2>2, <2>5, <2>6
    <2> QED
      BY <2>2, <2>3, <2>4, <2>7
  <1>2. rk[o] \in Nat
    OBVIOUS
  <1> QED
    BY <1>1, <1>2

LEMMA FollowsExist ==
    ASSUME NEW S, NEW N \in SUBSET S, NEW nx \in [N -> S], NEW rk \in [S -> Nat],
           \A o \in N : rk[nx[o]] < rk[o]
    PROVE  \E f : Follows(S, N, nx, f)
  <1>1. PICK w : w = [n \in Nat |-> CHOOSE g \in [S -> S] : FollowsBelow(S, N, nx, rk, n, g)]
    OBVIOUS
  <1>2. \A n \in Nat : w[n] \in [S -> S] /\ FollowsBelow(S, N, nx, rk, n, w[n])
    BY <1>1, FollowsStart
  <1>3. PICK f : f = [o \in S |-> w[rk[o] + 1][o]]
    OBVIOUS
  <1>4. ASSUME NEW o \in S PROVE f[o] = IF o \in N THEN f[nx[o]] ELSE o
    <2>1. rk[o] + 1 \in Nat /\ rk[o] < rk[o] + 1
      OBVIOUS
    <2>2. f[o] = IF o \in N THEN w[rk[o] + 1][nx[o]] ELSE o
      BY <1>2, <1>3, <2>1 DEF FollowsBelow
    <2>3. ASSUME o \in N PROVE w[rk[o] + 1][nx[o]] = f[nx[o]]
      <3>1. PICK y \in S : y = nx[o]
        BY <2>3
      <3>2. rk[y] < rk[o] + 1 /\ rk[y] < rk[y] + 1 /\ rk[y] + 1 \in Nat
        BY <2>3, <3>1
      <3>3. PICK g, h : g = w[rk[o] + 1] /\ h = w[rk[y] + 1]
        OBVIOUS
      <3>4. FollowsBelow(S, N, nx, rk, rk[o] + 1, g) /\ FollowsBelow(S, N, nx, rk, rk[y] + 1, h)
        BY <1>2, <2>1, <3>2, <3>3
      <3>5. g[y] = h[y]
        BY <2>1, <3>2, <3>4, FollowsAgree
      <3> QED
        BY <1>3, <3>1, <3>3, <3>5
    <2> QED
      BY <2>2, <2>3
  <1>5. PICK e : e = [o \in S |-> IF o \in N THEN f[nx[o]] ELSE o]
    OBVIOUS
  <1>6. f = e
    BY <1>3, <1>4, <1>5
  <1> QED
    BY <1>5, <1>6 DEF Follows

LEMMA FollowsTyped ==
    ASSUME NEW S, NEW N \in SUBSET S, NEW nx \in [N -> S], NEW rk \in [S -> Nat],
           \A o \in N : rk[nx[o]] < rk[o], NEW f, Follows(S, N, nx, f)
    PROVE  f \in [S -> S]
  <1> DEFINE Wrong == {k \in Nat : \E x \in S : rk[x] = k /\ f[x] \notin S}
  <1>1. ASSUME Wrong # {} PROVE FALSE
    <2>1. PICK k \in Wrong : \A j \in Wrong : k <= j
      <3> HIDE DEF Wrong
      <3>1. Wrong \in SUBSET Nat
        BY DEF Wrong
      <3> QED
        BY <1>1, <3>1, Least
    <2>2. PICK x \in S : rk[x] = k /\ f[x] \notin S
      BY <2>1
    <2>3. f[x] = IF x \in N THEN f[nx[x]] ELSE x
      BY DEF Follows
    <2>4. x \in N
      BY <2>2, <2>3
    <2>5. nx[x] \in S /\ rk[nx[x]] < k /\ rk[nx[x]] \in Nat
      BY <2>2, <2>4
    <2>6. rk[nx[x]] \notin Wrong
      BY <2>1, <2>5
    <2> QED
      BY <2>2, <2>3, <2>4, <2>5, <2>6
  <1>2. \A o \in S : f[o] \in S
    BY <1>1
  <1>3. DOMAIN f = S /\ f = [o \in S |-> f[o]]
    BY DEF Follows
  <1> QED
    BY <1>2, <1>3

LEMMA ByWritten ==
    ASSUME log \in Seq(Entry), NEW o \in Replaced
    PROVE  /\ o \in Ops /\ By(o) \in Ops \cup {None}
           /\ \E k \in 1 .. Len(log) : log[k].did = "replace" /\ log[k].op = o /\ log[k].by = By(o)
  <1>1. 0 \in 0 .. Len(log) /\ 0 + 1 = 1
    OBVIOUS
  <1>2. ToSet(Entries("replace")) = {log[k] : k \in {j \in 1 .. Len(log) : log[j].did = "replace"}}
    BY <1>1, EntriesRead DEF Entries
  <1>3. \E e \in ToSet(Entries("replace")) : e.op = o
    BY DEF Replaced
  <1>4. PICK e \in ToSet(Entries("replace")) : e.op = o /\ By(o) = e.by
    BY <1>3 DEF By
  <1>5. PICK k \in 1 .. Len(log) : log[k].did = "replace" /\ e = log[k]
    BY <1>2, <1>4
  <1>6. e \in Entry /\ e.did = "replace"
    BY <1>5
  <1>7. e.op \in Ops /\ e.by \in Ops \cup {None}
    BY <1>6 DEF Entry
  <1> QED
    BY <1>4, <1>5, <1>7

LEMMA ByFalls ==
    ASSUME log \in Seq(Entry), NEW rk, Falls(log, rk), NEW o \in Replaced
    PROVE  /\ o \in Ops /\ By(o) \in Ops \cup {None}
           /\ By(o) \notin {None, o} => rk[By(o)] < rk[o]
  BY ByWritten DEF Falls

LEMMA FinalTyped ==
    ASSUME log \in Seq(Entry), NEW rk \in [Ops -> Nat], Falls(log, rk)
    PROVE  /\ Final \in [Ops \cup {None} -> Ops \cup {None}]
           /\ \A o \in Ops \cup {None} :
                 Final[o] = IF o \in Replaced /\ By(o) # o THEN Final[By(o)] ELSE o
  <1>1. PICK S : S = Ops \cup {None}
    OBVIOUS
  <1>2. PICK N : N = {o \in S : o \in Replaced /\ By(o) # o}
    OBVIOUS
  <1>3. PICK nx : nx = [o \in N |-> By(o)]
    OBVIOUS
  <1>4. PICK q : q = [o \in S |-> IF o = None THEN 0 ELSE rk[o] + 1]
    OBVIOUS
  <1>5. N \in SUBSET S /\ nx \in [N -> S] /\ q \in [S -> Nat]
    BY <1>1, <1>2, <1>3, <1>4, ByFalls
  <1>6. \A o \in N : q[nx[o]] < q[o]
    <2> SUFFICES ASSUME NEW o \in N PROVE q[nx[o]] < q[o]
      OBVIOUS
    <2>1. /\ o \in Ops /\ By(o) \in Ops \cup {None} /\ nx[o] = By(o)
          /\ By(o) # None => rk[By(o)] < rk[o]
      BY <1>2, <1>3, ByFalls
    <2>2. None \notin Ops
      BY RewritingAssumption DEF None
    <2> QED
      BY <1>1, <1>4, <2>1, <2>2
  <1> DEFINE final == CHOOSE f : f = [o \in Ops \cup {None} |-> IF o \in Replaced /\ By(o) # o THEN f[By(o)] ELSE o]
  <1>7. Final = final
    BY DEF Final
  <1>8. ASSUME NEW f
        PROVE  Follows(S, N, nx, f)
               <=> f = [o \in Ops \cup {None} |-> IF o \in Replaced /\ By(o) # o THEN f[By(o)] ELSE o]
    <2>1. PICK a : a = [o \in S |-> IF o \in N THEN f[nx[o]] ELSE o]
      OBVIOUS
    <2>2. PICK b : b = [o \in Ops \cup {None} |-> IF o \in Replaced /\ By(o) # o THEN f[By(o)] ELSE o]
      OBVIOUS
    <2>3. \A o \in S : a[o] = b[o]
      BY <1>1, <1>2, <1>3, <2>1, <2>2
    <2>4. a = b
      BY <1>1, <2>1, <2>2, <2>3
    <2> QED
      BY <2>1, <2>2, <2>4 DEF Follows
  <1>9. \E f : Follows(S, N, nx, f)
    BY <1>5, <1>6, FollowsExist
  <1>10. final = [o \in Ops \cup {None} |-> IF o \in Replaced /\ By(o) # o THEN final[By(o)] ELSE o]
    BY <1>8, <1>9
  <1>11. Follows(S, N, nx, final)
    <2> HIDE DEF final
    <2> QED
      BY <1>8, <1>10
  <1>12. final \in [S -> S]
    <2> HIDE DEF final
    <2> QED
      BY <1>5, <1>6, <1>11, FollowsTyped
  <1>13. \A o \in Ops \cup {None} :
            final[o] = IF o \in Replaced /\ By(o) # o THEN final[By(o)] ELSE o
    <2> HIDE DEF final
    <2>1. ASSUME NEW f,
                 f = [o \in Ops \cup {None} |-> IF o \in Replaced /\ By(o) # o THEN f[By(o)] ELSE o],
                 NEW o \in Ops \cup {None}
          PROVE  f[o] = IF o \in Replaced /\ By(o) # o THEN f[By(o)] ELSE o
      BY <2>1
    <2> QED
      BY <1>10, <2>1, Zenon
  <1> HIDE DEF final
  <1>14. Final \in [Ops \cup {None} -> Ops \cup {None}]
    BY <1>1, <1>7, <1>12, Zenon
  <1> QED
    BY <1>7, <1>13, <1>14, Zenon

LEMMA AppliedTyped ==
    ASSUME ir \in Irs, log \in Seq(Entry), NEW rk \in [Ops -> Nat], Falls(log, rk)
    PROVE  Applied \in Irs
  <1>1. Final \in [Ops \cup {None} -> Ops \cup {None}]
    BY FinalTyped
  <1>2. PICK a : a = [o \in Ops |-> Final[ir.arg[o]]]
    OBVIOUS
  <1>3. ir.arg \in [Ops -> Ops \cup {None}] /\ a \in [Ops -> Ops \cup {None}]
    BY <1>1, <1>2 DEF Irs
  <1>4. PICK i : i = [ir EXCEPT !.arg = a]
    OBVIOUS
  <1>5. i \in Irs
    BY <1>3, <1>4 DEF Irs
  <1>6. Applied = Rid(i, Replaced)
    BY <1>2, <1>4 DEF Applied
  <1> QED
    BY <1>5, <1>6, RidFields DEF RidFrom

(* What a conversion leaves.                                                *)
Left == ~greedy /\ phase = "done" => ir \in Irs

LEMMA LeftElsewhere ==
    ASSUME phase' # "done"
    PROVE  Left'
  BY DEF Left

LEMMA LeftInductive ==
    ASSUME ConversionInv, GreedyInv, PlaceInv, SafeInv, Left, [Next]_vars
    PROVE  Left'
  <1>1. CASE UNCHANGED vars
    <2>1. pass' = pass /\ phase' = phase /\ ir' = ir
      BY <1>1 DEF vars
    <2>2. greedy' = greedy
      BY <2>1, SamePatterns
    <2> QED
      BY <2>1, <2>2 DEF Left
  <1>2. CASE Next /\ ~(UNCHANGED vars)
    <2>1. Playing /\ ir \in Irs
      BY <1>2, Moving, Invited DEF PlaceInv, Underway, Playing, Seated, Filed
    <2>2. CASE Walk \/ Pop \/ Iterate
      <3>1. greedy /\ pass' = pass
        BY <2>2 DEF Walk, Pop, Iterate, Fault, Stop
      <3>2. greedy'
        BY <3>1, SamePatterns
      <3> QED
        BY <3>2 DEF Left
    <2>3. CASE Legalized
      <3>1. Fault("used") => Left'
        BY LeftElsewhere DEF Fault, Stop
      <3>2. Relisted(Advanced, "legalize") => Left'
        BY LeftElsewhere DEF Relisted
      <3>3. ASSUME Closed PROVE Left'
        <4>1. ~greedy /\ pass' = pass /\ ir' = Applied
          BY <3>3 DEF Closed, Steady
        <4>2. ~Harmed
          BY <2>3 DEF Legalized, Harmed
        <4>3. PICK rk : Ranked(ir, rk) /\ Falls(log, rk)
          BY <2>1, <4>1, <4>2 DEF SafeInv, Sane, Playing, Sorted
        <4>4. Applied \in Irs
          BY <2>1, <4>3, AppliedTyped DEF Ranked, Playing, Typed
        <4> QED
          BY <4>1, <4>4 DEF Left
      <3> QED
        BY <2>1, <2>3, <3>1, <3>2, <3>3, LegalizedDoes
    <2>4. CASE Match
      <3>1. phase = "match" /\ (\A what : Fault(what) => Left')
        BY <2>4, LeftElsewhere DEF Match, Fault, Stop
      <3>2. ASSUME ~greedy, Unconverted PROVE Left'
        <4>1. \A n, j : GaveUp(n, j) => ir' \in Irs
          BY DEF GaveUp, RidTo, Seated, Filed
        <4>2. Lost => Left'
          BY <4>1, LeftElsewhere DEF Lost, Left
        <4>3. Relisted(Advanced, "legalize") => Left'
          BY LeftElsewhere DEF Relisted
        <4> QED
          BY <2>1, <3>1, <3>2, <4>2, <4>3, UnconvertedDoes
      <3>3. (Passed => Left') /\ \A n : Invoked(n) => Left'
        BY LeftElsewhere DEF Passed, Invoked
      <3> QED
        BY <2>1, <2>4, <3>1, <3>2, <3>3, MatchDoes
    <2>5. CASE ~(Walk \/ Pop \/ Iterate \/ Legalized \/ Match \/ Finished)
      <3>1. phase # "done"
        BY <2>1 DEF Playing, Underway
      <3>2. phase' # "done"
        BY <1>2, <2>5, <3>1 DEF Next, Collect, Legalize, Answer, GiveUp, Create, Push, Replace, Erase, EraseDef,
           EraseOp, Unlink, SplitBlock, SetPoint, SavePoint, RestorePoint, Exhausted, Fault, Stop
      <3> QED
        BY <3>2, LeftElsewhere
    <2> QED
      BY <1>2, <2>2, <2>3, <2>4, <2>5 DEF Finished
  <1> QED
    BY <1>1, <1>2

(* The variables have their types, with every operation in its place, in    *)
(* the drivers that ExposeBuilder.cpp calls and in what they return: uses   *)
(* that follow the replacements of a conversion arrive at an operation.     *)
THEOREM RewritingTyped == Spec => []TypeOK
  <1>1. Init => Left
    BY DEF Init, Left
  <1>2. ConversionInv /\ GreedyInv /\ PlaceInv /\ SafeInv /\ Left /\ [Next]_vars => Left'
    BY LeftInductive
  <1>3. PlaceInv /\ Left => TypeOK
    BY DEF PlaceInv, Founded, Left, TypeOK, Phases, Seated, Filed
  <1> QED
    BY <1>1, <1>2, <1>3, SafeAlways, PTL DEF Spec
=============================================================================
