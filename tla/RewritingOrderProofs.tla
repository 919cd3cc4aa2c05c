------------------------ MODULE RewritingOrderProofs ------------------------
(***************************************************************************)
(* Theorem of Rewriting, about the order of definitions: functions that    *)
(* insert next to their roots keep every operand defined before it is      *)
(* used, at every step, for patterns, targets and operations of any number.*)
(***************************************************************************)
EXTENDS RewritingSafetyProofs

(***************************************************************************)
(* What comes before what in a list.                                       *)
(***************************************************************************)
Precedes(s, x, y) == \E a, b \in DOMAIN s : a < b /\ s[a] = x /\ s[b] = y

LEMMA PrecedesWithin ==
    ASSUME NEW s, NEW x, NEW y, Precedes(s, x, y)
    PROVE  x \in ToSet(s) /\ y \in ToSet(s)
  BY DEF Precedes, ToSet

LEMMA PrecedesConcat ==
    ASSUME NEW S
    PROVE  \A s, t \in Seq(S) : \A x, y :
              Precedes(s \o t, x, y) <=>
                 Precedes(s, x, y) \/ Precedes(t, x, y) \/ (x \in ToSet(s) /\ y \in ToSet(t))
  <1> SUFFICES ASSUME NEW s \in Seq(S), NEW t \in Seq(S), NEW x, NEW y
               PROVE  Precedes(s \o t, x, y) <=>
                         Precedes(s, x, y) \/ Precedes(t, x, y) \/ (x \in ToSet(s) /\ y \in ToSet(t))
    OBVIOUS
  <1>1. PICK n \in Nat, m \in Nat : n = Len(s) /\ m = Len(t)
    OBVIOUS
  <1>2. PICK q \in Seq(S) : q = s \o t
    BY ConcatProperties
  <1>3. /\ DOMAIN s = 1 .. n /\ DOMAIN t = 1 .. m /\ DOMAIN q = 1 .. n + m
        /\ \A a \in 1 .. n : q[a] = s[a]
        /\ \A a \in 1 .. m : q[n + a] = t[a]
    BY <1>1, <1>2
  <1>4. \A c \in 1 .. n + m : c \in 1 .. n \/ (c - n \in 1 .. m /\ c = n + (c - n))
    BY <1>1
  <1>5. ASSUME Precedes(q, x, y)
        PROVE  Precedes(s, x, y) \/ Precedes(t, x, y) \/ (x \in ToSet(s) /\ y \in ToSet(t))
    <2>1. PICK a \in 1 .. n + m, b \in 1 .. n + m : a < b /\ q[a] = x /\ q[b] = y
      BY <1>3, <1>5 DEF Precedes
    <2>2. CASE b \in 1 .. n
      <3>1. a \in 1 .. n
        BY <1>1, <2>1, <2>2
      <3> QED
        BY <1>3, <2>1, <2>2, <3>1 DEF Precedes
    <2>3. CASE a \in 1 .. n /\ b - n \in 1 .. m
      <3>1. s[a] = x /\ t[b - n] = y
        BY <1>3, <1>4, <2>1, <2>3
      <3> QED
        BY <1>3, <2>3, <3>1 DEF ToSet
    <2>4. CASE a - n \in 1 .. m /\ b - n \in 1 .. m
      <3>1. PICK c \in 1 .. m, e \in 1 .. m : a = n + c /\ b = n + e
        BY <1>4, <2>4
      <3>2. t[c] = x /\ t[e] = y
        BY <1>3, <2>1, <3>1
      <3>3. c < e
        BY <1>1, <2>1, <3>1
      <3> QED
        BY <1>3, <3>2, <3>3 DEF Precedes
    <2> QED
      BY <1>1, <1>4, <2>1, <2>2, <2>3, <2>4
  <1>6. ASSUME Precedes(s, x, y) PROVE Precedes(q, x, y)
    <2>1. PICK a \in 1 .. n, b \in 1 .. n : a < b /\ s[a] = x /\ s[b] = y
      BY <1>3, <1>6 DEF Precedes
    <2>2. a \in 1 .. n + m /\ b \in 1 .. n + m /\ q[a] = x /\ q[b] = y
      BY <1>1, <1>3, <2>1
    <2> QED
      BY <1>3, <2>1, <2>2 DEF Precedes
  <1>7. ASSUME Precedes(t, x, y) PROVE Precedes(q, x, y)
    <2>1. PICK a \in 1 .. m, b \in 1 .. m : a < b /\ t[a] = x /\ t[b] = y
      BY <1>3, <1>7 DEF Precedes
    <2>2. n + a \in 1 .. n + m /\ n + b \in 1 .. n + m /\ n + a < n + b /\ q[n + a] = x /\ q[n + b] = y
      BY <1>1, <1>3, <2>1
    <2> QED
      BY <1>3, <2>2 DEF Precedes
  <1>8. ASSUME x \in ToSet(s), y \in ToSet(t) PROVE Precedes(q, x, y)
    <2>1. PICK a \in 1 .. n, b \in 1 .. m : s[a] = x /\ t[b] = y
      BY <1>3, <1>8 DEF ToSet
    <2>2. a \in 1 .. n + m /\ n + b \in 1 .. n + m /\ a < n + b /\ q[a] = x /\ q[n + b] = y
      BY <1>1, <1>3, <2>1
    <2> QED
      BY <1>3, <2>2 DEF Precedes
  <1> QED
    BY <1>2, <1>5, <1>6, <1>7, <1>8

LEMMA PrecedesOne ==
    ASSUME NEW z, NEW x, NEW y
    PROVE  ~Precedes(<<>>, x, y) /\ ~Precedes(<<z>>, x, y)
  BY DEF Precedes

LEMMA PrecedesAppend ==
    ASSUME NEW S
    PROVE  \A s \in Seq(S), z \in S : \A x, y :
              Precedes(Append(s, z), x, y) <=> Precedes(s, x, y) \/ (x \in ToSet(s) /\ y = z)
  <1> SUFFICES ASSUME NEW s \in Seq(S), NEW z \in S, NEW x, NEW y
               PROVE  Precedes(Append(s, z), x, y) <=> Precedes(s, x, y) \/ (x \in ToSet(s) /\ y = z)
    OBVIOUS
  <1>1. PICK t \in Seq(S) : t = <<z>> /\ Append(s, z) = s \o t
    <2>1. <<z>> \in Seq(S)
      OBVIOUS
    <2>2. Append(s, z) = s \o <<z>>
      OBVIOUS
    <2> QED
      BY <2>1, <2>2
  <1>2. ToSet(t) = {z} /\ ~Precedes(t, x, y)
    BY <1>1, DistinctOne, PrecedesOne
  <1>3. Precedes(s \o t, x, y) <=>
           Precedes(s, x, y) \/ Precedes(t, x, y) \/ (x \in ToSet(s) /\ y \in ToSet(t))
    BY PrecedesConcat
  <1> QED
    BY <1>1, <1>2, <1>3

LEMMA PrecedesOnly ==
    ASSUME NEW S, NEW kept
    PROVE  \A s \in Seq(S) : \A x, y :
              Precedes(Only(s, kept), x, y) <=> Precedes(s, x, y) /\ x \in kept /\ y \in kept
  <1> DEFINE Right(s) == \A x, y :
                Precedes(Only(s, kept), x, y) <=> Precedes(s, x, y) /\ x \in kept /\ y \in kept
             Wrong == {s \in Seq(S) : ~Right(s)}
  <1>1. Right(<<>>)
    <2>1. Only(<<>>, kept) = <<>>
      BY OnlyOfEmpty
    <2>2. \A x, y : ~Precedes(<<>>, x, y)
      BY PrecedesOne
    <2> QED
      BY <2>1, <2>2
  <1>2. ASSUME NEW s \in Seq(S), NEW z \in S, Right(s) PROVE Right(Append(s, z))
    <2> SUFFICES ASSUME NEW x, NEW y
                 PROVE  Precedes(Only(Append(s, z), kept), x, y) <=>
                           Precedes(Append(s, z), x, y) /\ x \in kept /\ y \in kept
      OBVIOUS
    <2>1. PICK t \in Seq(S) : t = Only(s, kept) /\ ToSet(t) = ToSet(s) \cap kept
      BY OnlyType
    <2>2. Only(Append(s, z), kept) = IF z \in kept THEN Append(t, z) ELSE t
      BY <2>1, OnlyOfAppend
    <2>3. Precedes(Append(s, z), x, y) <=> Precedes(s, x, y) \/ (x \in ToSet(s) /\ y = z)
      BY PrecedesAppend
    <2>4. Precedes(Append(t, z), x, y) <=> Precedes(t, x, y) \/ (x \in ToSet(t) /\ y = z)
      BY PrecedesAppend
    <2>5. Precedes(t, x, y) <=> Precedes(s, x, y) /\ x \in kept /\ y \in kept
      BY <1>2, <2>1
    <2> QED
      BY <2>1, <2>2, <2>3, <2>4, <2>5
  <1>3. Wrong \in SUBSET Seq(S)
    OBVIOUS
  <1>4. ASSUME Wrong # {} PROVE FALSE
    <2>1. \/ <<>> \in Wrong
          \/ \E s \in Seq(S), z \in S : s \notin Wrong /\ Append(s, z) \in Wrong
      <3> HIDE DEF Wrong
      <3> QED
        BY <1>3, <1>4, Shortest
    <2> QED
      BY <1>1, <1>2, <2>1
  <1> QED
    BY <1>4

LEMMA PrecedesFlat ==
    ASSUME NEW S, NEW x, NEW y
    PROVE  \A args \in Seq(Seq(S)) :
              Precedes(FlattenSeq(args), x, y) <=>
                 \/ \E n \in DOMAIN args : Precedes(args[n], x, y)
                 \/ \E m, n \in DOMAIN args : m < n /\ x \in ToSet(args[m]) /\ y \in ToSet(args[n])
  <1> DEFINE Inside(args) == \E n \in DOMAIN args : Precedes(args[n], x, y)
             Across(args) == \E m, n \in DOMAIN args : m < n /\ x \in ToSet(args[m]) /\ y \in ToSet(args[n])
             Right(args) == Precedes(FlattenSeq(args), x, y) <=> Inside(args) \/ Across(args)
             Wrong == {args \in Seq(Seq(S)) : ~Right(args)}
  <1>1. Right(<<>>)
    <2>1. FlattenSeq(<<>>) = <<>>
      BY DEF FlattenSeq
    <2>2. ~Precedes(<<>>, x, y)
      BY PrecedesOne
    <2>3. ~Inside(<<>>) /\ ~Across(<<>>)
      OBVIOUS
    <2> QED
      BY <2>1, <2>2, <2>3
  <1>2. ASSUME NEW args \in Seq(Seq(S)), NEW s \in Seq(S), Right(args) PROVE Right(Append(args, s))
    <2>1. PICK q \in Seq(S) :
             q = FlattenSeq(args) /\ ToSet(q) = UNION {ToSet(args[i]) : i \in DOMAIN args}
      BY Flattened
    <2>2. FlattenSeq(Append(args, s)) = q \o s
      BY <2>1, FlattenAppend
    <2>3. Precedes(q \o s, x, y) <=> Precedes(q, x, y) \/ Precedes(s, x, y) \/ (x \in ToSet(q) /\ y \in ToSet(s))
      BY PrecedesConcat
    <2>4. Precedes(q, x, y) <=> Inside(args) \/ Across(args)
      BY <1>2, <2>1
    <2>5. PICK z \in Nat : z = Len(args)
      OBVIOUS
    <2>6. PICK more \in Seq(Seq(S)) : more = Append(args, s)
      BY AppendProperties
    <2>7. /\ DOMAIN args = 1 .. z /\ DOMAIN more = 1 .. z + 1 /\ more[z + 1] = s
          /\ \A n \in 1 .. z : more[n] = args[n]
      BY <2>5, <2>6
    <2>8. \A n \in 1 .. z + 1 : n \in 1 .. z \/ n = z + 1
      BY <2>5
    <2>9. Inside(more) <=> Inside(args) \/ Precedes(s, x, y)
      <3>1. ASSUME Inside(more) PROVE Inside(args) \/ Precedes(s, x, y)
        BY <2>7, <2>8, <3>1
      <3>2. z + 1 \in 1 .. z + 1 /\ \A n \in 1 .. z : n \in 1 .. z + 1
        BY <2>5
      <3>3. ASSUME Inside(args) \/ Precedes(s, x, y) PROVE Inside(more)
        BY <2>7, <3>2, <3>3
      <3> QED
        BY <3>1, <3>3
    <2>10. Across(more) <=> Across(args) \/ (x \in ToSet(q) /\ y \in ToSet(s))
      <3>1. ASSUME Across(more) PROVE Across(args) \/ (x \in ToSet(q) /\ y \in ToSet(s))
        <4>1. PICK m \in 1 .. z + 1, n \in 1 .. z + 1 : m < n /\ x \in ToSet(more[m]) /\ y \in ToSet(more[n])
          BY <2>7, <3>1
        <4>2. m \in 1 .. z
          BY <2>5, <4>1
        <4> QED
          BY <2>1, <2>7, <2>8, <4>1, <4>2
      <3>2. ASSUME Across(args) PROVE Across(more)
        <4>1. PICK m \in 1 .. z, n \in 1 .. z : m < n /\ x \in ToSet(args[m]) /\ y \in ToSet(args[n])
          BY <2>7, <3>2
        <4>2. m \in 1 .. z + 1 /\ n \in 1 .. z + 1
          BY <2>5
        <4> QED
          BY <2>7, <4>1, <4>2
      <3>3. ASSUME x \in ToSet(q), y \in ToSet(s) PROVE Across(more)
        <4>1. PICK m \in 1 .. z : x \in ToSet(args[m])
          BY <2>1, <2>7, <3>3
        <4>2. m \in 1 .. z + 1 /\ z + 1 \in 1 .. z + 1 /\ m < z + 1
          BY <2>5
        <4> QED
          BY <2>7, <3>3, <4>1, <4>2
      <3> QED
        BY <3>1, <3>2, <3>3
    <2> QED
      BY <2>2, <2>3, <2>4, <2>6, <2>9, <2>10
  <1>3. Wrong \in SUBSET Seq(Seq(S))
    OBVIOUS
  <1>4. ASSUME Wrong # {} PROVE FALSE
    <2>1. PICK T : T = Seq(S)
      OBVIOUS
    <2>2. Wrong \in SUBSET Seq(T)
      BY <1>3, <2>1
    <2>3. \/ <<>> \in Wrong
          \/ \E args \in Seq(T), s \in T : args \notin Wrong /\ Append(args, s) \in Wrong
      <3> HIDE DEF Wrong
      <3> QED
        BY <1>4, <2>2, Shortest
    <2> QED
      BY <1>1, <1>2, <2>1, <2>3
  <1> QED
    BY <1>4

(* In a list without repetitions the places tell the order.                *)
LEMMA PrecedesPlace ==
    ASSUME NEW S, NEW s \in Seq(S), IsInjective(s)
    PROVE  /\ \A x \in ToSet(s) : PlaceIn(s, x) \in DOMAIN s /\ s[PlaceIn(s, x)] = x
           /\ \A x, y \in ToSet(s) : /\ Precedes(s, x, y) <=> PlaceIn(s, x) < PlaceIn(s, y)
                                     /\ PlaceIn(s, x) = PlaceIn(s, y) => x = y
  <1>1. ASSUME NEW x \in ToSet(s) PROVE PlaceIn(s, x) \in DOMAIN s /\ s[PlaceIn(s, x)] = x
    <2>1. \E n \in DOMAIN s : s[n] = x
      BY DEF ToSet
    <2> QED
      BY <2>1 DEF PlaceIn
  <1>2. ASSUME NEW x \in ToSet(s), NEW y \in ToSet(s)
        PROVE  /\ Precedes(s, x, y) <=> PlaceIn(s, x) < PlaceIn(s, y)
               /\ PlaceIn(s, x) = PlaceIn(s, y) => x = y
    <2>1. PICK a \in DOMAIN s, b \in DOMAIN s : a = PlaceIn(s, x) /\ b = PlaceIn(s, y) /\ s[a] = x /\ s[b] = y
      BY <1>1
    <2>2. \A c \in DOMAIN s : (s[c] = x => c = a) /\ (s[c] = y => c = b)
      BY <2>1 DEF IsInjective
    <2> QED
      BY <2>1, <2>2 DEF Precedes
  <1> QED
    BY <1>1, <1>2

(* And they are ordered, one way or the other.                             *)
LEMMA PrecedesOrders ==
    ASSUME NEW S, NEW s \in Seq(S), IsInjective(s)
    PROVE  /\ \A x, y : Precedes(s, x, y) => x \in ToSet(s) /\ y \in ToSet(s) /\ ~Precedes(s, y, x)
           /\ \A x, y, z : Precedes(s, x, y) /\ Precedes(s, y, z) => Precedes(s, x, z)
           /\ \A x, y \in ToSet(s) : x = y \/ Precedes(s, x, y) \/ Precedes(s, y, x)
  <1>1. \A x, y : Precedes(s, x, y) => x \in ToSet(s) /\ y \in ToSet(s)
    BY PrecedesWithin
  <1>2. /\ \A x \in ToSet(s) : PlaceIn(s, x) \in Nat
        /\ \A x, y \in ToSet(s) : /\ Precedes(s, x, y) <=> PlaceIn(s, x) < PlaceIn(s, y)
                                  /\ PlaceIn(s, x) = PlaceIn(s, y) => x = y
    <2>1. DOMAIN s \subseteq Nat
      OBVIOUS
    <2> QED
      BY <2>1, PrecedesPlace
  <1> QED
    BY <1>1, <1>2

(* A list is cut in two before a place.                                    *)
Cut(s, n, a, b) ==
    /\ a = SubSeq(s, 1, n - 1) /\ b = SubSeq(s, n, Len(s)) /\ s = a \o b
    /\ ToSet(s) = ToSet(a) \cup ToSet(b) /\ ToSet(a) \cap ToSet(b) = {}
    /\ \A x, y : Precedes(s, x, y) <=>
          Precedes(a, x, y) \/ Precedes(b, x, y) \/ (x \in ToSet(a) /\ y \in ToSet(b))
    /\ n \in DOMAIN s => /\ s[n] \in ToSet(b)
                         /\ \A x : Precedes(s, x, s[n]) <=> x \in ToSet(a)
                         /\ \A y : Precedes(s, s[n], y) <=> y \in ToSet(b) /\ y # s[n]

LEMMA PrecedesCut ==
    ASSUME NEW S, NEW s \in Seq(S), IsInjective(s), NEW n \in 1 .. Len(s) + 1
    PROVE  \E a, b \in Seq(S) : Cut(s, n, a, b)
  <1>1. PICK a \in Seq(S), b \in Seq(S) :
           /\ a = SubSeq(s, 1, n - 1) /\ b = SubSeq(s, n, Len(s)) /\ s = a \o b
           /\ ToSet(s) = ToSet(a) \cup ToSet(b)
    <2>1. /\ SubSeq(s, 1, n - 1) \in Seq(S) /\ SubSeq(s, n, Len(s)) \in Seq(S)
          /\ s = SubSeq(s, 1, n - 1) \o SubSeq(s, n, Len(s))
          /\ ToSet(s) = ToSet(SubSeq(s, 1, n - 1)) \cup ToSet(SubSeq(s, n, Len(s)))
      BY Halves
    <2> QED
      BY <2>1, Zenon
  <1>2. ToSet(a) \cap ToSet(b) = {}
    <2>1. \A p, q \in Seq(S) :
              IsInjective(p \o q) <=>
                 IsInjective(p) /\ IsInjective(q) /\ ToSet(p) \cap ToSet(q) = {}
      BY DistinctConcat
    <2>2. IsInjective(a \o b)
      BY <1>1
    <2> QED
      BY <2>1, <2>2
  <1>3. \A x, y : Precedes(s, x, y) <=>
           Precedes(a, x, y) \/ Precedes(b, x, y) \/ (x \in ToSet(a) /\ y \in ToSet(b))
    <2>1. \A x, y : Precedes(a \o b, x, y) <=>
             Precedes(a, x, y) \/ Precedes(b, x, y) \/ (x \in ToSet(a) /\ y \in ToSet(b))
      BY PrecedesConcat
    <2> QED
      BY <1>1, <2>1
  <1>4. ASSUME n \in DOMAIN s
        PROVE  /\ s[n] \in ToSet(b)
               /\ \A x : Precedes(s, x, s[n]) <=> x \in ToSet(a)
               /\ \A y : Precedes(s, s[n], y) <=> y \in ToSet(b) /\ y # s[n]
    <2>1. PICK z \in Nat : z = Len(s) /\ n \in 1 .. z /\ DOMAIN s = 1 .. z
      BY <1>4
    <2>2. PICK o : o = s[n]
      OBVIOUS
    <2>3. \A x : x \in ToSet(a) <=> \E c \in 1 .. n - 1 : s[c] = x
      <3>0. n - 1 \in 0 .. z /\ n - 1 \in Nat
        BY <2>1
      <3>1. PICK m \in Nat : m = n - 1 /\ m \in 0 .. z /\ a = SubSeq(s, 1, m)
        BY <1>1, <3>0, Zenon
      <3>2. Len(a) = m /\ \A c \in 1 .. m : a[c] = s[c]
        BY <2>1, <3>1
      <3>3. DOMAIN a = 1 .. m
        BY <3>2
      <3> QED
        BY <3>1, <3>2, <3>3 DEF ToSet
    <2>4. \A c \in 1 .. z : s[c] = o => c = n
      BY <2>1, <2>2 DEF IsInjective
    <2>5. \A x : Precedes(s, x, o) <=> x \in ToSet(a)
      <3>1. ASSUME NEW x, Precedes(s, x, o) PROVE x \in ToSet(a)
        <4>1. PICK c \in 1 .. z, e \in 1 .. z : c < e /\ s[c] = x /\ s[e] = o
          BY <2>1, <3>1 DEF Precedes
        <4>2. c \in 1 .. n - 1
          BY <2>1, <2>4, <4>1
        <4> QED
          BY <2>3, <4>1, <4>2
      <3>2. ASSUME NEW x, x \in ToSet(a) PROVE Precedes(s, x, o)
        <4>1. PICK c \in 1 .. n - 1 : s[c] = x
          BY <2>3, <3>2
        <4>2. c \in 1 .. z /\ c < n
          BY <2>1, <4>1
        <4> QED
          BY <2>1, <2>2, <4>1, <4>2 DEF Precedes
      <3> QED
        BY <3>1, <3>2
    <2>6. o \notin ToSet(a) /\ o \in ToSet(b)
      <3>1. o \in ToSet(s)
        BY <2>1, <2>2 DEF ToSet
      <3>2. \A c \in 1 .. n - 1 : c \in 1 .. z /\ c # n
        BY <2>1
      <3> QED
        BY <1>1, <2>3, <2>4, <3>1, <3>2
    <2>7. \A x, y : Precedes(s, x, y) => x \in ToSet(s) /\ y \in ToSet(s) /\ ~Precedes(s, y, x)
      BY PrecedesOrders
    <2>8. \A x, y \in ToSet(s) : x = y \/ Precedes(s, x, y) \/ Precedes(s, y, x)
      BY PrecedesOrders
    <2>9. ASSUME NEW y PROVE Precedes(s, o, y) <=> y \in ToSet(b) /\ y # o
      <3>1. Precedes(s, y, o) <=> y \in ToSet(a)
        BY <2>5
      <3>2. Precedes(s, o, y) => y \in ToSet(s) /\ ~Precedes(s, y, o) /\ y # o
        BY <2>7
      <3>3. y \in ToSet(b) /\ y # o => Precedes(s, o, y) \/ Precedes(s, y, o)
        BY <1>1, <2>6, <2>8
      <3> QED
        BY <1>1, <1>2, <3>1, <3>2, <3>3
    <2> QED
      BY <2>2, <2>5, <2>6, <2>9
  <1> QED
    BY <1>1, <1>2, <1>3, <1>4 DEF Cut

(* Where something is put.                                                 *)
Upward(s, y, before) == before = End \/ Precedes(s, y, before)

PutBetween(s, n, o, a, b) ==
    \A x, y : Precedes(InsertAt(s, n, o), x, y) <=>
       Precedes(s, x, y) \/ (x \in ToSet(a) /\ y = o) \/ (x = o /\ y \in ToSet(b))

LEMMA PrecedesInsert ==
    ASSUME NEW S, NEW s \in Seq(S), IsInjective(s), NEW n \in 1 .. Len(s) + 1, NEW o \in S, o \notin ToSet(s)
    PROVE  \E a, b \in Seq(S) : Cut(s, n, a, b) /\ PutBetween(s, n, o, a, b)
  <1>0. PICK a \in Seq(S), b \in Seq(S) : Cut(s, n, a, b)
    BY PrecedesCut
  <1>1. /\ a = SubSeq(s, 1, n - 1) /\ b = SubSeq(s, n, Len(s)) /\ s = a \o b
        /\ ToSet(s) = ToSet(a) \cup ToSet(b) /\ ToSet(a) \cap ToSet(b) = {}
        /\ \A x, y : Precedes(s, x, y) <=>
              Precedes(a, x, y) \/ Precedes(b, x, y) \/ (x \in ToSet(a) /\ y \in ToSet(b))
    BY <1>0 DEF Cut
  <1>2. PICK u \in Seq(S) : u = Append(a, o) /\ u = a \o <<o>>
    <2>1. Append(a, o) \in Seq(S)
      BY AppendProperties
    <2>2. Append(a, o) = a \o <<o>>
      OBVIOUS
    <2> QED
      BY <2>1, <2>2
  <1>3. InsertAt(s, n, o) = u \o b
    BY <1>1, <1>2 DEF InsertAt
  <1>4. ToSet(u) = ToSet(a) \cup {o}
    BY <1>2, ToSetOfAppend, Zenon
  <1>5. \A x, y : Precedes(u, x, y) <=> Precedes(a, x, y) \/ (x \in ToSet(a) /\ y = o)
    <2>1. \A x, y : Precedes(Append(a, o), x, y) <=> Precedes(a, x, y) \/ (x \in ToSet(a) /\ y = o)
      BY PrecedesAppend
    <2> QED
      BY <1>2, <2>1
  <1>6. \A x, y : Precedes(u \o b, x, y) <=>
           Precedes(u, x, y) \/ Precedes(b, x, y) \/ (x \in ToSet(u) /\ y \in ToSet(b))
    BY PrecedesConcat
  <1>7. \A x, y : Precedes(InsertAt(s, n, o), x, y) <=>
           Precedes(s, x, y) \/ (x \in ToSet(a) /\ y = o) \/ (x = o /\ y \in ToSet(b))
    <2> SUFFICES ASSUME NEW x, NEW y
                 PROVE  Precedes(InsertAt(s, n, o), x, y) <=>
                           Precedes(s, x, y) \/ (x \in ToSet(a) /\ y = o) \/ (x = o /\ y \in ToSet(b))
      OBVIOUS
    <2>1. Precedes(s, x, y) <=>
             Precedes(a, x, y) \/ Precedes(b, x, y) \/ (x \in ToSet(a) /\ y \in ToSet(b))
      BY <1>1
    <2>2. Precedes(u, x, y) <=> Precedes(a, x, y) \/ (x \in ToSet(a) /\ y = o)
      BY <1>5
    <2>3. Precedes(u \o b, x, y) <=>
             Precedes(u, x, y) \/ Precedes(b, x, y) \/ (x \in ToSet(u) /\ y \in ToSet(b))
      BY <1>6
    <2> QED
      BY <1>3, <1>4, <2>1, <2>2, <2>3
  <1> QED
    BY <1>0, <1>7 DEF PutBetween

LEMMA PrecedesPut ==
    ASSUME NEW S, NEW s \in Seq(S), IsInjective(s), NEW o \in S, o \notin ToSet(s),
           NEW before, before = End \/ before \in ToSet(s)
    PROVE  \A x, y : Precedes(Put(s, o, before), x, y) <=>
              \/ Precedes(s, x, y)
              \/ x \in ToSet(s) /\ Upward(s, x, before) /\ y = o
              \/ x = o /\ y \in ToSet(s) /\ ~Upward(s, y, before)
  <1>1. CASE before = End
    <2>1. \A x, y : Precedes(Append(s, o), x, y) <=> Precedes(s, x, y) \/ (x \in ToSet(s) /\ y = o)
      BY PrecedesAppend
    <2> QED
      BY <1>1, <2>1 DEF Put, Upward
  <1>2. CASE before # End
    <2>1. \E n \in DOMAIN s : s[n] = before
      BY <1>2 DEF ToSet
    <2>2. PlaceIn(s, before) \in DOMAIN s /\ s[PlaceIn(s, before)] = before
      BY <2>1 DEF PlaceIn
    <2>3. PICK n \in 1 .. Len(s) + 1 : n = PlaceIn(s, before) /\ n \in DOMAIN s /\ s[n] = before
      BY <2>2
    <2>4. Put(s, o, before) = InsertAt(s, n, o)
      BY <1>2, <2>3 DEF Put
    <2>5. PICK a \in Seq(S), b \in Seq(S) : Cut(s, n, a, b) /\ PutBetween(s, n, o, a, b)
      BY PrecedesInsert
    <2>6. \A x : Precedes(s, x, before) <=> x \in ToSet(a)
      <3>1. \A x : Precedes(s, x, s[n]) <=> x \in ToSet(a)
        BY <2>3, <2>5, Zenon DEF Cut
      <3> QED
        BY <2>3, <3>1
    <2>7. ToSet(s) = ToSet(a) \cup ToSet(b) /\ ToSet(a) \cap ToSet(b) = {}
      BY <2>5 DEF Cut
    <2> QED
      BY <1>2, <2>4, <2>5, <2>6, <2>7 DEF Upward, PutBetween
  <1> QED
    BY <1>1, <1>2

(***************************************************************************)
(* The order of the operations of a region: that of its blocks, and in a   *)
(* block that of its body.                                                 *)
(***************************************************************************)
Before(i, x, y) == Precedes(InOrder(i), x, y)
Below(i, r) == {x \in Live(i) : Before(i, x, r)}

Within(i, x, y) == \E b \in ToSet(i.region) : Precedes(i.body[b], x, y)
Across(i, x, y) ==
    \E b, c \in ToSet(i.region) : Precedes(i.region, b, c) /\ x \in ToSet(i.body[b]) /\ y \in ToSet(i.body[c])

LEMMA BeforeIn ==
    ASSUME NEW i, Seated(i)
    PROVE  \A x, y : Before(i, x, y) <=> Within(i, x, y) \/ Across(i, x, y)
  <1> SUFFICES ASSUME NEW x, NEW y
               PROVE  Before(i, x, y) <=> Within(i, x, y) \/ Across(i, x, y)
    OBVIOUS
  <1>1. i \in Irs
    BY DEF Seated, Filed
  <1>2. PICK bodies \in Seq(Seq(Ops)) :
           /\ InOrder(i) = FlattenSeq(bodies) /\ DOMAIN bodies = DOMAIN i.region
           /\ \A n \in DOMAIN i.region : bodies[n] = i.body[i.region[n]] /\ i.region[n] \in Blocks
    BY <1>1, BodiesInOrder
  <1>3. Before(i, x, y) <=>
           \/ \E n \in DOMAIN bodies : Precedes(bodies[n], x, y)
           \/ \E m, n \in DOMAIN bodies : m < n /\ x \in ToSet(bodies[m]) /\ y \in ToSet(bodies[n])
    BY <1>2, PrecedesFlat DEF Before
  <1>4. (\E n \in DOMAIN bodies : Precedes(bodies[n], x, y)) <=> Within(i, x, y)
    BY <1>2 DEF Within, ToSet
  <1>5. (\E m, n \in DOMAIN bodies : m < n /\ x \in ToSet(bodies[m]) /\ y \in ToSet(bodies[n])) <=> Across(i, x, y)
    <2>1. ASSUME NEW m \in DOMAIN bodies, NEW n \in DOMAIN bodies,
                 m < n, x \in ToSet(bodies[m]), y \in ToSet(bodies[n])
          PROVE  Across(i, x, y)
      <3>1. PICK b, c : b = i.region[m] /\ c = i.region[n]
        OBVIOUS
      <3>2. b \in ToSet(i.region) /\ c \in ToSet(i.region)
        BY <1>2, <3>1 DEF ToSet
      <3>3. Precedes(i.region, b, c)
        BY <1>2, <2>1, <3>1 DEF Precedes
      <3>4. x \in ToSet(i.body[b]) /\ y \in ToSet(i.body[c])
        BY <1>2, <2>1, <3>1
      <3> QED
        BY <3>2, <3>3, <3>4 DEF Across
    <2>2. ASSUME Across(i, x, y)
          PROVE  \E m, n \in DOMAIN bodies : m < n /\ x \in ToSet(bodies[m]) /\ y \in ToSet(bodies[n])
      <3>1. PICK b, c : Precedes(i.region, b, c) /\ x \in ToSet(i.body[b]) /\ y \in ToSet(i.body[c])
        BY <2>2 DEF Across
      <3>2. PICK m, n \in DOMAIN i.region : m < n /\ i.region[m] = b /\ i.region[n] = c
        BY <3>1 DEF Precedes
      <3> QED
        BY <1>2, <3>1, <3>2
    <2> QED
      BY <2>1, <2>2
  <1> QED
    BY <1>3, <1>4, <1>5

(* Operations that were not erased are ordered by it.                      *)
LEMMA BeforeOrders ==
    ASSUME NEW i, Seated(i)
    PROVE  /\ \A x, y : Before(i, x, y) => x \in Live(i) /\ y \in Live(i) /\ ~Before(i, y, x)
           /\ \A x, y, z : Before(i, x, y) /\ Before(i, y, z) => Before(i, x, z)
           /\ \A x, y \in Live(i) : x = y \/ Before(i, x, y) \/ Before(i, y, x)
  <1>1. IsInjective(InOrder(i)) /\ ToSet(InOrder(i)) = Live(i) /\ InOrder(i) \in Seq(Ops)
    BY SeatedPlaced
  <1>2. /\ \A x, y : Precedes(InOrder(i), x, y) =>
                        x \in ToSet(InOrder(i)) /\ y \in ToSet(InOrder(i)) /\ ~Precedes(InOrder(i), y, x)
        /\ \A x, y, z : Precedes(InOrder(i), x, y) /\ Precedes(InOrder(i), y, z) => Precedes(InOrder(i), x, z)
        /\ \A x, y \in ToSet(InOrder(i)) : x = y \/ Precedes(InOrder(i), x, y) \/ Precedes(InOrder(i), y, x)
    BY <1>1, PrecedesOrders
  <1> QED
    BY <1>1, <1>2 DEF Before

LEMMA OrderedBefore ==
    ASSUME NEW i, Seated(i)
    PROVE  Ordered(i) <=> \A o \in Live(i) : i.arg[o] # None => Before(i, i.arg[o], o)
  <1>1. IsInjective(InOrder(i)) /\ ToSet(InOrder(i)) = Live(i) /\ InOrder(i) \in Seq(Ops)
    BY SeatedPlaced
  <1>2. \A x, y \in ToSet(InOrder(i)) :
           Precedes(InOrder(i), x, y) <=> PlaceIn(InOrder(i), x) < PlaceIn(InOrder(i), y)
    BY <1>1, PrecedesPlace
  <1>3. \A x, y \in Live(i) : Before(i, x, y) <=> PlaceIn(InOrder(i), x) < PlaceIn(InOrder(i), y)
    BY <1>1, <1>2 DEF Before
  <1>4. \A x, y : Before(i, x, y) => x \in Live(i) /\ y \in Live(i)
    BY BeforeOrders
  <1> QED
    BY <1>3, <1>4 DEF Ordered

(***************************************************************************)
(* What comes before a place where the builder inserts.                    *)
(***************************************************************************)
Upto(r, b, c) == b = c \/ Precedes(r, b, c)
AheadOf(i, p, x) ==
    \/ \E b \in ToSet(i.region) : Precedes(i.region, b, p.block) /\ x \in ToSet(i.body[b])
    \/ x \in ToSet(i.body[p.block]) /\ Upward(i.body[p.block], x, p.before)
Ahead(i, p) == {x \in Live(i) : AheadOf(i, p, x)}

LEMMA BlocksOrdered ==
    ASSUME NEW i, Seated(i)
    PROVE  /\ i.region \in Seq(Blocks) /\ ToSet(i.region) \subseteq Blocks
           /\ \A b, c : Precedes(i.region, b, c) =>
                 b \in ToSet(i.region) /\ c \in ToSet(i.region) /\ b # c /\ ~Precedes(i.region, c, b)
           /\ \A b, c, d : Precedes(i.region, b, c) /\ Precedes(i.region, c, d) => Precedes(i.region, b, d)
           /\ \A b, c \in ToSet(i.region) : Upto(i.region, b, c) \/ Precedes(i.region, c, b)
  <1>1. i.region \in Seq(Blocks) /\ IsInjective(i.region)
    BY IrFields DEF Seated, Filed
  <1>2. ToSet(i.region) \subseteq Blocks
    BY <1>1 DEF ToSet
  <1>3. /\ \A x, y : Precedes(i.region, x, y) =>
                        x \in ToSet(i.region) /\ y \in ToSet(i.region) /\ ~Precedes(i.region, y, x)
        /\ \A x, y, z : Precedes(i.region, x, y) /\ Precedes(i.region, y, z) => Precedes(i.region, x, z)
        /\ \A x, y \in ToSet(i.region) : x = y \/ Precedes(i.region, x, y) \/ Precedes(i.region, y, x)
    BY <1>1, PrecedesOrders
  <1> QED
    BY <1>1, <1>2, <1>3 DEF Upto

LEMMA BodyTyped ==
    ASSUME NEW i, Seated(i), NEW b \in Blocks
    PROVE  /\ i.body[b] \in Seq(Ops) /\ IsInjective(i.body[b]) /\ ToSet(i.body[b]) \subseteq Live(i)
           /\ \A x, y : Precedes(i.body[b], x, y) =>
                 x \in ToSet(i.body[b]) /\ y \in ToSet(i.body[b]) /\ ~Precedes(i.body[b], y, x)
           /\ \A x, y, z : Precedes(i.body[b], x, y) /\ Precedes(i.body[b], y, z) => Precedes(i.body[b], x, z)
           /\ \A x, y \in ToSet(i.body[b]) : x = y \/ Precedes(i.body[b], x, y) \/ Precedes(i.body[b], y, x)
  <1>1. i.body[b] \in Seq(Ops) /\ IsInjective(i.body[b]) /\ ToSet(i.body[b]) \subseteq Live(i)
    BY IrFields DEF Seated, Filed
  <1> QED
    BY <1>1, PrecedesOrders

(* Where the operation of a block is.                                      *)
LEMMA InBlock ==
    ASSUME NEW i, Seated(i), NEW b \in Blocks, NEW o \in ToSet(i.body[b])
    PROVE  o \in Live(i) /\ b = BlockOf(i, o) /\ b \in ToSet(i.region) /\ \A c \in Blocks : o \in ToSet(i.body[c]) => c = b
  <1>1. o \in Live(i)
    BY BodyTyped
  <1> QED
    BY <1>1, OneHome

LEMMA BeforeHome ==
    ASSUME NEW i, Seated(i), NEW o \in Live(i), NEW x
    PROVE  Before(i, x, o) <=>
              \/ Precedes(i.body[BlockOf(i, o)], x, o)
              \/ \E b \in ToSet(i.region) : Precedes(i.region, b, BlockOf(i, o)) /\ x \in ToSet(i.body[b])
  <1>1. PICK h : h = BlockOf(i, o)
    OBVIOUS
  <1>2. h \in Blocks /\ h \in ToSet(i.region) /\ o \in ToSet(i.body[h]) /\ \A b \in Blocks : o \in ToSet(i.body[b]) => b = h
    BY <1>1, OneHome
  <1>3. ToSet(i.region) \subseteq Blocks
    BY BlocksOrdered
  <1>4. Within(i, x, o) <=> Precedes(i.body[h], x, o)
    <2>1. \A b \in Blocks : Precedes(i.body[b], x, o) => o \in ToSet(i.body[b])
      BY BodyTyped
    <2> QED
      BY <1>2, <1>3, <2>1 DEF Within
  <1>5. Across(i, x, o) <=> \E b \in ToSet(i.region) : Precedes(i.region, b, h) /\ x \in ToSet(i.body[b])
    BY <1>2, <1>3 DEF Across
  <1>6. Before(i, x, o) <=> Within(i, x, o) \/ Across(i, x, o)
    BY BeforeIn
  <1> QED
    BY <1>1, <1>4, <1>5, <1>6

(* Before an operation comes what is before it.                            *)
LEMMA AheadHome ==
    ASSUME NEW i, Seated(i), NEW o \in Live(i)
    PROVE  Ahead(i, [block |-> BlockOf(i, o), before |-> o]) = Below(i, o)
  <1>1. PICK h : h = BlockOf(i, o) /\ h \in Blocks
    BY OneHome
  <1>2. o # End
    BY RewritingAssumption DEF Live, End
  <1>3. \A x : Precedes(i.body[h], x, o) => x \in ToSet(i.body[h])
    BY <1>1, BodyTyped
  <1>4. \A x : AheadOf(i, [block |-> h, before |-> o], x) <=> Before(i, x, o)
    BY <1>1, <1>2, <1>3, BeforeHome DEF AheadOf, Upward
  <1> QED
    BY <1>1, <1>4 DEF Ahead, Below

LEMMA UpwardNext ==
    ASSUME NEW s \in Seq(Ops), IsInjective(s), NEW o \in ToSet(s)
    PROVE  \A x \in ToSet(s) : Upward(s, x, Following(s, o)) <=> x = o \/ Precedes(s, x, o)
  <1>1. PICK z \in Nat : z = Len(s) /\ DOMAIN s = 1 .. z
    OBVIOUS
  <1>2. PICK n \in 1 .. z : n = PlaceIn(s, o) /\ s[n] = o
    <2>1. PlaceIn(s, o) \in DOMAIN s /\ s[PlaceIn(s, o)] = o
      BY PrecedesPlace
    <2> QED
      BY <1>1, <2>1
  <1>3. \A x \in ToSet(s) : /\ PlaceIn(s, x) \in 1 .. z
                            /\ \A y \in ToSet(s) :
                                  /\ Precedes(s, x, y) <=> PlaceIn(s, x) < PlaceIn(s, y)
                                  /\ PlaceIn(s, x) = PlaceIn(s, y) => x = y
    BY <1>1, PrecedesPlace
  <1>4. CASE n = z
    <2>1. SubSeq(s, n + 1, z) = <<>>
      BY <1>1, <1>4, SubSeqEmpty
    <2>2. Following(s, o) = End
      BY <1>1, <1>2, <2>1 DEF Following, First
    <2>3. ASSUME NEW x \in ToSet(s) PROVE x = o \/ Precedes(s, x, o)
      <3>1. PlaceIn(s, x) < n \/ PlaceIn(s, x) = n
        BY <1>1, <1>3, <1>4
      <3> QED
        BY <1>2, <1>3, <3>1
    <2> QED
      BY <2>2, <2>3 DEF Upward
  <1>5. CASE n # z
    <2>1. PICK m \in 1 .. z : m = n + 1
      BY <1>1, <1>2, <1>5
    <2>2. Following(s, o) = s[m]
      <3>0. m \in Int /\ z \in Int /\ m <= z /\ 1 \in 1 .. z - m + 1 /\ m + 1 - 1 = m
        BY <1>1, <2>1
      <3>1. PICK t : t = SubSeq(s, m, z)
        OBVIOUS
      <3>2. Len(t) = z - m + 1 /\ t[1] = s[m]
        <4>1. Len(SubSeq(s, m, z)) = z - m + 1
          BY <1>1, <2>1, <3>0
        <4>2. SubSeq(s, m, z)[1] = s[m]
          BY <1>1, <2>1, <3>0
        <4> QED
          BY <3>1, <4>1, <4>2
      <3>3. t # <<>>
        BY <1>1, <2>1, <3>2
      <3> QED
        BY <1>1, <1>2, <2>1, <3>1, <3>2, <3>3 DEF Following, First
    <2>3. s[m] \in ToSet(s) /\ s[m] # End
      BY <1>1, RewritingAssumption DEF ToSet, End
    <2>4. PlaceIn(s, s[m]) = m
      <3>1. PlaceIn(s, s[m]) \in DOMAIN s /\ s[PlaceIn(s, s[m])] = s[m]
        BY <2>3, PrecedesPlace
      <3> QED
        BY <1>1, <3>1 DEF IsInjective
    <2>5. ASSUME NEW x \in ToSet(s) PROVE Precedes(s, x, s[m]) <=> x = o \/ Precedes(s, x, o)
      <3>1. Precedes(s, x, s[m]) <=> PlaceIn(s, x) < m
        BY <1>3, <2>3, <2>4
      <3>2. Precedes(s, x, o) <=> PlaceIn(s, x) < n
        BY <1>2, <1>3
      <3>3. x = o <=> PlaceIn(s, x) = n
        BY <1>2, <1>3
      <3>4. PlaceIn(s, x) \in Nat
        BY <1>3
      <3> QED
        BY <2>1, <3>1, <3>2, <3>3, <3>4
    <2> QED
      BY <2>2, <2>3, <2>5 DEF Upward
  <1> QED
    BY <1>4, <1>5

(* Next after an operation come it and what is before it.                  *)
LEMMA AheadNext ==
    ASSUME NEW i, Seated(i), NEW o \in Live(i), NEW next, next = Following(i.body[BlockOf(i, o)], o)
    PROVE  /\ Ahead(i, [block |-> BlockOf(i, o), before |-> next]) = Below(i, o) \cup {o}
           /\ next \in Live(i) \cup {End}
  <1>1. PICK h : h = BlockOf(i, o) /\ h \in Blocks /\ h \in ToSet(i.region) /\ o \in ToSet(i.body[h])
    BY OneHome
  <1>2. i.body[h] \in Seq(Ops) /\ IsInjective(i.body[h]) /\ ToSet(i.body[h]) \subseteq Live(i)
    BY <1>1, BodyTyped
  <1>3. \A x \in ToSet(i.body[h]) : Upward(i.body[h], x, next) <=> x = o \/ Precedes(i.body[h], x, o)
    BY <1>1, <1>2, UpwardNext
  <1>4. next = End \/ next \in ToSet(i.body[h])
    BY <1>1, <1>2, NextIn
  <1>5. \A x : Precedes(i.body[h], x, o) => x \in ToSet(i.body[h])
    BY <1>1, BodyTyped
  <1>6. \A b \in Blocks : o \in ToSet(i.body[b]) => b = h
    BY <1>1, OneHome
  <1>7. \A x : AheadOf(i, [block |-> h, before |-> next], x) <=> x = o \/ Before(i, x, o)
    BY <1>1, <1>3, <1>5, <1>6, BeforeHome DEF AheadOf
  <1> QED
    BY <1>1, <1>2, <1>4, <1>7 DEF Ahead, Below

(* The end of a block before the one of an operation, and only of such, has *)
(* nothing ahead that the operation is not behind of.                      *)
LEMMA AheadEnds ==
    ASSUME NEW i, Seated(i), NEW o \in Live(i), NEW p, p.block \in ToSet(i.region), p.before = End,
           Ahead(i, p) \subseteq Below(i, o)
    PROVE  Precedes(i.region, p.block, BlockOf(i, o))
  <1>1. PICK h : h = BlockOf(i, o) /\ h \in Blocks /\ h \in ToSet(i.region) /\ o \in ToSet(i.body[h])
    BY OneHome
  <1>2. o \notin Below(i, o)
    BY BeforeOrders DEF Below
  <1>3. ~AheadOf(i, p, o)
    BY <1>2 DEF Ahead
  <1>4. p.block # h /\ ~Precedes(i.region, h, p.block)
    BY <1>1, <1>3 DEF AheadOf, Upward
  <1> QED
    BY <1>1, <1>4, BlocksOrdered DEF Upto

LEMMA AheadOne ==
    ASSUME NEW i, Seated(i), NEW p, p.block \in ToSet(i.region), NEW b \in Blocks, NEW x \in ToSet(i.body[b])
    PROVE  x \in Ahead(i, p) <=>
              Precedes(i.region, b, p.block) \/ (b = p.block /\ Upward(i.body[b], x, p.before))
  <1>1. x \in Live(i) /\ b \in ToSet(i.region) /\ \A c \in Blocks : x \in ToSet(i.body[c]) => c = b
    BY InBlock
  <1>2. ToSet(i.region) \subseteq Blocks
    BY BlocksOrdered
  <1> QED
    BY <1>1, <1>2 DEF Ahead, AheadOf

(***************************************************************************)
(* A new operation comes after what is ahead of its place, and before the  *)
(* rest; for the others nothing changes.                                   *)
(***************************************************************************)
Grows(i, o, b, before, j) == \E k, a : GrownAt(i, o, k, a, b, before, j)

LEMMA GrowsFacts ==
    ASSUME NEW i, NEW o, NEW b, NEW before, NEW j, Seated(i), Grows(i, o, b, before, j), b \in Blocks
    PROVE  /\ Seated(j) /\ Live(j) = Live(i) \cup {o} /\ j.region = i.region
           /\ j.body[b] = Put(i.body[b], o, before) /\ ToSet(j.body[b]) = ToSet(i.body[b]) \cup {o}
           /\ \A c \in Blocks \ {b} : j.body[c] = i.body[c]
  BY DEF Grows, GrownAt

LEMMA GrowsWithin ==
    ASSUME NEW i, Seated(i), NEW o \in Ops \ Live(i), NEW b \in ToSet(i.region), NEW before,
           before = End \/ before \in ToSet(i.body[b]), NEW j, Grows(i, o, b, before, j), NEW x, NEW y
    PROVE  Within(j, x, y) <=>
              \/ Within(i, x, y)
              \/ x \in ToSet(i.body[b]) /\ Upward(i.body[b], x, before) /\ y = o
              \/ x = o /\ y \in ToSet(i.body[b]) /\ ~Upward(i.body[b], y, before)
  <1>1. b \in Blocks /\ ToSet(i.region) \subseteq Blocks
    BY BlocksOrdered
  <1>2. /\ j.region = i.region /\ j.body[b] = Put(i.body[b], o, before)
        /\ \A c \in Blocks \ {b} : j.body[c] = i.body[c]
    BY <1>1, GrowsFacts
  <1>3. PICK s \in Seq(Ops) : s = i.body[b] /\ IsInjective(s) /\ o \notin ToSet(s)
    BY <1>1, BodyTyped
  <1>4. Precedes(Put(s, o, before), x, y) <=>
              \/ Precedes(s, x, y)
              \/ x \in ToSet(s) /\ Upward(s, x, before) /\ y = o
              \/ x = o /\ y \in ToSet(s) /\ ~Upward(s, y, before)
    BY <1>3, PrecedesPut
  <1> QED
    BY <1>1, <1>2, <1>3, <1>4 DEF Within

LEMMA GrowsAcross ==
    ASSUME NEW i, Seated(i), NEW o \in Ops \ Live(i), NEW b \in ToSet(i.region), NEW before,
           before = End \/ before \in ToSet(i.body[b]), NEW j, Grows(i, o, b, before, j), NEW x, NEW y
    PROVE  Across(j, x, y) <=>
              \/ Across(i, x, y)
              \/ y = o /\ \E c \in ToSet(i.region) : Precedes(i.region, c, b) /\ x \in ToSet(i.body[c])
              \/ x = o /\ \E c \in ToSet(i.region) : Precedes(i.region, b, c) /\ y \in ToSet(i.body[c])
  <1>1. b \in Blocks /\ ToSet(i.region) \subseteq Blocks /\ ~Precedes(i.region, b, b)
    BY BlocksOrdered
  <1>2. /\ j.region = i.region /\ ToSet(j.body[b]) = ToSet(i.body[b]) \cup {o}
        /\ \A c \in Blocks \ {b} : j.body[c] = i.body[c]
    BY <1>1, GrowsFacts
  <1>3. \A c \in ToSet(i.region) : \A z : z \in ToSet(j.body[c]) <=> z \in ToSet(i.body[c]) \/ (c = b /\ z = o)
    BY <1>1, <1>2
  <1> QED
    BY <1>1, <1>2, <1>3 DEF Across

LEMMA GrowsBefore ==
    ASSUME NEW i, Seated(i), NEW o \in Ops \ Live(i), NEW p, p.block \in ToSet(i.region), SoundIn(i, p),
           NEW j, Grows(i, o, p.block, p.before, j)
    PROVE  \A x, y : Before(j, x, y) <=>
              \/ Before(i, x, y)
              \/ x \in Ahead(i, p) /\ y = o
              \/ x = o /\ y \in Live(i) /\ y \notin Ahead(i, p)
  <1> SUFFICES ASSUME NEW x, NEW y
               PROVE  Before(j, x, y) <=>
                         \/ Before(i, x, y)
                         \/ x \in Ahead(i, p) /\ y = o
                         \/ x = o /\ y \in Live(i) /\ y \notin Ahead(i, p)
    OBVIOUS
  <1>0. PICK b \in ToSet(i.region) : b = p.block
    OBVIOUS
  <1>1. PICK before : b = p.block /\ before = p.before
    BY <1>0
  <1>2. before = End \/ before \in ToSet(i.body[b])
    BY <1>1 DEF SoundIn
  <1>3. b \in Blocks /\ ToSet(i.region) \subseteq Blocks
    <2>1. ToSet(i.region) \subseteq Blocks
      BY BlocksOrdered
    <2> QED
      BY <2>1
  <1>4. /\ Before(i, x, y) <=> Within(i, x, y) \/ Across(i, x, y)
        /\ Before(j, x, y) <=> Within(j, x, y) \/ Across(j, x, y)
    <2>1. Seated(j)
      BY <1>1, <1>3, GrowsFacts
    <2> QED
      BY <2>1, BeforeIn
  <1>5. Within(j, x, y) <=>
              \/ Within(i, x, y)
              \/ x \in ToSet(i.body[b]) /\ Upward(i.body[b], x, before) /\ y = o
              \/ x = o /\ y \in ToSet(i.body[b]) /\ ~Upward(i.body[b], y, before)
    <2>1. Grows(i, o, b, before, j)
      BY <1>1
    <2> QED
      BY <1>2, <2>1, GrowsWithin
  <1>6. Across(j, x, y) <=>
              \/ Across(i, x, y)
              \/ y = o /\ \E c \in ToSet(i.region) : Precedes(i.region, c, b) /\ x \in ToSet(i.body[c])
              \/ x = o /\ \E c \in ToSet(i.region) : Precedes(i.region, b, c) /\ y \in ToSet(i.body[c])
    <2>1. Grows(i, o, b, before, j)
      BY <1>1
    <2> QED
      BY <1>2, <2>1, GrowsAcross
  <1>7. \A z : z \in Ahead(i, p) <=>
              \/ z \in ToSet(i.body[b]) /\ Upward(i.body[b], z, before)
              \/ \E c \in ToSet(i.region) : Precedes(i.region, c, b) /\ z \in ToSet(i.body[c])
    <2>1. \A c \in Blocks : ToSet(i.body[c]) \subseteq Live(i)
      BY DEF Seated
    <2> QED
      BY <1>1, <1>3, <2>1 DEF Ahead, AheadOf
  <1>8. y \in Live(i) /\ y \notin Ahead(i, p) <=>
              \/ y \in ToSet(i.body[b]) /\ ~Upward(i.body[b], y, before)
              \/ \E c \in ToSet(i.region) : Precedes(i.region, b, c) /\ y \in ToSet(i.body[c])
    <2>1. \A c \in Blocks : y \in ToSet(i.body[c]) =>
             /\ y \in Live(i) /\ c \in ToSet(i.region)
             /\ y \in Ahead(i, p) <=> Precedes(i.region, c, b) \/ (c = b /\ Upward(i.body[c], y, before))
      BY <1>1, AheadOne, InBlock
    <2>2. y \in Live(i) => \E c \in Blocks : y \in ToSet(i.body[c])
      BY DEF Seated, Filed
    <2>3. \A c \in ToSet(i.region) : /\ Precedes(i.region, b, c) => b # c /\ ~Precedes(i.region, c, b)
                                     /\ b = c \/ Precedes(i.region, b, c) \/ Precedes(i.region, c, b)
      BY BlocksOrdered DEF Upto
    <2>4. ASSUME y \in Live(i), y \notin Ahead(i, p)
          PROVE  \/ y \in ToSet(i.body[b]) /\ ~Upward(i.body[b], y, before)
                 \/ \E c \in ToSet(i.region) : Precedes(i.region, b, c) /\ y \in ToSet(i.body[c])
      <3>1. PICK c \in Blocks : y \in ToSet(i.body[c])
        BY <2>2, <2>4
      <3>2. c \in ToSet(i.region) /\ ~Precedes(i.region, c, b) /\ ~(c = b /\ Upward(i.body[c], y, before))
        BY <2>1, <2>4, <3>1
      <3> QED
        BY <2>3, <3>1, <3>2
    <2>5. ASSUME y \in ToSet(i.body[b]), ~Upward(i.body[b], y, before) PROVE y \in Live(i) /\ y \notin Ahead(i, p)
      <3>1. ~Precedes(i.region, b, b)
        BY BlocksOrdered
      <3> QED
        BY <1>3, <2>1, <2>5, <3>1
    <2>6. ASSUME NEW c \in ToSet(i.region), Precedes(i.region, b, c), y \in ToSet(i.body[c])
          PROVE  y \in Live(i) /\ y \notin Ahead(i, p)
      BY <1>3, <2>1, <2>3, <2>6
    <2> QED
      BY <2>4, <2>5, <2>6
  <1> QED
    BY <1>4, <1>5, <1>6, <1>7, <1>8

LEMMA GrowsAhead ==
    ASSUME NEW i, Seated(i), NEW o \in Ops \ Live(i), NEW b \in ToSet(i.region), NEW before,
           before = End \/ before \in ToSet(i.body[b]), NEW j, Grows(i, o, b, before, j),
           NEW q, q.block \in ToSet(i.region), q.before \in Live(i) \cup {End}
    PROVE  /\ SoundIn(j, q) <=> SoundIn(i, q)
           /\ \A x \in Live(i) : x \in Ahead(j, q) <=> x \in Ahead(i, q)
           /\ q.block = b /\ q.before = before => o \in Ahead(j, q)
           /\ q.before = End /\ Upto(i.region, b, q.block) => o \in Ahead(j, q)
           /\ before = End /\ o \in Ahead(j, q) => ToSet(i.body[b]) \subseteq Ahead(i, q)
  <1>1. b \in Blocks /\ ToSet(i.region) \subseteq Blocks
    BY BlocksOrdered
  <1>2. /\ Seated(j) /\ j.region = i.region /\ j.body[b] = Put(i.body[b], o, before)
        /\ ToSet(j.body[b]) = ToSet(i.body[b]) \cup {o} /\ \A c \in Blocks \ {b} : j.body[c] = i.body[c]
    BY <1>1, GrowsFacts
  <1>3. PICK d \in ToSet(i.region), r \in Live(i) \cup {End} : d = q.block /\ r = q.before
    OBVIOUS
  <1>4. r # o /\ o # End
    BY <1>3, RewritingAssumption DEF End, Live
  <1>5. PICK s \in Seq(Ops) : s = i.body[b] /\ IsInjective(s) /\ o \notin ToSet(s)
    BY <1>1, BodyTyped
  <1>6. \A x, y : Precedes(j.body[b], x, y) <=>
              \/ Precedes(s, x, y)
              \/ x \in ToSet(s) /\ Upward(s, x, before) /\ y = o
              \/ x = o /\ y \in ToSet(s) /\ ~Upward(s, y, before)
    BY <1>2, <1>5, PrecedesPut
  <1>7. \A x \in Live(i) : Upward(j.body[d], x, r) <=> Upward(i.body[d], x, r)
    BY <1>1, <1>2, <1>4, <1>5, <1>6 DEF Upward
  <1>8. SoundIn(j, q) <=> SoundIn(i, q)
    BY <1>1, <1>2, <1>3, <1>4 DEF SoundIn
  <1>9. ASSUME NEW x \in Live(i) PROVE x \in Ahead(j, q) <=> x \in Ahead(i, q)
    <2>1. PICK c \in Blocks : x \in ToSet(i.body[c])
      BY DEF Seated, Filed
    <2>2. x \in ToSet(j.body[c])
      BY <1>1, <1>2, <2>1
    <2>3. x \in Ahead(i, q) <=> Precedes(i.region, c, d) \/ (c = d /\ Upward(i.body[c], x, r))
      BY <1>3, <2>1, AheadOne
    <2>4. x \in Ahead(j, q) <=> Precedes(j.region, c, d) \/ (c = d /\ Upward(j.body[c], x, r))
      BY <1>2, <1>3, <2>2, AheadOne
    <2> QED
      BY <1>2, <1>7, <2>3, <2>4
  <1>10. o \in Ahead(j, q) <=> Precedes(i.region, b, d) \/ (b = d /\ Upward(j.body[b], o, r))
    BY <1>1, <1>2, <1>3, AheadOne
  <1>11. ASSUME d = b, r = before PROVE o \in Ahead(j, q)
    <2>1. CASE before = End
      BY <1>10, <1>11, <2>1 DEF Upward
    <2>2. CASE before # End
      <3>1. before \in ToSet(s) /\ ~Upward(s, before, before)
        BY <1>1, <1>5, <2>2, BodyTyped DEF Upward
      <3>2. Precedes(j.body[b], o, before)
        BY <1>6, <3>1
      <3> QED
        BY <1>10, <1>11, <3>2 DEF Upward
    <2> QED
      BY <2>1, <2>2
  <1>12. r = End /\ Upto(i.region, b, d) => o \in Ahead(j, q)
    BY <1>10 DEF Upto, Upward
  <1>13. ASSUME before = End, o \in Ahead(j, q) PROVE ToSet(i.body[b]) \subseteq Ahead(i, q)
    <2>1. ~Precedes(s, o, r)
      BY <1>5, PrecedesWithin
    <2>2. ~Precedes(j.body[b], o, r)
      BY <1>4, <1>6, <1>13, <2>1 DEF Upward
    <2>3. Precedes(i.region, b, d) \/ (b = d /\ r = End)
      BY <1>10, <1>13, <2>2 DEF Upward
    <2> QED
      BY <1>1, <1>3, <2>3, AheadOne DEF Upward
  <1> QED
    BY <1>3, <1>8, <1>9, <1>11, <1>12, <1>13

(***************************************************************************)
(* What is taken away leaves the rest in its order.                        *)
(***************************************************************************)
LEMMA RidBefore ==
    ASSUME NEW i, Seated(i), NEW gone, NEW j, RidTo(i, gone, j)
    PROVE  \A x, y : Before(j, x, y) <=> Before(i, x, y) /\ x \in Live(j) /\ y \in Live(j)
  <1> SUFFICES ASSUME NEW x, NEW y
               PROVE  Before(j, x, y) <=> Before(i, x, y) /\ x \in Live(j) /\ y \in Live(j)
    OBVIOUS
  <1>1. ToSet(i.region) \subseteq Blocks
    BY BlocksOrdered
  <1>2. /\ Seated(j) /\ Live(j) = Live(i) \ gone /\ j.region = i.region
        /\ \A c \in Blocks : /\ j.body[c] = Only(i.body[c], Ops \ gone)
                             /\ ToSet(j.body[c]) = ToSet(i.body[c]) \ gone
    BY DEF RidTo
  <1>3. Live(i) \subseteq Ops
    BY DEF Live
  <1>4. \A c \in Blocks : Precedes(j.body[c], x, y) <=> Precedes(i.body[c], x, y) /\ x \in Live(j) /\ y \in Live(j)
    <2> SUFFICES ASSUME NEW c \in Blocks
                 PROVE  Precedes(j.body[c], x, y) <=> Precedes(i.body[c], x, y) /\ x \in Live(j) /\ y \in Live(j)
      OBVIOUS
    <2>1. i.body[c] \in Seq(Ops) /\ ToSet(i.body[c]) \subseteq Live(i)
      BY BodyTyped
    <2>2. Precedes(j.body[c], x, y) <=> Precedes(i.body[c], x, y) /\ x \in Ops \ gone /\ y \in Ops \ gone
      BY <1>2, <2>1, PrecedesOnly
    <2>3. Precedes(i.body[c], x, y) => x \in Live(i) /\ y \in Live(i)
      BY <2>1, PrecedesWithin
    <2> QED
      BY <1>2, <1>3, <2>2, <2>3
  <1>5. Within(j, x, y) <=> Within(i, x, y) /\ x \in Live(j) /\ y \in Live(j)
    BY <1>1, <1>2, <1>4 DEF Within
  <1>6. \A c \in Blocks : \A z : z \in ToSet(j.body[c]) <=> z \in ToSet(i.body[c]) /\ z \in Live(j)
    BY <1>2, BodyTyped
  <1>7. Across(j, x, y) <=> Across(i, x, y) /\ x \in Live(j) /\ y \in Live(j)
    BY <1>1, <1>2, <1>6 DEF Across
  <1>8. /\ Before(i, x, y) <=> Within(i, x, y) \/ Across(i, x, y)
        /\ Before(j, x, y) <=> Within(j, x, y) \/ Across(j, x, y)
    BY <1>2, BeforeIn
  <1> QED
    BY <1>5, <1>7, <1>8

(***************************************************************************)
(* A block that is split is followed by its second half.                   *)
(***************************************************************************)
LEMMA PrecedesAfter ==
    ASSUME NEW S, NEW s \in Seq(S), IsInjective(s), NEW m \in 1 .. Len(s), NEW o \in S, o \notin ToSet(s)
    PROVE  \A x, y : Precedes(InsertAt(s, m + 1, o), x, y) <=>
              Precedes(s, x, y) \/ (Upto(s, x, s[m]) /\ y = o) \/ (x = o /\ Precedes(s, s[m], y))
  <1>1. PICK z \in Nat : z = Len(s) /\ DOMAIN s = 1 .. z /\ m \in 1 .. z
    OBVIOUS
  <1>2. PICK n \in 1 .. Len(s) + 1 : n = m + 1 /\ n - 1 = m
    BY <1>1
  <1>3. PICK a \in Seq(S), b \in Seq(S) : Cut(s, n, a, b) /\ PutBetween(s, n, o, a, b)
    BY PrecedesInsert
  <1>4. /\ a = SubSeq(s, 1, m) /\ ToSet(s) = ToSet(a) \cup ToSet(b) /\ ToSet(a) \cap ToSet(b) = {}
    BY <1>2, <1>3 DEF Cut
  <1>5. Len(a) = m /\ \A c \in 1 .. m : a[c] = s[c]
    BY <1>1, <1>4
  <1>6. \A x : x \in ToSet(a) <=> \E c \in 1 .. m : s[c] = x
    BY <1>5 DEF ToSet
  <1>7. \A x : x \in ToSet(a) <=> Upto(s, x, s[m])
    <2>1. ASSUME NEW x, x \in ToSet(a) PROVE Upto(s, x, s[m])
      <3>1. PICK c \in 1 .. m : s[c] = x
        BY <1>6, <2>1
      <3>2. c = m \/ c < m
        BY <1>1
      <3>3. c \in 1 .. z
        BY <1>1
      <3> QED
        BY <1>1, <3>1, <3>2, <3>3 DEF Upto, Precedes
    <2>2. ASSUME NEW x, Precedes(s, x, s[m]) PROVE x \in ToSet(a)
      <3>1. PICK c \in 1 .. z, e \in 1 .. z : c < e /\ s[c] = x /\ s[e] = s[m]
        BY <1>1, <2>2 DEF Precedes
      <3>2. e = m
        BY <1>1, <3>1 DEF IsInjective
      <3>3. c \in 1 .. m
        BY <1>1, <3>1, <3>2
      <3> QED
        BY <1>6, <3>1, <3>3
    <2>3. s[m] \in ToSet(a)
      BY <1>1, <1>6
    <2> QED
      BY <2>1, <2>2, <2>3 DEF Upto
  <1>8. \A y : y \in ToSet(b) <=> Precedes(s, s[m], y)
    <2>1. s[m] \in ToSet(s)
      BY <1>1 DEF ToSet
    <2>2. /\ \A x, y : Precedes(s, x, y) => x \in ToSet(s) /\ y \in ToSet(s) /\ ~Precedes(s, y, x)
          /\ \A x, y \in ToSet(s) : x = y \/ Precedes(s, x, y) \/ Precedes(s, y, x)
      BY PrecedesOrders
    <2>3. \A y : y \in ToSet(b) <=> y \in ToSet(s) /\ y \notin ToSet(a)
      BY <1>4
    <2> QED
      BY <1>7, <2>1, <2>2, <2>3 DEF Upto
  <1> QED
    BY <1>2, <1>3, <1>7, <1>8 DEF PutBetween

Halved(i, o, new, j, b, p, q) ==
    /\ b = BlockOf(i, o) /\ b \in Blocks /\ b \in ToSet(i.region) /\ b # new
    /\ j.body[b] = p /\ j.body[new] = q /\ \A c \in Blocks \ {b, new} : j.body[c] = i.body[c]
    /\ ToSet(i.body[b]) = ToSet(p) \cup ToSet(q)
    /\ \A x, y : Precedes(i.body[b], x, y) <=>
          Precedes(p, x, y) \/ Precedes(q, x, y) \/ (x \in ToSet(p) /\ y \in ToSet(q))
    /\ o \in ToSet(q) /\ \A x : Precedes(i.body[b], x, o) <=> x \in ToSet(p)
    /\ ToSet(j.region) = ToSet(i.region) \cup {new}
    /\ \A c, d : Precedes(j.region, c, d) <=>
          \/ Precedes(i.region, c, d)
          \/ Upto(i.region, c, b) /\ d = new
          \/ c = new /\ Precedes(i.region, b, d)

LEMMA SplitHalves ==
    ASSUME NEW i, Seated(i), NEW o \in Live(i), NEW new \in Blocks \ ToSet(i.region), NEW j, j = Split(i, o, new)
    PROVE  \E b, p, q : Halved(i, o, new, j, b, p, q)
  <1>1. Filed(i) /\ i.region \in Seq(Blocks) /\ IsInjective(i.region)
    BY IrFields DEF Seated, Filed
  <1>2. PICK b, n, m : SplitIn(i, o, new, j, b, n, m)
    BY <1>1, SplitFields
  <1>3. b = BlockOf(i, o) /\ b \in Blocks /\ b \in ToSet(i.region) /\ b # new
    BY <1>2, OneHome DEF SplitIn
  <1>4. PICK s \in Seq(Ops) : s = i.body[b] /\ IsInjective(s)
    BY <1>3, BodyTyped
  <1>5. /\ n \in 1 .. Len(s) /\ s[n] = o /\ m \in 1 .. Len(i.region) /\ i.region[m] = b
        /\ j.region = InsertAt(i.region, m + 1, new)
        /\ \A d \in Blocks : j.body[d] = IF d = new THEN SubSeq(s, n, Len(s))
                                         ELSE IF d = b THEN SubSeq(s, 1, n - 1) ELSE i.body[d]
    BY <1>2, <1>4 DEF SplitIn
  <1>6. PICK e \in 1 .. Len(s) + 1 : e = n
    BY <1>5
  <1>7. PICK p \in Seq(Ops), q \in Seq(Ops) : Cut(s, e, p, q)
    BY <1>4, PrecedesCut
  <1>8. /\ p = SubSeq(s, 1, n - 1) /\ q = SubSeq(s, n, Len(s)) /\ ToSet(s) = ToSet(p) \cup ToSet(q)
        /\ \A x, y : Precedes(s, x, y) <=>
              Precedes(p, x, y) \/ Precedes(q, x, y) \/ (x \in ToSet(p) /\ y \in ToSet(q))
    BY <1>6, <1>7 DEF Cut
  <1>9. o \in ToSet(q) /\ \A x : Precedes(s, x, o) <=> x \in ToSet(p)
    <2>1. e \in DOMAIN s
      BY <1>5, <1>6
    <2>2. s[e] \in ToSet(q) /\ \A x : Precedes(s, x, s[e]) <=> x \in ToSet(p)
      BY <1>7, <2>1, Zenon DEF Cut
    <2> QED
      BY <1>5, <1>6, <2>2
  <1>10. j.body[b] = p /\ j.body[new] = q /\ \A c \in Blocks \ {b, new} : j.body[c] = i.body[c]
    BY <1>3, <1>5, <1>8
  <1>11. ToSet(j.region) = ToSet(i.region) \cup {new}
    <2>1. PICK r \in Seq(Blocks) : r = i.region
      BY <1>1
    <2>2. PICK k \in 1 .. Len(r) + 1 : k = m + 1 /\ j.region = InsertAt(r, k, new)
      BY <1>5, <2>1
    <2>3. /\ InsertAt(r, k, new) \in Seq(Blocks) /\ ToSet(InsertAt(r, k, new)) = ToSet(r) \cup {new}
          /\ \A kept : new \notin kept => Only(InsertAt(r, k, new), kept) = Only(r, kept)
      BY Inserted
    <2> QED
      BY <2>1, <2>2, <2>3
  <1>12. \A c, d : Precedes(j.region, c, d) <=>
          \/ Precedes(i.region, c, d)
          \/ Upto(i.region, c, b) /\ d = new
          \/ c = new /\ Precedes(i.region, b, d)
    BY <1>1, <1>5, PrecedesAfter
  <1>13. Halved(i, o, new, j, b, p, q)
    BY <1>3, <1>4, <1>8, <1>9, <1>10, <1>11, <1>12 DEF Halved
  <1> QED
    BY <1>13

LEMMA SplitBefore ==
    ASSUME NEW i, Seated(i), NEW o \in Live(i), NEW new \in Blocks \ ToSet(i.region), NEW j, j = Split(i, o, new)
    PROVE  \A x, y : Before(j, x, y) <=> Before(i, x, y)
  <1> SUFFICES ASSUME NEW x, NEW y
               PROVE  Before(j, x, y) <=> Before(i, x, y)
    OBVIOUS
  <1>1. PICK b, p, q : Halved(i, o, new, j, b, p, q)
    BY SplitHalves
  <1>2. ToSet(i.region) \subseteq Blocks /\ new \notin ToSet(i.region)
    BY BlocksOrdered
  <1>3. Within(j, x, y) <=>
           \/ \E c \in ToSet(i.region) \ {b} : Precedes(i.body[c], x, y)
           \/ Precedes(p, x, y) \/ Precedes(q, x, y)
    BY <1>1, <1>2 DEF Within, Halved
  <1>4. Within(i, x, y) <=>
           \/ \E c \in ToSet(i.region) \ {b} : Precedes(i.body[c], x, y)
           \/ Precedes(p, x, y) \/ Precedes(q, x, y) \/ (x \in ToSet(p) /\ y \in ToSet(q))
    BY <1>1, <1>2 DEF Within, Halved
  <1>5. ASSUME Across(i, x, y) PROVE Across(j, x, y)
    <2>1. PICK c \in ToSet(i.region), d \in ToSet(i.region) :
             Precedes(i.region, c, d) /\ x \in ToSet(i.body[c]) /\ y \in ToSet(i.body[d]) /\ c # d
      BY <1>5, BlocksOrdered DEF Across
    <2>2. c \in ToSet(j.region) /\ d \in ToSet(j.region) /\ new \in ToSet(j.region) /\ Precedes(j.region, c, d)
      BY <1>1, <2>1 DEF Halved
    <2>3. CASE c # b /\ d # b
      <3>1. x \in ToSet(j.body[c]) /\ y \in ToSet(j.body[d])
        BY <1>1, <1>2, <2>1, <2>3 DEF Halved
      <3> QED
        BY <2>2, <3>1 DEF Across
    <2>4. CASE c = b
      <3>1. y \in ToSet(j.body[d]) /\ (x \in ToSet(j.body[b]) \/ x \in ToSet(j.body[new]))
        BY <1>1, <1>2, <2>1, <2>4 DEF Halved
      <3>2. Precedes(j.region, new, d)
        BY <1>1, <2>1, <2>4 DEF Halved
      <3> QED
        BY <2>2, <2>4, <3>1, <3>2 DEF Across
    <2>5. CASE d = b
      <3>1. x \in ToSet(j.body[c]) /\ (y \in ToSet(j.body[b]) \/ y \in ToSet(j.body[new]))
        BY <1>1, <1>2, <2>1, <2>5 DEF Halved
      <3>2. Precedes(j.region, c, new)
        BY <1>1, <2>1, <2>5 DEF Halved, Upto
      <3> QED
        BY <2>2, <2>5, <3>1, <3>2 DEF Across
    <2> QED
      BY <2>3, <2>4, <2>5
  <1>6. ASSUME x \in ToSet(p), y \in ToSet(q) PROVE Across(j, x, y)
    <2>1. b \in ToSet(j.region) /\ new \in ToSet(j.region) /\ Precedes(j.region, b, new)
      BY <1>1 DEF Halved, Upto
    <2> QED
      BY <1>1, <1>6, <2>1 DEF Across, Halved
  <1>7. ASSUME Across(j, x, y) PROVE Across(i, x, y) \/ (x \in ToSet(p) /\ y \in ToSet(q))
    <2>1. PICK c \in ToSet(j.region), d \in ToSet(j.region) :
             Precedes(j.region, c, d) /\ x \in ToSet(j.body[c]) /\ y \in ToSet(j.body[d])
      BY <1>7 DEF Across
    <2>2. \A e \in ToSet(i.region) : ToSet(j.body[e]) \subseteq ToSet(i.body[e])
      BY <1>1, <1>2 DEF Halved
    <2>3. CASE Precedes(i.region, c, d)
      <3>1. c \in ToSet(i.region) /\ d \in ToSet(i.region)
        BY <2>3, BlocksOrdered
      <3> QED
        BY <2>1, <2>2, <2>3, <3>1 DEF Across
    <2>4. CASE Upto(i.region, c, b) /\ d = new
      <3>1. y \in ToSet(q) /\ y \in ToSet(i.body[b]) /\ b \in ToSet(i.region)
        BY <1>1, <2>1, <2>4 DEF Halved
      <3>2. CASE c = b
        BY <1>1, <2>1, <3>1, <3>2 DEF Halved
      <3>3. CASE Precedes(i.region, c, b)
        <4>1. c \in ToSet(i.region)
          BY <3>3, BlocksOrdered
        <4> QED
          BY <2>1, <2>2, <3>1, <3>3, <4>1 DEF Across
      <3> QED
        BY <2>4, <3>2, <3>3 DEF Upto
    <2>5. CASE c = new /\ Precedes(i.region, b, d)
      <3>1. x \in ToSet(i.body[b]) /\ b \in ToSet(i.region)
        BY <1>1, <2>1, <2>5 DEF Halved
      <3>2. d \in ToSet(i.region)
        BY <2>5, BlocksOrdered
      <3> QED
        BY <2>1, <2>2, <2>5, <3>1, <3>2 DEF Across
    <2> QED
      BY <1>1, <2>1, <2>3, <2>4, <2>5 DEF Halved
  <1>8. /\ Before(i, x, y) <=> Within(i, x, y) \/ Across(i, x, y)
        /\ Before(j, x, y) <=> Within(j, x, y) \/ Across(j, x, y)
    <2>1. Seated(j)
      BY SplitSeated DEF SplitTo
    <2> QED
      BY <2>1, BeforeIn
  <1> QED
    BY <1>3, <1>4, <1>5, <1>6, <1>7, <1>8

(***************************************************************************)
(* What must be ahead of an operation: its operand and, in a conversion,   *)
(* whatever the operand was said to be replaced by, which uses of it are   *)
(* to follow when the conversion ends.                                     *)
(***************************************************************************)
Heeds(l, s) ==
    \A k \in 1 .. Len(l) :
       l[k].did = "replace" /\ l[k].by # None /\ l[k].op \in s => l[k].by \in s

Tidy(i, l, d) ==
    /\ d \in [Ops -> SUBSET Ops]
    /\ \A u \in Live(i) : /\ d[u] \subseteq Below(i, u)
                          /\ i.arg[u] # None => i.arg[u] \in d[u]
                          /\ Heeds(l, d[u])

LEMMA TidyOrdered ==
    ASSUME NEW i, Seated(i), NEW l, NEW d, Tidy(i, l, d)
    PROVE  Ordered(i)
  BY OrderedBefore DEF Tidy, Below

LEMMA OperandsTidy ==
    ASSUME NEW i, Seated(i), Ordered(i)
    PROVE  \E d : Tidy(i, <<>>, d)
  <1>1. i.arg \in [Ops -> Ops \cup {None}] /\ Live(i) \subseteq Ops
    BY IrFields DEF Live, Seated, Filed
  <1>2. PICK d : d = [u \in Ops |-> {i.arg[u]} \ {None}]
    OBVIOUS
  <1>3. d \in [Ops -> SUBSET Ops]
    BY <1>1, <1>2
  <1>4. \A u \in Live(i) : d[u] = {i.arg[u]} \ {None} /\ Heeds(<<>>, d[u])
    BY <1>1, <1>2 DEF Heeds
  <1>5. \A u \in Live(i) : i.arg[u] # None => i.arg[u] \in Below(i, u)
    BY OrderedBefore, BeforeOrders DEF Below
  <1> QED
    BY <1>3, <1>4, <1>5 DEF Tidy

(* Operations that nothing else uses are taken away.                        *)
LEMMA RidOrdered ==
    ASSUME NEW i, Seated(i), Ordered(i), NEW gone, NEW j, RidTo(i, gone, j),
           \A u \in Live(i) \ gone : i.arg[u] \notin gone
    PROVE  Ordered(j)
  <1>1. Seated(j) /\ Live(j) = Live(i) \ gone /\ \A x \in Live(j) : j.arg[x] = i.arg[x]
    BY DEF RidTo
  <1>2. ASSUME NEW o \in Live(j), j.arg[o] # None PROVE Before(j, j.arg[o], o)
    <2>1. Before(i, i.arg[o], o) /\ i.arg[o] = j.arg[o]
      BY <1>1, <1>2, OrderedBefore
    <2>2. i.arg[o] \in Live(j)
      BY <1>1, <2>1, BeforeOrders
    <2> QED
      BY <2>1, <2>2, RidBefore
  <1> QED
    BY <1>1, <1>2, OrderedBefore

LEMMA TidyRid ==
    ASSUME NEW i, Seated(i), NEW l \in Seq(Entry), NEW d, Tidy(i, l, d), NEW n \in 0 .. Len(l), Kept(i, l),
           NEW j, RidTo(i, MadeIn(l, n), j), \A u \in Live(j) : i.arg[u] \notin MadeIn(l, n)
    PROVE  \E e : Tidy(j, SubSeq(l, 1, n), e)
  <1>1. PICK gone : gone = MadeIn(l, n)
    OBVIOUS
  <1>2. Seated(j) /\ Live(j) = Live(i) \ gone /\ \A x \in Live(j) : j.arg[x] = i.arg[x]
    BY <1>1 DEF RidTo
  <1>3. Live(i) \subseteq Ops /\ d \in [Ops -> SUBSET Ops]
    BY DEF Live, Tidy
  <1>4. PICK e : e = [u \in Ops |-> d[u] \ gone]
    OBVIOUS
  <1>5. e \in [Ops -> SUBSET Ops] /\ \A u \in Live(i) : e[u] = d[u] \ gone
    BY <1>3, <1>4
  <1>6. PICK m : m = SubSeq(l, 1, n)
    OBVIOUS
  <1>11. Len(l) \in Nat /\ \A k \in 1 .. n : k \in 1 .. Len(l)
    OBVIOUS
  <1>12. Len(m) = n /\ \A k \in 1 .. n : m[k] = l[k]
    BY <1>6, <1>11
  <1>7. ASSUME NEW u \in Live(j) PROVE e[u] \subseteq Below(j, u)
    <2>1. RidTo(i, gone, j) /\ u \in Live(i) /\ d[u] \subseteq Below(i, u)
      BY <1>1, <1>2, <1>7 DEF Tidy
    <2> QED
      BY <1>2, <1>5, <2>1, RidBefore DEF Below
  <1>8. ASSUME NEW u \in Live(j), j.arg[u] # None PROVE j.arg[u] \in e[u]
    <2>1. u \in Live(i) /\ j.arg[u] = i.arg[u] /\ i.arg[u] \in d[u]
      BY <1>2, <1>8 DEF Tidy
    <2> QED
      BY <1>1, <1>5, <2>1
  <1>9. ASSUME NEW u \in Live(j), NEW k \in 1 .. n, m[k].did = "replace", m[k].by # None, m[k].op \in e[u]
        PROVE  m[k].by \in e[u]
    <2>1. u \in Live(i) /\ Heeds(l, d[u]) /\ k \in 1 .. Len(l) /\ m[k] = l[k]
      BY <1>2, <1>11, <1>12 DEF Tidy
    <2>2. l[k].by \in d[u]
      BY <1>5, <1>9, <2>1 DEF Heeds
    <2>3. n \in k .. Len(l) /\ Named(i, l, k)
      BY <1>9, <2>1 DEF Kept
    <2>4. l[k].by \notin gone
      BY <1>1, <2>3 DEF Named
    <2> QED
      BY <1>5, <2>1, <2>2, <2>4
  <1>10. \A u \in Live(j) : Heeds(m, e[u])
    BY <1>9, <1>12 DEF Heeds
  <1> QED
    BY <1>5, <1>6, <1>7, <1>8, <1>10 DEF Tidy

(***************************************************************************)
(* A function and its root, with what it created and where it inserts: all *)
(* that is ahead of the root and all that was created is ahead of the      *)
(* point, and nothing that is to follow the root is.  Until the point was  *)
(* set after the root, what is ahead of it is ahead of the root; until it  *)
(* was set before the root, it is in the block the root was in or in an    *)
(* earlier one.                                                            *)
(***************************************************************************)
EndOf(b) == [block |-> b, before |-> End]

Rooted(i, l, d, r, held, made) ==
    /\ r \in Live(i) /\ i.arg[r] = held
    /\ made \subseteq Live(i) \ {r, held} /\ made \cap GoneIn(l, Len(l)) = {}
    /\ \A u \in Live(i) : r \in d[u] => made \subseteq Below(i, u)

Pointed(i, d, r, made, p, past) ==
    /\ p.block \in ToSet(i.region) /\ p.before \in Live(i) \cup {End}
    /\ SoundIn(i, p) => d[r] \cup made \subseteq Ahead(i, p) /\ \A u \in Ahead(i, p) : r \notin d[u]
    /\ "after" \notin past =>
          /\ p.before \in {r, End} /\ made \subseteq Below(i, r)
          /\ SoundIn(i, p) => Ahead(i, p) \subseteq Below(i, r)

Homed(i, d, r, made, home, p, past) ==
    /\ home \in ToSet(i.region)
    /\ "split" \notin past => r \in ToSet(i.body[home])
    /\ past \cap {"before", "after"} = {} =>
          /\ SoundIn(i, p) => Upto(i.region, p.block, home)
          /\ "split" \in past => d[r] \cup made \subseteq Ahead(i, EndOf(home))
                                 /\ Ahead(i, EndOf(home)) \subseteq Below(i, r)

Fits(i, l, d, r, held, made, home, p, past) ==
    Rooted(i, l, d, r, held, made) /\ Pointed(i, d, r, made, p, past) /\ Homed(i, d, r, made, home, p, past)

LEMMA RootAlone ==
    ASSUME NEW i, Seated(i), NEW l, NEW d, Tidy(i, l, d), NEW r \in Live(i)
    PROVE  /\ r \notin d[r] /\ r \notin Below(i, r) /\ d[r] \subseteq Below(i, r)
           /\ \A u \in Below(i, r) : r \notin d[u]
  BY BeforeOrders DEF Tidy, Below

(* Operations that were created were not replaced.                          *)
LEMMA KnownHeeds ==
    ASSUME NEW i, NEW l, NEW d, Tidy(i, l, d), NEW r \in Live(i), NEW made, made \cap GoneIn(l, Len(l)) = {}
    PROVE  Heeds(l, d[r] \cup made)
  <1>1. Heeds(l, d[r])
    BY DEF Tidy
  <1>2. \A k \in 1 .. Len(l) : l[k].did = "replace" => l[k].op \notin made
    BY DEF GoneIn
  <1> QED
    BY <1>1, <1>2 DEF Heeds

(* A function that begins: its point is before its root, or the function    *)
(* before it left it at the end of a block.                                 *)
LEMMA FitsFirst ==
    ASSUME NEW i, Seated(i), NEW l, NEW d, Tidy(i, l, d), NEW r \in Live(i), NEW p, p.block \in ToSet(i.region),
           p.before \in {r, End}, SoundIn(i, p) => d[r] \subseteq Ahead(i, p) /\ Ahead(i, p) \subseteq Below(i, r)
    PROVE  Fits(i, l, d, r, i.arg[r], {}, BlockOf(i, r), p, {})
  <1>1. Rooted(i, l, d, r, i.arg[r], {})
    BY DEF Rooted
  <1>2. Pointed(i, d, r, {}, p, {})
    BY RootAlone DEF Pointed
  <1>3. BlockOf(i, r) \in ToSet(i.region) /\ r \in ToSet(i.body[BlockOf(i, r)])
    BY OneHome
  <1>4. ASSUME SoundIn(i, p) PROVE Upto(i.region, p.block, BlockOf(i, r))
    <2>1. CASE p.before = End
      BY <1>4, <2>1, AheadEnds DEF Upto
    <2>2. CASE p.before # End
      <3>1. r \in ToSet(i.body[p.block]) /\ p.block \in Blocks
        BY <1>4, <2>2, BlocksOrdered DEF SoundIn
      <3> QED
        BY <3>1, InBlock DEF Upto
    <2> QED
      BY <2>1, <2>2
  <1>5. Homed(i, d, r, {}, BlockOf(i, r), p, {})
    BY <1>3, <1>4 DEF Homed
  <1> QED
    BY <1>1, <1>2, <1>5 DEF Fits

(* The calls that move the point, except back.                              *)
LEMMA FitsBefore ==
    ASSUME NEW i, Seated(i), NEW l, NEW d, Tidy(i, l, d), NEW r, NEW held, NEW made, NEW home, NEW p, NEW past,
           Fits(i, l, d, r, held, made, home, p, past), "after" \notin past
    PROVE  Fits(i, l, d, r, held, made, home, [block |-> BlockOf(i, r), before |-> r], past \cup {"before"})
  <1>1. PICK q : q = [block |-> BlockOf(i, r), before |-> r]
    OBVIOUS
  <1>2. /\ r \in Live(i) /\ made \subseteq Below(i, r) /\ q.before = r /\ q.block = BlockOf(i, r)
        /\ home \in ToSet(i.region) /\ ("split" \notin past => r \in ToSet(i.body[home]))
    BY <1>1 DEF Fits, Rooted, Pointed, Homed
  <1>3. Ahead(i, q) = Below(i, r) /\ q.block \in ToSet(i.region)
    BY <1>1, <1>2, AheadHome, OneHome
  <1>4. Pointed(i, d, r, made, q, past \cup {"before"})
    BY <1>2, <1>3, RootAlone DEF Pointed
  <1>5. Homed(i, d, r, made, home, q, past \cup {"before"})
    BY <1>2 DEF Homed
  <1> QED
    BY <1>1, <1>4, <1>5 DEF Fits

LEMMA FitsAfter ==
    ASSUME NEW i, Seated(i), NEW l, NEW d, Tidy(i, l, d), NEW r, NEW held, NEW made, NEW home, NEW p, NEW past,
           Fits(i, l, d, r, held, made, home, p, past), "after" \notin past
    PROVE  Fits(i, l, d, r, held, made, home,
                [block |-> BlockOf(i, r), before |-> Following(i.body[BlockOf(i, r)], r)], past \cup {"after"})
  <1>1. PICK q : q = [block |-> BlockOf(i, r), before |-> Following(i.body[BlockOf(i, r)], r)]
    OBVIOUS
  <1>2. /\ r \in Live(i) /\ made \subseteq Below(i, r)
        /\ home \in ToSet(i.region) /\ ("split" \notin past => r \in ToSet(i.body[home]))
    BY DEF Fits, Rooted, Pointed, Homed
  <1>3. Ahead(i, q) = Below(i, r) \cup {r} /\ q.before \in Live(i) \cup {End} /\ q.block \in ToSet(i.region)
    BY <1>1, <1>2, AheadNext, OneHome
  <1>4. Pointed(i, d, r, made, q, past \cup {"after"})
    BY <1>2, <1>3, RootAlone DEF Pointed
  <1>5. Homed(i, d, r, made, home, q, past \cup {"after"})
    BY <1>2 DEF Homed
  <1> QED
    BY <1>1, <1>4, <1>5 DEF Fits

LEMMA FitsEnd ==
    ASSUME NEW i, Seated(i), NEW l, NEW d, Tidy(i, l, d), NEW r, NEW held, NEW made, NEW home, NEW p, NEW past,
           Fits(i, l, d, r, held, made, home, p, past), "split" \in past, past \cap {"before", "after"} = {}
    PROVE  Fits(i, l, d, r, held, made, home, EndOf(home), past)
  <1>0. PICK q : q = EndOf(home)
    OBVIOUS
  <1>1. q = EndOf(home) /\ q.before = End /\ q.block = home
    BY <1>0 DEF EndOf
  <1>2. /\ r \in Live(i) /\ made \subseteq Below(i, r) /\ home \in ToSet(i.region)
        /\ d[r] \cup made \subseteq Ahead(i, q) /\ Ahead(i, q) \subseteq Below(i, r)
    BY <1>1 DEF Fits, Rooted, Pointed, Homed
  <1>3. Pointed(i, d, r, made, q, past)
    BY <1>1, <1>2, RootAlone DEF Pointed
  <1>4. Homed(i, d, r, made, home, q, past)
    BY <1>1, <1>2 DEF Homed, Upto
  <1> QED
    BY <1>1, <1>3, <1>4 DEF Fits

(***************************************************************************)
(* An operation that is created where the point is.                        *)
(***************************************************************************)
GrowsBy(i, l, d, o, a, p, j, s, e) ==
    /\ p.block \in ToSet(i.region) /\ SoundIn(i, p) /\ \E k : GrownAt(i, o, k, a, p.block, p.before, j)
    /\ s \subseteq Ahead(i, p) /\ Heeds(l, s) /\ (a # None => a \in s) /\ e = [d EXCEPT ![o] = s]

LEMMA GrowsTidy ==
    ASSUME NEW i, Seated(i), NEW l, NEW d, Tidy(i, l, d), NEW o \in Ops \ Live(i), NEW a, NEW p,
           NEW j, NEW s, NEW e, GrowsBy(i, l, d, o, a, p, j, s, e)
    PROVE  /\ Tidy(j, l, e) /\ Live(j) = Live(i) \cup {o}
           /\ \A x \in Live(i) : e[x] = d[x] /\ Below(i, x) \subseteq Below(j, x)
           /\ e[o] = s
           /\ \A x \in Live(i) : x \in Ahead(i, p) \/ o \in Below(j, x)
  <1>1. /\ p.block \in ToSet(i.region) /\ SoundIn(i, p) /\ s \subseteq Ahead(i, p) /\ Heeds(l, s)
        /\ (a # None => a \in s) /\ e = [d EXCEPT ![o] = s]
    BY DEF GrowsBy
  <1>0. PICK k : GrownAt(i, o, k, a, p.block, p.before, j)
    BY DEF GrowsBy
  <1>2. /\ Live(j) = Live(i) \cup {o} /\ Live(i) \subseteq Ops /\ o \notin Live(i) /\ o \in Live(j)
        /\ \A x \in Ops : j.arg[x] = IF x = o THEN a ELSE i.arg[x]
    BY <1>0 DEF GrownAt, Live
  <1>3. s \subseteq Live(i) /\ s \subseteq Ops
    BY <1>1, <1>2 DEF Ahead
  <1>4. /\ e \in [Ops -> SUBSET Ops] /\ e[o] = s /\ \A x \in Live(i) : e[x] = d[x]
    BY <1>1, <1>2, <1>3 DEF Tidy
  <1>5. \A x, y : Before(j, x, y) <=>
           \/ Before(i, x, y)
           \/ x \in Ahead(i, p) /\ y = o
           \/ x = o /\ y \in Live(i) /\ y \notin Ahead(i, p)
    <2>1. Grows(i, o, p.block, p.before, j)
      BY <1>0 DEF Grows
    <2> QED
      BY <1>1, <2>1, GrowsBefore
  <1>6. \A x \in Live(i) : Below(i, x) \subseteq Below(j, x) /\ (x \in Ahead(i, p) \/ o \in Below(j, x))
    BY <1>2, <1>5 DEF Below
  <1>7. s \subseteq Below(j, o)
    BY <1>1, <1>2, <1>3, <1>5 DEF Below
  <1>8. ASSUME NEW u \in Live(j)
        PROVE  e[u] \subseteq Below(j, u) /\ (j.arg[u] # None => j.arg[u] \in e[u]) /\ Heeds(l, e[u])
    <2>1. CASE u = o
      BY <1>1, <1>2, <1>4, <1>7, <2>1
    <2>2. CASE u # o
      <3>1. u \in Live(i) /\ u \in Ops /\ e[u] = d[u]
        BY <1>2, <1>4, <1>8, <2>2
      <3>2. d[u] \subseteq Below(i, u) /\ (i.arg[u] # None => i.arg[u] \in d[u]) /\ Heeds(l, d[u])
        BY <3>1 DEF Tidy
      <3> QED
        BY <1>2, <1>6, <2>2, <3>1, <3>2
    <2> QED
      BY <2>1, <2>2
  <1>9. Tidy(j, l, e)
    BY <1>4, <1>8 DEF Tidy
  <1> QED
    BY <1>2, <1>4, <1>6, <1>9

LEMMA FitsCreated ==
    ASSUME NEW i, Seated(i), NEW l, NEW d, Tidy(i, l, d), NEW r, NEW held, NEW made, NEW home, NEW p, NEW past,
           Fits(i, l, d, r, held, made, home, p, past), SoundIn(i, p),
           NEW o \in Ops \ Live(i), o \notin GoneIn(l, Len(l)), NEW k, NEW a, a # None => a \in d[r] \cup made,
           NEW j, GrownAt(i, o, k, a, p.block, p.before, j), i.arg[r] \in Live(i) \cup {None}
    PROVE  \E e : Tidy(j, l, e) /\ Fits(j, l, e, r, held, made \cup {o}, home, p, past)
  <1>1. PICK s : s = d[r] \cup made
    OBVIOUS
  <1>2. PICK e : e = [d EXCEPT ![o] = s]
    OBVIOUS
  <1>3. /\ r \in Live(i) /\ made \subseteq Live(i) \ {r, held} /\ made \cap GoneIn(l, Len(l)) = {} /\ i.arg[r] = held
        /\ \A u \in Live(i) : r \in d[u] => made \subseteq Below(i, u)
    BY DEF Fits, Rooted
  <1>4. /\ p.block \in ToSet(i.region) /\ p.before \in Live(i) \cup {End} /\ s \subseteq Ahead(i, p)
        /\ \A u \in Ahead(i, p) : r \notin d[u]
        /\ "after" \notin past => /\ p.before \in {r, End} /\ made \subseteq Below(i, r)
                                  /\ Ahead(i, p) \subseteq Below(i, r)
    BY <1>1 DEF Fits, Pointed
  <1>5. Heeds(l, s)
    BY <1>1, <1>3, KnownHeeds
  <1>6. /\ Tidy(j, l, e) /\ Live(j) = Live(i) \cup {o}
        /\ \A x \in Live(i) : e[x] = d[x] /\ Below(i, x) \subseteq Below(j, x)
        /\ e[o] = s
        /\ \A x \in Live(i) : x \in Ahead(i, p) \/ o \in Below(j, x)
    <2>1. GrowsBy(i, l, d, o, a, p, j, s, e)
      BY <1>1, <1>2, <1>4, <1>5 DEF GrowsBy
    <2> QED
      BY <2>1, GrowsTidy
  <1>7. /\ r \notin s /\ s \subseteq Live(i) /\ r \notin Below(i, r)
    BY <1>1, <1>3, RootAlone DEF Below
  <1>8. Grows(i, o, p.block, p.before, j) /\ p.block \in Blocks /\ ToSet(i.region) \subseteq Blocks
    BY <1>4, BlocksOrdered DEF Grows
  <1>9. /\ j.region = i.region /\ o # End /\ \A x \in Live(i) : j.arg[x] = i.arg[x]
        /\ \A b \in ToSet(i.region) : ToSet(i.body[b]) \subseteq ToSet(j.body[b])
    BY <1>8, RewritingAssumption DEF GrownAt, Live, End
  <1>10. SoundIn(j, p) /\ \A x \in Live(i) : x \in Ahead(j, p) <=> x \in Ahead(i, p)
    BY <1>4, <1>8, GrowsAhead DEF SoundIn
  <1>11. o \in Ahead(j, p)
    BY <1>4, <1>8, GrowsAhead DEF SoundIn
  <1>12. Rooted(j, l, e, r, held, made \cup {o})
    <2>1. o # r /\ o # held
      BY <1>3, RewritingAssumption DEF None
    <2>2. ASSUME NEW u \in Live(j), r \in e[u] PROVE made \cup {o} \subseteq Below(j, u)
      <3>1. u \in Live(i) /\ r \in d[u] /\ u \notin Ahead(i, p)
        BY <1>4, <1>6, <1>7, <2>2
      <3> QED
        BY <1>3, <1>6, <3>1
    <2> QED
      BY <1>3, <1>6, <1>9, <2>1, <2>2 DEF Rooted
  <1>13. Ahead(j, p) \subseteq Ahead(i, p) \cup {o}
    BY <1>6, <1>10 DEF Ahead
  <1>14. "after" \notin past => o \in Below(j, r) /\ made \cup {o} \subseteq Below(j, r) /\ Ahead(j, p) \subseteq Below(j, r)
    BY <1>3, <1>4, <1>6, <1>7, <1>13
  <1>15. Pointed(j, e, r, made \cup {o}, p, past)
    <2>1. e[r] \cup (made \cup {o}) \subseteq Ahead(j, p)
      BY <1>1, <1>3, <1>4, <1>6, <1>7, <1>10, <1>11
    <2>2. \A u \in Ahead(j, p) : r \notin e[u]
      BY <1>4, <1>6, <1>7, <1>13 DEF Ahead
    <2> QED
      BY <1>4, <1>6, <1>9, <1>14, <2>1, <2>2 DEF Pointed
  <1>16. Homed(j, e, r, made \cup {o}, home, p, past)
    <2>1. /\ home \in ToSet(i.region) /\ ("split" \notin past => r \in ToSet(i.body[home]))
          /\ past \cap {"before", "after"} = {} =>
                /\ Upto(i.region, p.block, home)
                /\ "split" \in past => d[r] \cup made \subseteq Ahead(i, EndOf(home))
                                       /\ Ahead(i, EndOf(home)) \subseteq Below(i, r)
      BY DEF Fits, Homed
    <2>2. PICK q : q = EndOf(home)
      OBVIOUS
    <2>3. /\ q.block \in ToSet(i.region) /\ q.before \in Live(i) \cup {End} /\ q.block = home /\ q.before = End
          /\ p.before = End \/ p.before \in ToSet(i.body[p.block])
      BY <2>1, <2>2 DEF EndOf, SoundIn
    <2>4. /\ \A x \in Live(i) : x \in Ahead(j, q) <=> x \in Ahead(i, q)
          /\ q.before = End /\ Upto(i.region, p.block, q.block) => o \in Ahead(j, q)
      BY <1>4, <1>8, <2>3, GrowsAhead
    <2>5. Upto(i.region, p.block, home) => o \in Ahead(j, q)
      BY <2>3, <2>4
    <2>6. ASSUME past \cap {"before", "after"} = {}, "split" \in past
          PROVE  e[r] \cup (made \cup {o}) \subseteq Ahead(j, q) /\ Ahead(j, q) \subseteq Below(j, r)
      <3>1. /\ d[r] \cup made \subseteq Ahead(i, q) /\ Ahead(i, q) \subseteq Below(i, r) /\ o \in Ahead(j, q)
            /\ Ahead(j, q) \subseteq Ahead(i, q) \cup {o}
        BY <1>6, <2>1, <2>2, <2>4, <2>5, <2>6 DEF Ahead
      <3>2. e[r] = d[r] /\ Below(i, r) \subseteq Below(j, r) /\ o \in Below(j, r) /\ s \subseteq Live(i)
        BY <1>3, <1>6, <1>7, <1>14, <2>6
      <3> QED
        BY <1>1, <2>4, <3>1, <3>2
    <2> QED
      BY <1>9, <2>1, <2>2, <2>6 DEF Homed
  <1> QED
    BY <1>6, <1>12, <1>15, <1>16 DEF Fits

(* One that is put at the end of the block of the root.                     *)
LEMMA FitsPushed ==
    ASSUME NEW i, Seated(i), NEW l, NEW d, Tidy(i, l, d), NEW r, NEW held, NEW made, NEW home, NEW p, NEW past,
           Fits(i, l, d, r, held, made, home, p, past),
           NEW o \in Ops \ Live(i), NEW k, NEW j, GrownAt(i, o, k, held, BlockOf(i, r), End, j),
           i.arg[r] \in Live(i) \cup {None}
    PROVE  \E e : Tidy(j, l, e) /\ Fits(j, l, e, r, held, made, home, p, past)
  <1>1. PICK e : e = [d EXCEPT ![o] = d[r]]
    OBVIOUS
  <1>2. PICK b : b = BlockOf(i, r)
    OBVIOUS
  <1>3. /\ r \in Live(i) /\ made \subseteq Live(i) \ {r, held} /\ made \cap GoneIn(l, Len(l)) = {} /\ i.arg[r] = held
        /\ \A u \in Live(i) : r \in d[u] => made \subseteq Below(i, u)
    BY DEF Fits, Rooted
  <1>4. b \in ToSet(i.region) /\ b \in Blocks /\ ToSet(i.region) \subseteq Blocks /\ r \in ToSet(i.body[b])
    BY <1>2, <1>3, OneHome, BlocksOrdered
  <1>5. PICK q : q = EndOf(b)
    OBVIOUS
  <1>6. q.block = b /\ q.before = End /\ SoundIn(i, q)
    BY <1>5 DEF EndOf, SoundIn
  <1>7. /\ r \notin d[r] /\ d[r] \subseteq Below(i, r) /\ Heeds(l, d[r]) /\ (held # None => held \in d[r])
        /\ d[r] \subseteq Live(i)
    <2>1. r \notin d[r] /\ d[r] \subseteq Below(i, r) /\ Below(i, r) \subseteq Live(i)
      BY <1>3, RootAlone DEF Below
    <2>2. Heeds(l, d[r]) /\ (held # None => held \in d[r])
      BY <1>3 DEF Tidy
    <2> QED
      BY <2>1, <2>2
  <1>8. Below(i, r) \subseteq Ahead(i, q)
    <2>1. Ahead(i, [block |-> b, before |-> r]) = Below(i, r)
      BY <1>2, <1>3, AheadHome
    <2>2. Ahead(i, [block |-> b, before |-> r]) \subseteq Ahead(i, q)
      BY <1>6 DEF Ahead, AheadOf, Upward
    <2> QED
      BY <2>1, <2>2
  <1>9. /\ Tidy(j, l, e) /\ Live(j) = Live(i) \cup {o}
        /\ \A x \in Live(i) : e[x] = d[x] /\ Below(i, x) \subseteq Below(j, x)
        /\ e[o] = d[r]
    <2>1. PICK s : s = d[r]
      OBVIOUS
    <2>2. GrowsBy(i, l, d, o, held, q, j, s, e)
      <3>1. /\ q.block \in ToSet(i.region) /\ s \subseteq Ahead(i, q) /\ GrownAt(i, o, k, held, q.block, q.before, j)
            /\ Heeds(l, s) /\ (held # None => held \in s) /\ e = [d EXCEPT ![o] = s] /\ SoundIn(i, q)
        BY <1>1, <1>2, <1>4, <1>6, <1>7, <1>8, <2>1
      <3> QED
        BY <3>1 DEF GrowsBy
    <2>3. /\ Tidy(j, l, e) /\ Live(j) = Live(i) \cup {o}
          /\ \A x \in Live(i) : e[x] = d[x] /\ Below(i, x) \subseteq Below(j, x)
          /\ e[o] = s
          /\ \A x \in Live(i) : x \in Ahead(i, q) \/ o \in Below(j, x)
      BY <2>2, GrowsTidy
    <2> QED
      BY <2>1, <2>3
  <1>10. Grows(i, o, b, End, j)
    BY <1>2 DEF Grows
  <1>11. /\ j.region = i.region /\ \A x \in Live(i) : j.arg[x] = i.arg[x]
         /\ \A c \in ToSet(i.region) : ToSet(i.body[c]) \subseteq ToSet(j.body[c])
    BY <1>4 DEF GrownAt, Live
  <1>12. ASSUME NEW x, x.block \in ToSet(i.region), x.before \in Live(i) \cup {End}
         PROVE  /\ SoundIn(j, x) <=> SoundIn(i, x)
                /\ Ahead(i, x) \subseteq Ahead(j, x) /\ Ahead(j, x) \subseteq Ahead(i, x) \cup {o}
                /\ o \in Ahead(j, x) => r \in Ahead(i, x)
    <2>1. /\ SoundIn(j, x) <=> SoundIn(i, x)
          /\ \A y \in Live(i) : y \in Ahead(j, x) <=> y \in Ahead(i, x)
          /\ o \in Ahead(j, x) => ToSet(i.body[b]) \subseteq Ahead(i, x)
      BY <1>4, <1>10, <1>12, GrowsAhead
    <2>2. Ahead(i, x) \subseteq Live(i) /\ Ahead(j, x) \subseteq Live(i) \cup {o}
      BY <1>9 DEF Ahead
    <2> QED
      BY <1>4, <2>1, <2>2
  <1>13. r \notin Below(i, r)
    BY <1>3, RootAlone
  <1>14. Rooted(j, l, e, r, held, made)
    BY <1>3, <1>7, <1>9, <1>11 DEF Rooted
  <1>15. Pointed(j, e, r, made, p, past)
    <2>1. /\ p.block \in ToSet(i.region) /\ p.before \in Live(i) \cup {End}
          /\ SoundIn(i, p) => d[r] \cup made \subseteq Ahead(i, p) /\ \A u \in Ahead(i, p) : r \notin d[u]
          /\ "after" \notin past =>
                /\ p.before \in {r, End} /\ made \subseteq Below(i, r)
                /\ SoundIn(i, p) => Ahead(i, p) \subseteq Below(i, r)
      BY DEF Fits, Pointed
    <2>2. /\ SoundIn(j, p) <=> SoundIn(i, p)
          /\ Ahead(i, p) \subseteq Ahead(j, p) /\ Ahead(j, p) \subseteq Ahead(i, p) \cup {o}
          /\ o \in Ahead(j, p) => r \in Ahead(i, p)
      BY <1>12, <2>1
    <2>3. Ahead(i, p) \subseteq Live(i)
      BY DEF Ahead
    <2>4. SoundIn(j, p) => e[r] \cup made \subseteq Ahead(j, p) /\ \A u \in Ahead(j, p) : r \notin e[u]
      BY <1>3, <1>7, <1>9, <2>1, <2>2, <2>3
    <2>5. "after" \notin past => /\ made \subseteq Below(j, r)
                                 /\ SoundIn(j, p) => Ahead(j, p) \subseteq Below(j, r)
      BY <1>3, <1>9, <1>13, <2>1, <2>2
    <2> QED
      BY <1>9, <1>11, <2>1, <2>4, <2>5 DEF Pointed
  <1>16. Homed(j, e, r, made, home, p, past)
    <2>1. /\ home \in ToSet(i.region) /\ ("split" \notin past => r \in ToSet(i.body[home]))
          /\ past \cap {"before", "after"} = {} =>
                /\ SoundIn(i, p) => Upto(i.region, p.block, home)
                /\ "split" \in past => d[r] \cup made \subseteq Ahead(i, EndOf(home))
                                       /\ Ahead(i, EndOf(home)) \subseteq Below(i, r)
          /\ p.block \in ToSet(i.region) /\ p.before \in Live(i) \cup {End}
      BY DEF Fits, Homed, Pointed
    <2>2. PICK x : x = EndOf(home)
      OBVIOUS
    <2>3. /\ Ahead(i, x) \subseteq Ahead(j, x) /\ Ahead(j, x) \subseteq Ahead(i, x) \cup {o}
          /\ o \in Ahead(j, x) => r \in Ahead(i, x)
      BY <1>12, <2>1, <2>2 DEF EndOf
    <2>4. SoundIn(j, p) <=> SoundIn(i, p)
      BY <1>12, <2>1
    <2>5. past \cap {"before", "after"} = {} /\ "split" \in past =>
             e[r] \cup made \subseteq Ahead(j, x) /\ Ahead(j, x) \subseteq Below(j, r)
      BY <1>3, <1>9, <1>13, <2>1, <2>2, <2>3
    <2> QED
      BY <1>11, <2>1, <2>2, <2>4, <2>5 DEF Homed
  <1> QED
    BY <1>9, <1>14, <1>15, <1>16 DEF Fits

(***************************************************************************)
(* A block that is split ends before the root.                             *)
(***************************************************************************)
LEMMA SplitAhead ==
    ASSUME NEW i, Seated(i), NEW o \in Live(i), NEW new \in Blocks \ ToSet(i.region), NEW j, j = Split(i, o, new)
    PROVE  /\ Seated(j) /\ Live(j) = Live(i) /\ ToSet(i.region) \subseteq ToSet(j.region)
           /\ \A c, e \in ToSet(i.region) : Precedes(j.region, c, e) <=> Precedes(i.region, c, e)
           /\ \A c \in ToSet(i.region) : o \notin ToSet(j.body[c])
           /\ \A c \in ToSet(i.region) \ {BlockOf(i, o)} : Ahead(j, EndOf(c)) = Ahead(i, EndOf(c))
           /\ Ahead(j, EndOf(BlockOf(i, o))) = Below(i, o)
  <1>1. PICK b, p, q : Halved(i, o, new, j, b, p, q)
    BY SplitHalves
  <1>2. ToSet(i.region) \subseteq Blocks /\ new \notin ToSet(i.region) /\ b \in ToSet(i.region) /\ b = BlockOf(i, o)
    BY <1>1, BlocksOrdered DEF Halved
  <1>3. Seated(j) /\ Live(j) = Live(i)
    BY SplitSeated DEF SplitTo
  <1>4. /\ ToSet(i.region) \subseteq ToSet(j.region)
        /\ \A c, e \in ToSet(i.region) : Precedes(j.region, c, e) <=> Precedes(i.region, c, e)
    BY <1>1, <1>2 DEF Halved
  <1>5. \A c \in ToSet(i.region) : o \notin ToSet(j.body[c])
    <2>1. o \in ToSet(j.body[new])
      BY <1>1 DEF Halved
    <2> QED
      BY <1>2, <1>3, <2>1, InBlock
  <1>6. ASSUME NEW c \in ToSet(i.region)
        PROVE  /\ \A x \in Live(i) : x \in Ahead(i, EndOf(c)) <=>
                     \E e \in ToSet(i.region) : Upto(i.region, e, c) /\ x \in ToSet(i.body[e])
               /\ \A x \in Live(i) : x \in Ahead(j, EndOf(c)) <=>
                     \E e \in ToSet(j.region) : Upto(j.region, e, c) /\ x \in ToSet(j.body[e])
    BY <1>3, <1>4 DEF Ahead, AheadOf, EndOf, Upward, Upto
  <1>7. ASSUME NEW c \in ToSet(i.region) \ {b}, NEW x \in Live(i)
        PROVE  x \in Ahead(j, EndOf(c)) <=> x \in Ahead(i, EndOf(c))
    <2>1. Upto(j.region, new, c) <=> Precedes(i.region, b, c)
      <3>1. c # new /\ ~Precedes(i.region, new, c)
        BY <1>2, BlocksOrdered
      <3> QED
        BY <1>1, <3>1 DEF Halved, Upto
    <2>2. \A e \in ToSet(i.region) : Upto(j.region, e, c) <=> Upto(i.region, e, c)
      BY <1>4 DEF Upto
    <2>3. /\ ToSet(j.region) = ToSet(i.region) \cup {new}
          /\ ToSet(i.body[b]) = ToSet(j.body[b]) \cup ToSet(j.body[new])
          /\ \A e \in ToSet(i.region) \ {b} : j.body[e] = i.body[e]
      BY <1>1, <1>2 DEF Halved
    <2>4. Upto(i.region, b, c) <=> Precedes(i.region, b, c)
      BY <1>7 DEF Upto
    <2>5. x \in Ahead(i, EndOf(c)) <=> \E e \in ToSet(i.region) : Upto(i.region, e, c) /\ x \in ToSet(i.body[e])
      BY <1>6
    <2>6. x \in Ahead(j, EndOf(c)) <=> \E e \in ToSet(j.region) : Upto(j.region, e, c) /\ x \in ToSet(j.body[e])
      BY <1>6
    <2> QED
      BY <1>2, <2>1, <2>2, <2>3, <2>4, <2>5, <2>6
  <1>8. ASSUME NEW x \in Live(i) PROVE x \in Ahead(j, EndOf(b)) <=> x \in Below(i, o)
    <2>1. x \in Below(i, o) <=>
             \/ Precedes(i.body[b], x, o)
             \/ \E e \in ToSet(i.region) : Precedes(i.region, e, b) /\ x \in ToSet(i.body[e])
      BY <1>2, BeforeHome DEF Below
    <2>2. Precedes(i.body[b], x, o) <=> x \in ToSet(j.body[b])
      BY <1>1 DEF Halved
    <2>3. \A e \in ToSet(j.region) : Upto(j.region, e, b) <=> e = b \/ (e \in ToSet(i.region) /\ Precedes(i.region, e, b))
      <3>1. ~Precedes(i.region, b, b)
        BY BlocksOrdered
      <3>2. ~Upto(j.region, new, b)
        BY <1>1, <1>2, <3>1, BlocksOrdered DEF Halved, Upto
      <3> QED
        BY <1>1, <1>2, <1>4, <3>2 DEF Halved, Upto
    <2>4. \A e \in ToSet(i.region) : Precedes(i.region, e, b) => e # b /\ j.body[e] = i.body[e]
      BY <1>1, <1>2, BlocksOrdered DEF Halved
    <2>5. x \in Ahead(j, EndOf(b)) <=> \E e \in ToSet(j.region) : Upto(j.region, e, b) /\ x \in ToSet(j.body[e])
      BY <1>2, <1>6
    <2> QED
      BY <1>2, <1>4, <2>1, <2>2, <2>3, <2>4, <2>5
  <1>9. \A c : Ahead(j, EndOf(c)) \subseteq Live(i) /\ Ahead(i, EndOf(c)) \subseteq Live(i)
    BY <1>3 DEF Ahead
  <1>10. Ahead(j, EndOf(b)) = Below(i, o)
    BY <1>8, <1>9 DEF Below
  <1>11. \A c \in ToSet(i.region) \ {b} : Ahead(j, EndOf(c)) = Ahead(i, EndOf(c))
    BY <1>7, <1>9
  <1> QED
    BY <1>2, <1>3, <1>4, <1>5, <1>10, <1>11

LEMMA FitsSplit ==
    ASSUME NEW i, Seated(i), NEW l, NEW d, Tidy(i, l, d), NEW r, NEW held, NEW made, NEW home, NEW p, NEW past,
           Fits(i, l, d, r, held, made, home, p, past), "after" \notin past,
           NEW new \in Blocks \ ToSet(i.region), NEW j, j = Split(i, r, new)
    PROVE  Tidy(j, l, d) /\ Fits(j, l, d, r, held, made, home, p, past \cup {"split"})
  <1>1. Rooted(i, l, d, r, held, made) /\ r \in Live(i)
    BY DEF Fits, Rooted
  <1>2. PICK b : b = BlockOf(i, r)
    OBVIOUS
  <1>3. /\ Live(j) = Live(i) /\ ToSet(i.region) \subseteq ToSet(j.region)
        /\ \A c, e \in ToSet(i.region) : Precedes(j.region, c, e) <=> Precedes(i.region, c, e)
        /\ \A c \in ToSet(i.region) : r \notin ToSet(j.body[c])
        /\ \A c \in ToSet(i.region) \ {b} : Ahead(j, EndOf(c)) = Ahead(i, EndOf(c))
        /\ Ahead(j, EndOf(b)) = Below(i, r)
    BY <1>1, <1>2, SplitAhead
  <1>4. j.arg = i.arg
    BY <1>1, SplitSeated DEF SplitTo
  <1>5. \A u : Below(j, u) = Below(i, u)
    BY <1>1, <1>3, SplitBefore DEF Below
  <1>6. Tidy(j, l, d)
    BY <1>3, <1>4, <1>5 DEF Tidy
  <1>7. Rooted(j, l, d, r, held, made)
    BY <1>1, <1>3, <1>4, <1>5 DEF Rooted
  <1>8. d[r] \subseteq Below(i, r)
    BY <1>1 DEF Tidy
  <1>9. /\ p.block \in ToSet(i.region) /\ p.before \in Live(i) \cup {End}
        /\ SoundIn(i, p) => /\ d[r] \cup made \subseteq Ahead(i, p) /\ \A u \in Ahead(i, p) : r \notin d[u]
                            /\ Ahead(i, p) \subseteq Below(i, r)
        /\ p.before \in {r, End} /\ made \subseteq Below(i, r)
    BY DEF Fits, Pointed
  <1>10. ASSUME NEW q, q.block \in ToSet(i.region), q.before = End, Ahead(i, q) \subseteq Below(i, r)
         PROVE  q.block # b
    <2>1. Precedes(i.region, q.block, b)
      BY <1>1, <1>2, <1>10, AheadEnds
    <2> QED
      BY <2>1, BlocksOrdered
  <1>11. ASSUME NEW q, q.before = End PROVE \A h : Ahead(h, q) = Ahead(h, EndOf(q.block))
    BY <1>11 DEF Ahead, AheadOf, EndOf
  <1>12. SoundIn(j, p) => p.before = End /\ SoundIn(i, p) /\ Ahead(j, p) = Ahead(i, p)
    <2>1. CASE p.before = End
      <3>1. SoundIn(i, p) /\ p.block # b
        BY <1>9, <1>10, <2>1 DEF SoundIn
      <3> QED
        BY <1>3, <1>9, <1>11, <2>1, <3>1
    <2>2. CASE p.before # End
      BY <1>3, <1>9, <2>2 DEF SoundIn
    <2> QED
      BY <2>1, <2>2
  <1>13. Pointed(j, d, r, made, p, past \cup {"split"})
    BY <1>3, <1>5, <1>9, <1>12 DEF Pointed
  <1>14. /\ home \in ToSet(i.region) /\ ("split" \notin past => r \in ToSet(i.body[home]))
         /\ past \cap {"before", "after"} = {} =>
               /\ SoundIn(i, p) => Upto(i.region, p.block, home)
               /\ "split" \in past => d[r] \cup made \subseteq Ahead(i, EndOf(home))
                                      /\ Ahead(i, EndOf(home)) \subseteq Below(i, r)
    BY DEF Fits, Homed
  <1>15. ASSUME past \cap {"before", "after"} = {}
         PROVE  d[r] \cup made \subseteq Ahead(j, EndOf(home)) /\ Ahead(j, EndOf(home)) \subseteq Below(j, r)
    <2>1. CASE "split" \in past
      <3>1. PICK q : q = EndOf(home)
        OBVIOUS
      <3>2. q.block = home /\ q.before = End /\ Ahead(i, q) \subseteq Below(i, r)
        BY <1>14, <1>15, <2>1, <3>1 DEF EndOf
      <3>3. home # b
        BY <1>10, <1>14, <3>2
      <3> QED
        BY <1>3, <1>5, <1>14, <1>15, <2>1, <3>3
    <2>2. CASE "split" \notin past
      <3>1. home = b
        BY <1>1, <1>2, <1>14, <2>2, OneHome, BlocksOrdered
      <3> QED
        BY <1>3, <1>5, <1>8, <1>9, <3>1
    <2> QED
      BY <2>1, <2>2
  <1>16. Upto(i.region, p.block, home) => Upto(j.region, p.block, home)
    BY <1>3, <1>9, <1>14 DEF Upto
  <1>17. Homed(j, d, r, made, home, p, past \cup {"split"})
    BY <1>3, <1>12, <1>14, <1>15, <1>16 DEF Homed
  <1> QED
    BY <1>6, <1>7, <1>13, <1>17 DEF Fits

(***************************************************************************)
(* What a conversion is to replace: by the argument of the function, one   *)
(* of the operations that it created or the operand of its root, or by an  *)
(* argument of the block.  What is to follow the root is to follow these   *)
(* as well.                                                                *)
(***************************************************************************)
LEMMA HeedsMore ==
    ASSUME NEW l \in Seq(Entry), NEW o, NEW by, NEW e, e = [did |-> "replace", op |-> o, by |-> by],
           NEW s, Heeds(l, s), by # None /\ o \in s => by \in s
    PROVE  Heeds(Append(l, e), s)
  <1>1. Len(l) \in Nat
    OBVIOUS
  <1>2. /\ Len(Append(l, e)) = Len(l) + 1 /\ Append(l, e)[Len(l) + 1] = e
        /\ \A k \in 1 .. Len(l) : Append(l, e)[k] = l[k]
    OBVIOUS
  <1> SUFFICES ASSUME NEW k \in 1 .. Len(l) + 1, Append(l, e)[k].did = "replace", Append(l, e)[k].by # None,
                      Append(l, e)[k].op \in s
               PROVE  Append(l, e)[k].by \in s
    BY <1>2 DEF Heeds
  <1>3. CASE k = Len(l) + 1
    BY <1>2, <1>3
  <1>4. CASE k \in 1 .. Len(l)
    BY <1>2, <1>4 DEF Heeds
  <1> QED
    BY <1>1, <1>3, <1>4

LEMMA HeedsUnion ==
    ASSUME NEW l, NEW s, NEW t, Heeds(l, s), Heeds(l, t)
    PROVE  Heeds(l, s \cup t)
  BY DEF Heeds

LEMMA GoneMore ==
    ASSUME NEW l \in Seq(Entry), NEW e \in Entry, NEW made, made \cap GoneIn(l, Len(l)) = {}, e.op \notin made
    PROVE  made \cap GoneIn(Append(l, e), Len(Append(l, e))) = {}
  BY GoneAppend

(* An operation that is erased, or replaced by an argument of the block.    *)
LEMMA FitsErased ==
    ASSUME NEW i, Seated(i), NEW l \in Seq(Entry), NEW d, Tidy(i, l, d), NEW o \in Ops,
           NEW by \in {None, o}, NEW e, e = [did |-> "replace", op |-> o, by |-> by]
    PROVE  /\ Tidy(i, Append(l, e), d)
           /\ \A r, held, made, home, p, past :
                 Fits(i, l, d, r, held, made, home, p, past) /\ o \in {r, held} =>
                    Fits(i, Append(l, e), d, r, held, made, home, p, past)
  <1>1. e \in Entry /\ e.op = o
    BY DEF Entry
  <1>2. Tidy(i, Append(l, e), d)
    BY HeedsMore DEF Tidy
  <1>3. ASSUME NEW r, NEW held, NEW made, NEW home, NEW p, NEW past,
               Fits(i, l, d, r, held, made, home, p, past), o \in {r, held}
        PROVE  Fits(i, Append(l, e), d, r, held, made, home, p, past)
    <2>1. made \cap GoneIn(l, Len(l)) = {} /\ e.op \notin made
      BY <1>1, <1>3 DEF Fits, Rooted
    <2>2. made \cap GoneIn(Append(l, e), Len(Append(l, e))) = {}
      BY <1>1, <2>1, GoneMore
    <2> QED
      BY <1>3, <2>2 DEF Fits, Rooted
  <1> QED
    BY <1>2, <1>3

LEMMA FitsReplaced ==
    ASSUME NEW i, Seated(i), NEW l \in Seq(Entry), NEW d, Tidy(i, l, d), NEW r, NEW held, NEW made, NEW home, NEW p,
           NEW past, Fits(i, l, d, r, held, made, home, p, past), NEW by, by \in d[r] \cup made,
           NEW e, e = [did |-> "replace", op |-> r, by |-> by]
    PROVE  \E f : /\ Tidy(i, Append(l, e), f)
                  /\ Fits(i, Append(l, e), f, r, held, made, home, p, past)
  <1>1. PICK s : s = d[r] \cup made
    OBVIOUS
  <1>2. PICK f : f = [u \in Ops |-> IF r \in d[u] THEN d[u] \cup s ELSE d[u]]
    OBVIOUS
  <1>3. /\ r \in Live(i) /\ made \subseteq Live(i) \ {r, held} /\ made \cap GoneIn(l, Len(l)) = {}
        /\ \A u \in Live(i) : r \in d[u] => made \subseteq Below(i, u)
    BY DEF Fits, Rooted
  <1>4. Live(i) \subseteq Ops /\ d \in [Ops -> SUBSET Ops]
    BY DEF Live, Tidy
  <1>5. r \notin d[r] /\ d[r] \subseteq Below(i, r) /\ r \notin s /\ s \subseteq Ops /\ r \in Ops
    BY <1>1, <1>3, <1>4, RootAlone
  <1>6. /\ f \in [Ops -> SUBSET Ops] /\ f[r] = d[r]
        /\ \A u \in Live(i) : f[u] = (IF r \in d[u] THEN d[u] \cup s ELSE d[u]) /\ (r \in f[u] <=> r \in d[u])
    BY <1>2, <1>4, <1>5
  <1>7. Heeds(l, s)
    BY <1>1, <1>3, KnownHeeds
  <1>8. e \in Entry /\ e.op = r
    BY <1>1, <1>5 DEF Entry
  <1>9. ASSUME NEW u \in Live(i)
        PROVE  /\ f[u] \subseteq Below(i, u) /\ (i.arg[u] # None => i.arg[u] \in f[u])
               /\ Heeds(Append(l, e), f[u])
    <2>1. d[u] \subseteq Below(i, u) /\ (i.arg[u] # None => i.arg[u] \in d[u]) /\ Heeds(l, d[u])
      BY DEF Tidy
    <2>2. CASE r \in d[u]
      <3>1. f[u] = d[u] \cup s /\ made \subseteq Below(i, u) /\ r \in Below(i, u)
        BY <1>3, <1>6, <2>1, <2>2
      <3>2. Below(i, r) \subseteq Below(i, u)
        BY <3>1, BeforeOrders DEF Below
      <3>3. Heeds(l, f[u])
        BY <1>7, <2>1, <3>1, HeedsUnion
      <3>4. Heeds(Append(l, e), f[u])
        BY <1>1, <3>1, <3>3, HeedsMore
      <3> QED
        BY <1>1, <1>5, <2>1, <3>1, <3>2, <3>4
    <2>3. CASE r \notin d[u]
      <3>1. f[u] = d[u]
        BY <1>6, <2>3
      <3>2. Heeds(Append(l, e), d[u])
        BY <2>1, <2>3, HeedsMore
      <3> QED
        BY <2>1, <3>1, <3>2
    <2> QED
      BY <2>2, <2>3
  <1>10. Tidy(i, Append(l, e), f)
    BY <1>6, <1>9 DEF Tidy
  <1>11. made \cap GoneIn(Append(l, e), Len(Append(l, e))) = {}
    BY <1>3, <1>8, GoneMore
  <1>12. Rooted(i, Append(l, e), f, r, held, made)
    BY <1>6, <1>11 DEF Fits, Rooted
  <1>13. Pointed(i, f, r, made, p, past)
    <2>1. Ahead(i, p) \subseteq Live(i)
      BY DEF Ahead
    <2> QED
      BY <1>6, <2>1 DEF Fits, Pointed
  <1>14. Homed(i, f, r, made, home, p, past)
    BY <1>6 DEF Fits, Homed
  <1> QED
    BY <1>10, <1>12, <1>13, <1>14 DEF Fits

(***************************************************************************)
(* What the greedy driver replaces at once: the operations that use the    *)
(* root get one of those that are ahead of them.                           *)
(***************************************************************************)
LEMMA TakenOrdered ==
    ASSUME NEW i, Seated(i), NEW l, NEW d, Tidy(i, l, d), NEW r, NEW held, NEW made, Rooted(i, l, d, r, held, made),
           NEW by, by = None \/ by \in d[r] \cup made, NEW h, ReroutedTo(i, r, by, h), NEW j, RidTo(h, {r}, j)
    PROVE  Ordered(j)
  <1>1. /\ r \in Live(i) /\ made \subseteq Live(i) \ {r, held}
        /\ \A u \in Live(i) : r \in d[u] => made \subseteq Below(i, u)
    BY DEF Rooted
  <1>2. r \notin d[r] /\ d[r] \subseteq Below(i, r) /\ r \in Ops /\ r # None
    BY <1>1, RootAlone, RewritingAssumption DEF Live, None
  <1>3. /\ Seated(h) /\ Live(h) = Live(i) /\ h.body = i.body /\ h.region = i.region
        /\ \A u \in Ops : h.arg[u] = IF i.arg[u] = r THEN by ELSE i.arg[u]
    BY DEF ReroutedTo
  <1>4. InOrder(h) = InOrder(i)
    BY <1>3 DEF InOrder
  <1>5. ASSUME NEW u \in Live(i), h.arg[u] # None PROVE Before(h, h.arg[u], u) /\ h.arg[u] # r
    <2>1. u \in Ops /\ d[u] \subseteq Below(i, u) /\ (i.arg[u] # None => i.arg[u] \in d[u])
      BY DEF Tidy, Live
    <2>2. CASE i.arg[u] = r
      <3>1. r \in d[u] /\ made \subseteq Below(i, u) /\ r \in Below(i, u) /\ h.arg[u] = by
        BY <1>1, <1>2, <1>3, <2>1, <2>2
      <3>2. Below(i, r) \subseteq Below(i, u)
        BY <3>1, BeforeOrders DEF Below
      <3>3. by \in Below(i, u) /\ by # r
        BY <1>1, <1>2, <1>5, <3>1, <3>2
      <3> QED
        BY <1>4, <3>1, <3>3 DEF Below, Before
    <2>3. CASE i.arg[u] # r
      BY <1>3, <1>4, <1>5, <2>1, <2>3 DEF Below, Before
    <2> QED
      BY <2>2, <2>3
  <1>6. Ordered(h)
    BY <1>3, <1>5, OrderedBefore
  <1>7. \A u \in Live(h) \ {r} : h.arg[u] \notin {r}
    BY <1>2, <1>3, <1>5
  <1> QED
    BY <1>3, <1>6, <1>7, RidOrdered

(***************************************************************************)
(* What holds at every step while functions insert next to their roots and *)
(* never go back.  The greedy driver replaces at once and keeps no log.    *)
(***************************************************************************)
Written(l) == IF greedy THEN <<>> ELSE l
Steps == {"before", "after", "split"}
Past == {do \in Steps : Ran({do})}

CallFits(d) ==
    phase = "call" /\ root \in Live(ir) =>
        Fits(ir, Written(log), d, root, call.held, ToSet(call.made), call.home[1], point, Past)

(* The point is left as it was to the next function for the same root.      *)
MatchFits(d) ==
    greedy /\ phase = "match" /\ root \in Live(ir) =>
        /\ point.before \in {root, End}
        /\ SoundIn(ir, point) => d[root] \subseteq Ahead(ir, point) /\ Ahead(ir, point) \subseteq Below(ir, root)

OrderInv ==
    All(InPlace) =>
        /\ Ordered(ir)
        /\ Underway /\ ~Harmed => \E d : Tidy(ir, Written(log), d) /\ CallFits(d) /\ MatchFits(d)

LEMMA InPlaceStays ==
    ASSUME pass' = pass
    PROVE  All(InPlace)' <=> All(InPlace)
  <1>1. patterns' = patterns
    BY SamePatterns
  <1>2. \A p : InPlace(p)' <=> InPlace(p)
    BY DEF InPlace, Does
  <1> QED
    BY <1>1, <1>2 DEF All

LEMMA OrderedNext ==
    ASSUME NEW i, ir' = i
    PROVE  Ordered(ir)' <=> Ordered(i)
  BY DEF Ordered, Live, InOrder, PlaceIn

LEMMA OrderOver ==
    ASSUME OrderInv, pass' = pass, ir' = ir, phase' \notin {"start", "pop", "legalize", "match", "call"}
    PROVE  OrderInv'
  <1>1. PICK i : i = ir
    OBVIOUS
  <1>2. Ordered(ir)' <=> Ordered(ir)
    BY <1>1, OrderedNext
  <1> QED
    BY <1>2, InPlaceStays DEF OrderInv, Underway

LEMMA OrderFaults ==
    ASSUME OrderInv, NEW what, Fault(what)
    PROVE  OrderInv'
  BY OrderOver DEF Fault, Stop

LEMMA OrderNext ==
    ASSUME pass' = pass, NEW i, ir' = i, NEW l, log' = l,
           All(InPlace) =>
              /\ Ordered(i)
              /\ Underway' /\ ~(Harmed') => \E d : Tidy(i, Written(l), d) /\ CallFits(d)' /\ MatchFits(d)'
    PROVE  OrderInv'
  <1>1. greedy' = greedy /\ (All(InPlace)' <=> All(InPlace)) /\ (Ordered(ir)' <=> Ordered(i))
    BY SamePatterns, InPlaceStays, OrderedNext
  <1>2. \A d : Tidy(ir, Written(log), d)' <=> Tidy(i, Written(l), d)
    BY <1>1 DEF Tidy, Live, Below, Before, Precedes, InOrder, Written, Heeds
  <1> QED
    BY <1>1, <1>2 DEF OrderInv

(* Steps between the functions.                                             *)
LEMMA OrderIdle ==
    ASSUME OrderInv, Playing, pass' = pass, ir' = ir, log' = log, phase' # "call", greedy => phase' # "match",
           Underway' /\ ~(Harmed') => ~Harmed
    PROVE  OrderInv'
  <1>1. PICK i, l : i = ir /\ l = log
    OBVIOUS
  <1>2. \A d : CallFits(d)' /\ MatchFits(d)'
    BY SamePatterns DEF CallFits, MatchFits
  <1>3. All(InPlace) /\ Underway' /\ ~(Harmed') => \E d : Tidy(i, Written(l), d)
    BY <1>1 DEF OrderInv, Playing
  <1> QED
    BY <1>1, <1>2, <1>3, OrderNext DEF OrderInv

(* What a function may call, and what it did when it ends.                  *)
LEMMA InPlaceCalls ==
    ASSUME Playing, phase = "call", All(InPlace)
    PROVE  /\ \A do : Calling(do) =>
                 /\ do \notin {"start", "restore"}
                 /\ do \in Steps => "after" \notin Past
                 /\ do = "end" => "split" \in Past /\ Past \cap {"before", "after"} = {}
           /\ call.at > Len(script.calls) /\ script.answer # "True" => "after" \notin Past
  <1>1. script = patterns[frame.tried] /\ frame.tried \in DOMAIN patterns /\ script.calls \in Seq(Calls)
    BY CallFacts
  <1>2. InPlace(script)
    BY <1>1 DEF All
  <1>3. DOMAIN script.calls = 1 .. Len(script.calls) /\ Len(script.calls) \in Nat
    BY <1>1
  <1>4. \A m \in Over : m \in DOMAIN script.calls /\ m < call.at
    BY DEF Over
  <1>5. \A do : do \in Past <=> do \in Steps /\ \E m \in Over : script.calls[m].do = do
    BY DEF Past, Ran
  <1>6. ASSUME NEW do, Calling(do)
        PROVE  /\ do \notin {"start", "restore"}
               /\ do \in Steps => "after" \notin Past
               /\ do = "end" => "split" \in Past /\ Past \cap {"before", "after"} = {}
    <2>1. /\ call.at \in DOMAIN script.calls /\ script.calls[call.at].do = do /\ call.at \in Nat
          /\ Does(script, {do})
      BY <1>6, CallFacts
    <2>2. do \notin {"start", "restore"}
      BY <1>2, <2>1 DEF InPlace, Does
    <2>3. do \in Steps \cup {"end"} => "after" \notin Past
      <3>1. \A m \in Over : script.calls[m].do = "after" => do \notin {"before", "after", "end", "split"}
        BY <1>2, <1>4, <2>1 DEF InPlace
      <3> QED
        BY <1>5, <3>1 DEF Steps
    <2>4. do = "end" => "before" \notin Past
      <3>1. \A m \in Over : script.calls[m].do = "before" => do # "end"
        BY <1>2, <1>4, <2>1 DEF InPlace
      <3> QED
        BY <1>5, <3>1
    <2>5. do = "end" => "split" \in Past
      <3>1. do = "end" => \E m \in 1 .. call.at - 1 : script.calls[m].do = "split"
        BY <1>2, <2>1 DEF InPlace
      <3>2. \A m \in 1 .. call.at - 1 : m \in Over
        BY <1>3, <2>1 DEF Over
      <3> QED
        BY <1>5, <3>1, <3>2 DEF Steps
    <2> QED
      BY <2>2, <2>3, <2>4, <2>5
  <1>7. ASSUME call.at > Len(script.calls), script.answer # "True" PROVE "after" \notin Past
    <2>1. ~Does(script, {"after"})
      BY <1>2, <1>7 DEF InPlace
    <2> QED
      BY <1>7, <2>1, RanAtEnds DEF Past
  <1> QED
    BY <1>6, <1>7

(* A function that goes on to its next call.                                *)
CallHas(i, l, d, made, p, past) ==
    Tidy(i, l, d) /\ Fits(i, l, d, root, call.held, made, call.home[1], p, past)

LEMMA OrderCalls ==
    ASSUME Playing, phase = "call", NEW do, Calling(do), NEW made, NEW saved, Continued(made, saved),
           NEW i, ir' = i, NEW l, log' = l, NEW p, point' = p,
           All(InPlace) =>
              /\ Ordered(i)
              /\ root \in Live(i) => \E d : CallHas(i, Written(l), d, ToSet(made), p, Past \cup ({do} \cap Steps))
              /\ greedy /\ root \notin Live(i) => \E d : Tidy(i, <<>>, d)
    PROVE  OrderInv'
  <1>1. /\ pass' = pass /\ phase' = "call" /\ call'.held = call.held /\ call'.home = call.home /\ call'.made = made
        /\ root' = root /\ greedy' = greedy
    BY RanNext, SamePatterns DEF Continued
  <1>2. Past' = Past \cup ({do} \cap Steps)
    <2>1. \A x : Ran({x})' <=> Ran({x}) \/ do \in {x}
      BY RanNext
    <2> QED
      BY <2>1 DEF Past
  <1>3. \A d : MatchFits(d)'
    BY <1>1 DEF MatchFits
  <1>4. Live(ir)' = Live(i) /\ Written(log)' = Written(l)
    BY <1>1 DEF Live, Written
  <1>5. Harmed' <=> ~greedy /\ root \notin Live(i)
    BY <1>1, <1>4 DEF Harmed
  <1>6. ASSUME root \in Live(i), NEW d, CallHas(i, Written(l), d, ToSet(made), p, Past \cup ({do} \cap Steps))
        PROVE  CallFits(d)'
    <2>1. Fits(ir', Written(log)', d, root', call'.held, ToSet(call'.made), call'.home[1], point', Past')
      BY <1>1, <1>2, <1>4, <1>6 DEF CallHas
    <2>2. CallFits(d)' <=>
             (phase' = "call" /\ root' \in Live(ir)' =>
                 Fits(ir', Written(log)', d, root', call'.held, ToSet(call'.made), call'.home[1], point', Past'))
      BY DEF CallFits
    <2> QED
      BY <2>1, <2>2
  <1>7. \A d : root \notin Live(i) => CallFits(d)'
    BY <1>1, <1>4 DEF CallFits
  <1>8. greedy => Written(l) = <<>>
    BY DEF Written
  <1>9. All(InPlace) =>
           /\ Ordered(i)
           /\ Underway' /\ ~(Harmed') => \E d : Tidy(i, Written(l), d) /\ CallFits(d)' /\ MatchFits(d)'
    <2>1. ASSUME All(InPlace), root \in Live(i)
          PROVE  \E d : Tidy(i, Written(l), d) /\ CallFits(d)' /\ MatchFits(d)'
      <3>1. PICK d : CallHas(i, Written(l), d, ToSet(made), p, Past \cup ({do} \cap Steps))
        BY <2>1
      <3> QED
        BY <1>3, <1>6, <2>1, <3>1 DEF CallHas
    <2>2. ASSUME All(InPlace), root \notin Live(i), ~(Harmed')
          PROVE  \E d : Tidy(i, Written(l), d) /\ CallFits(d)' /\ MatchFits(d)'
      BY <1>3, <1>5, <1>7, <1>8, <2>2
    <2> QED
      BY <2>1, <2>2
  <1> QED
    BY <1>1, <1>9, OrderNext

(* One whose root is gone.                                                  *)
LEMMA OrderAway ==
    ASSUME Playing, phase = "call", NEW do, Calling(do), NEW made, NEW saved, Continued(made, saved),
           NEW i, ir' = i, Seated(i), root \notin Live(i), All(InPlace) => Ordered(i)
    PROVE  OrderInv'
  <1>1. PICK l, p : l = log' /\ p = point'
    OBVIOUS
  <1>2. All(InPlace) => \E d : Tidy(i, <<>>, d)
    BY OperandsTidy
  <1> QED
    BY <1>1, <1>2, OrderCalls

(* The state before the call.                                               *)
LEMMA OrderBefore ==
    ASSUME OrderInv, Playing, phase = "call", All(InPlace)
    PROVE  /\ Ordered(ir)
           /\ root \in Live(ir) => \E d : CallHas(ir, Written(log), d, ToSet(call.made), point, Past)
  BY DEF OrderInv, CallFits, CallHas, Playing, Harmed

LEMMA OrderCallTyped ==
    ASSUME Playing, phase = "call", NEW d, NEW made, NEW p, NEW past, CallHas(ir, Written(log), d, made, p, past)
    PROVE  /\ root \in Live(ir) /\ ir.arg[root] = call.held /\ call.held \in Live(ir) \cup {None}
           /\ call.held # None => call.held \in d[root]
           /\ root # None /\ root \notin d[root]
           /\ Argument = None \/ Argument \in d[root] \cup ToSet(call.made)
  <1>1. /\ root \in Live(ir) /\ ir.arg[root] = call.held /\ Tidy(ir, Written(log), d)
    BY DEF CallHas, Fits, Rooted
  <1>2. root # None /\ call.made \in Seq(Ops)
    BY <1>1, CallFacts, RewritingAssumption DEF Live, None
  <1>3. call.held # None => call.held \in d[root]
    BY <1>1 DEF Tidy
  <1>4. root \notin d[root] /\ d[root] \subseteq Live(ir)
    <2>1. Seated(ir)
      BY DEF Playing
    <2> QED
      BY <1>1, <2>1, RootAlone DEF Below
  <1>5. call.made # <<>> => Last(call.made) \in ToSet(call.made)
    BY <1>2 DEF Last, ToSet
  <1> QED
    BY <1>1, <1>2, <1>3, <1>4, <1>5 DEF Argument

(* What is not written as replaced stays in the log as it is.               *)
LEMMA LogMade ==
    ASSUME NEW l \in Seq(Entry), NEW o \in Ops, NEW e, e = [did |-> "create", op |-> o]
    PROVE  /\ \A s : Heeds(l, s) => Heeds(Append(l, e), s)
           /\ GoneIn(Append(l, e), Len(Append(l, e))) \subseteq GoneIn(l, Len(l))
  <1>1. Len(l) \in Nat
    OBVIOUS
  <1>2. /\ Len(Append(l, e)) = Len(l) + 1 /\ Append(l, e)[Len(l) + 1] = e /\ e.did # "replace"
        /\ \A k \in 1 .. Len(l) : Append(l, e)[k] = l[k]
    OBVIOUS
  <1>3. \A k \in 1 .. Len(l) + 1 : k \in 1 .. Len(l) \/ k = Len(l) + 1
    BY <1>1
  <1> QED
    BY <1>2, <1>3 DEF Heeds, GoneIn

(***************************************************************************)
(* The calls.                                                              *)
(***************************************************************************)
LEMMA OrderCreates ==
    ASSUME OrderInv, SafeInv, Playing, Create
    PROVE  OrderInv'
  <1>1. phase = "call" /\ Calling("create")
    BY DEF Create, Calling
  <1>2. ASSUME NEW o, NEW k, NEW j, Created(o, k, j) PROVE OrderInv'
    <2>1. /\ o \in Ops \ Live(ir) /\ GrownAt(ir, o, k, Argument, point.block, point.before, j) /\ ir' = j
          /\ Continued(Append(call.made, o), call.saved) /\ point' = point /\ SoundIn(ir, point)
          /\ log' = (IF greedy THEN log ELSE Append(log, [did |-> "create", op |-> o]))
      BY <1>2 DEF Created, SoundIn
    <2>2. root \in Live(ir) /\ Seated(ir) /\ log \in Seq(Entry) /\ call.made \in Seq(Ops)
      BY <1>1, <1>2, MatchTyped DEF Created, RootFreed, Live, Playing, Typed
    <2>3. PICK made : made = Append(call.made, o)
      OBVIOUS
    <2>4. ToSet(made) = ToSet(call.made) \cup {o}
      BY <2>2, <2>3, ToSetOfAppend
    <2>5. PICK l : l = log'
      OBVIOUS
    <2>6. o \notin GoneIn(Written(log), Len(Written(log)))
      <3>1. CASE greedy
        BY <3>1 DEF Written, GoneIn
      <3>2. CASE ~greedy
        <4>1. Kept(ir, log)
          BY <1>1, <2>2, <3>2 DEF SafeInv, Sane, Harmed, Playing
        <4> QED
          BY <2>1, <3>2, <4>1 DEF Written, GoneIn, Kept, Named
      <3> QED
        BY <3>1, <3>2
    <2>7. /\ \A s : Heeds(Written(log), s) => Heeds(Written(l), s)
          /\ GoneIn(Written(l), Len(Written(l))) \subseteq GoneIn(Written(log), Len(Written(log)))
      <3>1. CASE greedy
        BY <3>1 DEF Written
      <3>2. CASE ~greedy
        <4>1. Written(log) = log /\ Written(l) = Append(log, [did |-> "create", op |-> o])
          BY <2>1, <2>5, <3>2 DEF Written
        <4> QED
          BY <2>1, <2>2, <4>1, LogMade
      <3> QED
        BY <3>1, <3>2
    <2>8. ASSUME All(InPlace)
          PROVE  \E d : CallHas(j, Written(l), d, ToSet(made), point, Past \cup ({"create"} \cap Steps))
      <3>1. PICK d : CallHas(ir, Written(log), d, ToSet(call.made), point, Past)
        BY <1>1, <2>2, <2>8, OrderBefore
      <3>2. /\ ir.arg[root] = call.held /\ call.held \in Live(ir) \cup {None}
            /\ Argument # None => Argument \in d[root] \cup ToSet(call.made)
        BY <1>1, <3>1, OrderCallTyped
      <3>3. Tidy(ir, Written(log), d)
            /\ Fits(ir, Written(log), d, root, call.held, ToSet(call.made), call.home[1], point, Past)
        BY <3>1 DEF CallHas
      <3>4. PICK m, a, p, held, home, past :
               m = Written(log) /\ a = Argument /\ p = point /\ held = call.held /\ home = call.home[1] /\ past = Past
        OBVIOUS
      <3>5. \E e : Tidy(j, m, e) /\ Fits(j, m, e, root, held, ToSet(call.made) \cup {o}, home, p, past)
        BY <2>1, <2>2, <2>6, <3>2, <3>3, <3>4, FitsCreated
      <3>6. PICK e : Tidy(j, m, e) /\ Fits(j, m, e, root, held, ToSet(call.made) \cup {o}, home, p, past)
        BY <3>5
      <3>7. Tidy(j, Written(l), e) /\ Fits(j, Written(l), e, root, held, ToSet(call.made) \cup {o}, home, p, past)
        <4>1. PICK n : n = Written(l)
          OBVIOUS
        <4>2. /\ \A s : Heeds(m, s) => Heeds(n, s)
              /\ GoneIn(n, Len(n)) \subseteq GoneIn(m, Len(m))
          BY <2>7, <3>4, <4>1
        <4>3. Tidy(j, n, e)
          BY <3>6, <4>2 DEF Tidy
        <4>4. Fits(j, n, e, root, held, ToSet(call.made) \cup {o}, home, p, past)
          BY <3>6, <4>2 DEF Fits, Rooted
        <4> QED
          BY <4>1, <4>3, <4>4
      <3>8. Past \cup ({"create"} \cap Steps) = Past
        BY DEF Steps
      <3> QED
        BY <2>4, <3>4, <3>7, <3>8 DEF CallHas
    <2>9. Seated(j) /\ root \in Live(j)
      BY <2>1, <2>2 DEF GrownAt
    <2>10. All(InPlace) => Ordered(j)
      BY <2>8, <2>9, TidyOrdered DEF CallHas
    <2>11. PICK p : p = point
      OBVIOUS
    <2> QED
      BY <1>1, <2>1, <2>3, <2>5, <2>8, <2>9, <2>10, <2>11, OrderCalls
  <1> QED
    BY <1>2, CreateDoes, OrderFaults

LEMMA OrderPushes ==
    ASSUME OrderInv, Playing, Push
    PROVE  OrderInv'
  <1>1. phase = "call" /\ Calling("append")
    BY DEF Push, Calling
  <1>2. ASSUME NEW o, NEW k, NEW b, NEW j, Pushed(o, k, b, j) PROVE OrderInv'
    <2>1. /\ o \in Ops \ Live(ir) /\ GrownAt(ir, o, k, call.held, BlockOf(ir, root), End, j) /\ ir' = j
          /\ Continued(call.made, call.saved) /\ point' = point /\ log' = log
      BY <1>2 DEF Pushed
    <2>2. root \in Live(ir) /\ Seated(ir)
      BY <1>1, <1>2, MatchTyped DEF Pushed, RootFreed, Live, Playing
    <2>3. ASSUME All(InPlace)
          PROVE  \E d : CallHas(j, Written(log), d, ToSet(call.made), point, Past \cup ({"append"} \cap Steps))
      <3>1. PICK d : CallHas(ir, Written(log), d, ToSet(call.made), point, Past)
        BY <1>1, <2>2, <2>3, OrderBefore
      <3>2. ir.arg[root] = call.held /\ call.held \in Live(ir) \cup {None}
        BY <1>1, <3>1, OrderCallTyped
      <3>3. Tidy(ir, Written(log), d)
            /\ Fits(ir, Written(log), d, root, call.held, ToSet(call.made), call.home[1], point, Past)
        BY <3>1 DEF CallHas
      <3>4. PICK m, p, held, home, past, made :
               /\ m = Written(log) /\ p = point /\ held = call.held /\ home = call.home[1] /\ past = Past
               /\ made = ToSet(call.made)
        OBVIOUS
      <3>5. \E e : Tidy(j, m, e) /\ Fits(j, m, e, root, held, made, home, p, past)
        BY <2>1, <2>2, <3>2, <3>3, <3>4, FitsPushed
      <3>6. Past \cup ({"append"} \cap Steps) = Past
        BY DEF Steps
      <3> QED
        BY <3>4, <3>5, <3>6 DEF CallHas
    <2>4. Seated(j) /\ root \in Live(j)
      BY <2>1, <2>2 DEF GrownAt
    <2>5. All(InPlace) => Ordered(j)
      BY <2>3, <2>4, TidyOrdered DEF CallHas
    <2>6. PICK l, p, made : l = log /\ p = point /\ made = call.made
      OBVIOUS
    <2> QED
      BY <1>1, <2>1, <2>3, <2>4, <2>5, <2>6, OrderCalls
  <1> QED
    BY <1>2, PushDoes, OrderFaults

(* A call that leaves operations and log.                                   *)
LEMMA OrderQuiet ==
    ASSUME OrderInv, Playing, phase = "call", NEW do, Calling(do), NEW saved, Continued(call.made, saved),
           ir' = ir, log' = log,
           \/ point' = point /\ do \notin Steps
           \/ All(InPlace) =>
                 \A d : CallHas(ir, Written(log), d, ToSet(call.made), point, Past) =>
                        CallHas(ir, Written(log), d, ToSet(call.made), point', Past \cup ({do} \cap Steps))
    PROVE  OrderInv'
  <1>1. PICK i, l, p, made : i = ir /\ l = log /\ p = point' /\ made = call.made
    OBVIOUS
  <1>2. Seated(ir)
    BY DEF Playing
  <1>3. do \notin Steps => Past \cup ({do} \cap Steps) = Past
    OBVIOUS
  <1>4. ASSUME All(InPlace), root \in Live(ir)
        PROVE  \E d : CallHas(ir, Written(log), d, ToSet(call.made), point', Past \cup ({do} \cap Steps))
    <2>1. PICK d : CallHas(ir, Written(log), d, ToSet(call.made), point, Past)
      BY <1>4, OrderBefore
    <2>2. CASE point' = point /\ do \notin Steps
      BY <1>3, <2>1, <2>2
    <2>3. CASE ~(point' = point /\ do \notin Steps)
      BY <1>4, <2>1, <2>3
    <2> QED
      BY <2>2, <2>3
  <1>5. All(InPlace) => Ordered(ir)
    BY DEF OrderInv
  <1>6. CASE root \in Live(ir)
    BY <1>1, <1>4, <1>5, <1>6, OrderCalls
  <1>7. CASE root \notin Live(ir)
    BY <1>1, <1>2, <1>5, <1>7, OrderAway
  <1> QED
    BY <1>6, <1>7

LEMMA OrderSets ==
    ASSUME OrderInv, Playing, SetPoint
    PROVE  OrderInv'
  <1>1. phase = "call"
    BY DEF SetPoint, Calling
  <1>2. ASSUME NEW do, NEW p, Moved(do, p) PROVE OrderInv'
    <2>1. /\ Calling(do) /\ do \in Moves /\ p = PointFor(do) /\ point' = p
          /\ Continued(call.made, call.saved) /\ ir' = ir /\ log' = log
      BY <1>2 DEF Moved
    <2>2. ASSUME All(InPlace), NEW d, CallHas(ir, Written(log), d, ToSet(call.made), point, Past)
          PROVE  CallHas(ir, Written(log), d, ToSet(call.made), p, Past \cup ({do} \cap Steps))
      <3>1. /\ do \notin {"start", "restore"} /\ (do \in Steps => "after" \notin Past)
            /\ do = "end" => "split" \in Past /\ Past \cap {"before", "after"} = {}
        BY <1>1, <2>1, <2>2, InPlaceCalls
      <3>2. PICK m, held, home, past, made :
               /\ m = Written(log) /\ held = call.held /\ home = call.home[1] /\ past = Past
               /\ made = ToSet(call.made)
        OBVIOUS
      <3>3. Seated(ir) /\ Tidy(ir, m, d) /\ Fits(ir, m, d, root, held, made, home, point, past)
        BY <2>2, <3>2 DEF CallHas, Playing
      <3>4. CASE do = "before"
        <4>1. Fits(ir, m, d, root, held, made, home, [block |-> BlockOf(ir, root), before |-> root],
                   past \cup {"before"})
          BY <3>1, <3>2, <3>3, <3>4, FitsBefore DEF Steps
        <4>2. p = [block |-> BlockOf(ir, root), before |-> root] /\ {do} \cap Steps = {"before"}
          BY <2>1, <3>4 DEF PointFor, Steps
        <4> QED
          BY <3>2, <3>3, <4>1, <4>2 DEF CallHas
      <3>5. CASE do = "after"
        <4>1. Fits(ir, m, d, root, held, made, home,
                   [block |-> BlockOf(ir, root), before |-> Following(ir.body[BlockOf(ir, root)], root)],
                   past \cup {"after"})
          BY <3>1, <3>2, <3>3, <3>5, FitsAfter DEF Steps
        <4>2. /\ p = [block |-> BlockOf(ir, root), before |-> Following(ir.body[BlockOf(ir, root)], root)]
              /\ {do} \cap Steps = {"after"}
          BY <2>1, <3>5 DEF PointFor, Steps
        <4> QED
          BY <3>2, <3>3, <4>1, <4>2 DEF CallHas
      <3>6. CASE do = "end"
        <4>1. Fits(ir, m, d, root, held, made, home, EndOf(home), past)
          BY <3>1, <3>2, <3>3, <3>6, FitsEnd
        <4>2. p = EndOf(home) /\ Past \cup ({do} \cap Steps) = past
          BY <2>1, <3>2, <3>6 DEF PointFor, Steps, EndOf
        <4> QED
          BY <3>2, <3>3, <4>1, <4>2 DEF CallHas
      <3> QED
        BY <2>1, <3>1, <3>4, <3>5, <3>6 DEF Moves
    <2> QED
      BY <1>1, <2>1, <2>2, OrderQuiet
  <1> QED
    BY <1>2, SetPointDoes, OrderFaults

LEMMA OrderSaves ==
    ASSUME OrderInv, Playing, SavePoint \/ RestorePoint
    PROVE  OrderInv'
  <1>1. CASE SavePoint
    <2>1. phase = "call" /\ Calling("save") /\ "save" \notin Steps
      BY <1>1 DEF SavePoint, Calling, Steps
    <2>2. Continued(call.made, <<point>>) /\ point' = point /\ ir' = ir /\ log' = log
      BY <1>1, SavesDoes DEF Recalled
    <2> QED
      BY <2>1, <2>2, OrderQuiet
  <1>2. CASE RestorePoint
    <2>1. phase = "call" /\ Calling("restore")
      BY <1>2 DEF RestorePoint, Calling
    <2>2. Continued(call.made, call.saved) /\ ir' = ir /\ log' = log
      BY <1>2, SavesDoes DEF Recalled
    <2>3. ~All(InPlace)
      BY <2>1, InPlaceCalls
    <2> QED
      BY <2>1, <2>2, <2>3, OrderQuiet
  <1> QED
    BY <1>1, <1>2

LEMMA OrderSplits ==
    ASSUME OrderInv, Playing, SplitBlock
    PROVE  OrderInv'
  <1>1. phase = "call" /\ Calling("split")
    BY DEF SplitBlock, Calling
  <1>2. ASSUME NEW new, NEW j, Parted(new, j) PROVE OrderInv'
    <2>1. /\ root \in Live(ir) /\ new \in Blocks \ ToSet(ir.region) /\ j = Split(ir, root, new) /\ ir' = j
          /\ SplitTo(ir, root, new, j)
          /\ Continued(call.made, call.saved) /\ point' = point /\ log' = log
      BY <1>2 DEF Parted
    <2>2. Seated(ir) /\ Seated(j) /\ root \in Live(j)
      BY <2>1 DEF Playing, SplitTo
    <2>3. ASSUME All(InPlace)
          PROVE  \E d : CallHas(j, Written(log), d, ToSet(call.made), point, Past \cup ({"split"} \cap Steps))
      <3>1. PICK d : CallHas(ir, Written(log), d, ToSet(call.made), point, Past)
        BY <1>1, <2>1, <2>3, OrderBefore
      <3>2. PICK m, p, held, home, past, made :
               /\ m = Written(log) /\ p = point /\ held = call.held /\ home = call.home[1] /\ past = Past
               /\ made = ToSet(call.made)
        OBVIOUS
      <3>3. Tidy(ir, m, d) /\ Fits(ir, m, d, root, held, made, home, p, past)
        BY <3>1, <3>2 DEF CallHas
      <3>4. "after" \notin past
        BY <1>1, <2>3, <3>2, InPlaceCalls DEF Steps
      <3>5. Tidy(j, m, d) /\ Fits(j, m, d, root, held, made, home, p, past \cup {"split"})
        BY <2>1, <2>2, <3>3, <3>4, FitsSplit
      <3>6. {"split"} \cap Steps = {"split"}
        BY DEF Steps
      <3> QED
        BY <3>2, <3>5, <3>6 DEF CallHas
    <2>4. All(InPlace) => Ordered(j)
      BY <2>2, <2>3, TidyOrdered DEF CallHas
    <2>5. PICK l, p, made : l = log /\ p = point /\ made = call.made
      OBVIOUS
    <2> QED
      BY <1>1, <2>1, <2>2, <2>3, <2>4, <2>5, OrderCalls
  <1> QED
    BY <1>2, SplitDoes, OrderFaults

LEMMA OrderUnlinks ==
    ASSUME OrderInv, Playing, Unlink
    PROVE  OrderInv'
  <1>1. phase = "call" /\ Calling("unlink")
    BY DEF Unlink, Calling
  <1>2. ASSUME NEW j, Unlinked(j) PROVE OrderInv'
    <2>1. /\ Users(ir, root) = {} /\ RidTo(ir, {root}, j) /\ ir' = j /\ Continued(call.made, call.saved)
      BY <1>2 DEF Unlinked
    <2>2. Seated(ir) /\ Seated(j) /\ root \notin Live(j) /\ \A u \in Live(ir) \ {root} : ir.arg[u] \notin {root}
      BY <2>1 DEF Playing, RidTo, Users
    <2>3. All(InPlace) => Ordered(j)
      BY <2>1, <2>2, RidOrdered DEF OrderInv
    <2>4. PICK made : made = call.made
      OBVIOUS
    <2> QED
      BY <1>1, <2>1, <2>2, <2>3, <2>4, OrderAway
  <1> QED
    BY <1>2, UnlinkDoes, OrderFaults

LEMMA UnusedOrdered ==
    ASSUME NEW i, Seated(i), Ordered(i), NEW o, o # None, Users(i, o) = {}, NEW by, NEW h, ReroutedTo(i, o, by, h),
           NEW j, RidTo(h, {o}, j)
    PROVE  Ordered(j)
  <1>1. /\ Seated(h) /\ Live(h) = Live(i) /\ h.body = i.body /\ h.region = i.region
        /\ \A u \in Live(i) : h.arg[u] = i.arg[u] /\ i.arg[u] # o
    BY DEF ReroutedTo, Users, Live
  <1>2. InOrder(h) = InOrder(i)
    BY <1>1 DEF InOrder
  <1>3. Ordered(h)
    BY <1>1, <1>2 DEF Ordered
  <1> QED
    BY <1>1, <1>3, RidOrdered

LEMMA OrderRetires ==
    ASSUME OrderInv, Playing, phase = "call", NEW do \in {"replace", "erase", "eraseDef"}, Calling(do),
           NEW o, NEW by, Retired(o, by),
           \/ o = root /\ by = Argument
           \/ o \in {root, call.held} /\ by = o /\ (greedy => Users(ir, o) = {})
    PROVE  OrderInv'
  <1>1. Continued(call.made, call.saved) /\ pass' = pass /\ o \in Live(ir)
    BY RetiresGoOn
  <1>2. Seated(ir) /\ log \in Seq(Entry) /\ Past \cup ({do} \cap Steps) = Past /\ o \in Ops /\ o # None
    BY <1>1, RewritingAssumption DEF Playing, Typed, Steps, Live, None
  <1>3. CASE ~All(InPlace)
    BY <1>1, <1>3, InPlaceStays DEF OrderInv
  <1>4. CASE All(InPlace) /\ ~greedy
    <2>1. PICK e : e = [did |-> "replace", op |-> o, by |-> by]
      OBVIOUS
    <2>2. /\ ir' = ir /\ point' = point /\ log' = Append(log, e) /\ Written(log) = log
          /\ Written(Append(log, e)) = Append(log, e)
      BY <1>4, <2>1 DEF Retired, Noted, Written
    <2>3. ASSUME root \in Live(ir)
          PROVE  \E d : CallHas(ir, Append(log, e), d, ToSet(call.made), point, Past)
      <3>1. PICK d : CallHas(ir, log, d, ToSet(call.made), point, Past)
        BY <1>4, <2>2, <2>3, OrderBefore
      <3>2. /\ ir.arg[root] = call.held /\ (Argument = None \/ Argument \in d[root] \cup ToSet(call.made))
        BY <2>2, <3>1, OrderCallTyped
      <3>3. PICK p, held, home, past, made :
               /\ p = point /\ held = call.held /\ home = call.home[1] /\ past = Past /\ made = ToSet(call.made)
        OBVIOUS
      <3>4. Tidy(ir, log, d) /\ Fits(ir, log, d, root, held, made, home, p, past)
        BY <3>1, <3>3 DEF CallHas
      <3>5. CASE by \in {None, o}
        <4>1. /\ Tidy(ir, Append(log, e), d)
              /\ \A r, h, m, b, q, s :
                    Fits(ir, log, d, r, h, m, b, q, s) /\ o \in {r, h} => Fits(ir, Append(log, e), d, r, h, m, b, q, s)
          BY <1>2, <2>1, <3>4, <3>5, FitsErased
        <4>2. Fits(ir, Append(log, e), d, root, held, made, home, p, past)
          BY <3>3, <3>4, <4>1
        <4> QED
          BY <3>3, <4>1, <4>2 DEF CallHas
      <3>6. CASE by \notin {None, o}
        <4>1. o = root /\ by \in d[root] \cup made
          BY <3>2, <3>3, <3>6
        <4>2. \E f : /\ Tidy(ir, Append(log, e), f)
                     /\ Fits(ir, Append(log, e), f, root, held, made, home, p, past)
          BY <1>2, <2>1, <3>4, <4>1, FitsReplaced
        <4> QED
          BY <3>3, <4>2 DEF CallHas
      <3> QED
        BY <3>5, <3>6
    <2>4. Ordered(ir)
      BY <1>4 DEF OrderInv
    <2>5. PICK i, l, p, made, saved :
             i = ir /\ l = Append(log, e) /\ p = point /\ made = call.made /\ saved = call.saved
      OBVIOUS
    <2>6. CASE root \in Live(ir)
      <3>1. /\ ir' = i /\ log' = l /\ point' = p /\ Continued(made, saved) /\ Ordered(i) /\ ~greedy
            /\ Written(l) = l /\ Past \cup ({do} \cap Steps) = Past
        BY <1>1, <1>2, <1>4, <2>2, <2>4, <2>5
      <3>2. \E d : CallHas(i, Written(l), d, ToSet(made), p, Past \cup ({do} \cap Steps))
        BY <2>3, <2>5, <2>6, <3>1
      <3> QED
        BY <3>1, <3>2, OrderCalls
    <2>7. CASE root \notin Live(ir)
      BY <1>1, <1>2, <2>2, <2>4, <2>5, <2>7, OrderAway
    <2> QED
      BY <2>6, <2>7
  <1>5. CASE All(InPlace) /\ greedy
    <2>1. PICK w, h, j : Taken(o, by, w, h, j)
      BY <1>5 DEF Retired
    <2>2. ReroutedTo(ir, o, by, h) /\ RidTo(h, {o}, j) /\ ir' = j /\ Live(j) = Live(ir) \ {o} /\ Seated(j)
      BY <2>1 DEF Taken, RidTo, ReroutedTo
    <2>3. Ordered(ir)
      BY <1>5 DEF OrderInv
    <2>4. ASSUME root \in Live(ir) PROVE root \notin Live(j) /\ Ordered(j)
      <3>1. PICK d : CallHas(ir, Written(log), d, ToSet(call.made), point, Past)
        BY <1>5, <2>4, OrderBefore
      <3>2. /\ ir.arg[root] = call.held /\ (Argument = None \/ Argument \in d[root] \cup ToSet(call.made))
        BY <3>1, OrderCallTyped
      <3>3. o = root
        BY <1>5, <2>4, <3>2 DEF Users
      <3>4. Tidy(ir, Written(log), d) /\ Rooted(ir, Written(log), d, root, call.held, ToSet(call.made))
        BY <3>1 DEF CallHas, Fits
      <3>5. PICK m, held, made : m = Written(log) /\ held = call.held /\ made = ToSet(call.made)
        OBVIOUS
      <3>6. CASE by = o /\ Users(ir, o) = {}
        BY <1>2, <2>2, <2>3, <3>3, <3>6, UnusedOrdered
      <3>7. CASE by = Argument
        <4>1. by = None \/ by \in d[root] \cup ToSet(call.made)
          BY <3>2, <3>7
        <4> QED
          BY <1>2, <2>2, <3>3, <3>4, <3>5, <4>1, TakenOrdered
      <3> QED
        BY <1>5, <3>6, <3>7
    <2>5. ASSUME root \notin Live(ir) PROVE root \notin Live(j) /\ Ordered(j)
      <3>1. Users(ir, o) = {}
        BY <1>1, <1>5, <2>5
      <3> QED
        BY <1>2, <2>2, <2>3, <2>5, <3>1, UnusedOrdered
    <2>6. root \notin Live(j) /\ Ordered(j)
      BY <2>4, <2>5
    <2>7. PICK made : made = call.made
      OBVIOUS
    <2> QED
      BY <1>1, <2>2, <2>6, <2>7, OrderAway
  <1> QED
    BY <1>3, <1>4, <1>5

LEMMA OrderErases ==
    ASSUME OrderInv, Playing, Replace \/ Erase \/ EraseDef
    PROVE  OrderInv'
  <1>1. CASE Replace
    <2>1. phase = "call" /\ Calling("replace")
      BY <1>1 DEF Replace, Calling
    <2>2. ASSUME Retired(root, Argument) PROVE OrderInv'
      BY <2>1, <2>2, OrderRetires
    <2> QED
      BY <1>1, <2>2, ReplaceDoes, OrderFaults
  <1>2. CASE Erase
    <2>1. phase = "call" /\ Calling("erase") /\ EraseOp(root)
      BY <1>2 DEF Erase, Calling
    <2>2. root \in Ops
      BY <2>1, MatchTyped
    <2>3. ASSUME greedy => Users(ir, root) = {}, Retired(root, root) PROVE OrderInv'
      BY <2>1, <2>3, OrderRetires
    <2> QED
      BY <2>1, <2>2, <2>3, EraseDoes, OrderFaults
  <1>3. CASE EraseDef
    <2>1. phase = "call" /\ Calling("eraseDef")
      BY <1>3 DEF EraseDef, Calling
    <2>2. ASSUME greedy => Users(ir, call.held) = {}, Retired(call.held, call.held) PROVE OrderInv'
      BY <2>1, <2>2, OrderRetires
    <2>3. ASSUME Continued(call.made, call.saved), ir' = ir, point' = point, log' = log PROVE OrderInv'
      BY <2>1, <2>3, OrderQuiet DEF Steps
    <2> QED
      BY <1>3, <2>2, <2>3, EraseDefDoes, OrderFaults
  <1> QED
    BY <1>1, <1>2, <1>3

(***************************************************************************)
(* A conversion gives up, and the steps between the functions.             *)
(***************************************************************************)
LEMMA OrderUndoes ==
    ASSUME OrderInv, SafeInv, Playing, NEW n, NEW j, GaveUp(n, j), phase' \in {"done", "match"}, Harmed => Harmed'
    PROVE  OrderInv'
  <1>1. /\ ~greedy /\ n \in 0 .. Len(log) /\ Undoable(n) /\ RidTo(ir, MadeIn(log, n), j) /\ ir' = j
        /\ log' = SubSeq(log, 1, n) /\ pass' = pass
    BY DEF GaveUp, Steady
  <1>2. log \in Seq(Entry) /\ Live(j) = Live(ir) \ MadeIn(log, n) /\ Seated(ir)
    BY <1>1 DEF Playing, Typed, RidTo
  <1>3. PICK l : l = SubSeq(log, 1, n)
    OBVIOUS
  <1>4. \A u \in Live(ir) \ MadeIn(log, n) : ir.arg[u] \notin MadeIn(log, n)
    BY <1>1, <1>2, LogReads DEF Undoable
  <1>5. PICK gone : gone = MadeIn(log, n)
    OBVIOUS
  <1>6. All(InPlace) => Ordered(j)
    BY <1>1, <1>2, <1>4, <1>5, RidOrdered DEF OrderInv
  <1>7. \A d : CallFits(d)' /\ MatchFits(d)'
    BY <1>1, SamePatterns DEF CallFits, MatchFits
  <1>8. ASSUME All(InPlace), ~(Harmed') PROVE \E d : Tidy(j, l, d)
    <2>1. ~Harmed /\ Written(log) = log
      BY <1>1, <1>8 DEF Written
    <2>2. PICK d : Tidy(ir, log, d)
      BY <1>8, <2>1 DEF OrderInv, Playing
    <2>3. Kept(ir, log)
      BY <1>1, <2>1 DEF SafeInv, Playing, Sane
    <2>4. \A u \in Live(j) : ir.arg[u] \notin MadeIn(log, n)
      BY <1>2, <1>4
    <2> QED
      BY <1>1, <1>2, <1>3, <2>2, <2>3, <2>4, TidyRid
  <1>9. Written(l) = l
    BY <1>1 DEF Written
  <1>10. All(InPlace) =>
            /\ Ordered(j)
            /\ Underway' /\ ~(Harmed') => \E d : Tidy(j, Written(l), d) /\ CallFits(d)' /\ MatchFits(d)'
    BY <1>6, <1>7, <1>8, <1>9
  <1> QED
    BY <1>1, <1>3, <1>10, OrderNext

(* What replaces something that must be ahead of an operation must be so    *)
(* too, so that uses which follow the replacements go to what is ahead.     *)
LEMMA FinalAhead ==
    ASSUME log \in Seq(Entry), NEW rk \in [Ops -> Nat], Falls(log, rk),
           NEW s \in SUBSET Ops, Heeds(log, s), NEW x \in s
    PROVE  Final[x] \in s \cup {None}
  <1> DEFINE Wrong == {m \in Nat : \E y \in s : rk[y] = m /\ Final[y] \notin s \cup {None}}
  <1>1. ASSUME Wrong # {} PROVE FALSE
    <2>1. PICK m \in Wrong : \A j \in Wrong : m <= j
      <3> HIDE DEF Wrong
      <3>1. Wrong \in SUBSET Nat
        BY DEF Wrong
      <3> QED
        BY <1>1, <3>1, Least
    <2>2. PICK y \in s : rk[y] = m /\ Final[y] \notin s \cup {None}
      BY <2>1
    <2>3. /\ Final[y] = IF y \in Replaced /\ By(y) # y THEN Final[By(y)] ELSE y
          /\ Final[None] = None
      BY FinalTyped, ByWritten, RewritingAssumption DEF None
    <2>4. y \in Replaced /\ By(y) \notin {None, y}
      BY <2>2, <2>3
    <2>5. PICK k \in 1 .. Len(log) : log[k].did = "replace" /\ log[k].op = y /\ log[k].by = By(y)
      BY <2>4, ByWritten
    <2>6. By(y) \in s
      BY <2>2, <2>4, <2>5 DEF Heeds
    <2>7. rk[By(y)] < m /\ rk[By(y)] \in Nat
      BY <2>2, <2>4, <2>6, ByFalls
    <2>8. rk[By(y)] \in Wrong
      BY <2>2, <2>3, <2>4, <2>6, <2>7
    <2> QED
      BY <2>1, <2>7, <2>8
  <1>2. rk[x] \in Nat
    OBVIOUS
  <1> QED
    BY <1>1, <1>2

LEMMA OrderApplied ==
    ASSUME log \in Seq(Entry), Seated(ir), NEW rk \in [Ops -> Nat], Falls(log, rk), NEW d, Tidy(ir, log, d),
           ~UsedWhenErased
    PROVE  Ordered(Applied)
  <1>1. /\ Final \in [Ops \cup {None} -> Ops \cup {None}] /\ None \notin Ops /\ Replaced \subseteq Ops
        /\ \A o \in Ops \cup {None} : Final[o] = IF o \in Replaced /\ By(o) # o THEN Final[By(o)] ELSE o
    BY FinalTyped, ByWritten, RewritingAssumption DEF None
  <1>2. Final[None] = None
    BY <1>1
  <1>3. PICK a : a = [o \in Ops |-> Final[ir.arg[o]]]
    OBVIOUS
  <1>4. /\ ir \in Irs /\ DOMAIN ir = {"kind", "arg", "body", "region"} /\ ir.arg \in [Ops -> Ops \cup {None}]
        /\ Live(ir) \subseteq Ops
    BY IrFields DEF Seated, Filed, Live
  <1>5. a \in [Ops -> Ops \cup {None}]
    BY <1>1, <1>3, <1>4
  <1>6. PICK i : i = [ir EXCEPT !.arg = a]
    OBVIOUS
  <1>7. i \in Irs /\ i.kind = ir.kind /\ i.arg = a /\ i.body = ir.body /\ i.region = ir.region
    BY <1>4, <1>5, <1>6 DEF Irs
  <1>8. Live(i) = Live(ir) /\ InOrder(i) = InOrder(ir)
    BY <1>7 DEF Live, InOrder
  <1>9. Seated(i)
    BY <1>7, <1>8 DEF Seated, Filed
  <1>10. ASSUME NEW o \in Live(ir), a[o] # None PROVE Before(i, a[o], o)
    <2>1. a[o] = Final[ir.arg[o]]
      BY <1>3, <1>4
    <2>2. ir.arg[o] # None
      BY <1>2, <1>10, <2>1
    <2>3. d[o] \in SUBSET Ops /\ ir.arg[o] \in d[o] /\ Heeds(log, d[o]) /\ d[o] \subseteq Below(ir, o)
      BY <1>4, <2>2 DEF Tidy
    <2>4. Final[ir.arg[o]] \in d[o] \cup {None}
      BY <2>3, FinalAhead
    <2>5. a[o] \in Below(ir, o)
      BY <1>10, <2>1, <2>3, <2>4
    <2> QED
      BY <1>8, <2>5 DEF Below, Before
  <1>11. Ordered(i)
    BY <1>7, <1>8, <1>9, <1>10, OrderedBefore
  <1>12. PICK j : j = Rid(i, Replaced)
    OBVIOUS
  <1>13. RidTo(i, Replaced, j)
    BY <1>9, <1>12, RidSeated
  <1>14. \A u \in Live(i) \ Replaced : i.arg[u] \notin Replaced
    BY <1>3, <1>4, <1>7, <1>8 DEF UsedWhenErased
  <1>15. Ordered(j)
    BY <1>9, <1>11, <1>13, <1>14, RidOrdered
  <1>16. Applied = j
    BY <1>3, <1>6, <1>12 DEF Applied
  <1> QED
    BY <1>15, <1>16

(* A conversion that ends: what it returns is what it applied.              *)
LEMMA OrderCloses ==
    ASSUME OrderInv, SafeInv, Playing, Legalized, Closed
    PROVE  OrderInv'
  <1>1. ~greedy /\ phase = "legalize" /\ ir' = Applied /\ phase' = "done" /\ pass' = pass /\ ~Harmed
    BY DEF Closed, Steady, Harmed
  <1>2. ~UsedWhenErased
    BY <1>1, Zenon DEF Legalized, Fault, Stop
  <1>3. PICK rk : Ranked(ir, rk) /\ Falls(log, rk)
    BY <1>1 DEF SafeInv, Sane, Playing, Sorted
  <1>4. ASSUME All(InPlace) PROVE Ordered(Applied)
    <2>1. PICK d : Tidy(ir, log, d)
      BY <1>1, <1>4 DEF OrderInv, Playing, Written
    <2>2. log \in Seq(Entry) /\ Seated(ir) /\ rk \in [Ops -> Nat]
      BY <1>3 DEF Playing, Typed, Ranked
    <2> QED
      BY <1>2, <1>3, <2>1, <2>2, OrderApplied
  <1>5. PICK i, l : i = Applied /\ l = log'
    OBVIOUS
  <1>6. ~(Underway')
    BY <1>1 DEF Underway
  <1> QED
    BY <1>1, <1>4, <1>5, <1>6, OrderNext

LEMMA OrderDrives ==
    ASSUME OrderInv, SafeInv, Playing, Walk \/ Iterate \/ Collect \/ Legalize \/ Legalized
    PROVE  OrderInv'
  <1>1. ~Harmed
    BY DEF Walk, Iterate, Collect, Legalize, Legalized, Harmed
  <1>2. CASE Walk
    BY <1>1, <1>2, OrderIdle DEF Walk
  <1>3. CASE Iterate
    <2>1. pass' = pass /\ ir' = ir /\ log' = log /\ phase' \in {"start", "done"}
      BY <1>3 DEF Iterate, Stop
    <2> QED
      BY <1>1, <2>1, OrderIdle
  <1>4. CASE Collect
    <2>1. pass' = pass /\ ir' = ir /\ log' = log /\ phase' = "legalize"
      BY <1>4 DEF Collect
    <2> QED
      BY <1>1, <2>1, OrderIdle
  <1>5. ASSUME NEW fs, NEW ph \in {"legalize", "match"}, Relisted(fs, ph), ~greedy PROVE OrderInv'
    BY <1>1, <1>5, OrderIdle DEF Relisted, Steady
  <1>6. CASE Legalize
    BY <1>5, <1>6, LegalizeDoes, OrderFaults
  <1>7. CASE Legalized
    BY <1>5, <1>7, LegalizedDoes, OrderFaults, OrderCloses
  <1> QED
    BY <1>2, <1>3, <1>4, <1>6, <1>7

LEMMA OrderPops ==
    ASSUME OrderInv, Playing, Pop
    PROVE  OrderInv'
  <1>1. greedy /\ phase = "pop" /\ Seated(ir) /\ ~Harmed
    BY DEF Pop, Playing, Harmed
  <1>2. ASSUME NEW o, NEW j, Swept(o, j) PROVE OrderInv'
    <2>1. /\ Users(ir, o) = {} /\ RidTo(ir, {o}, j) /\ ir' = j /\ pass' = pass /\ log' = log /\ phase' = "pop"
      BY <1>2 DEF Swept, Steady
    <2>2. Seated(j) /\ \A u \in Live(ir) \ {o} : ir.arg[u] \notin {o}
      BY <2>1 DEF RidTo, Users
    <2>3. All(InPlace) => Ordered(j)
      BY <1>1, <2>1, <2>2, RidOrdered DEF OrderInv
    <2>4. All(InPlace) => \E d : Tidy(j, <<>>, d)
      BY <2>2, <2>3, OperandsTidy
    <2>5. PICK l : l = log
      OBVIOUS
    <2>6. Written(l) = <<>> /\ \A d : CallFits(d)' /\ MatchFits(d)'
      BY <1>1, <2>1 DEF Written, CallFits, MatchFits
    <2> QED
      BY <2>1, <2>3, <2>4, <2>5, <2>6, OrderNext
  <1>3. ASSUME NEW o, Begun(o) PROVE OrderInv'
    <2>1. /\ frames' = <<Framed(o)>> /\ phase' = "match" /\ o \in Live(ir) /\ pass' = pass /\ ir' = ir /\ log' = log
      BY <1>3 DEF Begun, Steady
    <2>2. root' = o
      BY <2>1 DEF root, frame, Framed
    <2>3. PICK i, l, p : i = ir /\ l = log /\ p = [block |-> BlockOf(ir, o), before |-> o]
      OBVIOUS
    <2>4. point' = p
      BY <1>3, <2>3 DEF Begun
    <2>5. p.before = o /\ Ahead(i, p) = Below(i, o)
      BY <1>1, <2>1, <2>3, AheadHome
    <2>6. ASSUME All(InPlace) PROVE \E d : Tidy(i, Written(l), d) /\ CallFits(d)' /\ MatchFits(d)'
      <3>1. PICK d : Tidy(i, Written(l), d)
        BY <1>1, <2>3, <2>6 DEF OrderInv, Playing
      <3>2. d[o] \subseteq Ahead(i, p)
        BY <2>1, <2>3, <2>5, <3>1 DEF Tidy
      <3>3. CallFits(d)'
        BY <2>1 DEF CallFits
      <3>4. MatchFits(d)' <=>
               (greedy' /\ phase' = "match" /\ root' \in Live(ir)' =>
                   /\ point'.before \in {root', End}
                   /\ SoundIn(ir', point') => d[root'] \subseteq Ahead(ir', point')
                                              /\ Ahead(ir', point') \subseteq Below(ir', root'))
        BY DEF MatchFits
      <3>5. MatchFits(d)'
        BY <2>1, <2>2, <2>3, <2>4, <2>5, <3>2, <3>4
      <3> QED
        BY <3>1, <3>3, <3>5
    <2> QED
      BY <2>1, <2>3, <2>6, OrderNext DEF OrderInv
  <1> QED
    BY <1>2, <1>3, PopDoes, OrderFaults

(* A pattern that is tried and begins, where the one before it, if there    *)
(* was one, left the point, or before its root in a conversion.             *)
LEMMA OrderInvokes ==
    ASSUME OrderInv, Playing, phase = "match", NEW n, Invoked(n)
    PROVE  OrderInv'
  <1>1. /\ root \in Live(ir) /\ pass' = pass /\ ir' = ir /\ log' = log /\ Seated(ir) /\ ~Harmed
        /\ phase' \in {"match", "call"}
    BY DEF Invoked, Steady, Playing, Harmed
  <1>2. root' = root /\ greedy' = greedy
    BY <1>1, CallBegins, SamePatterns
  <1>3. PICK i, l, r, p : i = ir /\ l = log /\ r = root /\ p = point'
    OBVIOUS
  <1>4. p = IF greedy THEN point ELSE [block |-> BlockOf(i, r), before |-> r]
    BY <1>3 DEF Invoked
  <1>5. ASSUME All(InPlace)
        PROVE  \E d : /\ Tidy(i, Written(l), d) /\ p.before \in {r, End}
                      /\ SoundIn(i, p) => d[r] \subseteq Ahead(i, p) /\ Ahead(i, p) \subseteq Below(i, r)
    <2>1. PICK d : Tidy(i, Written(l), d) /\ MatchFits(d)
      BY <1>1, <1>3, <1>5 DEF OrderInv, Playing
    <2>2. CASE greedy
      BY <1>1, <1>3, <1>4, <2>1, <2>2 DEF MatchFits
    <2>3. CASE ~greedy
      <3>1. p.before = r /\ Ahead(i, p) = Below(i, r)
        BY <1>1, <1>3, <1>4, <2>3, AheadHome
      <3> QED
        BY <1>1, <1>3, <2>1, <3>1 DEF Tidy
    <2> QED
      BY <2>2, <2>3
  <1>6. CASE phase' = "match"
    <2>1. ASSUME NEW d, p.before \in {r, End},
                 SoundIn(i, p) => d[r] \subseteq Ahead(i, p) /\ Ahead(i, p) \subseteq Below(i, r)
          PROVE  CallFits(d)' /\ MatchFits(d)'
      <3>1. MatchFits(d)' <=>
               (greedy' /\ phase' = "match" /\ root' \in Live(ir)' =>
                   /\ point'.before \in {root', End}
                   /\ SoundIn(ir', point') => d[root'] \subseteq Ahead(ir', point')
                                              /\ Ahead(ir', point') \subseteq Below(ir', root'))
        BY DEF MatchFits
      <3> QED
        BY <1>1, <1>2, <1>3, <1>6, <2>1, <3>1 DEF CallFits
    <2> QED
      BY <1>1, <1>3, <1>5, <2>1, OrderNext DEF OrderInv
  <1>7. CASE phase' = "call"
    <2>1. /\ call'.held = i.arg[r] /\ ToSet(call'.made) = {} /\ Past' = {}
      <3>1. call'.held = ir.arg[root] /\ call'.made = <<>> /\ \A dos : ~Ran(dos)'
        BY <1>7, CallBegins
      <3>2. Past' = {}
        BY <3>1 DEF Past
      <3> QED
        BY <1>3, <3>1, <3>2 DEF ToSet
    <2>2. call'.home[1] = BlockOf(i, r) /\ p.block \in ToSet(i.region)
      <3>1. PICK b : b = BlockOf(ir, root) /\ call' = [NoCall EXCEPT !.at = 1, !.held = ir.arg[root], !.home = <<b>>]
        BY <1>7 DEF Invoked
      <3>2. call'.home = <<b>>
        BY <3>1 DEF NoCall
      <3>3. point' \in PointsOf(ToSet(ir.region))
        BY DEF Invoked
      <3> QED
        BY <1>3, <3>1, <3>2, <3>3 DEF PointsOf
    <2>3. ASSUME NEW d, Tidy(i, Written(l), d), p.before \in {r, End},
                 SoundIn(i, p) => d[r] \subseteq Ahead(i, p) /\ Ahead(i, p) \subseteq Below(i, r)
          PROVE  CallFits(d)' /\ MatchFits(d)'
      <3>1. PICK m : m = Written(l)
        OBVIOUS
      <3>2. Seated(i) /\ r \in Live(i) /\ Tidy(i, m, d)
        BY <1>1, <1>3, <2>3, <3>1
      <3>3. Fits(i, m, d, r, i.arg[r], {}, BlockOf(i, r), p, {})
        BY <2>2, <2>3, <3>2, FitsFirst
      <3>4. Written(log)' = m
        BY <1>1, <1>2, <1>3, <3>1 DEF Written
      <3>5. CallFits(d)' <=>
               (phase' = "call" /\ root' \in Live(ir)' =>
                   Fits(ir', Written(log)', d, root', call'.held, ToSet(call'.made), call'.home[1], point', Past'))
        BY DEF CallFits
      <3>6. CallFits(d)'
        BY <1>1, <1>2, <1>3, <2>1, <2>2, <3>3, <3>4, <3>5
      <3> QED
        BY <1>7, <3>6 DEF MatchFits
    <2> QED
      BY <1>1, <1>3, <1>5, <2>3, OrderNext DEF OrderInv
  <1> QED
    BY <1>1, <1>6, <1>7

LEMMA OrderMatches ==
    ASSUME OrderInv, SafeInv, Playing, Match
    PROVE  OrderInv'
  <1>1. phase = "match"
    BY DEF Match
  <1>2. CASE root \in Live(ir) /\ ~greedy /\ Unconverted
    <2>1. ~Harmed
      BY <1>2 DEF Harmed
    <2>2. Lost => OrderInv'
      BY <2>1, OrderUndoes DEF Lost
    <2>3. Relisted(Advanced, "legalize") => OrderInv'
      BY <2>1, OrderIdle DEF Relisted, Steady
    <2> QED
      BY <1>1, <1>2, <2>2, <2>3, UnconvertedDoes, OrderFaults
  <1>3. CASE root \in Live(ir) /\ Passed
    <2>1. ~Harmed
      BY <1>3 DEF Harmed
    <2> QED
      BY <1>3, <2>1, OrderIdle DEF Passed, Steady
  <1> QED
    BY <1>1, <1>2, <1>3, MatchDoes, OrderInvokes, OrderFaults

LEMMA OrderAnswers ==
    ASSUME OrderInv, SafeInv, HarmInv, Playing, Answer
    PROVE  OrderInv'
  <1>1. phase = "call" /\ call.at > Len(script.calls)
    BY DEF Answer
  <1>2. CASE phase' = "raised" /\ Steady /\ UNCHANGED <<ir, point, frames, work, log, changed, result>>
    BY <1>2, OrderOver DEF Steady
  <1>3. CASE Followed
    <2>1. ~Harmed
      <3>1. log \in Seq(Entry) /\ Len(log) \in 0 .. Len(log)
        BY DEF Playing, Typed
      <3>2. root \in GoneIn(log, Len(log))
        BY <1>3, <3>1, LogReads DEF Followed
      <3> QED
        BY <1>1, <3>2 DEF HarmInv
    <2> QED
      BY <1>3, <2>1, OrderIdle DEF Followed, Steady
  <1>4. CASE Applauded
    <2>1. ~Harmed
      BY <1>4 DEF Applauded, Harmed
    <2> QED
      BY <1>4, <2>1, OrderIdle DEF Applauded, Steady
  <1>5. CASE Declined
    <2>1. /\ greedy /\ script.answer # "True" /\ frames' = frames /\ phase' = "match" /\ pass' = pass
          /\ ir' = ir /\ log' = log /\ point' = point /\ ~Harmed
      BY <1>5 DEF Declined, Steady, Harmed
    <2>2. root' = root
      BY <2>1 DEF root, frame
    <2>3. PICK i, l : i = ir /\ l = log
      OBVIOUS
    <2>4. ASSUME All(InPlace) PROVE \E d : Tidy(i, Written(l), d) /\ CallFits(d)' /\ MatchFits(d)'
      <3>1. PICK d : Tidy(ir, Written(log), d) /\ CallFits(d)
        BY <2>1, <2>4 DEF OrderInv, Playing
      <3>2. CallFits(d)'
        BY <2>1 DEF CallFits
      <3>3. MatchFits(d)' <=>
               (greedy' /\ phase' = "match" /\ root' \in Live(ir)' =>
                   /\ point'.before \in {root', End}
                   /\ SoundIn(ir', point') => d[root'] \subseteq Ahead(ir', point')
                                              /\ Ahead(ir', point') \subseteq Below(ir', root'))
        BY DEF MatchFits
      <3>4. ASSUME root \in Live(ir)
            PROVE  /\ point.before \in {root, End}
                   /\ SoundIn(ir, point) => d[root] \subseteq Ahead(ir, point) /\ Ahead(ir, point) \subseteq Below(ir, root)
        <4>1. Pointed(ir, d, root, ToSet(call.made), point, Past)
          BY <1>1, <3>1, <3>4 DEF CallFits, Fits
        <4>2. "after" \notin Past
          BY <1>1, <2>1, <2>4, InPlaceCalls
        <4> QED
          BY <4>1, <4>2 DEF Pointed
      <3>5. MatchFits(d)'
        BY <2>1, <2>2, <3>3, <3>4 DEF Live
      <3> QED
        BY <2>3, <3>1, <3>2, <3>5
    <2> QED
      BY <2>1, <2>3, <2>4, OrderNext DEF OrderInv
  <1>6. ASSUME NEW n, NEW j, Discarded(n, j) PROVE OrderInv'
    <2>1. GaveUp(n, j) /\ phase' = "match" /\ frames' = frames /\ pass' = pass /\ ir' = j
          /\ Live(j) \subseteq Live(ir)
      BY <1>6 DEF Discarded, GaveUp, RidTo, Steady
    <2>2. root' = root /\ greedy' = greedy
      BY <2>1, SamePatterns DEF root, frame
    <2>3. Harmed => Harmed'
      BY <2>1, <2>2 DEF Harmed, Live
    <2> QED
      BY <2>1, <2>3, OrderUndoes
  <1> QED
    BY <1>2, <1>3, <1>4, <1>5, <1>6, AnswerDoes, OrderFaults

(***************************************************************************)
(* Every operand is defined before it is used.                             *)
(***************************************************************************)
LEMMA OrderStarts ==
    ASSUME Init
    PROVE  OrderInv
  <1>1. ir \in Programs /\ log = <<>> /\ phase = "start"
    BY DEF Init
  <1>2. Ordered(ir) /\ Seated(ir)
    BY <1>1, ProgramsVerified, ProgramSeated, RewritingAssumption
  <1>3. Written(log) = <<>>
    BY <1>1 DEF Written
  <1>4. \A d : CallFits(d) /\ MatchFits(d)
    BY <1>1 DEF CallFits, MatchFits
  <1>5. PICK d : Tidy(ir, <<>>, d)
    BY <1>2, OperandsTidy
  <1> QED
    BY <1>2, <1>3, <1>4, <1>5 DEF OrderInv

LEMMA OrderStutters ==
    ASSUME OrderInv, UNCHANGED vars
    PROVE  OrderInv'
  <1>1. /\ pass' = pass /\ ir' = ir /\ frames' = frames /\ call' = call /\ log' = log /\ point' = point
        /\ phase' = phase
    BY DEF vars
  <1>2. greedy' = greedy /\ patterns' = patterns
    BY <1>1, SamePatterns
  <1>3. root' = root /\ script' = script /\ Live(ir)' = Live(ir)
    BY <1>1, <1>2 DEF root, frame, script, Live
  <1>4. Past' = Past
    BY <1>1, <1>3 DEF Past, Ran, Over
  <1>5. (Harmed' <=> Harmed) /\ (Underway' <=> Underway)
    BY <1>1, <1>2, <1>3 DEF Harmed, Underway
  <1>6. PICK i, l : i = ir /\ l = log
    OBVIOUS
  <1>7. ASSUME NEW d, CallFits(d) PROVE CallFits(d)'
    <2>1. Written(log)' = Written(log)
      BY <1>1, <1>2 DEF Written
    <2>2. CallFits(d)' <=>
             (phase' = "call" /\ root' \in Live(ir)' =>
                 Fits(ir', Written(log)', d, root', call'.held, ToSet(call'.made), call'.home[1], point', Past'))
      BY DEF CallFits
    <2> QED
      BY <1>1, <1>3, <1>4, <1>7, <2>1, <2>2 DEF CallFits
  <1>8. ASSUME NEW d, MatchFits(d) PROVE MatchFits(d)'
    <2>1. MatchFits(d)' <=>
             (greedy' /\ phase' = "match" /\ root' \in Live(ir)' =>
                 /\ point'.before \in {root', End}
                 /\ SoundIn(ir', point') => d[root'] \subseteq Ahead(ir', point')
                                            /\ Ahead(ir', point') \subseteq Below(ir', root'))
      BY DEF MatchFits
    <2> QED
      BY <1>1, <1>2, <1>3, <1>8, <2>1 DEF MatchFits
  <1>9. All(InPlace) =>
           /\ Ordered(i)
           /\ Underway' /\ ~(Harmed') => \E d : Tidy(i, Written(l), d) /\ CallFits(d)' /\ MatchFits(d)'
    BY <1>5, <1>6, <1>7, <1>8 DEF OrderInv
  <1> QED
    BY <1>1, <1>6, <1>9, OrderNext

LEMMA OrderInductive ==
    ASSUME ConversionInv, GreedyInv, PlaceInv, SafeInv, HarmInv, OrderInv, [Next]_vars
    PROVE  OrderInv'
  <1>1. CASE UNCHANGED vars
    BY <1>1, OrderStutters
  <1>2. CASE Next /\ ~(UNCHANGED vars)
    <2>1. Playing
      BY <1>2, Moving, Invited DEF PlaceInv, Underway
    <2>2. CASE Exhausted
      <3>1. pass' = pass /\ ir' = ir /\ phase' = "cut"
        BY <2>2 DEF Exhausted, Stop
      <3> QED
        BY <3>1, OrderOver
    <2>3. ~Finished
      BY <1>2 DEF Finished
    <2> QED
      BY <1>2, <2>1, <2>2, <2>3, OrderDrives, OrderPops, OrderMatches, OrderAnswers, OrderCreates, OrderPushes,
         OrderErases, OrderUnlinks, OrderSplits, OrderSets, OrderSaves DEF Next
  <1> QED
    BY <1>1, <1>2

(* The pass of lowerToLLVM succeeds with operations that verify.            *)
Lowered == pass.driver = "lower" /\ phase = "done" /\ result = "success" => Ordered(ir)

LEMMA LoweredInductive ==
    ASSUME ConversionInv, GreedyInv, PlaceInv, Lowered, [Next]_vars
    PROVE  Lowered'
  <1>1. CASE UNCHANGED vars
    <2>1. pass' = pass /\ phase' = phase /\ result' = result /\ ir' = ir
      BY <1>1 DEF vars
    <2>2. PICK i : i = ir
      OBVIOUS
    <2>3. Ordered(ir)' <=> Ordered(ir)
      BY <2>1, <2>2, OrderedNext
    <2> QED
      BY <2>1, <2>3 DEF Lowered
  <1>2. CASE Next /\ ~(UNCHANGED vars)
    <2>1. Playing
      BY <1>2, Moving, Invited DEF PlaceInv, Underway
    <2>2. phase # "done"
      BY <2>1 DEF Playing, Underway
    <2>3. CASE Walk \/ Pop \/ Iterate
      <3>1. pass.driver = "greedy" /\ pass' = pass
        BY <2>3 DEF Walk, Pop, Iterate, Fault, Stop, greedy
      <3> QED
        BY <3>1 DEF Lowered
    <2>4. CASE Legalized
      <3>1. CASE ir' = Applied /\ Stop("done", IF Accepted(Applied) THEN "success" ELSE "failure")
        <4>1. pass' = pass /\ (result' = "success" => Accepted(Applied))
          BY <3>1 DEF Stop
        <4>2. PICK i : i = Applied
          OBVIOUS
        <4>3. Ordered(ir)' <=> Ordered(i)
          BY <3>1, <4>2, OrderedNext
        <4> QED
          BY <4>1, <4>2, <4>3 DEF Lowered, Accepted
      <3>2. CASE Fault("used") \/ phase' = phase
        BY <2>2, <3>2 DEF Lowered, Fault, Stop
      <3> QED
        BY <2>4, <3>1, <3>2, Zenon DEF Legalized
    <2>5. CASE Match
      <3>1. phase' = "done" => result' = "failure"
        BY <2>2, <2>5 DEF Match, Unmatched, Unconverted, GiveUp, Surrender, Fault, Stop
      <3> QED
        BY <3>1 DEF Lowered
    <2>6. CASE ~(Walk \/ Pop \/ Iterate \/ Legalized \/ Match \/ Finished)
      <3>1. phase' # "done"
        BY <1>2, <2>2, <2>6 DEF Next, Collect, Legalize, Answer, GiveUp, Create, Push, Replace, Erase, EraseDef,
           EraseOp, Unlink, SplitBlock, SetPoint, SavePoint, RestorePoint, Exhausted, Fault, Stop
      <3> QED
        BY <3>1 DEF Lowered
    <2> QED
      BY <1>2, <2>3, <2>4, <2>5, <2>6 DEF Finished
  <1> QED
    BY <1>1, <1>2

(* When the functions of the patterns insert next to their roots and never  *)
(* go back, every operand is defined before it is used at every step of the *)
(* drivers that ExposeBuilder.cpp calls, in the middle of a function and of *)
(* a conversion, and after its replacements were applied, too; and whatever *)
(* the functions did it is so when lowerToLLVM returns true.                *)
THEOREM OperandsStayDefined == Spec => []DefsFirst
  <1>1. Init => OrderInv /\ Lowered
    <2>1. Init => Lowered
      BY DEF Init, Lowered
    <2> QED
      BY <2>1, OrderStarts
  <1>2. ConversionInv /\ GreedyInv /\ PlaceInv /\ SafeInv /\ HarmInv /\ OrderInv /\ Lowered /\ [Next]_vars
        => OrderInv' /\ Lowered'
    BY OrderInductive, LoweredInductive
  <1>3. OrderInv /\ Lowered => DefsFirst
    BY DEF OrderInv, Lowered, DefsFirst
  <1> QED
    BY <1>1, <1>2, <1>3, SafeAlways, PTL DEF Spec
=============================================================================
