-------------------------- MODULE RewritingProofs --------------------------
(***************************************************************************)
(* Theorems of Rewriting, about what the two drivers return: what a        *)
(* conversion that succeeds leaves is legal, one that fails has restored   *)
(* the operations, and operations on which the greedy driver has converged *)
(* are at a fixpoint, for patterns, targets and operations of any number.  *)
(***************************************************************************)
EXTENDS Rewriting, SequenceTheorems, WellFoundedInduction, TLAPS

(* A set of natural numbers has a least element. *)
LEMMA Least ==
    ASSUME NEW S \in SUBSET Nat, S # {}
    PROVE  \E i \in S : \A j \in S : i <= j
  <1> DEFINE Less == OpToRel(<, Nat)
  <1>1. \A i, j \in Nat : i < j => <<i, j>> \in Less
    BY DEF OpToRel
  <1>2. IsWellFoundedOn(Less, Nat)
    BY NatLessThanWellFounded
  <1> HIDE DEF Less
  <1>3. S \subseteq Nat
    OBVIOUS
  <1>4. \E i \in S : \A j \in S : ~(<<j, i>> \in Less)
    BY <1>2, <1>3, WFMin, ZenonT(30)
  <1>5. PICK i \in S : \A j \in S : ~(<<j, i>> \in Less)
    BY <1>4
  <1>6. ASSUME NEW j \in S PROVE i <= j
    <2>1. i \in Nat /\ j \in Nat /\ ~(j < i)
      BY <1>1, <1>3, <1>5
    <2> QED
      BY <2>1
  <1> QED
    BY <1>5, <1>6

(***************************************************************************)
(* Only: a list without some of its elements.                              *)
(***************************************************************************)
Filters(s, kept, n, f) ==
    f = [m \in 0 .. n |->
           IF m = 0 THEN <<>>
           ELSE IF s[m] \in kept THEN Append(f[m - 1], s[m]) ELSE f[m - 1]]

LEMMA FiltersExist ==
    ASSUME NEW S, NEW s \in Seq(S), NEW kept, NEW n \in Nat
    PROVE  \E f : Filters(s, kept, n, f)
  <1> DEFINE Bad == {m \in Nat : ~ \E f : Filters(s, kept, m, f)}
  <1>1. ASSUME Bad # {} PROVE FALSE
    <2>1. PICK m \in Bad : \A j \in Bad : m <= j
      BY <1>1, Least
    <2>2. m # 0
      <3>1. PICK f : f = [i \in 0 .. 0 |-> <<>>]
        OBVIOUS
      <3>2. \A i \in 0 .. 0 : i = 0
        OBVIOUS
      <3>3. Filters(s, kept, 0, f)
        BY <3>1, <3>2 DEF Filters
      <3> QED
        BY <3>3
    <2>3. m - 1 \in Nat /\ m - 1 \notin Bad
      BY <2>1, <2>2
    <2>4. PICK f : Filters(s, kept, m - 1, f)
      BY <2>3
    <2>5. PICK g : g = [i \in 0 .. m |->
              IF i = m THEN (IF s[m] \in kept THEN Append(f[m - 1], s[m]) ELSE f[m - 1]) ELSE f[i]]
      OBVIOUS
    <2>6. \A i \in 0 .. m - 1 : g[i] = f[i]
      BY <2>3, <2>5
    <2>7. \A i \in 0 .. m : i # 0 => i - 1 \in 0 .. m - 1
      BY <2>3
    <2>8. \A i \in 0 .. m : i # m => i \in 0 .. m - 1
      BY <2>3
    <2>9. \A i \in 0 .. m : g[i] = IF i = 0 THEN <<>>
              ELSE IF s[i] \in kept THEN Append(g[i - 1], s[i]) ELSE g[i - 1]
      <3> SUFFICES ASSUME NEW i \in 0 .. m
                   PROVE  g[i] = IF i = 0 THEN <<>>
                                 ELSE IF s[i] \in kept THEN Append(g[i - 1], s[i]) ELSE g[i - 1]
        OBVIOUS
      <3>1. CASE i = m
        <4>1. g[i] = IF s[m] \in kept THEN Append(f[m - 1], s[m]) ELSE f[m - 1]
          BY <3>1, <2>5
        <4>2. g[m - 1] = f[m - 1]
          BY <2>3, <2>6
        <4> QED
          BY <3>1, <4>1, <4>2, <2>2
      <3>2. CASE i # m
        <4>1. i \in 0 .. m - 1 /\ g[i] = f[i]
          BY <3>2, <2>6, <2>8
        <4>2. f[i] = IF i = 0 THEN <<>>
                     ELSE IF s[i] \in kept THEN Append(f[i - 1], s[i]) ELSE f[i - 1]
          BY <4>1, <2>4 DEF Filters
        <4>3. i # 0 => g[i - 1] = f[i - 1]
          BY <2>6, <2>7
        <4> QED
          BY <4>1, <4>2, <4>3
      <3> QED
        BY <3>1, <3>2
    <2>10. Filters(s, kept, m, g)
      BY <2>5, <2>9 DEF Filters
    <2> QED
      BY <2>1, <2>10
  <1> QED
    BY <1>1

LEMMA FiltersAgree ==
    ASSUME NEW S, NEW s \in Seq(S), NEW t \in Seq(S), NEW kept, NEW n \in Nat, NEW m \in Nat, n <= m,
           \A i \in 1 .. n : s[i] = t[i],
           NEW f, Filters(s, kept, n, f), NEW g, Filters(t, kept, m, g)
    PROVE  f[n] = g[n]
  <1> DEFINE Bad == {i \in 0 .. n : f[i] # g[i]}
  <1>1. ASSUME Bad # {} PROVE FALSE
    <2>1. PICK i \in Bad : \A j \in Bad : i <= j
      <3>1. Bad \in SUBSET Nat
        OBVIOUS
      <3> QED
        BY <1>1, <3>1, Least
    <2>2. i \in 0 .. n /\ i \in 0 .. m /\ i \in Nat
      OBVIOUS
    <2>3. f[i] = IF i = 0 THEN <<>>
                 ELSE IF s[i] \in kept THEN Append(f[i - 1], s[i]) ELSE f[i - 1]
      BY <2>2 DEF Filters
    <2>4. g[i] = IF i = 0 THEN <<>>
                 ELSE IF t[i] \in kept THEN Append(g[i - 1], t[i]) ELSE g[i - 1]
      BY <2>2 DEF Filters
    <2>5. i # 0
      BY <2>3, <2>4
    <2>6. i - 1 \in 0 .. n /\ i - 1 \notin Bad /\ i \in 1 .. n
      BY <2>1, <2>2, <2>5
    <2>7. f[i - 1] = g[i - 1] /\ s[i] = t[i]
      BY <2>6
    <2> QED
      BY <2>3, <2>4, <2>5, <2>7
  <1>2. n \in 0 .. n
    OBVIOUS
  <1> QED
    BY <1>1, <1>2

LEMMA OnlyFilters ==
    ASSUME NEW S, NEW s \in Seq(S), NEW kept
    PROVE  \E f : Filters(s, kept, Len(s), f) /\ Only(s, kept) = f[Len(s)]
  <1> DEFINE only == CHOOSE f : f = [m \in 0 .. Len(s) |->
                        IF m = 0 THEN <<>>
                        ELSE IF s[m] \in kept THEN Append(f[m - 1], s[m]) ELSE f[m - 1]]
  <1>1. Only(s, kept) = only[Len(s)]
    BY DEF Only
  <1>2. \E f : f = [m \in 0 .. Len(s) |->
                        IF m = 0 THEN <<>>
                        ELSE IF s[m] \in kept THEN Append(f[m - 1], s[m]) ELSE f[m - 1]]
    <2>1. Len(s) \in Nat
      OBVIOUS
    <2>2. PICK f : Filters(s, kept, Len(s), f)
      BY <2>1, FiltersExist
    <2> QED
      BY <2>2 DEF Filters
  <1>3. Filters(s, kept, Len(s), only)
    BY <1>2 DEF Filters
  <1> QED
    BY <1>1, <1>3

LEMMA OnlyOfEmpty ==
    ASSUME NEW kept
    PROVE  Only(<<>>, kept) = <<>>
  <1>1. <<>> \in Seq({}) /\ Len(<<>>) = 0
    OBVIOUS
  <1>2. PICK f : Filters(<<>>, kept, 0, f) /\ Only(<<>>, kept) = f[0]
    BY <1>1, OnlyFilters
  <1>3. 0 \in 0 .. 0
    OBVIOUS
  <1> QED
    BY <1>2, <1>3 DEF Filters

LEMMA OnlyOfAppend ==
    ASSUME NEW S, NEW s \in Seq(S), NEW x \in S, NEW kept
    PROVE  Only(Append(s, x), kept) = IF x \in kept THEN Append(Only(s, kept), x) ELSE Only(s, kept)
  <1>0. Append(s, x) \in Seq(S)
    OBVIOUS
  <1>1. PICK t \in Seq(S) : t = Append(s, x)
    BY <1>0
  <1>2. PICK n \in Nat : n = Len(s)
    OBVIOUS
  <1>3. Len(t) = n + 1 /\ t[n + 1] = x /\ \A i \in 1 .. n : t[i] = s[i]
    BY <1>1, <1>2
  <1>4. PICK f : Filters(s, kept, n, f) /\ Only(s, kept) = f[n]
    BY <1>2, OnlyFilters
  <1>5. PICK g : Filters(t, kept, n + 1, g) /\ Only(t, kept) = g[n + 1]
    BY <1>3, OnlyFilters
  <1>6. g[n + 1] = IF t[n + 1] \in kept THEN Append(g[n], t[n + 1]) ELSE g[n]
    <2>1. n + 1 \in 0 .. n + 1 /\ n + 1 # 0 /\ (n + 1) - 1 = n
      OBVIOUS
    <2> QED
      BY <1>5, <2>1 DEF Filters
  <1>7. f[n] = g[n]
    BY <1>3, <1>4, <1>5, FiltersAgree
  <1> QED
    BY <1>1, <1>3, <1>4, <1>5, <1>6, <1>7

(* What holds of every list is shown by the shortest one for which it does  *)
(* not.  Such a list is not empty, and it does without its last element.    *)
LEMMA Shortest ==
    ASSUME NEW S, NEW Wrong \in SUBSET Seq(S), Wrong # {}
    PROVE  \/ <<>> \in Wrong
           \/ \E s \in Seq(S), x \in S : s \notin Wrong /\ Append(s, x) \in Wrong
  <1> DEFINE Lengths == {n \in Nat : \E s \in Wrong : Len(s) = n}
  <1>1. \A s \in Wrong : Len(s) \in Lengths
    OBVIOUS
  <1>2. Lengths # {} /\ Lengths \in SUBSET Nat
    BY <1>1
  <1> HIDE DEF Lengths
  <1>3. PICK n \in Lengths : \A m \in Lengths : n <= m
    BY <1>2, Least
  <1>4. PICK w \in Wrong : Len(w) = n
    BY <1>3 DEF Lengths
  <1>5. CASE w = <<>>
    BY <1>4, <1>5
  <1>6. CASE w # <<>>
    <2>1. PICK s \in Seq(S), x \in S : w = Append(s, x)
      BY <1>6, SequenceEmptyOrAppend
    <2>2. Len(s) < n /\ n \in Nat
      BY <1>4, <2>1
    <2>3. s \notin Wrong
      BY <1>1, <1>3, <2>2
    <2> QED
      BY <1>4, <2>1, <2>3
  <1> QED
    BY <1>5, <1>6

LEMMA ToSetOfAppend ==
    ASSUME NEW S, NEW s \in Seq(S), NEW x
    PROVE  ToSet(Append(s, x)) = ToSet(s) \cup {x}
  <1>1. PICK n \in Nat : n = Len(s)
    OBVIOUS
  <1>2. /\ DOMAIN s = 1 .. n /\ DOMAIN Append(s, x) = 1 .. n + 1
        /\ Append(s, x)[n + 1] = x /\ \A i \in 1 .. n : Append(s, x)[i] = s[i]
    BY <1>1
  <1>3. 1 .. n + 1 = 1 .. n \cup {n + 1}
    OBVIOUS
  <1> QED
    BY <1>2, <1>3 DEF ToSet

LEMMA OnlyType ==
    ASSUME NEW S, NEW s \in Seq(S), NEW kept
    PROVE  Only(s, kept) \in Seq(S) /\ ToSet(Only(s, kept)) = ToSet(s) \cap kept
  <1> DEFINE Right(t) == Only(t, kept) \in Seq(S) /\ ToSet(Only(t, kept)) = ToSet(t) \cap kept
             Wrong == {t \in Seq(S) : ~Right(t)}
  <1>1. Right(<<>>)
    <2>1. ToSet(<<>>) = {}
      BY DEF ToSet
    <2>2. Only(<<>>, kept) = <<>> /\ <<>> \in Seq(S)
      BY OnlyOfEmpty
    <2> QED
      BY <2>1, <2>2
  <1>2. ASSUME NEW t \in Seq(S), NEW x \in S, Right(t)
        PROVE  Right(Append(t, x))
    <2>1. Only(Append(t, x), kept) = IF x \in kept THEN Append(Only(t, kept), x) ELSE Only(t, kept)
      BY OnlyOfAppend
    <2>2. ToSet(Append(t, x)) = ToSet(t) \cup {x}
      BY ToSetOfAppend
    <2>3. x \in kept => ToSet(Append(Only(t, kept), x)) = ToSet(Only(t, kept)) \cup {x}
      BY <1>2, ToSetOfAppend
    <2> QED
      BY <1>2, <2>1, <2>2, <2>3
  <1>3. Wrong = {}
    <2>1. \A t \in Seq(S), x \in S : t \notin Wrong => Append(t, x) \notin Wrong
      BY <1>2
    <2>2. <<>> \notin Wrong
      BY <1>1
    <2>3. Wrong \in SUBSET Seq(S)
      OBVIOUS
    <2> HIDE DEF Wrong
    <2> QED
      BY <2>1, <2>2, <2>3, Shortest
  <1> QED
    BY <1>3
(***************************************************************************)
(* The invariant of a conversion.  What the log says since an entry, and   *)
(* up to one: the operations created, and those replaced.                  *)
(***************************************************************************)
Entry == [did : {"create"}, op : Ops] \cup [did : {"replace"}, op : Ops, by : Ops \cup {None}]
MadeIn(l, n) == {l[k].op : k \in {j \in n + 1 .. Len(l) : l[j].did = "create"}}
GoneIn(l, n) == {l[k].op : k \in {j \in 1 .. n : l[j].did = "replace"}}

Frame == [op : Ops \cup {None}, tried : Nat, mark : Nat, todo : Seq(Ops)]

Typed ==
    /\ IsPass(pass)
    /\ DOMAIN ir = {"kind", "arg", "body", "region"}
    /\ ir.kind \in [Ops -> Kinds \cup {Freed}] /\ ir.arg \in [Ops -> Ops \cup {None}]
    /\ log \in Seq(Entry) /\ frames \in Seq(Frame)
    /\ DOMAIN call = {"at", "held", "home", "made", "saved"}
    /\ call.at \in Nat /\ call.held \in Ops \cup {None} /\ call.made \in Seq(Ops)

Running == phase \in {"start", "legalize", "match", "call"}

(* The frames nest: each has the operation that is next in the one below.   *)
Nesting(fs) ==
    \A n \in 2 .. Len(fs) :
        /\ fs[n - 1].todo # <<>> /\ fs[n].op = Head(fs[n - 1].todo)
        /\ \A m \in 1 .. n - 1 : fs[m].mark <= fs[n].mark

(* An operation was replaced before what its pattern created was taken up.  *)
RootsGone(fs, l) == \A n \in 3 .. Len(fs) : fs[n - 1].op \in GoneIn(l, fs[n].mark)

Shape ==
    /\ phase = "start" => ir \in Programs /\ log = <<>>
    /\ phase # "start" => frames # <<>>
    /\ phase \in {"match", "call"} => Len(frames) > 1
    /\ \A n \in 1 .. Len(frames) : frames[n].mark <= Len(log)
    /\ Nesting(frames) /\ RootsGone(frames, log)
    /\ phase = "legalize" /\ Len(frames) > 1 => root \in GoneIn(log, Len(log))
    /\ phase = "match" => frame.mark = Len(log)
    /\ phase = "call" => frame.tried \in DOMAIN patterns /\ call.at # 0

(* Operations that may stay, those still to come in the frames up to one.   *)
Allowed(k) == IF pass.driver = "full" THEN Action(k) = "legal" ELSE Action(k) # "illegal"
Queued(fs, n, o) == \E m \in 1 .. n : o \in ToSet(fs[m].todo)

(* When what was done since a frame was opened is taken back, every         *)
(* operation may stay, was replaced before, or is still to come below it.   *)
CoveredBelow(i, fs, l) ==
    \A n \in 2 .. Len(fs) : \A o \in Live(i) \ MadeIn(l, fs[n].mark) :
        \/ Allowed(i.kind[o])
        \/ o \in GoneIn(l, fs[n].mark)
        \/ Queued(fs, n - 1, o)

Covered(i, fs, l) ==
    \A o \in Live(i) :
        Allowed(i.kind[o]) \/ o \in GoneIn(l, Len(l)) \/ Queued(fs, Len(fs), o)

Coverage ==
    All(HeardOf) =>
        /\ CoveredBelow(ir, frames, log)
        /\ phase = "legalize" => Covered(ir, frames, log)

ConversionInv ==
    ~greedy =>
        /\ Running => Typed /\ Shape /\ Coverage
        /\ ConvertedIsLegal
(***************************************************************************)
(* The log.                                                                *)
(***************************************************************************)
(* The entries of the log of one sort since a mark.                         *)
LEMMA EntriesRead ==
    ASSUME log \in Seq(Entry), NEW m \in 0 .. Len(log), NEW did
    PROVE  /\ EntriesSince(m, did) \in Seq(Entry)
           /\ ToSet(EntriesSince(m, did)) = {log[k] : k \in {j \in m + 1 .. Len(log) : log[j].did = did}}
  <1>1. PICK z \in Nat : z = Len(log)
    OBVIOUS
  <1>2. PICK s : s = SubSeq(log, m + 1, z)
    OBVIOUS
  <1>3. s \in Seq(Entry) /\ Len(s) = z - m /\ \A i \in 1 .. z - m : s[i] = log[m + i]
    BY <1>1, <1>2, SubSeqProperties
  <1>4. ToSet(s) = {log[k] : k \in m + 1 .. z}
    <2>1. \A k \in m + 1 .. z : k - m \in 1 .. z - m /\ log[k] = s[k - m]
      BY <1>1, <1>3
    <2>2. \A i \in 1 .. z - m : m + i \in m + 1 .. z
      BY <1>1
    <2>3. DOMAIN s = 1 .. z - m
      BY <1>3
    <2>4. ToSet(s) = {s[i] : i \in 1 .. z - m}
      BY <2>3 DEF ToSet
    <2>5. \A x \in ToSet(s) : \E k \in m + 1 .. z : x = log[k]
      BY <1>3, <2>2, <2>4
    <2>6. \A k \in m + 1 .. z : log[k] \in ToSet(s)
      BY <2>1, <2>4
    <2> QED
      BY <2>5, <2>6
  <1>5. PICK T : T = {e \in ToSet(log) : e.did = did}
    OBVIOUS
  <1>6. Only(s, T) \in Seq(Entry) /\ ToSet(Only(s, T)) = ToSet(s) \cap T
    BY <1>3, OnlyType
  <1>7. ToSet(s) \subseteq ToSet(log)
    <2>1. DOMAIN log = 1 .. z /\ m \in 0 .. z
      BY <1>1
    <2>2. \A k \in m + 1 .. z : k \in 1 .. z
      BY <2>1
    <2> QED
      BY <1>4, <2>1, <2>2 DEF ToSet
  <1>8. EntriesSince(m, did) = Only(s, T)
    BY <1>1, <1>2, <1>5 DEF EntriesSince
  <1> QED
    BY <1>1, <1>4, <1>5, <1>6, <1>7, <1>8

LEMMA LogReads ==
    ASSUME log \in Seq(Entry), NEW n \in 0 .. Len(log)
    PROVE  /\ ToSet(CreatedSince(n)) = MadeIn(log, n)
           /\ CreatedSince(n) \in Seq(Ops)
           /\ Replaced = GoneIn(log, Len(log))
  <1>1. ASSUME NEW m \in 0 .. Len(log), NEW did
        PROVE  /\ EntriesSince(m, did) \in Seq(Entry)
               /\ ToSet(EntriesSince(m, did)) = {log[k] : k \in {j \in m + 1 .. Len(log) : log[j].did = did}}
    BY EntriesRead
  <1>2. PICK made : made = EntriesSince(n, "create")
    OBVIOUS
  <1>3. /\ made \in Seq(Entry)
        /\ ToSet(made) = {log[k] : k \in {j \in n + 1 .. Len(log) : log[j].did = "create"}}
    BY <1>1, <1>2
  <1>4. CreatedSince(n) = [m \in DOMAIN made |-> made[m].op]
    BY <1>2 DEF CreatedSince
  <1>5. \A e \in Entry : e.op \in Ops
    BY DEF Entry
  <1>6. \A m \in DOMAIN made : made[m] \in Entry
    BY <1>3
  <1>7. [m \in DOMAIN made |-> made[m].op] \in Seq(Ops)
    <2>1. \A m \in 1 .. Len(made) : made[m].op \in Ops
      BY <1>3, <1>5
    <2> QED
      BY <1>3, <2>1
  <1>8. ToSet(CreatedSince(n)) = {e.op : e \in ToSet(made)}
    BY <1>4 DEF ToSet
  <1>9. ToSet(CreatedSince(n)) = MadeIn(log, n)
    BY <1>3, <1>8 DEF MadeIn
  <1>10. Replaced = {e.op : e \in {log[k] : k \in {j \in 1 .. Len(log) : log[j].did = "replace"}}}
    <2>1. 0 \in 0 .. Len(log) /\ 0 + 1 = 1
      OBVIOUS
    <2> QED
      BY <1>1, <2>1 DEF Replaced, Entries
  <1>11. Replaced = GoneIn(log, Len(log))
    BY <1>10 DEF GoneIn
  <1> QED
    BY <1>4, <1>7, <1>9, <1>11

LEMMA LogGrows ==
    ASSUME NEW l \in Seq(Entry), NEW e \in Entry, NEW n \in 0 .. Len(l)
    PROVE  /\ Append(l, e) \in Seq(Entry) /\ Len(Append(l, e)) = Len(l) + 1
           /\ e.did = "create" => MadeIn(Append(l, e), n) = MadeIn(l, n) \cup {e.op}
           /\ e.did = "replace" => MadeIn(Append(l, e), n) = MadeIn(l, n)
           /\ e.did = "replace" => e.op \in GoneIn(Append(l, e), Len(l) + 1)
           /\ GoneIn(Append(l, e), n) = GoneIn(l, n)
           /\ GoneIn(l, Len(l)) \subseteq GoneIn(Append(l, e), Len(l) + 1)
  <1>0. Append(l, e) \in Seq(Entry)
    OBVIOUS
  <1>1. PICK z \in Nat : z = Len(l)
    OBVIOUS
  <1>2. PICK m \in Seq(Entry) : m = Append(l, e)
    BY <1>0
  <1>3. Len(m) = z + 1 /\ m[z + 1] = e /\ \A k \in 1 .. z : m[k] = l[k]
    BY <1>1, <1>2
  <1>4. n + 1 .. z + 1 = (n + 1 .. z) \cup {z + 1} /\ 1 .. z + 1 = (1 .. z) \cup {z + 1}
    BY <1>1
  <1>5. (n + 1 .. z) \subseteq 1 .. z /\ (1 .. n) \subseteq 1 .. z
    BY <1>1
  <1>6. e.did = "create" => MadeIn(m, n) = MadeIn(l, n) \cup {e.op}
    BY <1>1, <1>3, <1>4, <1>5 DEF MadeIn
  <1>7. e.did = "replace" => MadeIn(m, n) = MadeIn(l, n)
    BY <1>1, <1>3, <1>4, <1>5 DEF MadeIn
  <1>8. e.did = "replace" => e.op \in GoneIn(m, z + 1)
    BY <1>1, <1>3, <1>4 DEF GoneIn
  <1>9. GoneIn(m, n) = GoneIn(l, n) /\ GoneIn(l, z) \subseteq GoneIn(m, z + 1)
    BY <1>1, <1>3, <1>4, <1>5 DEF GoneIn
  <1> QED
    BY <1>1, <1>2, <1>3, <1>6, <1>7, <1>8, <1>9

LEMMA LogCut ==
    ASSUME NEW l \in Seq(Entry), NEW m \in 0 .. Len(l), NEW n \in 0 .. m
    PROVE  /\ SubSeq(l, 1, m) \in Seq(Entry) /\ Len(SubSeq(l, 1, m)) = m
           /\ GoneIn(SubSeq(l, 1, m), n) = GoneIn(l, n)
           /\ MadeIn(l, n) = MadeIn(SubSeq(l, 1, m), n) \cup MadeIn(l, m)
  <1>1. PICK z \in Nat : z = Len(l)
    OBVIOUS
  <1>2. PICK c : c = SubSeq(l, 1, m)
    OBVIOUS
  <1>3. c \in Seq(Entry) /\ Len(c) = m /\ \A k \in 1 .. m : c[k] = l[k]
    <2>1. m \in Nat /\ m <= z
      BY <1>1
    <2> QED
      BY <1>1, <1>2, <2>1, SubSeqProperties
  <1>4. (1 .. n) \subseteq 1 .. m /\ (n + 1 .. m) \subseteq 1 .. m
    OBVIOUS
  <1>5. n + 1 .. z = (n + 1 .. m) \cup (m + 1 .. z)
    BY <1>1
  <1>6. GoneIn(c, n) = GoneIn(l, n)
    BY <1>3, <1>4 DEF GoneIn
  <1>7. MadeIn(l, n) = MadeIn(c, n) \cup MadeIn(l, m)
    BY <1>1, <1>3, <1>4, <1>5 DEF MadeIn
  <1> QED
    BY <1>2, <1>3, <1>6, <1>7
(***************************************************************************)
(* The frames.                                                             *)
(***************************************************************************)
LEMMA FrameTodo ==
    ASSUME NEW fs \in Seq(Frame), fs # <<>>, NEW v \in Seq(Ops)
    PROVE  \E gs \in Seq(Frame) :
              /\ gs = [fs EXCEPT ![Len(fs)].todo = v]
              /\ Len(gs) = Len(fs) /\ \A m \in 1 .. Len(fs) - 1 : gs[m] = fs[m]
              /\ gs[Len(fs)].todo = v
              /\ gs[Len(fs)].op = fs[Len(fs)].op /\ gs[Len(fs)].mark = fs[Len(fs)].mark
              /\ gs[Len(fs)].tried = fs[Len(fs)].tried
  <1>1. PICK n \in Nat : n = Len(fs)
    OBVIOUS
  <1>2. n \in 1 .. n /\ DOMAIN fs = 1 .. n
    BY <1>1
  <1>3. fs[n] \in Frame
    BY <1>1, <1>2
  <1>4. PICK f : f = [fs[n] EXCEPT !.todo = v]
    OBVIOUS
  <1>5. f \in Frame /\ f.todo = v /\ f.op = fs[n].op /\ f.mark = fs[n].mark /\ f.tried = fs[n].tried
    BY <1>3, <1>4 DEF Frame
  <1>6. [fs EXCEPT ![n] = f] \in Seq(Frame) /\ Len([fs EXCEPT ![n] = f]) = n
    BY <1>1, <1>2, <1>5, ExceptSeq
  <1>7. PICK gs \in Seq(Frame) : gs = [fs EXCEPT ![n] = f]
    BY <1>6
  <1>8. gs[n] = f /\ \A m \in 1 .. n - 1 : gs[m] = fs[m]
    BY <1>2, <1>7
  <1>9. gs = [fs EXCEPT ![n].todo = v]
    BY <1>4, <1>7
  <1>10. Len(gs) = n
    BY <1>6, <1>7
  <1> QED
    BY <1>1, <1>5, <1>8, <1>9, <1>10, Zenon

LEMMA FrameTried ==
    ASSUME NEW fs \in Seq(Frame), fs # <<>>, NEW v \in Nat
    PROVE  \E gs \in Seq(Frame) :
              /\ gs = [fs EXCEPT ![Len(fs)].tried = v]
              /\ Len(gs) = Len(fs) /\ \A m \in 1 .. Len(fs) - 1 : gs[m] = fs[m]
              /\ gs[Len(fs)].tried = v
              /\ gs[Len(fs)].op = fs[Len(fs)].op /\ gs[Len(fs)].mark = fs[Len(fs)].mark
              /\ gs[Len(fs)].todo = fs[Len(fs)].todo
  <1>1. PICK n \in Nat : n = Len(fs)
    OBVIOUS
  <1>2. n \in 1 .. n /\ DOMAIN fs = 1 .. n
    BY <1>1
  <1>3. fs[n] \in Frame
    BY <1>1, <1>2
  <1>4. PICK f : f = [fs[n] EXCEPT !.tried = v]
    OBVIOUS
  <1>5. f \in Frame /\ f.tried = v /\ f.op = fs[n].op /\ f.mark = fs[n].mark /\ f.todo = fs[n].todo
    BY <1>3, <1>4 DEF Frame
  <1>6. [fs EXCEPT ![n] = f] \in Seq(Frame) /\ Len([fs EXCEPT ![n] = f]) = n
    BY <1>1, <1>2, <1>5, ExceptSeq
  <1>7. PICK gs \in Seq(Frame) : gs = [fs EXCEPT ![n] = f]
    BY <1>6
  <1>8. gs[n] = f /\ \A m \in 1 .. n - 1 : gs[m] = fs[m]
    BY <1>2, <1>7
  <1>9. gs = [fs EXCEPT ![n].tried = v]
    BY <1>4, <1>7
  <1>10. Len(gs) = n
    BY <1>6, <1>7
  <1> QED
    BY <1>1, <1>5, <1>8, <1>9, <1>10, Zenon

LEMMA FramePopped ==
    ASSUME NEW fs \in Seq(Frame), Len(fs) > 1, NEW v \in Seq(Ops)
    PROVE  \E gs \in Seq(Frame) :
              /\ gs = [Front(fs) EXCEPT ![Len(fs) - 1].todo = v]
              /\ Len(gs) = Len(fs) - 1 /\ \A m \in 1 .. Len(fs) - 2 : gs[m] = fs[m]
              /\ gs[Len(fs) - 1].op = fs[Len(fs) - 1].op
              /\ gs[Len(fs) - 1].mark = fs[Len(fs) - 1].mark
              /\ gs[Len(fs) - 1].todo = v
  <1>1. PICK n \in Nat : n = Len(fs) - 1
    OBVIOUS
  <1>2. /\ Front(fs) \in Seq(Frame) /\ Len(Front(fs)) = n
        /\ \A m \in 1 .. n : Front(fs)[m] = fs[m]
    BY <1>1, SubSeqProperties DEF Front
  <1>3. PICK ds \in Seq(Frame) : ds = Front(fs)
    BY <1>2
  <1>4. ds # <<>> /\ Len(ds) = n /\ n \in 1 .. n /\ \A m \in 1 .. n : ds[m] = fs[m]
    BY <1>1, <1>2, <1>3
  <1>5. PICK gs \in Seq(Frame) :
              /\ gs = [ds EXCEPT ![Len(ds)].todo = v]
              /\ Len(gs) = Len(ds) /\ \A m \in 1 .. Len(ds) - 1 : gs[m] = ds[m]
              /\ gs[Len(ds)].todo = v
              /\ gs[Len(ds)].op = ds[Len(ds)].op /\ gs[Len(ds)].mark = ds[Len(ds)].mark
    BY <1>4, FrameTodo, ZenonT(30)
  <1>6. gs = [Front(fs) EXCEPT ![n].todo = v]
    BY <1>3, <1>4, <1>5, Zenon
  <1>7. Len(gs) = n /\ gs[n].todo = v /\ gs[n].op = fs[n].op /\ gs[n].mark = fs[n].mark
    BY <1>4, <1>5
  <1>8. \A m \in 1 .. n - 1 : gs[m] = fs[m]
    <2>1. (1 .. n - 1) \subseteq 1 .. n
      OBVIOUS
    <2> QED
      BY <1>4, <1>5, <2>1
  <1>9. n - 1 = Len(fs) - 2
    BY <1>1
  <1> QED
    BY <1>1, <1>6, <1>7, <1>8, <1>9, Zenon

(* What is said of the frames below one does not depend on its own list.    *)
LEMMA SameBelow ==
    ASSUME NEW fs \in Seq(Frame), NEW gs \in Seq(Frame), NEW l, NEW i,
           Len(gs) <= Len(fs), \A n \in 1 .. Len(gs) - 1 : gs[n] = fs[n],
           Len(gs) > 0 => /\ gs[Len(gs)].op = fs[Len(gs)].op
                          /\ gs[Len(gs)].mark = fs[Len(gs)].mark
    PROVE  /\ Nesting(fs) => Nesting(gs)
           /\ RootsGone(fs, l) => RootsGone(gs, l)
           /\ CoveredBelow(i, fs, l) => CoveredBelow(i, gs, l)
           /\ \A z \in Nat : (\A n \in 1 .. Len(fs) : fs[n].mark <= z)
                                => \A n \in 1 .. Len(gs) : gs[n].mark <= z
  <1>1. PICK k \in Nat : k = Len(gs)
    OBVIOUS
  <1>2. PICK h \in Nat : h = Len(fs)
    OBVIOUS
  <1>3. \A n \in 1 .. k : n \in 1 .. h /\ gs[n].op = fs[n].op /\ gs[n].mark = fs[n].mark
    <2>1. \A n \in 1 .. k : n = k \/ n \in 1 .. k - 1
      OBVIOUS
    <2> QED
      BY <1>1, <1>2, <2>1
  <1>4. \A n \in 2 .. k : n \in 1 .. k /\ n - 1 \in 1 .. k - 1 /\ n \in 2 .. h /\ gs[n - 1] = fs[n - 1]
    BY <1>1, <1>2
  <1>5. \A n \in 3 .. k : n \in 2 .. k /\ n \in 3 .. h
    BY <1>1, <1>2
  <1>6. Nesting(fs) => Nesting(gs)
    <2>1. \A n \in 2 .. k : \A m \in 1 .. n - 1 : m \in 1 .. k /\ m \in 1 .. k - 1
      OBVIOUS
    <2> QED
      BY <1>1, <1>2, <1>3, <1>4, <2>1 DEF Nesting
  <1>7. RootsGone(fs, l) => RootsGone(gs, l)
    BY <1>1, <1>2, <1>3, <1>4, <1>5 DEF RootsGone
  <1>8. \A n \in 2 .. k : \A o : Queued(fs, n - 1, o) => Queued(gs, n - 1, o)
    <2>1. \A n \in 2 .. k : \A m \in 1 .. n - 1 : m \in 1 .. k - 1
      OBVIOUS
    <2> QED
      BY <1>1, <2>1 DEF Queued
  <1>9. CoveredBelow(i, fs, l) => CoveredBelow(i, gs, l)
    BY <1>1, <1>2, <1>3, <1>4, <1>8 DEF CoveredBelow
  <1> QED
    BY <1>1, <1>2, <1>3, <1>6, <1>7, <1>9

(***************************************************************************)
(* The operations.                                                         *)
(***************************************************************************)
KindsTyped(i) ==
    /\ DOMAIN i = {"kind", "arg", "body", "region"}
    /\ i.kind \in [Ops -> Kinds \cup {Freed}] /\ i.arg \in [Ops -> Ops \cup {None}]

LEMMA GrownFacts ==
    ASSUME NEW i, KindsTyped(i), NEW o \in Ops, NEW k \in Kinds, NEW a \in Ops \cup {None},
           NEW b, NEW before
    PROVE  /\ KindsTyped(Grown(i, o, k, a, b, before))
           /\ Live(Grown(i, o, k, a, b, before)) = Live(i) \cup {o}
           /\ Grown(i, o, k, a, b, before).kind[o] = k
           /\ \A x \in Live(i) \ {o} : Grown(i, o, k, a, b, before).kind[x] = i.kind[x]
  <1>1. PICK j : j = Grown(i, o, k, a, b, before)
    OBVIOUS
  <1>2. DOMAIN j = DOMAIN i /\ j.kind = [i.kind EXCEPT ![o] = k] /\ j.arg = [i.arg EXCEPT ![o] = a]
    BY <1>1 DEF Grown, KindsTyped
  <1>3. k # Freed
    BY RewritingAssumption DEF Freed
  <1>4. KindsTyped(j)
    BY <1>2 DEF KindsTyped
  <1>5. \A x \in Ops : j.kind[x] = IF x = o THEN k ELSE i.kind[x]
    BY <1>2 DEF KindsTyped
  <1>6. Live(j) = Live(i) \cup {o}
    BY <1>3, <1>5 DEF Live
  <1>7. j.kind[o] = k /\ \A x \in Live(i) \ {o} : j.kind[x] = i.kind[x]
    BY <1>5 DEF Live
  <1> QED
    BY <1>1, <1>2, <1>4, <1>6, <1>7

LEMMA RidFacts ==
    ASSUME NEW i, KindsTyped(i), NEW gone
    PROVE  LET j == Rid(i, gone)
           IN /\ KindsTyped(j) /\ Live(j) = Live(i) \ gone
              /\ \A x \in Live(j) : j.kind[x] = i.kind[x] /\ j.arg[x] = i.arg[x]
              /\ \A x \in Ops \ Live(j) : i.kind[x] = Freed \/ (x \in gone /\ j.arg[x] = None)
  <1>1. PICK j : j = Rid(i, gone)
    OBVIOUS
  <1>2. /\ DOMAIN j = DOMAIN i
        /\ j.kind = [o \in Ops |-> IF o \in gone THEN Freed ELSE i.kind[o]]
        /\ j.arg = [o \in Ops |-> IF o \in gone THEN None ELSE i.arg[o]]
    BY <1>1 DEF Rid, KindsTyped
  <1>3. KindsTyped(j)
    BY <1>2 DEF KindsTyped
  <1> QED
    BY <1>1, <1>2, <1>3 DEF Live
(***************************************************************************)
(* FlattenSeq.                                                             *)
(***************************************************************************)
LEMMA ToSetOfConcat ==
    ASSUME NEW S, NEW s \in Seq(S), NEW t \in Seq(S)
    PROVE  ToSet(s \o t) = ToSet(s) \cup ToSet(t)
  <1>1. PICK n \in Nat, m \in Nat : n = Len(s) /\ m = Len(t)
    OBVIOUS
  <1>2. PICK q \in Seq(S) : q = s \o t
    BY ConcatProperties
  <1>3. /\ DOMAIN q = 1 .. n + m /\ DOMAIN s = 1 .. n /\ DOMAIN t = 1 .. m
        /\ \A i \in 1 .. n : q[i] = s[i]
        /\ \A i \in 1 .. m : q[n + i] = t[i]
    BY <1>1, <1>2
  <1>4. \A i \in 1 .. n : i \in 1 .. n + m
    BY <1>1
  <1>5. \A i \in 1 .. m : n + i \in 1 .. n + m
    BY <1>1
  <1>6. \A i \in 1 .. n + m : i \in 1 .. n \/ (i - n \in 1 .. m /\ i = n + (i - n))
    BY <1>1
  <1>7. ToSet(q) = {q[i] : i \in 1 .. n + m} /\ ToSet(s) = {s[i] : i \in 1 .. n}
        /\ ToSet(t) = {t[i] : i \in 1 .. m}
    BY <1>3 DEF ToSet
  <1>8. ToSet(q) \subseteq ToSet(s) \cup ToSet(t)
    <2> SUFFICES ASSUME NEW i \in 1 .. n + m PROVE q[i] \in ToSet(s) \cup ToSet(t)
      BY <1>7
    <2>1. CASE i \in 1 .. n
      BY <1>3, <1>7, <2>1
    <2>2. CASE i - n \in 1 .. m /\ i = n + (i - n)
      <3>1. q[n + (i - n)] = t[i - n]
        BY <1>3, <2>2
      <3> QED
        BY <1>7, <2>2, <3>1
    <2> QED
      BY <1>6, <2>1, <2>2
  <1>9. ToSet(s) \subseteq ToSet(q)
    BY <1>3, <1>4, <1>7
  <1>10. ToSet(t) \subseteq ToSet(q)
    <2> SUFFICES ASSUME NEW i \in 1 .. m PROVE t[i] \in ToSet(q)
      BY <1>7
    <2>1. t[i] = q[n + i] /\ n + i \in 1 .. n + m
      BY <1>3, <1>5
    <2> QED
      BY <1>7, <2>1
  <1> QED
    BY <1>2, <1>8, <1>9, <1>10

Joins(args, n, f) ==
    f = [i \in 1 .. n |-> IF i = 1 THEN args[i] ELSE f[i - 1] \o args[i]]

LEMMA JoinsExist ==
    ASSUME NEW args, NEW n \in Nat
    PROVE  \E f : Joins(args, n, f)
  <1> DEFINE Bad == {m \in Nat : ~ \E f : Joins(args, m, f)}
  <1>1. ASSUME Bad # {} PROVE FALSE
    <2>1. PICK m \in Bad : \A j \in Bad : m <= j
      BY <1>1, Least
    <2>2. m # 0
      <3>1. PICK f : f = [i \in 1 .. 0 |-> <<>>]
        OBVIOUS
      <3>2. 1 .. 0 = {}
        OBVIOUS
      <3>3. Joins(args, 0, f)
        BY <3>1, <3>2 DEF Joins
      <3> QED
        BY <3>3
    <2>3. m - 1 \in Nat /\ m - 1 \notin Bad
      BY <2>1, <2>2
    <2>4. PICK f : Joins(args, m - 1, f)
      BY <2>3
    <2>5. PICK g : g = [i \in 1 .. m |->
              IF i # m THEN f[i] ELSE IF m = 1 THEN args[m] ELSE f[m - 1] \o args[m]]
      OBVIOUS
    <2>6. \A i \in 1 .. m : i # m => i \in 1 .. m - 1
      BY <2>3
    <2>7. \A i \in 1 .. m : i # 1 => i - 1 \in 1 .. m - 1 /\ i - 1 \in 1 .. m /\ i - 1 # m
      BY <2>3
    <2>8. \A i \in 1 .. m - 1 : f[i] = IF i = 1 THEN args[i] ELSE f[i - 1] \o args[i]
      BY <2>4 DEF Joins
    <2>9. \A i \in 1 .. m : i # 1 => g[i - 1] = f[i - 1]
      BY <2>5, <2>7
    <2>10. \A i \in 1 .. m : g[i] = IF i = 1 THEN args[i] ELSE g[i - 1] \o args[i]
      <3> SUFFICES ASSUME NEW i \in 1 .. m
                   PROVE  g[i] = IF i = 1 THEN args[i] ELSE g[i - 1] \o args[i]
        OBVIOUS
      <3>1. CASE i = m
        <4>1. g[i] = IF m = 1 THEN args[m] ELSE f[m - 1] \o args[m]
          BY <2>5, <3>1
        <4> QED
          BY <2>9, <3>1, <4>1
      <3>2. CASE i # m
        <4>1. g[i] = f[i] /\ i \in 1 .. m - 1
          BY <2>5, <2>6, <3>2
        <4> QED
          BY <2>8, <2>9, <4>1
      <3> QED
        BY <3>1, <3>2
    <2>11. Joins(args, m, g)
      BY <2>5, <2>10 DEF Joins
    <2> QED
      BY <2>1, <2>11
  <1> QED
    BY <1>1

LEMMA Flattened ==
    ASSUME NEW S, NEW args \in Seq(Seq(S))
    PROVE  /\ FlattenSeq(args) \in Seq(S)
           /\ ToSet(FlattenSeq(args)) = UNION {ToSet(args[i]) : i \in DOMAIN args}
  <1>1. CASE Len(args) = 0
    <2>1. FlattenSeq(args) = args /\ args = <<>>
      BY <1>1 DEF FlattenSeq
    <2>2. DOMAIN args = {} /\ ToSet(args) = {} /\ <<>> \in Seq(S)
      BY <2>1 DEF ToSet
    <2> QED
      BY <2>1, <2>2
  <1>2. CASE Len(args) # 0
    <2> DEFINE Is(f) == f = [i \in 1 .. Len(args) |->
                                IF i = 1 THEN args[i] ELSE f[i - 1] \o args[i]]
               flat == CHOOSE f : Is(f)
    <2>0. PICK z \in Nat \ {0} : z = Len(args)
      BY <1>2
    <2>1. \E f : Is(f)
      <3>1. PICK f : Joins(args, z, f)
        BY JoinsExist
      <3> QED
        BY <2>0, <3>1 DEF Joins
    <2>2. Is(flat)
      BY <2>1
    <2>3. FlattenSeq(args) = flat[z]
      BY <1>2, <2>0 DEF FlattenSeq
    <2> HIDE DEF flat
    <2>4. \A i \in 1 .. z : flat[i] = IF i = 1 THEN args[i] ELSE flat[i - 1] \o args[i]
      BY <2>0, <2>2
    <2> DEFINE Upto(m) == UNION {ToSet(args[i]) : i \in 1 .. m}
               Joined(m) == flat[m] \in Seq(S) /\ ToSet(flat[m]) = Upto(m)
               Bad == {m \in 1 .. z : ~Joined(m)}
    <2>5. ASSUME Bad # {} PROVE FALSE
      <3>1. PICK m \in Bad : \A j \in Bad : m <= j
        <4>1. Bad \in SUBSET Nat
          OBVIOUS
        <4> QED
          BY <2>5, <4>1, Least
      <3>2. m \in 1 .. z /\ args[m] \in Seq(S)
        BY <2>0
      <3>3. m # 1
        <4>1. ASSUME m = 1 PROVE FALSE
          <5>1. flat[1] = args[1]
            BY <2>4, <3>2, <4>1
          <5>2. 1 .. 1 = {1}
            OBVIOUS
          <5>3. Upto(1) = ToSet(args[1])
            BY <5>2
          <5>4. Joined(1)
            BY <3>2, <4>1, <5>1, <5>3
          <5> QED
            BY <4>1, <5>4
        <4> QED
          BY <4>1
      <3>4. m - 1 \in 1 .. z /\ ~(m <= m - 1)
        BY <3>2, <3>3
      <3>5. Joined(m - 1)
        <4> HIDE DEF Joined
        <4>1. m - 1 \notin Bad
          BY <3>1, <3>4
        <4> QED
          BY <3>4, <4>1
      <3>6. flat[m] = flat[m - 1] \o args[m]
        BY <2>4, <3>2, <3>3
      <3>7. 1 .. m = (1 .. m - 1) \cup {m}
        BY <3>2
      <3>8. Upto(m) = Upto(m - 1) \cup ToSet(args[m])
        BY <3>7
      <3> HIDE DEF Upto
      <3>9. Joined(m)
        BY <3>2, <3>5, <3>6, <3>8, ToSetOfConcat, ConcatProperties
      <3> QED
        BY <3>9
    <2>6. z \in 1 .. z /\ DOMAIN args = 1 .. z
      BY <2>0
    <2>7. Joined(z)
      BY <2>5, <2>6
    <2> QED
      BY <2>3, <2>6, <2>7
  <1> QED
    BY <1>1, <1>2

LEMMA InOrderType ==
    ASSUME NEW i \in Irs
    PROVE  /\ InOrder(i) \in Seq(Ops)
           /\ ToSet(InOrder(i)) = UNION {ToSet(i.body[b]) : b \in ToSet(i.region)}
  <1>1. i.body \in [Blocks -> Seq(Ops)] /\ i.region \in Seq(Blocks)
    BY DEF Irs
  <1>2. PICK z \in Nat : z = Len(i.region)
    BY <1>1
  <1>3. PICK bodies : bodies = [n \in 1 .. z |-> i.body[i.region[n]]]
    OBVIOUS
  <1>4. DOMAIN i.region = 1 .. z
    BY <1>1, <1>2
  <1>5. bodies \in Seq(Seq(Ops))
    BY <1>1, <1>2, <1>3, <1>4
  <1>6. InOrder(i) = FlattenSeq(bodies)
    BY <1>3, <1>4 DEF InOrder
  <1>7. DOMAIN bodies = 1 .. z
    BY <1>3
  <1>8. UNION {ToSet(bodies[n]) : n \in 1 .. z} = UNION {ToSet(i.body[b]) : b \in ToSet(i.region)}
    <2>1. ToSet(i.region) = {i.region[n] : n \in 1 .. z}
      BY <1>4 DEF ToSet
    <2>2. \A n \in 1 .. z : bodies[n] = i.body[i.region[n]]
      BY <1>3
    <2> QED
      BY <2>1, <2>2
  <1> QED
    BY <1>5, <1>6, <1>7, <1>8, Flattened
(***************************************************************************)
(* The steps of a conversion.                                              *)
(***************************************************************************)
LEMMA SamePass ==
    ASSUME pass' = pass
    PROVE  /\ (~greedy)' = ~greedy
           /\ All(HeardOf)' = All(HeardOf)
           /\ \A k : Allowed(k)' = Allowed(k)
           /\ \A k : Action(k)' = Action(k)
           /\ patterns' = patterns
  <1>1. \A k : Action(k)' = Action(k)
    BY DEF Action, Said
  <1>2. patterns' = patterns
    BY DEF patterns
  <1> QED
    BY <1>1, <1>2 DEF greedy, Allowed, All, HeardOf

LEMMA CoverageNext ==
    ASSUME pass' = pass, NEW i, NEW fs, NEW l, ir' = i, frames' = fs, log' = l,
           All(HeardOf) => /\ CoveredBelow(i, fs, l)
                           /\ phase' = "legalize" => Covered(i, fs, l)
    PROVE  Coverage'
  <1>1. \A k : Allowed(k)' = Allowed(k)
    BY SamePass
  <1>2. CoveredBelow(i, fs, l) => CoveredBelow(ir, frames, log)'
    BY <1>1 DEF CoveredBelow
  <1>3. Covered(i, fs, l) => Covered(ir, frames, log)'
    BY <1>1 DEF Covered
  <1>4. All(HeardOf)' = All(HeardOf)
    BY SamePass
  <1> QED
    BY <1>2, <1>3, <1>4 DEF Coverage

LEMMA HeardPatterns ==
    ASSUME All(HeardOf), NEW n \in DOMAIN patterns
    PROVE  HeardOf(patterns[n])
  BY DEF All

LEMMA Halts ==
    ASSUME phase' \notin {"start", "legalize", "match", "call", "done"}
    PROVE  ConversionInv'
  BY DEF ConversionInv, Running, ConvertedIsLegal

LEMMA FaultHalts ==
    ASSUME NEW what, Fault(what)
    PROVE  ConversionInv'
  BY Halts DEF Fault, Stop

LEMMA GoesOn ==
    ASSUME Typed', Shape', Coverage', phase' # "done"
    PROVE  ConversionInv'
  <1>1. ConvertedIsLegal'
    BY DEF ConvertedIsLegal
  <1> QED
    BY <1>1 DEF ConversionInv

LEMMA CollectStep ==
    ASSUME ~greedy, Typed, Shape, Coverage, Collect
    PROVE  ConversionInv'
  <1>1. /\ phase = "start" /\ phase' = "legalize"
        /\ frames' = <<[Framed(None) EXCEPT !.todo = InOrder(ir)]>>
        /\ pass' = pass /\ ir' = ir /\ call' = call /\ log' = log
    BY DEF Collect
  <1>2. IsProgram(ir) /\ log = <<>>
    BY <1>1, RewritingAssumption DEF Shape
  <1>3. InOrder(ir) \in Seq(Ops) /\ Live(ir) = ToSet(InOrder(ir))
    BY <1>2, InOrderType DEF IsProgram, Placed
  <1>4. PICK f : f = [Framed(None) EXCEPT !.todo = InOrder(ir)]
    OBVIOUS
  <1>5. f = [op |-> None, tried |-> 0, mark |-> 0, todo |-> InOrder(ir)]
    BY <1>2, <1>4 DEF Framed
  <1>6. f \in Frame
    BY <1>3, <1>5 DEF Frame
  <1>7. frames' \in Seq(Frame) /\ Len(frames') = 1 /\ frames'[1] = f
    BY <1>1, <1>4, <1>6
  <1>8. Typed'
    BY <1>1, <1>7 DEF Typed
  <1>9. 2 .. 1 = {} /\ 3 .. 1 = {} /\ 1 .. 1 = {1}
    OBVIOUS
  <1>10. f.mark = 0 /\ Len(log') = 0 /\ frames' # <<>>
    BY <1>1, <1>2, <1>5, <1>7
  <1>11. Shape'
    BY <1>1, <1>7, <1>9, <1>10 DEF Shape, Nesting, RootsGone
  <1>12. CoveredBelow(ir, frames, log)'
    BY <1>7, <1>9 DEF CoveredBelow
  <1>13. Covered(ir, frames, log)'
    BY <1>1, <1>3, <1>5, <1>7, <1>9 DEF Covered, Queued
  <1> QED
    BY <1>1, <1>8, <1>11, <1>12, <1>13, GoesOn DEF Coverage
LEMMA HeadTail ==
    ASSUME NEW S, NEW s \in Seq(S), s # <<>>
    PROVE  /\ Head(s) \in S /\ Head(s) \in ToSet(s) /\ Tail(s) \in Seq(S)
           /\ ToSet(s) \subseteq ToSet(Tail(s)) \cup {Head(s)}
  <1>1. PICK n \in Nat \ {0} : n = Len(s)
    OBVIOUS
  <1>2. PICK t \in Seq(S) : t = Tail(s)
    BY HeadTailProperties
  <1>3. DOMAIN s = 1 .. n /\ DOMAIN t = 1 .. n - 1 /\ \A k \in 1 .. n - 1 : t[k] = s[k + 1]
    BY <1>1, <1>2
  <1>4. \A k \in 1 .. n : k = 1 \/ (k - 1 \in 1 .. n - 1 /\ (k - 1) + 1 = k)
    BY <1>1
  <1>5. Head(s) = s[1] /\ 1 \in 1 .. n /\ s[1] \in S
    BY <1>1
  <1>7. ToSet(s) \subseteq ToSet(t) \cup {s[1]}
    <2>1. ToSet(s) = {s[k] : k \in 1 .. n} /\ ToSet(t) = {t[k] : k \in 1 .. n - 1}
      BY <1>3 DEF ToSet
    <2>2. \A k \in 1 .. n : k = 1 \/ t[k - 1] = s[k]
      BY <1>3, <1>4
    <2> QED
      BY <1>4, <2>1, <2>2
  <1>8. s[1] \in ToSet(s)
    BY <1>3, <1>5 DEF ToSet
  <1> QED
    BY <1>2, <1>5, <1>7, <1>8

(* The next operation of the innermost frame needs nothing more.            *)
LEMMA NextDone ==
    ASSUME NEW i, NEW fs \in Seq(Frame), NEW gs \in Seq(Frame), NEW l, NEW n \in Nat,
           n = Len(gs), n \in 1 .. Len(fs),
           \A m \in 1 .. n - 1 : gs[m] = fs[m],
           fs[n].todo # <<>>, gs[n].todo = Tail(fs[n].todo),
           \A m \in n + 1 .. Len(fs) : fs[m].todo = <<>>,
           \/ Allowed(i.kind[Head(fs[n].todo)])
           \/ Head(fs[n].todo) \in GoneIn(l, Len(l)),
           Covered(i, fs, l)
    PROVE  Covered(i, gs, l)
  <1>0. fs[n] \in Frame
    OBVIOUS
  <1>1. PICK s \in Seq(Ops) : s = fs[n].todo
    BY <1>0 DEF Frame
  <1>2. ToSet(s) \subseteq ToSet(Tail(s)) \cup {Head(s)}
    BY <1>1, HeadTail
  <1> SUFFICES ASSUME NEW o \in Live(i), ~Allowed(i.kind[o]), o \notin GoneIn(l, Len(l))
               PROVE  Queued(gs, n, o)
    BY DEF Covered
  <1>3. PICK m \in 1 .. Len(fs) : o \in ToSet(fs[m].todo)
    BY DEF Covered, Queued
  <1>4. m \in 1 .. n - 1 \/ m = n \/ m \in n + 1 .. Len(fs)
    OBVIOUS
  <1>5. CASE m \in 1 .. n - 1
    <2>1. m \in 1 .. n /\ gs[m] = fs[m]
      BY <1>5
    <2> QED
      BY <1>3, <2>1 DEF Queued
  <1>6. CASE m = n
    <2>1. o # Head(s)
      BY <1>1
    <2>2. o \in ToSet(gs[n].todo)
      BY <1>1, <1>2, <1>3, <1>6, <2>1
    <2>3. n \in 1 .. n
      OBVIOUS
    <2> QED
      BY <2>2, <2>3 DEF Queued
  <1>7. CASE m \in n + 1 .. Len(fs)
    BY <1>3, <1>7 DEF ToSet
  <1> QED
    BY <1>4, <1>5, <1>6, <1>7

LEMMA LegalAllowed ==
    ASSUME NEW k, Action(k) = "legal"
    PROVE  Allowed(k)
  BY DEF Allowed

LEMMA LegalizeStep ==
    ASSUME ~greedy, Typed, Shape, Coverage, Legalize
    PROVE  ConversionInv'
  <1> DEFINE z == Len(frames)
             o == Head(frame.todo)
  <1>1. phase = "legalize" /\ frame.todo # <<>> /\ frames # <<>>
    BY DEF Legalize, Shape
  <1>2. frames \in Seq(Frame) /\ z \in Nat \ {0} /\ z \in 1 .. z /\ frames[z] \in Frame /\ frame = frames[z]
    BY <1>1 DEF Typed, frame
  <1>3. frame.todo \in Seq(Ops) /\ o \in Ops /\ Tail(frame.todo) \in Seq(Ops)
    <2>1. frame.todo \in Seq(Ops)
      BY <1>2 DEF Frame
    <2> QED
      BY <1>1, <2>1, HeadTail
  <1>4. CASE ir.kind[o] = Freed
    <2>1. Fault("freed")
      BY <1>4 DEF Legalize
    <2> QED
      BY <2>1, FaultHalts
  <1>5. CASE ir.kind[o] # Freed /\ (o \in Replaced \/ Action(ir.kind[o]) = "legal")
    <2>1. /\ frames' = [frames EXCEPT ![z].todo = Tail(@)]
          /\ pass' = pass /\ ir' = ir /\ call' = call /\ log' = log /\ phase' = phase
      BY <1>5 DEF Legalize
    <2>2. PICK v \in Seq(Ops) : v = Tail(frames[z].todo)
      BY <1>2, <1>3
    <2>4. PICK gs \in Seq(Frame) :
             /\ gs = [frames EXCEPT ![z].todo = v]
             /\ Len(gs) = z /\ \A m \in 1 .. z - 1 : gs[m] = frames[m]
             /\ gs[z].todo = v
             /\ gs[z].op = frames[z].op /\ gs[z].mark = frames[z].mark
      BY <1>1, <1>2, FrameTodo, ZenonT(30)
    <2>3. frames' = gs
      BY <1>2, <2>1, <2>2, <2>4
    <2>12. /\ Len(gs) <= Len(frames) /\ \A n \in 1 .. Len(gs) - 1 : gs[n] = frames[n]
           /\ Len(gs) > 0 => /\ gs[Len(gs)].op = frames[Len(gs)].op
                             /\ gs[Len(gs)].mark = frames[Len(gs)].mark
      BY <1>2, <2>4
    <2>5. /\ Nesting(frames) => Nesting(gs)
          /\ RootsGone(frames, log) => RootsGone(gs, log)
          /\ CoveredBelow(ir, frames, log) => CoveredBelow(ir, gs, log)
          /\ \A x \in Nat : (\A n \in 1 .. Len(frames) : frames[n].mark <= x)
                               => \A n \in 1 .. Len(gs) : gs[n].mark <= x
      <3>1. frames \in Seq(Frame) /\ gs \in Seq(Frame)
        BY <1>2, <2>4
      <3> QED
        BY <2>12, <3>1, SameBelow, Zenon
    <2>6. log \in Seq(Entry) /\ Len(log) \in Nat
      BY DEF Typed
    <2>7. Typed'
      BY <2>1, <2>3, <2>4 DEF Typed
    <2>8. root' = root
      BY <1>2, <2>3, <2>4 DEF root, frame
    <2>9. Shape'
      <3>1. gs # <<>>
        BY <1>2, <2>4
      <3> QED
        BY <1>1, <2>1, <2>3, <2>4, <2>5, <2>6, <2>8, <3>1 DEF Shape
    <2>10. ASSUME All(HeardOf) PROVE Covered(ir, gs, log)
      <3>1. Covered(ir, frames, log)
        BY <1>1, <2>10 DEF Coverage
      <3>2. Allowed(ir.kind[o]) \/ o \in GoneIn(log, Len(log))
        BY <1>5, <2>6, LogReads, LegalAllowed
      <3>3. \A m \in z + 1 .. Len(frames) : frames[m].todo = <<>>
        BY <1>2
      <3>4. frames[z].todo # <<>> /\ Head(frames[z].todo) = o /\ gs[z].todo = Tail(frames[z].todo)
        BY <1>1, <1>2, <2>2, <2>4
      <3>5. z \in Nat /\ z = Len(gs) /\ z \in 1 .. Len(frames)
        BY <1>2, <2>4
      <3>6. \/ Allowed(ir.kind[Head(frames[z].todo)])
            \/ Head(frames[z].todo) \in GoneIn(log, Len(log))
        BY <3>2, <3>4
      <3>7. \A m \in 1 .. z - 1 : gs[m] = frames[m]
        BY <2>4
      <3>8. frames \in Seq(Frame)
        BY <1>2
      <3> HIDE DEF z, o
      <3> QED
        BY <3>1, <3>3, <3>4, <3>5, <3>6, <3>7, <3>8, NextDone
    <2>11. Coverage'
      <3>1. All(HeardOf) => CoveredBelow(ir, gs, log) /\ Covered(ir, gs, log)
        BY <2>5, <2>10 DEF Coverage
      <3>2. PICK i, l : i = ir /\ l = log
        OBVIOUS
      <3> QED
        BY <2>1, <2>3, <3>1, <3>2, CoverageNext
    <2> QED
      BY <1>1, <2>1, <2>7, <2>9, <2>11, GoesOn
  <1>6. CASE ir.kind[o] # Freed /\ ~(o \in Replaced \/ Action(ir.kind[o]) = "legal")
    <2>1. /\ frames' = Append(frames, Framed(o)) /\ phase' = "match"
          /\ pass' = pass /\ ir' = ir /\ call' = call /\ log' = log
      BY <1>6 DEF Legalize
    <2>2. PICK f : f = Framed(o)
      OBVIOUS
    <2>3. log \in Seq(Entry) /\ Len(log) \in Nat
      BY DEF Typed
    <2>4. f \in Frame /\ f.op = o /\ f.mark = Len(log)
      BY <1>3, <2>2, <2>3 DEF Framed, Frame
    <2>5. PICK gs \in Seq(Frame) : gs = Append(frames, f)
      BY <1>2, <2>4, AppendProperties
    <2>6. Len(gs) = z + 1 /\ gs[z + 1] = f /\ \A n \in 1 .. z : gs[n] = frames[n]
      BY <1>2, <2>5
    <2>7. frames' = gs
      BY <2>1, <2>2, <2>5
    <2>8. Typed'
      BY <2>1, <2>5, <2>7 DEF Typed
    <2>9. \A n \in 1 .. z + 1 : n \in 1 .. z \/ n = z + 1
      BY <1>2
    <2>10. \A n \in 2 .. z + 1 : /\ n - 1 \in 1 .. z
                                 /\ n \in 2 .. z \/ (n = z + 1 /\ n - 1 = z)
      BY <1>2
    <2>11. \A n \in 3 .. z + 1 : n \in 3 .. z \/ (n = z + 1 /\ z > 1)
      BY <1>2
    <2>12. \A n \in 2 .. z : n \in 1 .. z
      BY <1>2
    <2>13. \A n \in 1 .. z + 1 : gs[n].mark <= Len(log)
      BY <2>3, <2>4, <2>6, <2>9 DEF Shape
    <2>14. Nesting(gs)
      <3> SUFFICES ASSUME NEW n \in 2 .. z + 1
                   PROVE  /\ gs[n - 1].todo # <<>> /\ gs[n].op = Head(gs[n - 1].todo)
                          /\ \A m \in 1 .. n - 1 : gs[m].mark <= gs[n].mark
        BY <2>6 DEF Nesting
      <3>1. \A m \in 1 .. n - 1 : m \in 1 .. z
        BY <1>2
      <3>2. CASE n \in 2 .. z
        <4>1. gs[n] = frames[n] /\ gs[n - 1] = frames[n - 1]
          BY <2>6, <2>10, <2>12, <3>2
        <4> QED
          BY <2>6, <3>1, <3>2, <4>1 DEF Nesting, Shape
      <3>3. CASE n = z + 1 /\ n - 1 = z
        <4>1. gs[n - 1] = frames[z] /\ gs[n].op = Head(frames[z].todo)
          BY <1>2, <2>4, <2>6, <3>3
        <4>2. \A m \in 1 .. n - 1 : gs[m].mark <= Len(log)
          BY <2>13, <3>1, <2>9
        <4> QED
          BY <1>1, <1>2, <2>4, <2>6, <3>3, <4>1, <4>2
      <3> QED
        BY <2>10, <3>2, <3>3
    <2>15. RootsGone(gs, log)
      <3>1. \A n \in 3 .. z : n \in 2 .. z /\ n \in 1 .. z /\ n - 1 \in 1 .. z
        BY <1>2
      <3>2. z > 1 => gs[z].op \in GoneIn(log, Len(log))
        BY <1>1, <1>2, <2>6 DEF Shape, root
      <3> SUFFICES ASSUME NEW n \in 3 .. z + 1
                   PROVE  gs[n - 1].op \in GoneIn(log, gs[n].mark)
        BY <2>6 DEF RootsGone
      <3>3. CASE n \in 3 .. z
        BY <2>6, <3>1, <3>3 DEF RootsGone, Shape
      <3>4. CASE n = z + 1 /\ z > 1
        BY <1>2, <2>4, <2>6, <3>2, <3>4
      <3> QED
        BY <2>11, <3>3, <3>4
    <2>16. Shape'
      <3>1. frame' = f /\ Len(gs) > 1 /\ gs # <<>>
        BY <1>2, <2>6, <2>7 DEF frame
      <3> QED
        BY <2>1, <2>4, <2>6, <2>7, <2>13, <2>14, <2>15, <3>1 DEF Shape
    <2>17. ASSUME All(HeardOf) PROVE CoveredBelow(ir, gs, log)
      <3> SUFFICES ASSUME NEW n \in 2 .. z + 1, NEW x \in Live(ir) \ MadeIn(log, gs[n].mark),
                          ~Allowed(ir.kind[x]), x \notin GoneIn(log, gs[n].mark)
                   PROVE  Queued(gs, n - 1, x)
        BY <2>6 DEF CoveredBelow
      <3>1. \A m \in 1 .. n - 1 : m \in 1 .. z
        BY <1>2
      <3>2. CASE n \in 2 .. z
        <4>1. gs[n] = frames[n]
          BY <2>6, <2>12, <3>2
        <4>2. Queued(frames, n - 1, x)
          BY <2>17, <3>2, <4>1 DEF Coverage, CoveredBelow
        <4> QED
          BY <2>6, <3>1, <4>2 DEF Queued
      <3>3. CASE n = z + 1
        <4>1. Queued(frames, z, x)
          BY <1>1, <2>4, <2>6, <2>17, <3>3 DEF Coverage, Covered
        <4>2. n - 1 = z
          BY <1>2, <3>3
        <4> QED
          BY <2>6, <4>1, <4>2 DEF Queued
      <3> QED
        BY <2>10, <3>2, <3>3
    <2>18. Coverage'
      BY <2>1, <2>7, <2>17, SamePass DEF Coverage, CoveredBelow
    <2> QED
      BY <2>1, <2>8, <2>16, <2>18, GoesOn
  <1> QED
    BY <1>4, <1>5, <1>6
(* Advanced: the innermost frame is done, and so is the operation that the  *)
(* frame below it had next.                                                 *)
LEMMA AdvancedStep ==
    ASSUME ~greedy, Typed, Shape, Len(frames) > 1, frames' = Advanced,
           phase' = "legalize", pass' = pass, ir' = ir, call' = call, log' = log,
           All(HeardOf) =>
              /\ CoveredBelow(ir, frames, log)
              /\ Allowed(ir.kind[root]) \/ root \in GoneIn(log, Len(log))
              /\ \A o \in Live(ir) :
                    \/ Allowed(ir.kind[o]) \/ o \in GoneIn(log, Len(log))
                    \/ Queued(frames, Len(frames) - 1, o)
    PROVE  ConversionInv'
  <1>1. PICK n \in Nat \ {0} : n = Len(frames) - 1
    <2>1. Len(frames) \in Nat /\ Len(frames) > 1
      BY DEF Typed
    <2> QED
      BY <2>1
  <1>2. /\ frames \in Seq(Frame) /\ n \in 1 .. n + 1 /\ n + 1 \in 2 .. n + 1 /\ Len(frames) = n + 1
        /\ (n + 1) - 1 = n /\ log \in Seq(Entry) /\ Len(log) \in Nat
    BY <1>1 DEF Typed
  <1>3. frames[n] \in Frame /\ frames[n].todo \in Seq(Ops)
    <2>1. frames[n] \in Frame
      BY <1>2
    <2> QED
      BY <2>1 DEF Frame
  <1>4. frames[n].todo # <<>> /\ root = Head(frames[n].todo)
    BY <1>2 DEF Shape, Nesting, root, frame
  <1>5. PICK v \in Seq(Ops) : v = Tail(frames[n].todo)
    BY <1>3, <1>4, HeadTailProperties
  <1>6. PICK gs \in Seq(Frame) :
              /\ gs = [Front(frames) EXCEPT ![Len(frames) - 1].todo = v]
              /\ Len(gs) = Len(frames) - 1 /\ \A m \in 1 .. Len(frames) - 2 : gs[m] = frames[m]
              /\ gs[Len(frames) - 1].op = frames[Len(frames) - 1].op
              /\ gs[Len(frames) - 1].mark = frames[Len(frames) - 1].mark
              /\ gs[Len(frames) - 1].todo = v
    BY <1>2, FramePopped, ZenonT(30)
  <1>7. Front(frames)[n] = frames[n] /\ n \in DOMAIN Front(frames)
    BY <1>1, <1>2, SubSeqProperties DEF Front
  <1>8. frames' = gs
    BY <1>1, <1>5, <1>6, <1>7 DEF Advanced
  <1>9. n - 1 = Len(frames) - 2
    BY <1>1
  <1>10. /\ Len(gs) = n /\ (\A m \in 1 .. n - 1 : gs[m] = frames[m])
         /\ gs[n].op = frames[n].op /\ gs[n].mark = frames[n].mark
         /\ gs[n].todo = Tail(frames[n].todo)
    BY <1>1, <1>5, <1>6, <1>9, Zenon
  <1>11. /\ Len(gs) <= Len(frames) /\ (\A m \in 1 .. Len(gs) - 1 : gs[m] = frames[m])
         /\ Len(gs) > 0 => /\ gs[Len(gs)].op = frames[Len(gs)].op
                           /\ gs[Len(gs)].mark = frames[Len(gs)].mark
    BY <1>2, <1>10
  <1>12. /\ Nesting(frames) => Nesting(gs)
         /\ RootsGone(frames, log) => RootsGone(gs, log)
         /\ CoveredBelow(ir, frames, log) => CoveredBelow(ir, gs, log)
         /\ \A z \in Nat : (\A m \in 1 .. Len(frames) : frames[m].mark <= z)
                              => \A m \in 1 .. Len(gs) : gs[m].mark <= z
    BY <1>2, <1>11, SameBelow
  <1>13. Typed'
    BY <1>8 DEF Typed
  <1>14. n > 1 => gs[n].op \in GoneIn(log, Len(log))
    <2> HAVE n > 1
    <2>1. n + 1 \in 3 .. Len(frames) /\ n + 1 \in 1 .. Len(frames)
      BY <1>2
    <2>2. frames[n].op \in GoneIn(log, frames[n + 1].mark)
      BY <1>2, <2>1 DEF Shape, RootsGone
    <2>3. frames[n + 1].mark <= Len(log)
      BY <2>1 DEF Shape
    <2>4. frames[n + 1] \in Frame
      BY <1>2, <2>1
    <2>5. frames[n + 1].mark \in Nat
      BY <2>4 DEF Frame
    <2>6. \A k \in 1 .. frames[n + 1].mark : k \in 1 .. Len(log)
      BY <1>2, <2>3, <2>5
    <2> QED
      BY <1>10, <2>2, <2>6 DEF GoneIn
  <1>15. Shape'
    <2>1. gs # <<>> /\ root' = gs[n].op
      BY <1>8, <1>10 DEF root, frame
    <2> QED
      BY <1>2, <1>8, <1>10, <1>12, <1>14, <2>1 DEF Shape
  <1>16. ASSUME All(HeardOf) PROVE Covered(ir, gs, log)
    <2>1. PICK o : o = root
      OBVIOUS
    <2>2. PICK s : s = frames[n].todo
      OBVIOUS
    <2>3. ToSet(s) \subseteq ToSet(Tail(s)) \cup {Head(s)}
      BY <1>3, <1>4, <2>2, HeadTail
    <2> SUFFICES ASSUME NEW x \in Live(ir), ~Allowed(ir.kind[x]), x \notin GoneIn(log, Len(log))
                 PROVE  Queued(gs, n, x)
      BY <1>10 DEF Covered
    <2>4. PICK m \in 1 .. n : x \in ToSet(frames[m].todo)
      BY <1>2, <1>16 DEF Queued
    <2>5. x # root
      BY <1>16
    <2>6. CASE m = n
      <3>1. x \in ToSet(gs[n].todo)
        BY <1>4, <1>10, <2>2, <2>3, <2>4, <2>5, <2>6
      <3> QED
        BY <2>4, <2>6, <3>1 DEF Queued
    <2>7. CASE m # n
      <3>1. m \in 1 .. n - 1
        BY <2>7
      <3> QED
        BY <1>10, <2>4, <3>1 DEF Queued
    <2> QED
      BY <2>6, <2>7
  <1>17. Coverage'
    <2>1. PICK i, l : i = ir /\ l = log
      OBVIOUS
    <2>2. All(HeardOf) => CoveredBelow(i, gs, l) /\ Covered(i, gs, l)
      BY <1>12, <1>16, <2>1
    <2>3. ir' = i /\ log' = l
      BY <2>1
    <2> QED
      BY <1>8, <2>2, <2>3, CoverageNext
  <1> QED
    BY <1>13, <1>15, <1>17, GoesOn

LEMMA LegalizedStep ==
    ASSUME ~greedy, Typed, Shape, Coverage, Legalized
    PROVE  ConversionInv'
  <1>1. phase = "legalize" /\ frame.todo = <<>> /\ frames # <<>> /\ frames \in Seq(Frame)
    BY DEF Legalized, Shape, Typed
  <1>2. CASE Len(frames) = 1 /\ UsedWhenErased
    <2>1. Fault("used")
      BY <1>2 DEF Legalized
    <2> QED
      BY <2>1, FaultHalts
  <1>3. CASE Len(frames) = 1 /\ ~UsedWhenErased
    <2>1. ir' = Applied /\ phase' = "done" /\ pass' = pass
      BY <1>3 DEF Legalized, Stop
    <2>2. PICK i : i = [ir EXCEPT !.arg = [o \in Ops |-> Final[ir.arg[o]]]]
      OBVIOUS
    <2>3. ir' = Rid(i, Replaced)
      BY <2>1, <2>2 DEF Applied
    <2>4. i.kind = ir.kind /\ DOMAIN i = {"kind", "arg", "body", "region"}
      BY <2>2 DEF Typed
    <2>5. ir'.kind = [o \in Ops |-> IF o \in Replaced THEN Freed ELSE ir.kind[o]]
      BY <2>3, <2>4 DEF Rid
    <2>6. Replaced = GoneIn(log, Len(log))
      <3>1. log \in Seq(Entry) /\ 0 \in 0 .. Len(log)
        BY DEF Typed
      <3> QED
        BY <3>1, LogReads
    <2>7. ASSUME All(HeardOf), NEW o \in Live(ir')
          PROVE  Allowed(ir'.kind[o])
      <3>1. o \in Live(ir) /\ o \notin Replaced /\ ir'.kind[o] = ir.kind[o]
        BY <2>5 DEF Live
      <3>2. \A m \in 1 .. 1 : frames[m].todo = <<>>
        BY <1>1, <1>3 DEF frame
      <3>3. ~Queued(frames, Len(frames), o)
        BY <1>3, <3>2 DEF Queued, ToSet
      <3> QED
        BY <1>1, <2>6, <2>7, <3>1, <3>3 DEF Coverage, Covered
    <2>8. All(HeardOf)' = All(HeardOf) /\ \A k : Allowed(k)' = Allowed(k)
      BY <2>1, SamePass
    <2>9. ConvertedIsLegal'
      BY <2>7, <2>8 DEF ConvertedIsLegal, Allowed
    <2>10. ~Running'
      BY <2>1 DEF Running
    <2> QED
      BY <2>9, <2>10 DEF ConversionInv
  <1>4. CASE Len(frames) # 1
    <2>1. /\ Len(frames) > 1 /\ frames' = Advanced /\ phase' = "legalize"
          /\ pass' = pass /\ ir' = ir /\ call' = call /\ log' = log
      <3>1. Len(frames) > 1
        BY <1>1, <1>4
      <3>2. /\ frames' = Advanced
            /\ UNCHANGED <<pass, origin, ir, point, call, work, log, changed, round, phase, result>>
        BY <1>4, Zenon DEF Legalized
      <3> QED
        BY <1>1, <3>1, <3>2
    <2>2. root \in GoneIn(log, Len(log))
      BY <1>1, <2>1 DEF Shape
    <2>3. ASSUME NEW o, Queued(frames, Len(frames), o)
          PROVE  Queued(frames, Len(frames) - 1, o)
      <3>1. PICK m \in 1 .. Len(frames) : o \in ToSet(frames[m].todo)
        BY <2>3 DEF Queued
      <3>2. m # Len(frames)
        BY <1>1, <3>1 DEF frame, ToSet
      <3>3. m \in 1 .. Len(frames) - 1
        BY <1>1, <3>2
      <3> QED
        BY <3>1, <3>3 DEF Queued
    <2>4. All(HeardOf) =>
             /\ CoveredBelow(ir, frames, log)
             /\ \A o \in Live(ir) :
                   \/ Allowed(ir.kind[o]) \/ o \in GoneIn(log, Len(log))
                   \/ Queued(frames, Len(frames) - 1, o)
      BY <1>1, <2>3 DEF Coverage, Covered
    <2> QED
      BY <2>1, <2>2, <2>4, AdvancedStep
  <1> QED
    BY <1>2, <1>3, <1>4
LEMMA UndoFacts ==
    ASSUME Typed, NEW n \in 0 .. Len(log), NEW fs \in Seq(Frame),
           \A m \in 1 .. Len(fs) : fs[m].mark <= n
    PROVE  /\ KindsTyped(Undone(n))
           /\ SubSeq(log, 1, n) \in Seq(Entry) /\ Len(SubSeq(log, 1, n)) = n
           /\ CoveredBelow(ir, fs, log) => CoveredBelow(Undone(n), fs, SubSeq(log, 1, n))
           /\ RootsGone(fs, log) => RootsGone(fs, SubSeq(log, 1, n))
  <1>1. log \in Seq(Entry) /\ Len(log) \in Nat /\ KindsTyped(ir)
    BY DEF Typed, KindsTyped
  <1>2. PICK i : i = Undone(n)
    OBVIOUS
  <1>3. i = Rid(ir, MadeIn(log, n))
    BY <1>1, <1>2, LogReads DEF Undone
  <1>4. /\ KindsTyped(i) /\ Live(i) = Live(ir) \ MadeIn(log, n)
        /\ \A x \in Live(i) : i.kind[x] = ir.kind[x]
    BY <1>1, <1>3, RidFacts
  <1>5. PICK c \in Seq(Entry) : c = SubSeq(log, 1, n)
    <2>1. n \in 0 .. n
      BY <1>1
    <2> QED
      BY <1>1, <2>1, LogCut
  <1>6. /\ Len(c) = n
        /\ \A z \in 0 .. n : /\ GoneIn(c, z) = GoneIn(log, z)
                             /\ MadeIn(log, z) = MadeIn(c, z) \cup MadeIn(log, n)
    BY <1>1, <1>5, LogCut
  <1>7. \A m \in 1 .. Len(fs) : fs[m].mark \in 0 .. n
    <2>1. \A m \in 1 .. Len(fs) : fs[m] \in Frame
      OBVIOUS
    <2> QED
      BY <1>1, <2>1 DEF Frame
  <1>8. \A m \in 2 .. Len(fs) : m \in 1 .. Len(fs)
    OBVIOUS
  <1>9. CoveredBelow(ir, fs, log) => CoveredBelow(i, fs, c)
    <2> SUFFICES ASSUME CoveredBelow(ir, fs, log), NEW m \in 2 .. Len(fs),
                        NEW o \in Live(i) \ MadeIn(c, fs[m].mark)
                 PROVE  \/ Allowed(i.kind[o]) \/ o \in GoneIn(c, fs[m].mark)
                        \/ Queued(fs, m - 1, o)
      BY DEF CoveredBelow
    <2>1. fs[m].mark \in 0 .. n
      BY <1>7, <1>8
    <2>2. o \in Live(ir) \ MadeIn(log, fs[m].mark)
      BY <1>4, <1>6, <2>1
    <2> QED
      BY <1>4, <1>6, <2>1, <2>2 DEF CoveredBelow
  <1>10. RootsGone(fs, log) => RootsGone(fs, c)
    <2>1. \A m \in 3 .. Len(fs) : m \in 1 .. Len(fs)
      OBVIOUS
    <2> QED
      BY <1>6, <1>7, <2>1 DEF RootsGone
  <1> QED
    BY <1>2, <1>4, <1>5, <1>6, <1>9, <1>10

LEMMA UnconvertedStep ==
    ASSUME ~greedy, Typed, Shape, Coverage, phase = "match", Unconverted
    PROVE  ConversionInv'
  <1>1. frames \in Seq(Frame) /\ Len(frames) \in Nat /\ Len(frames) > 1 /\ frames # <<>>
        /\ log \in Seq(Entry) /\ Len(log) \in Nat /\ frame.mark = Len(log)
    BY DEF Shape, Typed
  <1>2. CASE Len(frames) > 2
    <2>1. PICK n \in Nat : n = Len(frames) - 1
      BY <1>1
    <2>2. n \in 1 .. Len(frames) /\ n > 1 /\ n \in 1 .. n
      BY <1>2, <2>1
    <2>3. frames[n] \in Frame
      BY <1>1, <2>2
    <2>4. PICK mark \in Nat : mark = frames[n].mark
      BY <2>3 DEF Frame
    <2>5. mark \in 0 .. Len(log)
      BY <1>1, <2>2, <2>4 DEF Shape
    <2>6. IF ~Undoable(mark) THEN Fault("undo")
          ELSE /\ ir' = Undone(mark) /\ log' = SubSeq(log, 1, mark)
               /\ frames' = [Front(frames) EXCEPT ![Len(frames) - 1].todo = <<>>]
               /\ UNCHANGED <<pass, origin, point, call, work, changed, round, phase, result>>
      <3>1. frames[Len(frames) - 1].mark = mark
        BY <2>1, <2>4
      <3>2. ~(Len(frames) = 2)
        BY <1>1, <1>2
      <3> QED
        BY <3>1, <3>2, Zenon DEF Unconverted, GiveUp
    <2>7. CASE ~Undoable(mark)
      <3>1. Fault("undo")
        BY <2>6, <2>7
      <3> QED
        BY <3>1, FaultHalts
    <2>8. CASE Undoable(mark)
      <3>1. /\ ir' = Undone(mark) /\ log' = SubSeq(log, 1, mark)
            /\ frames' = [Front(frames) EXCEPT ![Len(frames) - 1].todo = <<>>]
            /\ pass' = pass /\ call' = call /\ phase' = "match"
        BY <2>6, <2>8
      <3>2. PICK v \in Seq(Ops) : v = <<>>
        BY EmptySeq
      <3>3. PICK gs \in Seq(Frame) :
                  /\ gs = [Front(frames) EXCEPT ![Len(frames) - 1].todo = v]
                  /\ Len(gs) = Len(frames) - 1 /\ \A m \in 1 .. Len(frames) - 2 : gs[m] = frames[m]
                  /\ gs[Len(frames) - 1].op = frames[Len(frames) - 1].op
                  /\ gs[Len(frames) - 1].mark = frames[Len(frames) - 1].mark
                  /\ gs[Len(frames) - 1].todo = v
        BY <1>1, FramePopped, ZenonT(30)
      <3>4. frames' = gs
        BY <3>1, <3>2, <3>3
      <3>5. n - 1 = Len(frames) - 2
        BY <2>1
      <3>6. /\ Len(gs) = n /\ (\A m \in 1 .. n - 1 : gs[m] = frames[m])
            /\ gs[n].op = frames[n].op /\ gs[n].mark = frames[n].mark
        BY <2>1, <3>3, <3>5, Zenon
      <3>7. /\ Len(gs) <= Len(frames) /\ (\A m \in 1 .. Len(gs) - 1 : gs[m] = frames[m])
            /\ Len(gs) > 0 => /\ gs[Len(gs)].op = frames[Len(gs)].op
                              /\ gs[Len(gs)].mark = frames[Len(gs)].mark
        BY <2>1, <3>6
      <3>8. /\ Nesting(frames) => Nesting(gs)
            /\ RootsGone(frames, log) => RootsGone(gs, log)
            /\ CoveredBelow(ir, frames, log) => CoveredBelow(ir, gs, log)
        BY <1>1, <3>7, SameBelow
      <3>9. \A m \in 1 .. Len(gs) : gs[m].mark <= mark
        <4>1. n \in 2 .. Len(gs) /\ n \in 2 .. Len(frames)
          BY <1>2, <2>1, <2>2, <3>6
        <4>2. \A m \in 1 .. n - 1 : gs[m].mark <= mark
          BY <2>4, <3>6, <4>1 DEF Shape, Nesting
        <4>3. \A m \in 1 .. n : m \in 1 .. n - 1 \/ m = n
          OBVIOUS
        <4> QED
          BY <2>4, <3>6, <4>2, <4>3
      <3>10. PICK i, c : i = Undone(mark) /\ c = SubSeq(log, 1, mark)
        OBVIOUS
      <3>11. /\ KindsTyped(i) /\ c \in Seq(Entry) /\ Len(c) = mark
             /\ CoveredBelow(ir, gs, log) => CoveredBelow(i, gs, c)
             /\ RootsGone(gs, log) => RootsGone(gs, c)
        BY <2>5, <3>9, <3>10, UndoFacts
      <3>12. ir' = i /\ log' = c
        BY <3>1, <3>10
      <3>13. Typed'
        BY <3>1, <3>4, <3>11, <3>12 DEF Typed, KindsTyped
      <3>14. gs # <<>> /\ Len(gs) > 1 /\ frame' = gs[n]
        BY <2>2, <3>4, <3>6 DEF frame
      <3>15. Shape'
        BY <2>4, <3>1, <3>4, <3>6, <3>8, <3>9, <3>11, <3>12, <3>14 DEF Shape
      <3>16. All(HeardOf) => CoveredBelow(i, gs, c)
        BY <3>8, <3>11 DEF Coverage
      <3>17. Coverage'
        BY <3>1, <3>4, <3>12, <3>16, CoverageNext
      <3> QED
        BY <3>1, <3>13, <3>15, <3>17, GoesOn
    <2> QED
      BY <2>7, <2>8
  <1>3. CASE Len(frames) = 2 /\ (pass.driver = "full" \/ Action(ir.kind[root]) = "illegal")
    <2>1. GiveUp(0, Surrender)
      BY <1>3 DEF Unconverted
    <2>2. CASE ~Undoable(0)
      <3>1. Fault("undo")
        BY <2>1, <2>2 DEF GiveUp
      <3> QED
        BY <3>1, FaultHalts
    <2>3. CASE Undoable(0)
      <3>1. phase' = "done" /\ result' = "failure"
        BY <2>1, <2>3 DEF GiveUp, Surrender
      <3> QED
        BY <3>1 DEF ConversionInv, Running, ConvertedIsLegal
    <2> QED
      BY <2>2, <2>3
  <1>4. CASE Len(frames) = 2 /\ ~(pass.driver = "full" \/ Action(ir.kind[root]) = "illegal")
    <2>1. /\ frames' = Advanced /\ phase' = "legalize"
          /\ pass' = pass /\ ir' = ir /\ call' = call /\ log' = log
      BY <1>4 DEF Unconverted
    <2>2. Allowed(ir.kind[root])
      BY <1>4 DEF Allowed
    <2>3. MadeIn(log, frames[2].mark) = {} /\ frames[2].mark = Len(log)
      <3>1. frames[2].mark = Len(log) /\ Len(log) + 1 .. Len(log) = {}
        BY <1>1, <1>4 DEF frame
      <3> QED
        BY <3>1 DEF MadeIn
    <2>4. All(HeardOf) =>
             /\ CoveredBelow(ir, frames, log)
             /\ \A o \in Live(ir) :
                   \/ Allowed(ir.kind[o]) \/ o \in GoneIn(log, Len(log))
                   \/ Queued(frames, Len(frames) - 1, o)
      <3>1. 2 \in 2 .. Len(frames) /\ Len(frames) - 1 = 2 - 1
        BY <1>4
      <3> QED
        BY <2>3, <3>1 DEF Coverage, CoveredBelow
    <2>5. All(HeardOf) =>
              /\ CoveredBelow(ir, frames, log)
              /\ Allowed(ir.kind[root]) \/ root \in GoneIn(log, Len(log))
              /\ \A o \in Live(ir) :
                    \/ Allowed(ir.kind[o]) \/ o \in GoneIn(log, Len(log))
                    \/ Queued(frames, Len(frames) - 1, o)
      BY <2>2, <2>4
    <2>6. Len(frames) > 1
      BY <1>1
    <2> QED
      BY <2>1, <2>5, <2>6, AdvancedStep, Zenon
  <1>5. Len(frames) > 2 \/ Len(frames) = 2
    <2>1. PICK z \in Nat : z = Len(frames)
      BY <1>1
    <2>2. z > 1
      BY <1>1, <2>1
    <2>3. z > 2 \/ z = 2
      BY <2>2
    <2> QED
      BY <2>1, <2>3
  <1> QED
    BY <1>2, <1>3, <1>4, <1>5, Zenon

LEMMA RootTyped ==
    ASSUME Typed, Shape, Len(frames) > 1
    PROVE  /\ root \in Ops /\ frame \in Frame /\ frame = frames[Len(frames)]
           /\ frame.mark \in 0 .. Len(log) /\ frame.tried \in Nat
           /\ frames \in Seq(Frame) /\ frames # <<>>
  <1>1. frames \in Seq(Frame) /\ log \in Seq(Entry)
    BY DEF Typed
  <1>2. PICK n \in Nat : n = Len(frames)
    BY <1>1
  <1>3. n \in 1 .. n /\ n \in 2 .. n /\ n - 1 \in 1 .. n
    BY <1>2
  <1>4. frames[n] \in Frame /\ frames[n - 1] \in Frame
    BY <1>1, <1>2, <1>3
  <1>5. frames[n - 1].todo # <<>> /\ frames[n].op = Head(frames[n - 1].todo)
    BY <1>2, <1>3 DEF Shape, Nesting
  <1>6. frames[n - 1].todo \in Seq(Ops)
    BY <1>4 DEF Frame
  <1>7. frames[n].op \in Ops
    BY <1>5, <1>6, HeadTail
  <1>8. frames[n].mark \in 0 .. Len(log) /\ frames[n].tried \in Nat
    <2>1. frames[n].mark \in Nat /\ frames[n].tried \in Nat
      BY <1>4 DEF Frame
    <2>2. frames[n].mark <= Len(log)
      BY <1>2, <1>3 DEF Shape
    <2> QED
      BY <1>1, <2>1, <2>2
  <1>9. frames # <<>>
    BY <1>2, <1>3
  <1> QED
    BY <1>1, <1>2, <1>4, <1>7, <1>8, <1>9 DEF root, frame

(* Only the patterns that were tried, or the list of the innermost frame,   *)
(* differ.                                                                  *)
LEMMA SameNesting ==
    ASSUME ~greedy, Typed, Shape, Len(frames) > 1, NEW gs \in Seq(Frame),
           Len(gs) = Len(frames), \A m \in 1 .. Len(frames) - 1 : gs[m] = frames[m],
           gs[Len(frames)].op = root, gs[Len(frames)].mark = frame.mark
    PROVE  /\ Nesting(gs) /\ RootsGone(gs, log)
           /\ CoveredBelow(ir, frames, log) => CoveredBelow(ir, gs, log)
           /\ \A n \in 1 .. Len(gs) : gs[n].mark <= Len(log)
  <1>1. frames \in Seq(Frame) /\ Len(log) \in Nat
    BY DEF Typed
  <1>2. /\ Len(gs) <= Len(frames) /\ (\A m \in 1 .. Len(gs) - 1 : gs[m] = frames[m])
        /\ Len(gs) > 0 => /\ gs[Len(gs)].op = frames[Len(gs)].op
                          /\ gs[Len(gs)].mark = frames[Len(gs)].mark
    BY <1>1 DEF root, frame
  <1>3. /\ Nesting(frames) => Nesting(gs)
        /\ RootsGone(frames, log) => RootsGone(gs, log)
        /\ CoveredBelow(ir, frames, log) => CoveredBelow(ir, gs, log)
        /\ \A z \in Nat : (\A n \in 1 .. Len(frames) : frames[n].mark <= z)
                             => \A n \in 1 .. Len(gs) : gs[n].mark <= z
    BY <1>1, <1>2, SameBelow
  <1> QED
    BY <1>1, <1>3 DEF Shape

LEMMA MatchStep ==
    ASSUME ~greedy, Typed, Shape, Coverage, Match
    PROVE  ConversionInv'
  <1>1. phase = "match" /\ Len(frames) > 1 /\ frame.mark = Len(log)
    BY DEF Match, Shape
  <1>2. /\ root \in Ops /\ frame \in Frame /\ frame = frames[Len(frames)]
        /\ frames \in Seq(Frame) /\ frames # <<>>
    BY <1>1, RootTyped
  <1>3. CASE ir.kind[root] = Freed
    <2>1. Fault("freed")
      BY <1>3 DEF Match
    <2> QED
      BY <2>1, FaultHalts
  <1>4. CASE ir.kind[root] # Freed /\ Untried = {}
    <2>1. Unconverted
      BY <1>4 DEF Match, Unmatched
    <2> QED
      BY <1>1, <2>1, UnconvertedStep
  <1>5. CASE ir.kind[root] # Freed /\ Untried # {}
    <2>1. PICK n : n = Min(Untried)
      OBVIOUS
    <2>2. /\ frames' = Retried(n)
          /\ \/ phase' = "call" /\ call' = [NoCall EXCEPT !.at = 1, !.held = ir.arg[root],
                                                         !.home = <<BlockOf(ir, root)>>]
             \/ phase' = "match" /\ call' = call
          /\ pass' = pass /\ ir' = ir /\ log' = log
      BY <1>1, <1>5, <2>1 DEF Match
    <2>3. n \in DOMAIN patterns /\ n \in Nat
      <3>1. DOMAIN patterns \subseteq Nat
        <4>1. pass.patterns \in Seq(ToSet(pass.patterns))
          BY DEF Typed, IsPass
        <4> QED
          BY <4>1 DEF patterns
      <3>2. Untried \subseteq DOMAIN patterns
        BY DEF Untried
      <3>3. \E x \in Untried : \A y \in Untried : x <= y
        BY <1>5, <3>1, <3>2, Least
      <3>4. n \in Untried
        BY <2>1, <3>3 DEF Min
      <3> QED
        BY <3>1, <3>2, <3>4
    <2>4. PICK gs \in Seq(Frame) :
              /\ gs = [frames EXCEPT ![Len(frames)].tried = n]
              /\ Len(gs) = Len(frames) /\ \A m \in 1 .. Len(frames) - 1 : gs[m] = frames[m]
              /\ gs[Len(frames)].tried = n
              /\ gs[Len(frames)].op = frames[Len(frames)].op
              /\ gs[Len(frames)].mark = frames[Len(frames)].mark
              /\ gs[Len(frames)].todo = frames[Len(frames)].todo
      BY <1>2, <2>3, FrameTried, ZenonT(30)
    <2>5. frames' = gs
      BY <2>2, <2>4 DEF Retried
    <2>6. /\ Nesting(gs) /\ RootsGone(gs, log)
          /\ CoveredBelow(ir, frames, log) => CoveredBelow(ir, gs, log)
          /\ \A m \in 1 .. Len(gs) : gs[m].mark <= Len(log)
      BY <1>1, <1>2, <2>4, SameNesting DEF root
    <2>7. call'.at \in Nat /\ call'.held \in Ops \cup {None} /\ call'.made \in Seq(Ops)
          /\ DOMAIN call' = {"at", "held", "home", "made", "saved"}
          /\ (phase' = "call" => call'.at # 0)
      <3>1. CASE phase' = "match" /\ call' = call
        BY <3>1 DEF Typed
      <3>2. CASE phase' = "call" /\ call' = [NoCall EXCEPT !.at = 1, !.held = ir.arg[root],
                                                          !.home = <<BlockOf(ir, root)>>]
        <4>1. call' = [at |-> 1, held |-> ir.arg[root], home |-> <<BlockOf(ir, root)>>,
                       made |-> <<>>, saved |-> <<>>]
          BY <3>2 DEF NoCall
        <4>2. ir.arg[root] \in Ops \cup {None}
          BY <1>2 DEF Typed
        <4> QED
          BY <4>1, <4>2
      <3> QED
        BY <2>2, <3>1, <3>2
    <2>8. Typed'
      BY <2>2, <2>5, <2>7 DEF Typed
    <2>9. frame' = gs[Len(frames)] /\ gs # <<>> /\ Len(gs) > 1
      BY <1>1, <1>2, <2>4, <2>5 DEF frame
    <2>10. patterns' = patterns /\ phase' \in {"match", "call"}
      BY <2>2 DEF patterns
    <2>11. Shape'
      BY <1>1, <1>2, <2>2, <2>3, <2>4, <2>5, <2>6, <2>7, <2>9, <2>10 DEF Shape
    <2>12. Coverage'
      <3>1. PICK i, l : i = ir /\ l = log
        OBVIOUS
      <3>2. All(HeardOf) => CoveredBelow(i, gs, l)
        BY <2>6, <3>1 DEF Coverage
      <3>3. ir' = i /\ log' = l
        BY <2>2, <3>1
      <3> QED
        BY <2>2, <2>5, <2>10, <3>2, <3>3, CoverageNext
    <2> QED
      BY <2>8, <2>10, <2>11, <2>12, GoesOn
  <1> QED
    BY <1>3, <1>4, <1>5

LEMMA AnswerStep ==
    ASSUME ~greedy, Typed, Shape, Coverage, Answer
    PROVE  ConversionInv'
  <1>1. phase = "call" /\ Len(frames) > 1
    BY DEF Answer, Shape
  <1>2. /\ root \in Ops /\ frame \in Frame /\ frame = frames[Len(frames)]
        /\ frames \in Seq(Frame) /\ frames # <<>> /\ frame.mark \in 0 .. Len(log)
    BY <1>1, RootTyped
  <1>3. log \in Seq(Entry) /\ Len(log) \in Nat
    BY DEF Typed
  <1>4. CASE script.answer = "raises"
    <2>1. phase' = "raised"
      BY <1>4 DEF Answer
    <2> QED
      BY <2>1, Halts
  <1>5. CASE script.answer # "raises" /\ Succeeded(script) /\ root \notin Replaced
    <2>1. Fault("kept")
      BY <1>5 DEF Answer
    <2> QED
      BY <2>1, FaultHalts
  <1>6. CASE script.answer # "raises" /\ Succeeded(script) /\ root \in Replaced
    <2>1. /\ frames' = [frames EXCEPT ![Len(frames)].todo = CreatedSince(frame.mark)]
          /\ phase' = "legalize" /\ call' = NoCall
          /\ pass' = pass /\ ir' = ir /\ log' = log
      BY <1>6 DEF Answer
    <2>2. PICK v \in Seq(Ops) : v = CreatedSince(frame.mark)
      BY <1>2, <1>3, LogReads
    <2>3. ToSet(v) = MadeIn(log, frame.mark) /\ root \in GoneIn(log, Len(log))
      BY <1>2, <1>3, <1>6, <2>2, LogReads
    <2>4. PICK gs \in Seq(Frame) :
              /\ gs = [frames EXCEPT ![Len(frames)].todo = v]
              /\ Len(gs) = Len(frames) /\ \A m \in 1 .. Len(frames) - 1 : gs[m] = frames[m]
              /\ gs[Len(frames)].todo = v
              /\ gs[Len(frames)].op = frames[Len(frames)].op
              /\ gs[Len(frames)].mark = frames[Len(frames)].mark
      BY <1>2, FrameTodo, ZenonT(30)
    <2>5. frames' = gs
      BY <2>1, <2>2, <2>4
    <2>6. /\ Nesting(gs) /\ RootsGone(gs, log)
          /\ CoveredBelow(ir, frames, log) => CoveredBelow(ir, gs, log)
          /\ \A m \in 1 .. Len(gs) : gs[m].mark <= Len(log)
      BY <1>1, <1>2, <2>4, SameNesting DEF root
    <2>7. Typed'
      <3>1. frames' \in Seq(Frame)
        BY <2>5
      <3>2. pass' = pass /\ ir' = ir /\ log' = log /\ call' = NoCall
        BY <2>1
      <3>3. /\ DOMAIN call' = {"at", "held", "home", "made", "saved"}
            /\ call'.at \in Nat /\ call'.held \in Ops \cup {None} /\ call'.made \in Seq(Ops)
        BY <3>2 DEF NoCall
      <3> QED
        BY <3>1, <3>2, <3>3 DEF Typed
    <2>8. root' = root /\ gs # <<>>
      BY <1>2, <2>4, <2>5 DEF root, frame
    <2>9. Shape'
      BY <2>1, <2>3, <2>4, <2>5, <2>6, <2>8 DEF Shape
    <2>10. ASSUME All(HeardOf) PROVE Covered(ir, gs, log)
      <3> SUFFICES ASSUME NEW o \in Live(ir), ~Allowed(ir.kind[o]), o \notin GoneIn(log, Len(log))
                   PROVE  Queued(gs, Len(frames), o)
        BY <2>4 DEF Covered
      <3>1. PICK n \in Nat : n = Len(frames)
        BY <1>2
      <3>2. n \in 2 .. n /\ n \in 1 .. n
        BY <1>1, <3>1
      <3>3. CASE o \in MadeIn(log, frame.mark)
        BY <2>3, <2>4, <3>1, <3>2, <3>3 DEF Queued
      <3>4. CASE o \notin MadeIn(log, frame.mark)
        <4>1. o \notin GoneIn(log, frames[n].mark)
          <5>1. \A k \in 1 .. frames[n].mark : k \in 1 .. Len(log)
            BY <1>2, <1>3, <3>1
          <5> QED
            BY <5>1 DEF GoneIn
        <4>2. Queued(frames, n - 1, o)
          BY <1>2, <2>10, <3>1, <3>2, <3>4, <4>1 DEF Coverage, CoveredBelow
        <4>3. PICK m \in 1 .. n - 1 : o \in ToSet(frames[m].todo)
          BY <4>2 DEF Queued
        <4>4. m \in 1 .. n /\ gs[m] = frames[m]
          BY <2>4, <3>1
        <4> QED
          BY <3>1, <4>3, <4>4 DEF Queued
      <3> QED
        BY <3>3, <3>4
    <2>11. Coverage'
      <3>1. PICK i, l : i = ir /\ l = log
        OBVIOUS
      <3>2. All(HeardOf) => CoveredBelow(i, gs, l) /\ Covered(i, gs, l)
        BY <2>6, <2>10, <3>1 DEF Coverage
      <3>3. ir' = i /\ log' = l
        BY <2>1, <3>1
      <3> QED
        BY <2>1, <2>5, <3>2, <3>3, CoverageNext
    <2> QED
      BY <2>1, <2>7, <2>9, <2>11, GoesOn
  <1>7. CASE script.answer # "raises" /\ ~Succeeded(script)
    <2>1. PICK n : n = frame.mark
      OBVIOUS
    <2>2. IF ~Undoable(n) THEN Fault("undo")
          ELSE /\ ir' = Undone(n) /\ log' = SubSeq(log, 1, n)
               /\ phase' = "match" /\ call' = NoCall
               /\ UNCHANGED <<pass, origin, point, frames, work, changed, round, result>>
      BY <1>7, <2>1 DEF Answer, GiveUp
    <2>3. CASE ~Undoable(n)
      BY <2>2, <2>3, FaultHalts
    <2>4. CASE Undoable(n)
      <3>1. /\ ir' = Undone(n) /\ log' = SubSeq(log, 1, n)
            /\ phase' = "match" /\ call' = NoCall /\ pass' = pass /\ frames' = frames
        BY <2>2, <2>4
      <3>2. \A m \in 1 .. Len(frames) : frames[m].mark <= n
        <4>1. PICK z \in Nat : z = Len(frames)
          BY <1>2
        <4>2. z \in 2 .. z /\ \A m \in 1 .. z : m \in 1 .. z - 1 \/ m = z
          BY <1>1, <4>1
        <4>3. n \in Nat /\ n = frames[z].mark
          BY <1>2, <1>3, <2>1, <4>1
        <4>4. \A m \in 1 .. z - 1 : frames[m].mark <= frames[z].mark
          BY <4>1, <4>2 DEF Shape, Nesting
        <4> QED
          BY <4>1, <4>2, <4>3, <4>4
      <3>3. PICK i, c : i = Undone(n) /\ c = SubSeq(log, 1, n)
        OBVIOUS
      <3>4. /\ KindsTyped(i) /\ c \in Seq(Entry) /\ Len(c) = n
            /\ CoveredBelow(ir, frames, log) => CoveredBelow(i, frames, c)
            /\ RootsGone(frames, log) => RootsGone(frames, c)
        BY <1>2, <2>1, <3>2, <3>3, UndoFacts
      <3>5. ir' = i /\ log' = c
        BY <3>1, <3>3
      <3>6. Typed'
        BY <3>1, <3>4, <3>5 DEF Typed, KindsTyped, NoCall
      <3>7. frame' = frame
        BY <3>1 DEF frame
      <3>8. Shape'
        BY <1>1, <2>1, <3>1, <3>2, <3>4, <3>5, <3>7 DEF Shape
      <3>9. Coverage'
        <4>1. PICK fs : fs = frames
          OBVIOUS
        <4>2. All(HeardOf) => CoveredBelow(i, fs, c)
          BY <3>4, <4>1 DEF Coverage
        <4>3. frames' = fs /\ phase' # "legalize"
          BY <3>1, <4>1
        <4> QED
          BY <3>1, <3>5, <4>2, <4>3, CoverageNext
      <3> QED
        BY <3>1, <3>6, <3>8, <3>9, GoesOn
    <2> QED
      BY <2>3, <2>4
  <1> QED
    BY <1>4, <1>5, <1>6, <1>7
(* A call of a function: the frames stay, the log may grow, and what was    *)
(* there or may stay is all that is there.                                  *)
LEMMA CallStep ==
    ASSUME ~greedy, Typed, Shape, Coverage, phase = "call", phase' = phase, pass' = pass,
           frames' = frames, NEW i, ir' = i, KindsTyped(i), NEW l \in Seq(Entry), log' = l,
           DOMAIN call' = {"at", "held", "home", "made", "saved"}, call'.at \in Nat \ {0},
           call'.held \in Ops \cup {None}, call'.made \in Seq(Ops),
           Len(log) <= Len(l), \A n \in 0 .. Len(log) : GoneIn(l, n) = GoneIn(log, n),
           All(HeardOf) => \A n \in 0 .. Len(log) : \A o \in Live(i) \ MadeIn(l, n) :
              \/ Allowed(i.kind[o])
              \/ o \in Live(ir) \ MadeIn(log, n) /\ i.kind[o] = ir.kind[o]
    PROVE  ConversionInv'
  <1>1. Typed'
    BY DEF Typed, KindsTyped
  <1>2. log \in Seq(Entry) /\ frames \in Seq(Frame) /\ Len(log) \in Nat /\ Len(l) \in Nat
    BY DEF Typed
  <1>3. \A n \in 1 .. Len(frames) : frames[n].mark \in 0 .. Len(log)
    <2>1. \A n \in 1 .. Len(frames) : frames[n] \in Frame
      BY <1>2
    <2> QED
      BY <1>2, <2>1, SMTT(30) DEF Shape, Frame
  <1>4. \A n \in 1 .. Len(frames) : frames[n].mark <= Len(l)
    BY <1>2, <1>3
  <1>5. RootsGone(frames, l)
    <2>1. \A n \in 3 .. Len(frames) : n \in 1 .. Len(frames)
      OBVIOUS
    <2> QED
      BY <1>3, <2>1 DEF Shape, RootsGone
  <1>6. frame' = frame /\ patterns' = patterns
    BY DEF frame, patterns
  <1>7. Shape'
    BY <1>4, <1>5, <1>6 DEF Shape
  <1>8. All(HeardOf) => CoveredBelow(i, frames, l)
    <2> SUFFICES ASSUME All(HeardOf), NEW n \in 2 .. Len(frames),
                        NEW o \in Live(i) \ MadeIn(l, frames[n].mark)
                 PROVE  \/ Allowed(i.kind[o]) \/ o \in GoneIn(l, frames[n].mark)
                        \/ Queued(frames, n - 1, o)
      BY DEF CoveredBelow
    <2>1. frames[n].mark \in 0 .. Len(log)
      BY <1>3
    <2>2. CASE Allowed(i.kind[o])
      BY <2>2
    <2>3. CASE o \in Live(ir) \ MadeIn(log, frames[n].mark) /\ i.kind[o] = ir.kind[o]
      BY <2>1, <2>3 DEF Coverage, CoveredBelow
    <2> QED
      BY <2>1, <2>2, <2>3
  <1>9. Coverage'
    <2>1. PICK fs : fs = frames
      OBVIOUS
    <2>2. frames' = fs /\ phase' # "legalize" /\ (All(HeardOf) => CoveredBelow(i, fs, l))
      BY <1>8, <2>1
    <2> QED
      BY <2>2, CoverageNext
  <1> QED
    BY <1>1, <1>7, <1>9, GoesOn

(* The same of a call that neither makes nor removes anything.              *)
LEMMA QuietStep ==
    ASSUME ~greedy, Typed, Shape, Coverage, phase = "call", phase' = phase, pass' = pass,
           frames' = frames, NEW i, ir' = i, KindsTyped(i), i.kind = ir.kind, log' = log,
           DOMAIN call' = {"at", "held", "home", "made", "saved"}, call'.at \in Nat \ {0},
           call'.held \in Ops \cup {None}, call'.made \in Seq(Ops)
    PROVE  ConversionInv'
  <1>1. PICK l \in Seq(Entry) : l = log
    BY DEF Typed
  <1>2. Live(i) = Live(ir)
    BY DEF Live
  <1>3. /\ log' = l /\ Len(log) <= Len(l) /\ \A n \in 0 .. Len(log) : GoneIn(l, n) = GoneIn(log, n)
        /\ \A n \in 0 .. Len(log) : \A o \in Live(i) \ MadeIn(l, n) :
              o \in Live(ir) \ MadeIn(log, n) /\ i.kind[o] = ir.kind[o]
    BY <1>1, <1>2
  <1> QED
    BY <1>3, CallStep

LEMMA CallTyped ==
    ASSUME Typed, Shape, phase = "call"
    PROVE  /\ Len(frames) > 1 /\ script = patterns[frame.tried] /\ frame.tried \in DOMAIN patterns
           /\ DOMAIN call = {"at", "held", "home", "made", "saved"}
           /\ call.at \in Nat \ {0} /\ call.held \in Ops \cup {None} /\ call.made \in Seq(Ops)
           /\ Argument \in Ops \cup {None}
           /\ script.calls \in Seq(Calls)
           /\ \A do : Calling(do) => now \in Calls /\ now.do = do /\ Does(script, {do})
  <1>1. /\ Len(frames) > 1 /\ script = patterns[frame.tried] /\ frame.tried \in DOMAIN patterns
        /\ DOMAIN call = {"at", "held", "home", "made", "saved"}
        /\ call.at \in Nat \ {0} /\ call.held \in Ops \cup {None} /\ call.made \in Seq(Ops)
    BY DEF Typed, Shape, script
  <1>2. Argument \in Ops \cup {None}
    BY <1>1 DEF Argument, Last
  <1>3. IsPattern(script)
    BY <1>1 DEF Typed, IsPass, patterns
  <1>4. script.calls \in Seq(Calls)
    BY <1>3 DEF IsPattern
  <1>5. ASSUME NEW do, Calling(do)
        PROVE  now \in Calls /\ now.do = do /\ Does(script, {do})
    <2>1. call.at \in 1 .. Len(script.calls) /\ now = script.calls[call.at] /\ now.do = do
      BY <1>1, <1>4, <1>5 DEF Calling, now
    <2>2. call.at \in DOMAIN script.calls
      BY <1>4, <2>1
    <2> QED
      BY <1>4, <2>1, <2>2 DEF Does
  <1> QED
    BY <1>1, <1>2, <1>4, <1>5

(* Called, and the same where an operation was made or the point saved.     *)
LEMMA CalledTyped ==
    ASSUME Typed, call.at \in Nat \ {0}
    PROVE  \/ Called
           \/ \E o \in Ops : call' = [call EXCEPT !.at = @ + 1, !.made = Append(@, o)]
           \/ \E p : call' = [call EXCEPT !.at = @ + 1, !.saved = p]
           => /\ DOMAIN call' = {"at", "held", "home", "made", "saved"} /\ call'.at \in Nat \ {0}
              /\ call'.held \in Ops \cup {None} /\ call'.made \in Seq(Ops)
  <1>1. /\ DOMAIN call = {"at", "held", "home", "made", "saved"}
        /\ call.held \in Ops \cup {None} /\ call.made \in Seq(Ops)
    BY DEF Typed
  <1>2. PICK n \in Nat \ {0} : n = call.at
    OBVIOUS
  <1>3. PICK a \in Nat \ {0} : a = n + 1
    OBVIOUS
  <1>4. PICK c : c = [call EXCEPT !.at = a]
    OBVIOUS
  <1>5. DOMAIN c = DOMAIN call /\ c.at = a /\ c.held = call.held /\ c.made = call.made
    BY <1>1, <1>4
  <1>6. ASSUME Called
        PROVE  call' = c
    BY <1>2, <1>3, <1>4, <1>6 DEF Called
  <1>7. ASSUME NEW o \in Ops, call' = [call EXCEPT !.at = @ + 1, !.made = Append(@, o)]
        PROVE  /\ DOMAIN call' = DOMAIN c /\ call'.at = a /\ call'.held = c.held
               /\ call'.made \in Seq(Ops)
    <2>1. PICK m \in Seq(Ops) : m = Append(call.made, o)
      BY <1>1, AppendProperties
    <2>2. call' = [call EXCEPT !.at = a, !.made = m]
      BY <1>2, <1>3, <1>7, <2>1
    <2>3. [call EXCEPT !.at = a, !.made = m] = [[call EXCEPT !.at = a] EXCEPT !.made = m]
      OBVIOUS
    <2>4. call' = [c EXCEPT !.made = m]
      BY <1>4, <2>2, <2>3
    <2> QED
      BY <1>1, <1>5, <2>4
  <1>8. ASSUME NEW p, call' = [call EXCEPT !.at = @ + 1, !.saved = p]
        PROVE  /\ DOMAIN call' = DOMAIN c /\ call'.at = a /\ call'.held = c.held
               /\ call'.made = c.made
    <2>1. call' = [call EXCEPT !.at = a, !.saved = p]
      BY <1>2, <1>3, <1>8
    <2>2. [call EXCEPT !.at = a, !.saved = p] = [[call EXCEPT !.at = a] EXCEPT !.saved = p]
      OBVIOUS
    <2>3. call' = [c EXCEPT !.saved = p]
      BY <1>4, <2>1, <2>2
    <2> QED
      BY <1>1, <1>5, <2>3
  <1> QED
    BY <1>1, <1>5, <1>6, <1>7, <1>8

LEMMA CreateStep ==
    ASSUME ~greedy, Typed, Shape, Coverage, Create
    PROVE  ConversionInv'
  <1>1. phase = "call" /\ Calling("create")
    BY DEF Create, Calling
  <1>2. /\ Argument \in Ops \cup {None} /\ call.at \in Nat \ {0} /\ now \in Calls /\ now.do = "create"
    BY <1>1, CallTyped
  <1>3. now.kind \in Kinds
    BY <1>2 DEF Calls
  <1>4. CASE RootFreed
    <2>1. Fault("freed")
      BY <1>4 DEF Create
    <2> QED
      BY <2>1, FaultHalts
  <1>5. CASE ~RootFreed /\ ~Sound(point)
    <2>1. Fault("point")
      BY <1>5 DEF Create
    <2> QED
      BY <2>1, FaultHalts
  <1>6. CASE ~RootFreed /\ Sound(point)
    <2>1. PICK o \in Fresh :
             /\ ir' = Grown(ir, o, now.kind, Argument, point.block, point.before)
             /\ call' = [call EXCEPT !.at = @ + 1, !.made = Append(@, o)]
             /\ log' = Append(log, [did |-> "create", op |-> o])
             /\ pass' = pass /\ frames' = frames /\ phase' = phase
      BY <1>6 DEF Create
    <2>2. o \in Ops
      BY DEF Fresh
    <2>3. KindsTyped(ir)
      BY DEF Typed, KindsTyped
    <2>4. PICK i : i = Grown(ir, o, now.kind, Argument, point.block, point.before)
      OBVIOUS
    <2>5. /\ KindsTyped(i) /\ Live(i) = Live(ir) \cup {o}
          /\ \A x \in Live(i) \ {o} : i.kind[x] = ir.kind[x]
      BY <1>2, <1>3, <2>2, <2>3, <2>4, GrownFacts, SMTT(30)
    <2>6. PICK e : e = [did |-> "create", op |-> o]
      OBVIOUS
    <2>7. e \in Entry /\ e.did = "create" /\ e.op = o /\ log \in Seq(Entry)
      BY <2>2, <2>6 DEF Entry, Typed
    <2>8. PICK l \in Seq(Entry) : l = Append(log, e)
      BY <2>7, LogGrows, AppendProperties
    <2>9. /\ Len(log) <= Len(l) /\ \A n \in 0 .. Len(log) : GoneIn(l, n) = GoneIn(log, n)
          /\ \A n \in 0 .. Len(log) : MadeIn(l, n) = MadeIn(log, n) \cup {o}
      <3>1. \A n \in 0 .. Len(log) : /\ Len(l) = Len(log) + 1 /\ GoneIn(l, n) = GoneIn(log, n)
                                     /\ MadeIn(l, n) = MadeIn(log, n) \cup {o}
        BY <2>7, <2>8, LogGrows
      <3>2. 0 \in 0 .. Len(log) /\ Len(log) \in Nat
        BY <2>7
      <3> QED
        BY <3>1, <3>2
    <2>10. \A n \in 0 .. Len(log) : \A x \in Live(i) \ MadeIn(l, n) :
              x \in Live(ir) \ MadeIn(log, n) /\ i.kind[x] = ir.kind[x]
      BY <2>5, <2>9
    <2>11. ir' = i /\ log' = l
      BY <2>1, <2>4, <2>6, <2>8
    <2>12. /\ DOMAIN call' = {"at", "held", "home", "made", "saved"} /\ call'.at \in Nat \ {0}
           /\ call'.held \in Ops \cup {None} /\ call'.made \in Seq(Ops)
      BY <1>2, <2>1, <2>2, CalledTyped
    <2> QED
      BY <1>1, <2>1, <2>5, <2>9, <2>10, <2>11, <2>12, CallStep
  <1> QED
    BY <1>4, <1>5, <1>6

LEMMA PushStep ==
    ASSUME ~greedy, Typed, Shape, Coverage, Push
    PROVE  ConversionInv'
  <1>1. phase = "call" /\ Calling("append")
    BY DEF Push, Calling
  <1>2. /\ call.held \in Ops \cup {None} /\ call.at \in Nat \ {0} /\ now \in Calls /\ now.do = "append"
        /\ script = patterns[frame.tried] /\ frame.tried \in DOMAIN patterns
        /\ script.calls \in Seq(Calls)
    BY <1>1, CallTyped
  <1>3. now.kind \in Kinds
    BY <1>2 DEF Calls
  <1>4. ASSUME All(HeardOf)
        PROVE  Allowed(now.kind)
    <2>1. HeardOf(script)
      BY <1>2, <1>4, HeardPatterns
    <2>2. call.at \in DOMAIN script.calls /\ now = script.calls[call.at]
      BY <1>1, <1>2 DEF Calling, now
    <2>3. Action(now.kind) = "legal"
      BY <1>2, <2>1, <2>2 DEF HeardOf
    <2> QED
      BY <2>3, LegalAllowed
  <1>5. CASE RootFreed
    <2>1. Fault("freed")
      BY <1>5 DEF Push
    <2> QED
      BY <2>1, FaultHalts
  <1>6. CASE ~RootFreed
    <2>1. PICK o \in Fresh :
             /\ ir' = Grown(ir, o, now.kind, call.held, BlockOf(ir, root), End) /\ Called
             /\ log' = log /\ pass' = pass /\ frames' = frames /\ phase' = phase
      BY <1>6 DEF Push
    <2>2. o \in Ops
      BY DEF Fresh
    <2>3. KindsTyped(ir)
      BY DEF Typed, KindsTyped
    <2>11. PICK b, k, a : b = BlockOf(ir, root) /\ k = now.kind /\ a = call.held
      OBVIOUS
    <2>12. k \in Kinds /\ a \in Ops \cup {None}
      BY <1>2, <1>3, <2>11
    <2>4. PICK i : i = Grown(ir, o, k, a, b, End)
      OBVIOUS
    <2>13. ir' = i
      BY <2>1, <2>4, <2>11
    <2>14. /\ KindsTyped(i) /\ Live(i) = Live(ir) \cup {o} /\ i.kind[o] = k
           /\ \A x \in Live(ir) \ {o} : i.kind[x] = ir.kind[x]
      BY <2>2, <2>3, <2>4, <2>12, GrownFacts
    <2>5. /\ KindsTyped(i) /\ Live(i) = Live(ir) \cup {o} /\ i.kind[o] = now.kind
          /\ \A x \in Live(i) \ {o} : i.kind[x] = ir.kind[x]
      BY <2>11, <2>14
    <2>6. PICK l \in Seq(Entry) : l = log
      BY DEF Typed
    <2>7. /\ Len(log) <= Len(l) /\ \A n \in 0 .. Len(log) : GoneIn(l, n) = GoneIn(log, n)
          /\ \A n \in 0 .. Len(log) : MadeIn(l, n) = MadeIn(log, n)
      BY <2>6
    <2>8. All(HeardOf) => \A n \in 0 .. Len(log) : \A x \in Live(i) \ MadeIn(l, n) :
              \/ Allowed(i.kind[x])
              \/ x \in Live(ir) \ MadeIn(log, n) /\ i.kind[x] = ir.kind[x]
      BY <1>4, <2>5, <2>7
    <2>9. ir' = i /\ log' = l
      BY <2>1, <2>6, <2>13
    <2>10. /\ DOMAIN call' = {"at", "held", "home", "made", "saved"} /\ call'.at \in Nat \ {0}
           /\ call'.held \in Ops \cup {None} /\ call'.made \in Seq(Ops)
      BY <1>2, <2>1, CalledTyped
    <2> QED
      BY <1>1, <2>1, <2>5, <2>7, <2>8, <2>9, <2>10, CallStep
  <1> QED
    BY <1>5, <1>6

(* An operation is replaced or erased through the builder: only the log is  *)
(* written.                                                                 *)
LEMMA RetireStep ==
    ASSUME ~greedy, Typed, Shape, Coverage, phase = "call", NEW o \in Ops, NEW by \in Ops \cup {None},
           NEW w, Retire(o, by, w), Called, pass' = pass, frames' = frames, phase' = phase
    PROVE  ConversionInv'
  <1>1. ir' = ir /\ log' = Append(log, [did |-> "replace", op |-> o, by |-> by])
    BY DEF Retire
  <1>2. PICK e : e = [did |-> "replace", op |-> o, by |-> by]
    OBVIOUS
  <1>3. e \in Entry /\ e.did = "replace" /\ log \in Seq(Entry)
    BY <1>2 DEF Entry, Typed
  <1>4. PICK l \in Seq(Entry) : l = Append(log, e)
    BY <1>3, LogGrows, AppendProperties
  <1>5. /\ Len(log) <= Len(l) /\ \A n \in 0 .. Len(log) : GoneIn(l, n) = GoneIn(log, n)
        /\ \A n \in 0 .. Len(log) : MadeIn(l, n) = MadeIn(log, n)
    <2>1. \A n \in 0 .. Len(log) : /\ Len(l) = Len(log) + 1 /\ GoneIn(l, n) = GoneIn(log, n)
                                   /\ MadeIn(l, n) = MadeIn(log, n)
      BY <1>3, <1>4, LogGrows
    <2>2. 0 \in 0 .. Len(log) /\ Len(log) \in Nat
      BY <1>3
    <2> QED
      BY <2>1, <2>2
  <1>6. PICK i : i = ir
    OBVIOUS
  <1>7. KindsTyped(i) /\ ir' = i /\ log' = l
    BY <1>1, <1>2, <1>4, <1>6 DEF Typed, KindsTyped
  <1>8. \A n \in 0 .. Len(log) : \A x \in Live(i) \ MadeIn(l, n) :
           x \in Live(ir) \ MadeIn(log, n) /\ i.kind[x] = ir.kind[x]
    BY <1>5, <1>6
  <1>9. /\ DOMAIN call' = {"at", "held", "home", "made", "saved"} /\ call'.at \in Nat \ {0}
        /\ call'.held \in Ops \cup {None} /\ call'.made \in Seq(Ops)
    BY CalledTyped, CallTyped
  <1> QED
    BY <1>5, <1>7, <1>8, <1>9, CallStep

LEMMA ReplaceStep ==
    ASSUME ~greedy, Typed, Shape, Coverage, Replace
    PROVE  ConversionInv'
  <1>1. phase = "call" /\ Calling("replace")
    BY DEF Replace, Calling
  <1>2. Argument \in Ops \cup {None} /\ root \in Ops
    BY <1>1, CallTyped, RootTyped
  <1>3. CASE RootFreed \/ (Argument # None /\ ir.kind[Argument] = Freed)
    <2>1. Fault("freed")
      BY <1>3 DEF Replace
    <2> QED
      BY <2>1, FaultHalts
  <1>4. CASE ~(RootFreed \/ (Argument # None /\ ir.kind[Argument] = Freed))
    <2>1. PICK w : /\ Retire(root, Argument, w) /\ Called
                   /\ pass' = pass /\ frames' = frames /\ phase' = phase
      BY <1>4, Zenon DEF Replace
    <2>2. PICK o, by : o = root /\ by = Argument
      OBVIOUS
    <2>3. o \in Ops /\ by \in Ops \cup {None} /\ Retire(o, by, w)
      BY <1>2, <2>1, <2>2
    <2> QED
      BY <1>1, <2>1, <2>3, RetireStep
  <1> QED
    BY <1>3, <1>4

LEMMA EraseOpStep ==
    ASSUME ~greedy, Typed, Shape, Coverage, phase = "call", NEW o \in Ops, EraseOp(o)
    PROVE  ConversionInv'
  <1>1. CASE ir.kind[o] = Freed
    <2>1. Fault("freed")
      BY <1>1 DEF EraseOp
    <2> QED
      BY <2>1, FaultHalts
  <1>2. CASE ~(ir.kind[o] = Freed)
    <2>1. /\ Retire(o, o, work) /\ Called
          /\ pass' = pass /\ frames' = frames /\ phase' = phase
      BY <1>2 DEF EraseOp
    <2>2. PICK w, by : w = work /\ by = o
      OBVIOUS
    <2>3. by \in Ops \cup {None} /\ Retire(o, by, w)
      BY <2>1, <2>2
    <2> QED
      BY <2>1, <2>3, RetireStep
  <1> QED
    BY <1>1, <1>2

LEMMA EraseStep ==
    ASSUME ~greedy, Typed, Shape, Coverage, Erase
    PROVE  ConversionInv'
  <1>1. phase = "call" /\ EraseOp(root)
    BY DEF Erase, Calling
  <1>2. PICK o \in Ops : o = root
    BY <1>1, CallTyped, RootTyped
  <1>3. EraseOp(o)
    BY <1>1, <1>2
  <1> QED
    BY <1>1, <1>3, EraseOpStep

(* The calls that leave the operations and the log alone.                   *)
LEMMA StillStep ==
    ASSUME ~greedy, Typed, Shape, Coverage, phase = "call", phase' = phase, pass' = pass,
           frames' = frames, ir' = ir, log' = log,
           Called \/ \E p : call' = [call EXCEPT !.at = @ + 1, !.saved = p]
    PROVE  ConversionInv'
  <1>1. PICK i : i = ir
    OBVIOUS
  <1>2. ir' = i /\ i.kind = ir.kind /\ KindsTyped(i)
    BY <1>1 DEF Typed, KindsTyped
  <1>3. /\ DOMAIN call' = {"at", "held", "home", "made", "saved"} /\ call'.at \in Nat \ {0}
        /\ call'.held \in Ops \cup {None} /\ call'.made \in Seq(Ops)
    BY CalledTyped, CallTyped
  <1> QED
    BY <1>2, <1>3, QuietStep

LEMMA EraseDefStep ==
    ASSUME ~greedy, Typed, Shape, Coverage, EraseDef
    PROVE  ConversionInv'
  <1>1. phase = "call"
    BY DEF EraseDef, Calling
  <1>2. CASE call.held # None
    <2>1. PICK o \in Ops : o = call.held
      BY <1>2 DEF Typed
    <2>2. EraseOp(call.held)
      BY <1>2 DEF EraseDef
    <2>3. EraseOp(o)
      BY <2>1, <2>2
    <2> QED
      BY <1>1, <2>3, EraseOpStep
  <1>3. CASE call.held = None
    <2>1. Called /\ phase' = phase /\ pass' = pass /\ frames' = frames /\ ir' = ir /\ log' = log
      BY <1>3 DEF EraseDef
    <2> QED
      BY <1>1, <2>1, StillStep
  <1> QED
    BY <1>2, <1>3

LEMMA SetPointStep ==
    ASSUME ~greedy, Typed, Shape, Coverage, SetPoint
    PROVE  ConversionInv'
  <1>1. phase = "call"
    BY DEF SetPoint, Calling
  <1>2. CASE RootFreed /\ now.do \in {"before", "after"}
    <2>1. Fault("freed")
      BY <1>2 DEF SetPoint
    <2> QED
      BY <2>1, FaultHalts
  <1>3. CASE ~(RootFreed /\ now.do \in {"before", "after"})
    <2>1. Called /\ phase' = phase /\ pass' = pass /\ frames' = frames /\ ir' = ir /\ log' = log
      BY <1>3 DEF SetPoint
    <2> QED
      BY <1>1, <2>1, StillStep
  <1> QED
    BY <1>2, <1>3

LEMMA SavePointStep ==
    ASSUME ~greedy, Typed, Shape, Coverage, SavePoint
    PROVE  ConversionInv'
  <1>1. /\ phase = "call" /\ \E p : call' = [call EXCEPT !.at = @ + 1, !.saved = p]
        /\ phase' = phase /\ pass' = pass /\ frames' = frames /\ ir' = ir /\ log' = log
    BY DEF SavePoint, Calling
  <1> QED
    BY <1>1, StillStep

LEMMA RestorePointStep ==
    ASSUME ~greedy, Typed, Shape, Coverage, RestorePoint
    PROVE  ConversionInv'
  <1>1. /\ phase = "call" /\ Called
        /\ phase' = phase /\ pass' = pass /\ frames' = frames /\ ir' = ir /\ log' = log
    BY DEF RestorePoint, Calling
  <1> QED
    BY <1>1, StillStep

(* A block is split: the operations stay what they are.                     *)
LEMMA SplitBlockStep ==
    ASSUME ~greedy, Typed, Shape, Coverage, SplitBlock
    PROVE  ConversionInv'
  <1>1. phase = "call"
    BY DEF SplitBlock, Calling
  <1>2. CASE RootFreed
    <2>1. Fault("freed")
      BY <1>2 DEF SplitBlock
    <2> QED
      BY <2>1, FaultHalts
  <1>3. CASE ~RootFreed
    <2>1. PICK new : /\ ir' = Split(ir, root, new) /\ Called
                     /\ pass' = pass /\ frames' = frames /\ log' = log /\ phase' = phase
      BY <1>3 DEF SplitBlock
    <2>2. PICK i : i = Split(ir, root, new)
      OBVIOUS
    <2>3. DOMAIN i = DOMAIN ir /\ i.kind = ir.kind /\ i.arg = ir.arg
      <3>1. PICK b, c, d, e, r : /\ i = [ir EXCEPT !.body[b] = d, !.body[c] = e, !.region = r]
        BY <2>2 DEF Split
      <3>2. DOMAIN ir = {"kind", "arg", "body", "region"}
        BY DEF Typed
      <3> QED
        BY <3>1, <3>2
    <2>4. KindsTyped(i)
      BY <2>3 DEF Typed, KindsTyped
    <2>5. /\ DOMAIN call' = {"at", "held", "home", "made", "saved"} /\ call'.at \in Nat \ {0}
          /\ call'.held \in Ops \cup {None} /\ call'.made \in Seq(Ops)
      BY <1>1, <2>1, CalledTyped, CallTyped
    <2>6. ir' = i
      BY <2>1, <2>2
    <2> QED
      BY <1>1, <2>1, <2>3, <2>4, <2>5, <2>6, QuietStep
  <1> QED
    BY <1>2, <1>3

(* An operation erased behind the driver's back: nothing is promised then.  *)
LEMMA UnlinkStep ==
    ASSUME ~greedy, Typed, Shape, Coverage, Unlink
    PROVE  ConversionInv'
  <1>1. phase = "call" /\ Calling("unlink")
    BY DEF Unlink, Calling
  <1>2. CASE RootFreed \/ root \in Replaced
    <2>1. Fault("freed")
      BY <1>2 DEF Unlink
    <2> QED
      BY <2>1, FaultHalts
  <1>3. CASE ~RootFreed /\ root \notin Replaced /\ Users(ir, root) # {}
    <2>1. Fault("used")
      BY <1>3 DEF Unlink
    <2> QED
      BY <2>1, FaultHalts
  <1>4. CASE ~RootFreed /\ root \notin Replaced /\ ~(Users(ir, root) # {})
    <2>1. /\ ir' = Without(ir, root) /\ Called
          /\ pass' = pass /\ frames' = frames /\ log' = log /\ phase' = phase
      BY <1>4 DEF Unlink
    <2>2. PICK i : i = Without(ir, root)
      OBVIOUS
    <2>3. DOMAIN i = DOMAIN ir /\ i.kind = [ir.kind EXCEPT ![root] = Freed]
          /\ i.arg = [ir.arg EXCEPT ![root] = None]
      <3>1. DOMAIN ir = {"kind", "arg", "body", "region"}
        BY DEF Typed
      <3> QED
        BY <2>2, <3>1 DEF Without
    <2>4. KindsTyped(i)
      BY <2>3 DEF Typed, KindsTyped
    <2>5. ~All(HeardOf)
      <3>1. frame.tried \in DOMAIN patterns /\ script = patterns[frame.tried] /\ Does(script, {"unlink"})
        BY <1>1, CallTyped
      <3> QED
        BY <3>1, HeardPatterns DEF HeardOf
    <2>6. PICK l \in Seq(Entry) : l = log
      BY DEF Typed
    <2>7. Len(log) <= Len(l) /\ \A n \in 0 .. Len(log) : GoneIn(l, n) = GoneIn(log, n)
      BY <2>6
    <2>8. /\ DOMAIN call' = {"at", "held", "home", "made", "saved"} /\ call'.at \in Nat \ {0}
          /\ call'.held \in Ops \cup {None} /\ call'.made \in Seq(Ops)
      BY <1>1, <2>1, CalledTyped, CallTyped
    <2>9. ir' = i /\ log' = l
      BY <2>1, <2>2, <2>6
    <2> QED
      BY <1>1, <2>1, <2>4, <2>5, <2>7, <2>8, <2>9, CallStep
  <1> QED
    BY <1>2, <1>3, <1>4

(***************************************************************************)
(* The theorem.                                                            *)
(***************************************************************************)
(* What holds at the start, and the steps that stop or do nothing.          *)
LEMMA ConversionStarts ==
    ASSUME Init
    PROVE  ConversionInv
  <1>1. pass \in Passes /\ ir \in Programs /\ frames = <<>> /\ call = NoCall /\ log = <<>> /\ phase = "start"
    BY DEF Init
  <1>2. IsPass(pass) /\ IsProgram(ir)
    BY <1>1, RewritingAssumption
  <1>3. ir \in Irs
    BY <1>2 DEF IsProgram
  <1>4. /\ DOMAIN ir = {"kind", "arg", "body", "region"}
        /\ ir.kind \in [Ops -> Kinds \cup {Freed}] /\ ir.arg \in [Ops -> Ops \cup {None}]
    BY <1>3 DEF Irs
  <1>5. /\ DOMAIN call = {"at", "held", "home", "made", "saved"}
        /\ call.at \in Nat /\ call.held \in Ops \cup {None} /\ call.made \in Seq(Ops)
    BY <1>1 DEF NoCall
  <1>6. Typed
    BY <1>1, <1>2, <1>4, <1>5 DEF Typed
  <1>7. Shape
    BY <1>1 DEF Shape, Nesting, RootsGone
  <1>8. Coverage
    BY <1>1 DEF Coverage, CoveredBelow
  <1> QED
    BY <1>1, <1>6, <1>7, <1>8 DEF ConversionInv, ConvertedIsLegal

LEMMA StutterStep ==
    ASSUME ConversionInv, UNCHANGED vars
    PROVE  ConversionInv'
  <1>1. /\ pass' = pass /\ ir' = ir /\ frames' = frames /\ call' = call /\ log' = log /\ phase' = phase
        /\ result' = result
    BY DEF vars
  <1>2. Typed => Typed'
    BY <1>1 DEF Typed
  <1>3. frame' = frame /\ root' = root /\ patterns' = patterns
    BY <1>1 DEF frame, root, patterns
  <1>4. Shape => Shape'
    BY <1>1, <1>3 DEF Shape
  <1>5. Coverage => Coverage'
    <2>1. PICK i, fs, l : i = ir /\ fs = frames /\ l = log
      OBVIOUS
    <2>2. ir' = i /\ frames' = fs /\ log' = l
      BY <1>1, <2>1
    <2>3. Coverage /\ All(HeardOf) =>
            /\ CoveredBelow(i, fs, l)
            /\ phase' = "legalize" => Covered(i, fs, l)
      BY <1>1, <2>1 DEF Coverage
    <2> QED
      BY <1>1, <2>2, <2>3, CoverageNext
  <1>6. /\ (~greedy)' = ~greedy /\ All(HeardOf)' = All(HeardOf) /\ \A k : Action(k)' = Action(k)
    BY <1>1, SamePass
  <1>7. Live(ir)' = Live(ir)
    BY <1>1 DEF Live
  <1>8. ConvertedIsLegal => ConvertedIsLegal'
    BY <1>1, <1>6, <1>7 DEF ConvertedIsLegal
  <1> QED
    BY <1>1, <1>2, <1>4, <1>5, <1>6, <1>8 DEF ConversionInv, Running

LEMMA PassStays ==
    ASSUME Next
    PROVE  pass' = pass
  <1>1. CASE Walk \/ Pop \/ Iterate
    BY <1>1 DEF Walk, Pop, Iterate, Fault, Stop
  <1>2. CASE Collect \/ Legalize
    BY <1>2 DEF Collect, Legalize, Fault, Stop
  <1>3. CASE Legalized
    BY <1>3, Zenon DEF Legalized, GiveUp, Fault, Stop
  <1>4. CASE Match
    <2>1. Unconverted => pass' = pass
      BY DEF Unconverted, GiveUp, Surrender, Fault, Stop
    <2>2. Unmatched => pass' = pass
      BY <2>1, Zenon DEF Unmatched
    <2> QED
      BY <1>4, <2>2, Zenon DEF Match, Fault, Stop
  <1>5. CASE Answer
    BY <1>5, Zenon DEF Answer, GiveUp, Fault, Stop
  <1>6. CASE Create \/ Push \/ Replace
    BY <1>6 DEF Create, Push, Replace, Fault, Stop
  <1>7. CASE Erase \/ EraseDef
    BY <1>7 DEF Erase, EraseDef, EraseOp, Fault, Stop
  <1>8. CASE Unlink \/ SplitBlock \/ SetPoint
    BY <1>8 DEF Unlink, SplitBlock, SetPoint, Fault, Stop
  <1>9. CASE SavePoint \/ RestorePoint \/ Exhausted \/ Finished
    BY <1>9 DEF SavePoint, RestorePoint, Exhausted, Finished, Stop, vars
  <1> QED
    BY <1>1, <1>2, <1>3, <1>4, <1>5, <1>6, <1>7, <1>8, <1>9 DEF Next

LEMMA ConversionInductive ==
    ASSUME ConversionInv, [Next]_vars
    PROVE  ConversionInv'
  <1>1. CASE greedy
    <2>1. pass' = pass
      BY PassStays DEF vars
    <2>2. greedy'
      BY <1>1, <2>1 DEF greedy
    <2> QED
      BY <2>2 DEF ConversionInv, ConvertedIsLegal
  <1>2. CASE ~greedy /\ Running /\ Next
    <2>1. Typed /\ Shape /\ Coverage
      BY <1>2 DEF ConversionInv
    <2>2. CASE Walk \/ Pop \/ Iterate
      BY <1>2, <2>2 DEF Walk, Pop, Iterate
    <2>3. CASE Exhausted
      BY <2>3, Halts DEF Exhausted, Stop
    <2>4. CASE Finished
      BY <1>2, <2>4 DEF Finished, Running, Ended
    <2> QED
      BY <1>2, <2>1, <2>2, <2>3, <2>4, CollectStep, LegalizeStep, LegalizedStep, MatchStep, AnswerStep,
         CreateStep, PushStep, ReplaceStep, EraseStep, EraseDefStep, UnlinkStep, SplitBlockStep,
         SetPointStep, SavePointStep, RestorePointStep, Zenon DEF Next
  <1>3. CASE ~greedy /\ ~Running /\ Next
    <2>1. UNCHANGED vars
      BY <1>3 DEF Next, Running, Walk, Pop, Iterate, Collect, Legalize, Legalized, Match, Answer, Create, Push,
             Replace, Erase, EraseDef, Unlink, SplitBlock, SetPoint, SavePoint, RestorePoint, Exhausted,
             Calling, Finished
    <2> QED
      BY <2>1, StutterStep
  <1>4. CASE UNCHANGED vars
    BY <1>4, StutterStep
  <1> QED
    BY <1>1, <1>2, <1>3, <1>4

(* A dialect conversion that returns true leaves no illegal operation.      *)
THEOREM ConversionsLegalize == Spec => []ConvertedIsLegal
  <1>1. ConversionInv => ConvertedIsLegal
    BY DEF ConversionInv, ConvertedIsLegal
  <1> QED
    BY <1>1, ConversionStarts, ConversionInductive, PTL DEF Spec

(***************************************************************************)
(* Lists without some of their elements.                                   *)
(***************************************************************************)
(* Nothing is left out.                                                    *)
LEMMA OnlyAll ==
    ASSUME NEW S, NEW s \in Seq(S), NEW kept, ToSet(s) \subseteq kept
    PROVE  Only(s, kept) = s
  <1> DEFINE Wrong == {t \in Seq(S) : ToSet(t) \subseteq kept /\ Only(t, kept) # t}
  <1>1. <<>> \notin Wrong
    BY OnlyOfEmpty
  <1>2. ASSUME NEW t \in Seq(S), NEW x \in S, t \notin Wrong
        PROVE  Append(t, x) \notin Wrong
    <2>1. Only(Append(t, x), kept) = IF x \in kept THEN Append(Only(t, kept), x) ELSE Only(t, kept)
      BY OnlyOfAppend
    <2>2. ToSet(Append(t, x)) = ToSet(t) \cup {x}
      BY ToSetOfAppend
    <2> QED
      BY <1>2, <2>1, <2>2
  <1>3. Wrong = {}
    <2>1. Wrong \in SUBSET Seq(S)
      OBVIOUS
    <2> HIDE DEF Wrong
    <2> QED
      BY <1>1, <1>2, <2>1, Shortest
  <1> QED
    BY <1>3

(* What is left out of what is left.                                       *)
LEMMA OnlyOfOnly ==
    ASSUME NEW S, NEW s \in Seq(S), NEW kept, NEW left
    PROVE  Only(Only(s, kept), left) = Only(s, kept \cap left)
  <1> DEFINE Wrong == {t \in Seq(S) : Only(Only(t, kept), left) # Only(t, kept \cap left)}
  <1>1. <<>> \notin Wrong
    BY OnlyOfEmpty
  <1>2. ASSUME NEW t \in Seq(S), NEW x \in S, t \notin Wrong
        PROVE  Append(t, x) \notin Wrong
    <2>1. PICK u \in Seq(S) : u = Only(t, kept)
      BY OnlyType
    <2>2. Only(Append(t, x), kept) = IF x \in kept THEN Append(u, x) ELSE u
      BY <2>1, OnlyOfAppend
    <2>3. Only(Append(u, x), left) = IF x \in left THEN Append(Only(u, left), x) ELSE Only(u, left)
      BY OnlyOfAppend
    <2>4. Only(Append(t, x), kept \cap left) =
             IF x \in kept \cap left THEN Append(Only(t, kept \cap left), x)
                                     ELSE Only(t, kept \cap left)
      BY OnlyOfAppend
    <2>5. Only(u, left) = Only(t, kept \cap left)
      BY <1>2, <2>1
    <2> QED
      <3>1. CASE x \in kept /\ x \in left
        BY <2>2, <2>3, <2>4, <2>5, <3>1
      <3>2. CASE ~(x \in kept /\ x \in left)
        BY <2>2, <2>3, <2>4, <2>5, <3>2
      <3> QED
        BY <3>1, <3>2
  <1>3. Wrong = {}
    <2>1. Wrong \in SUBSET Seq(S)
      OBVIOUS
    <2> HIDE DEF Wrong
    <2> QED
      BY <1>1, <1>2, <2>1, Shortest
  <1> QED
    BY <1>3

LEMMA OnlyOfConcat ==
    ASSUME NEW S, NEW kept
    PROVE  \A s, t \in Seq(S) : Only(s \o t, kept) = Only(s, kept) \o Only(t, kept)
  <1> TAKE s, t \in Seq(S)
  <1> DEFINE Wrong == {u \in Seq(S) : Only(s \o u, kept) # Only(s, kept) \o Only(u, kept)}
  <1>1. PICK v \in Seq(S) : v = Only(s, kept)
    BY OnlyType
  <1>2. <<>> \notin Wrong
    <2>1. s \o <<>> = s /\ v \o <<>> = v
      BY ConcatEmptySeq
    <2> QED
      BY <1>1, <2>1, OnlyOfEmpty
  <1>3. ASSUME NEW u \in Seq(S), NEW x \in S, u \notin Wrong
        PROVE  Append(u, x) \notin Wrong
    <2>1. PICK w \in Seq(S) : w = Only(u, kept)
      BY OnlyType
    <2>2. s \o u \in Seq(S) /\ s \o Append(u, x) = Append(s \o u, x)
      OBVIOUS
    <2>3. v \o Append(w, x) = Append(v \o w, x)
      OBVIOUS
    <2>4. Only(Append(s \o u, x), kept) =
             IF x \in kept THEN Append(Only(s \o u, kept), x) ELSE Only(s \o u, kept)
      BY <2>2, OnlyOfAppend
    <2>5. Only(Append(u, x), kept) = IF x \in kept THEN Append(w, x) ELSE w
      BY <2>1, OnlyOfAppend
    <2>6. Only(s \o u, kept) = v \o w
      BY <1>1, <1>3, <2>1
    <2>7. Only(s \o Append(u, x), kept) = v \o Only(Append(u, x), kept)
      BY <2>2, <2>3, <2>4, <2>5, <2>6
    <2> QED
      BY <1>1, <2>7
  <1>4. Wrong = {}
    <2>1. Wrong \in SUBSET Seq(S)
      OBVIOUS
    <2> HIDE DEF Wrong
    <2> QED
      BY <1>2, <1>3, <2>1, Shortest
  <1> QED
    BY <1>4

LEMMA OnlyOfBoth ==
    ASSUME NEW S, NEW s \in Seq(S), NEW t \in Seq(S), NEW u \in Seq(S), NEW kept,
           Only(s, kept) = Only(t, kept)
    PROVE  Only(s \o u, kept) = Only(t \o u, kept)
  <1>1. \A x, y \in Seq(S) : Only(x \o y, kept) = Only(x, kept) \o Only(y, kept)
    BY OnlyOfConcat, Zenon
  <1>2. Only(s \o u, kept) = Only(s, kept) \o Only(u, kept)
    BY <1>1, Zenon
  <1>3. Only(t \o u, kept) = Only(t, kept) \o Only(u, kept)
    BY <1>1, Zenon
  <1> QED
    BY <1>2, <1>3, Zenon

(* Elements that are not in the list do not matter.                        *)
LEMMA OnlySame ==
    ASSUME NEW S, NEW s \in Seq(S), NEW A, NEW B, ToSet(s) \cap A = ToSet(s) \cap B
    PROVE  Only(s, A) = Only(s, B)
  <1>1. Only(s, ToSet(s)) = s
    BY OnlyAll
  <1>2. /\ Only(Only(s, ToSet(s)), A) = Only(s, ToSet(s) \cap A)
        /\ Only(Only(s, ToSet(s)), B) = Only(s, ToSet(s) \cap B)
    BY OnlyOfOnly
  <1> QED
    BY <1>1, <1>2

(* A list is cut in two.                                                   *)
LEMMA Halves ==
    ASSUME NEW S, NEW s \in Seq(S), NEW n \in 1 .. Len(s) + 1
    PROVE  /\ SubSeq(s, 1, n - 1) \in Seq(S) /\ SubSeq(s, n, Len(s)) \in Seq(S)
           /\ s = SubSeq(s, 1, n - 1) \o SubSeq(s, n, Len(s))
           /\ ToSet(s) = ToSet(SubSeq(s, 1, n - 1)) \cup ToSet(SubSeq(s, n, Len(s)))
  <1>1. PICK z \in Nat : z = Len(s)
    OBVIOUS
  <1>2. PICK m \in Nat : m = n - 1 /\ m + 1 = n /\ m \in 0 .. z
    BY <1>1
  <1>3. \A i \in 1 .. z : s[i] \in S
    BY <1>1
  <1>4. SubSeq(s, 1, m) \in Seq(S) /\ SubSeq(s, m + 1, z) \in Seq(S)
    <2>1. 1 \in Int /\ m \in Int /\ m + 1 \in Int /\ z \in Int
      BY <1>1, <1>2
    <2>2. \A i \in 1 .. m : s[i] \in S
      BY <1>2, <1>3
    <2>3. \A i \in m + 1 .. z : s[i] \in S
      BY <1>2, <1>3
    <2> QED
      BY <2>1, <2>2, <2>3, SubSeqProperties, Zenon
  <1>5. SubSeq(s, 1, m) \o SubSeq(s, m + 1, z) = s
    <2>1. 1 \in 1 .. z + 1 /\ m \in (1 - 1) .. z /\ z \in m .. z
      BY <1>1, <1>2
    <2>2. SubSeq(s, 1, m) \o SubSeq(s, m + 1, z) = SubSeq(s, 1, z)
      BY <1>1, <2>1, ConcatAdjacentSubSeq, Zenon
    <2> QED
      BY <1>1, <2>2, SubSeqFull
  <1>6. ToSet(s) = ToSet(SubSeq(s, 1, m)) \cup ToSet(SubSeq(s, m + 1, z))
    <2>1. \A x, y \in Seq(S) : ToSet(x \o y) = ToSet(x) \cup ToSet(y)
      BY ToSetOfConcat
    <2> QED
      BY <1>4, <1>5, <2>1, Zenon
  <1> QED
    BY <1>1, <1>2, <1>4, <1>5, <1>6, Zenon

LEMMA Inserted ==
    ASSUME NEW S, NEW s \in Seq(S), NEW o \in S, NEW n \in 1 .. Len(s) + 1
    PROVE  /\ InsertAt(s, n, o) \in Seq(S)
           /\ ToSet(InsertAt(s, n, o)) = ToSet(s) \cup {o}
           /\ \A kept : o \notin kept => Only(InsertAt(s, n, o), kept) = Only(s, kept)
  <1>1. PICK a \in Seq(S), b \in Seq(S) :
           /\ a = SubSeq(s, 1, n - 1) /\ b = SubSeq(s, n, Len(s))
           /\ s = a \o b /\ ToSet(s) = ToSet(a) \cup ToSet(b)
    <2>1. /\ SubSeq(s, 1, n - 1) \in Seq(S) /\ SubSeq(s, n, Len(s)) \in Seq(S)
          /\ s = SubSeq(s, 1, n - 1) \o SubSeq(s, n, Len(s))
          /\ ToSet(s) = ToSet(SubSeq(s, 1, n - 1)) \cup ToSet(SubSeq(s, n, Len(s)))
      BY Halves
    <2> QED
      BY <2>1, Zenon
  <1>2. PICK u \in Seq(S) : u = Append(a, o)
    BY AppendProperties
  <1>3. u = a \o <<o>>
    BY <1>2
  <1>4. InsertAt(s, n, o) = u \o b
    BY <1>1, <1>3 DEF InsertAt
  <1>5. u \o b \in Seq(S) /\ ToSet(u \o b) = ToSet(u) \cup ToSet(b) /\ ToSet(u) = ToSet(a) \cup {o}
    <2>1. u \o b \in Seq(S)
      BY ConcatProperties, Zenon
    <2>2. ToSet(u \o b) = ToSet(u) \cup ToSet(b)
      <3>1. \A x, y \in Seq(S) : ToSet(x \o y) = ToSet(x) \cup ToSet(y)
        BY ToSetOfConcat
      <3> QED
        BY <3>1
    <2>3. ToSet(u) = ToSet(a) \cup {o}
      BY <1>2, ToSetOfAppend, Zenon
    <2> QED
      BY <2>1, <2>2, <2>3
  <1>6. ASSUME NEW kept, o \notin kept PROVE Only(u \o b, kept) = Only(s, kept)
    <2>1. Only(u, kept) = Only(a, kept)
      BY <1>2, <1>6, OnlyOfAppend
    <2>2. \A x, y, z \in Seq(S) :
             Only(x, kept) = Only(y, kept) => Only(x \o z, kept) = Only(y \o z, kept)
      BY OnlyOfBoth
    <2>3. Only(u \o b, kept) = Only(a \o b, kept)
      BY <2>1, <2>2, Zenon
    <2> QED
      BY <1>1, <2>3
  <1> QED
    BY <1>1, <1>4, <1>5, <1>6

LEMMA PutFacts ==
    ASSUME NEW S, NEW s \in Seq(S), NEW o \in S, NEW before, before = End \/ before \in ToSet(s)
    PROVE  /\ Put(s, o, before) \in Seq(S)
           /\ ToSet(Put(s, o, before)) = ToSet(s) \cup {o}
           /\ \A kept : o \notin kept => Only(Put(s, o, before), kept) = Only(s, kept)
  <1>1. CASE before = End
    <2>1. Put(s, o, before) = Append(s, o)
      BY <1>1 DEF Put
    <2> QED
      BY <2>1, ToSetOfAppend, OnlyOfAppend, AppendProperties
  <1>2. CASE before # End
    <2>1. \E n \in DOMAIN s : s[n] = before
      BY <1>2 DEF ToSet
    <2>2. PlaceIn(s, before) \in DOMAIN s
      BY <2>1 DEF PlaceIn
    <2>3. PICK n \in 1 .. Len(s) + 1 : n = PlaceIn(s, before)
      BY <2>2
    <2>4. Put(s, o, before) = InsertAt(s, n, o)
      BY <1>2, <2>3 DEF Put
    <2> QED
      BY <2>4, Inserted
  <1> QED
    BY <1>1, <1>2

(***************************************************************************)
(* The operations and their places: what is not freed is in a block of the *)
(* region, and the other blocks are empty.                                 *)
(***************************************************************************)
Filed(i) ==
    /\ i \in Irs
    /\ \A b \in Blocks \ ToSet(i.region) : i.body[b] = <<>>
    /\ \A o \in Live(i) : \E b \in Blocks : o \in ToSet(i.body[b])

(* What is freed is nowhere and uses nothing.                              *)
Blank(i) ==
    \A o \in Ops \ Live(i) : i.arg[o] = None /\ \A b \in Blocks : o \notin ToSet(i.body[b])

LEMMA IrFields ==
    ASSUME NEW i \in Irs
    PROVE  /\ DOMAIN i = {"kind", "arg", "body", "region"}
           /\ i.kind \in [Ops -> Kinds \cup {Freed}] /\ i.arg \in [Ops -> Ops \cup {None}]
           /\ i.body \in [Blocks -> Seq(Ops)] /\ i.region \in Seq(Blocks)
           /\ KindsTyped(i)
  BY DEF Irs, KindsTyped

LEMMA SameIr ==
    ASSUME NEW i \in Irs, NEW j \in Irs, i.region = j.region,
           \A o \in Ops : i.kind[o] = j.kind[o] /\ i.arg[o] = j.arg[o],
           \A b \in Blocks : i.body[b] = j.body[b]
    PROVE  i = j
  <1>1. i.kind = j.kind /\ i.arg = j.arg /\ i.body = j.body
    BY IrFields
  <1>2. /\ i = [kind |-> i.kind, arg |-> i.arg, body |-> i.body, region |-> i.region]
        /\ j = [kind |-> j.kind, arg |-> j.arg, body |-> j.body, region |-> j.region]
    BY DEF Irs
  <1> QED
    BY <1>1, <1>2, Zenon

(* An Ir with other fields.                                                *)
LEMMA IrMade ==
    ASSUME NEW i \in Irs, NEW k \in [Ops -> Kinds \cup {Freed}], NEW a \in [Ops -> Ops \cup {None}],
           NEW c \in [Blocks -> Seq(Ops)], NEW r \in Seq(Blocks), NEW j,
           DOMAIN j = DOMAIN i, j = [x \in DOMAIN i |-> j[x]],
           j.kind = k, j.arg = a, j.body = c, j.region = r
    PROVE  j \in Irs
  <1>1. j = [kind |-> k, arg |-> a, body |-> c, region |-> r]
    BY DEF Irs
  <1> QED
    BY <1>1 DEF Irs

LEMMA HomeOf ==
    ASSUME NEW i, Filed(i), NEW o \in Live(i)
    PROVE  /\ BlockOf(i, o) \in Blocks /\ BlockOf(i, o) \in ToSet(i.region)
           /\ o \in ToSet(i.body[BlockOf(i, o)])
  <1>1. \E b \in Blocks : o \in ToSet(i.body[b])
    BY DEF Filed
  <1>2. PICK b : b = BlockOf(i, o) /\ b \in Blocks /\ o \in ToSet(i.body[b])
    BY <1>1 DEF BlockOf
  <1>3. ToSet(<<>>) = {}
    BY DEF ToSet
  <1>4. b \in ToSet(i.region)
    BY <1>2, <1>3 DEF Filed
  <1> QED
    BY <1>2, <1>4

LEMMA ProgramFiled ==
    ASSUME NEW i, IsProgram(i)
    PROVE  Filed(i) /\ Blank(i) /\ i.region # <<>> /\ i.region \in Seq(Blocks)
  <1>1. /\ i \in Irs /\ Live(i) = ToSet(InOrder(i)) /\ i.region # <<>>
        /\ \A b \in Blocks \ ToSet(i.region) : i.body[b] = <<>>
        /\ \A o \in Ops \ Live(i) : i.arg[o] = None
    BY DEF IsProgram, Placed
  <1>2. Live(i) = UNION {ToSet(i.body[b]) : b \in ToSet(i.region)}
    BY <1>1, InOrderType
  <1>3. i.region \in Seq(Blocks) /\ ToSet(i.region) \subseteq Blocks
    BY <1>1, IrFields DEF ToSet
  <1>4. \A o \in Live(i) : \E b \in Blocks : o \in ToSet(i.body[b])
    BY <1>2, <1>3
  <1>5. ASSUME NEW o \in Ops \ Live(i), NEW b \in Blocks
        PROVE  o \notin ToSet(i.body[b])
    <2>1. CASE b \in ToSet(i.region)
      BY <1>2, <1>5, <2>1
    <2>2. CASE b \notin ToSet(i.region)
      <3>1. i.body[b] = <<>> /\ ToSet(<<>>) = {}
        BY <1>1, <2>2 DEF ToSet
      <3> QED
        BY <3>1
    <2> QED
      BY <2>1, <2>2
  <1> QED
    BY <1>1, <1>3, <1>4, <1>5 DEF Filed, Blank

(* An operation that is made.                                              *)
GrownFrom(i, o, k, a, b, j) ==
    /\ Filed(j) /\ Live(j) = Live(i) \cup {o} /\ j.region = i.region
    /\ \A x \in Ops : /\ j.kind[x] = IF x = o THEN k ELSE i.kind[x]
                      /\ j.arg[x] = IF x = o THEN a ELSE i.arg[x]
    /\ \A c \in Blocks :
          /\ ToSet(j.body[c]) = IF c = b THEN ToSet(i.body[c]) \cup {o} ELSE ToSet(i.body[c])
          /\ \A kept : o \notin kept => Only(j.body[c], kept) = Only(i.body[c], kept)

LEMMA GrownFiled ==
    ASSUME NEW i, Filed(i), NEW o \in Ops, NEW k \in Kinds, NEW a \in Ops \cup {None},
           NEW b \in ToSet(i.region), NEW before, before = End \/ before \in ToSet(i.body[b])
    PROVE  GrownFrom(i, o, k, a, b, Grown(i, o, k, a, b, before))
  <1>0. PICK j : j = Grown(i, o, k, a, b, before)
    OBVIOUS
  <1>1. /\ i \in Irs /\ DOMAIN i = {"kind", "arg", "body", "region"}
        /\ i.kind \in [Ops -> Kinds \cup {Freed}] /\ i.arg \in [Ops -> Ops \cup {None}]
        /\ i.body \in [Blocks -> Seq(Ops)] /\ i.region \in Seq(Blocks) /\ KindsTyped(i)
    BY IrFields DEF Filed
  <1>2. b \in Blocks /\ ToSet(i.region) \subseteq Blocks
    BY <1>1 DEF ToSet
  <1>3. PICK q \in Seq(Ops) :
           /\ q = Put(i.body[b], o, before) /\ ToSet(q) = ToSet(i.body[b]) \cup {o}
           /\ \A kept : o \notin kept => Only(q, kept) = Only(i.body[b], kept)
    <2>1. i.body[b] \in Seq(Ops)
      BY <1>1, <1>2
    <2> QED
      BY <2>1, PutFacts
  <1>4. j = [i EXCEPT !.kind[o] = k, !.arg[o] = a, !.body[b] = q]
    BY <1>0, <1>3 DEF Grown
  <1>5. /\ DOMAIN j = DOMAIN i /\ j = [x \in DOMAIN i |-> j[x]]
        /\ j.kind = [i.kind EXCEPT ![o] = k] /\ j.arg = [i.arg EXCEPT ![o] = a]
        /\ j.body = [i.body EXCEPT ![b] = q] /\ j.region = i.region
    BY <1>1, <1>4
  <1>6. /\ j.kind \in [Ops -> Kinds \cup {Freed}] /\ j.arg \in [Ops -> Ops \cup {None}]
        /\ j.body \in [Blocks -> Seq(Ops)]
    <2>1. j.kind \in [Ops -> Kinds \cup {Freed}]
      BY <1>1, <1>5
    <2>2. j.arg \in [Ops -> Ops \cup {None}]
      BY <1>1, <1>5
    <2>3. j.body \in [Blocks -> Seq(Ops)]
      BY <1>1, <1>2, <1>5
    <2> QED
      BY <2>1, <2>2, <2>3
  <1>7. j \in Irs
    BY <1>1, <1>5, <1>6, IrMade
  <1>8. \A x \in Ops : /\ j.kind[x] = IF x = o THEN k ELSE i.kind[x]
                       /\ j.arg[x] = IF x = o THEN a ELSE i.arg[x]
    BY <1>1, <1>5
  <1>9. Live(j) = Live(i) \cup {o}
    <2>1. k # Freed
      BY RewritingAssumption DEF Freed
    <2> QED
      BY <1>8, <2>1 DEF Live
  <1>10. \A c \in Blocks : j.body[c] = IF c = b THEN q ELSE i.body[c]
    BY <1>1, <1>5
  <1>11. \A c \in Blocks :
            /\ ToSet(j.body[c]) = IF c = b THEN ToSet(i.body[c]) \cup {o} ELSE ToSet(i.body[c])
            /\ \A kept : o \notin kept => Only(j.body[c], kept) = Only(i.body[c], kept)
    BY <1>3, <1>10
  <1>12. \A c \in Blocks \ ToSet(j.region) : j.body[c] = <<>>
    BY <1>5, <1>10 DEF Filed
  <1>13. \A x \in Live(j) : \E c \in Blocks : x \in ToSet(j.body[c])
    BY <1>2, <1>9, <1>11 DEF Filed
  <1>14. Filed(j)
    BY <1>7, <1>12, <1>13 DEF Filed
  <1>15. GrownFrom(i, o, k, a, b, j)
    BY <1>5, <1>8, <1>9, <1>11, <1>14 DEF GrownFrom
  <1> QED
    BY <1>0, <1>15

(* Operations that are taken away.                                         *)
RidFrom(i, gone, j) ==
    /\ j \in Irs /\ j.region = i.region
    /\ \A o \in Ops : /\ j.kind[o] = IF o \in gone THEN Freed ELSE i.kind[o]
                      /\ j.arg[o] = IF o \in gone THEN None ELSE i.arg[o]
    /\ \A b \in Blocks : j.body[b] = Only(i.body[b], Ops \ gone)

LEMMA RidFields ==
    ASSUME NEW i \in Irs, NEW gone
    PROVE  RidFrom(i, gone, Rid(i, gone))
  <1>0. PICK j : j = Rid(i, gone)
    OBVIOUS
  <1>1. /\ DOMAIN i = {"kind", "arg", "body", "region"}
        /\ i.kind \in [Ops -> Kinds \cup {Freed}] /\ i.arg \in [Ops -> Ops \cup {None}]
        /\ i.body \in [Blocks -> Seq(Ops)] /\ i.region \in Seq(Blocks)
    BY IrFields
  <1>2. PICK c : c = [b \in Blocks |-> Only(i.body[b], Ops \ gone)]
    OBVIOUS
  <1>3. /\ DOMAIN j = DOMAIN i /\ j = [x \in DOMAIN i |-> j[x]]
        /\ j.kind = [o \in Ops |-> IF o \in gone THEN Freed ELSE i.kind[o]]
        /\ j.arg = [o \in Ops |-> IF o \in gone THEN None ELSE i.arg[o]]
        /\ j.body = c /\ j.region = i.region
    BY <1>0, <1>1, <1>2 DEF Rid
  <1>4. c \in [Blocks -> Seq(Ops)]
    <2>1. \A b \in Blocks : i.body[b] \in Seq(Ops)
      BY <1>1
    <2>2. \A b \in Blocks : Only(i.body[b], Ops \ gone) \in Seq(Ops)
      BY <2>1, OnlyType
    <2> QED
      BY <1>2, <2>2
  <1>5. j.kind \in [Ops -> Kinds \cup {Freed}] /\ j.arg \in [Ops -> Ops \cup {None}]
    BY <1>1, <1>3
  <1>6. j \in Irs
    BY <1>1, <1>3, <1>4, <1>5, IrMade
  <1>7. \A b \in Blocks : j.body[b] = Only(i.body[b], Ops \ gone)
    BY <1>2, <1>3
  <1>8. \A o \in Ops : /\ j.kind[o] = IF o \in gone THEN Freed ELSE i.kind[o]
                       /\ j.arg[o] = IF o \in gone THEN None ELSE i.arg[o]
    BY <1>3
  <1> QED
    BY <1>0, <1>3, <1>6, <1>7, <1>8 DEF RidFrom

LEMMA RidFiled ==
    ASSUME NEW i, Filed(i), NEW gone, NEW j, j = Rid(i, gone)
    PROVE  /\ Filed(j) /\ Live(j) = Live(i) \ gone /\ j.region = i.region
           /\ Blank(i) => Blank(j)
  <1>0. RidFrom(i, gone, j)
    BY RidFields DEF Filed
  <1>1. /\ j \in Irs /\ j.region = i.region
        /\ \A o \in Ops : /\ j.kind[o] = IF o \in gone THEN Freed ELSE i.kind[o]
                          /\ j.arg[o] = IF o \in gone THEN None ELSE i.arg[o]
        /\ \A b \in Blocks : j.body[b] = Only(i.body[b], Ops \ gone)
    BY <1>0 DEF RidFrom
  <1>2. \A b \in Blocks : ToSet(j.body[b]) = ToSet(i.body[b]) \cap (Ops \ gone)
    <2>1. \A b \in Blocks : i.body[b] \in Seq(Ops)
      BY IrFields DEF Filed
    <2> QED
      BY <1>1, <2>1, OnlyType
  <1>3. Live(j) = Live(i) \ gone
    BY <1>1 DEF Live
  <1>4. \A b \in Blocks \ ToSet(j.region) : j.body[b] = <<>>
    BY <1>1, OnlyOfEmpty DEF Filed
  <1>5. \A x \in Live(j) : \E b \in Blocks : x \in ToSet(j.body[b])
    BY <1>2, <1>3 DEF Filed, Live
  <1>6. Blank(i) => Blank(j)
    BY <1>1, <1>2, <1>3 DEF Blank
  <1> QED
    BY <1>1, <1>3, <1>4, <1>5, <1>6 DEF Filed

(* Nothing is taken away, and something twice.                             *)
LEMMA RidNone ==
    ASSUME NEW i \in Irs
    PROVE  Rid(i, {}) = i
  <1>0. PICK j : j = Rid(i, {}) /\ RidFrom(i, {}, j)
    BY RidFields, Zenon
  <1>1. /\ j \in Irs /\ j.region = i.region
        /\ \A o \in Ops : j.kind[o] = i.kind[o] /\ j.arg[o] = i.arg[o]
        /\ \A b \in Blocks : j.body[b] = Only(i.body[b], Ops \ {})
    BY <1>0 DEF RidFrom
  <1>2. ASSUME NEW b \in Blocks PROVE j.body[b] = i.body[b]
    <2>1. i.body[b] \in Seq(Ops) /\ ToSet(i.body[b]) \subseteq Ops \ {}
      BY IrFields DEF ToSet
    <2> QED
      BY <1>1, <2>1, OnlyAll
  <1> QED
    BY <1>0, <1>1, <1>2, SameIr

LEMMA RidTwice ==
    ASSUME NEW i \in Irs, NEW A, NEW B
    PROVE  Rid(Rid(i, A), B) = Rid(i, A \cup B)
  <1>1. PICK j : j = Rid(i, A) /\ RidFrom(i, A, j)
    BY RidFields, Zenon
  <1>2. j \in Irs
    BY <1>1 DEF RidFrom
  <1>3. PICK h : h = Rid(j, B) /\ RidFrom(j, B, h)
    BY <1>2, RidFields, Zenon
  <1>4. PICK C : C = A \cup B
    OBVIOUS
  <1>5. PICK g : g = Rid(i, C) /\ RidFrom(i, C, g)
    BY RidFields, Zenon
  <1>6. /\ h \in Irs /\ g \in Irs /\ h.region = g.region
        /\ \A o \in Ops : h.kind[o] = g.kind[o] /\ h.arg[o] = g.arg[o]
    <2>1. h \in Irs /\ g \in Irs /\ h.region = g.region
      BY <1>1, <1>3, <1>5 DEF RidFrom
    <2>2. ASSUME NEW o \in Ops PROVE h.kind[o] = g.kind[o] /\ h.arg[o] = g.arg[o]
      <3>1. /\ j.kind[o] = IF o \in A THEN Freed ELSE i.kind[o]
            /\ j.arg[o] = IF o \in A THEN None ELSE i.arg[o]
        BY <1>1 DEF RidFrom
      <3>2. /\ h.kind[o] = IF o \in B THEN Freed ELSE j.kind[o]
            /\ h.arg[o] = IF o \in B THEN None ELSE j.arg[o]
        BY <1>3 DEF RidFrom
      <3>3. /\ g.kind[o] = IF o \in C THEN Freed ELSE i.kind[o]
            /\ g.arg[o] = IF o \in C THEN None ELSE i.arg[o]
        BY <1>5 DEF RidFrom
      <3> QED
        BY <1>4, <3>1, <3>2, <3>3
    <2> QED
      BY <2>1, <2>2
  <1>7. ASSUME NEW b \in Blocks PROVE h.body[b] = g.body[b]
    <2>1. (Ops \ A) \cap (Ops \ B) = Ops \ C
      BY <1>4
    <2>2. i.body[b] \in Seq(Ops)
      BY IrFields
    <2>3. Only(Only(i.body[b], Ops \ A), Ops \ B) = Only(i.body[b], (Ops \ A) \cap (Ops \ B))
      BY <2>2, OnlyOfOnly
    <2>4. j.body[b] = Only(i.body[b], Ops \ A)
      BY <1>1 DEF RidFrom
    <2>5. h.body[b] = Only(j.body[b], Ops \ B)
      BY <1>3 DEF RidFrom
    <2>6. g.body[b] = Only(i.body[b], Ops \ C)
      BY <1>5 DEF RidFrom
    <2> QED
      BY <2>1, <2>3, <2>4, <2>5, <2>6, Zenon
  <1>8. h = g
    BY <1>6, <1>7, SameIr
  <1> QED
    BY <1>1, <1>3, <1>4, <1>5, <1>8

(* What is made and taken away again leaves no trace.                      *)
LEMMA MadeAndTaken ==
    ASSUME NEW i, Filed(i), Blank(i), NEW o \in Ops \ Live(i), NEW k, NEW a, NEW b, NEW j,
           GrownFrom(i, o, k, a, b, j), NEW gone
    PROVE  Rid(j, gone \cup {o}) = Rid(i, gone)
  <1>1. PICK more : more = gone \cup {o}
    OBVIOUS
  <1>2. i \in Irs /\ j \in Irs
    BY DEF Filed, GrownFrom
  <1>3. PICK h : h = Rid(j, more) /\ RidFrom(j, more, h)
    BY <1>2, RidFields, Zenon
  <1>4. PICK g : g = Rid(i, gone) /\ RidFrom(i, gone, g)
    BY <1>2, RidFields, Zenon
  <1>5. i.kind[o] = Freed /\ i.arg[o] = None /\ \A c \in Blocks : o \notin ToSet(i.body[c])
    BY DEF Blank, Live
  <1>6. /\ h \in Irs /\ g \in Irs /\ h.region = g.region
        /\ \A x \in Ops : h.kind[x] = g.kind[x] /\ h.arg[x] = g.arg[x]
    <2>1. h \in Irs /\ g \in Irs /\ h.region = g.region
      BY <1>3, <1>4 DEF RidFrom, GrownFrom
    <2>2. ASSUME NEW x \in Ops PROVE h.kind[x] = g.kind[x] /\ h.arg[x] = g.arg[x]
      <3>1. /\ h.kind[x] = IF x \in more THEN Freed ELSE j.kind[x]
            /\ h.arg[x] = IF x \in more THEN None ELSE j.arg[x]
        BY <1>3 DEF RidFrom
      <3>2. /\ g.kind[x] = IF x \in gone THEN Freed ELSE i.kind[x]
            /\ g.arg[x] = IF x \in gone THEN None ELSE i.arg[x]
        BY <1>4 DEF RidFrom
      <3>3. x # o => j.kind[x] = i.kind[x] /\ j.arg[x] = i.arg[x]
        BY DEF GrownFrom
      <3> QED
        BY <1>1, <1>5, <3>1, <3>2, <3>3
    <2> QED
      BY <2>1, <2>2
  <1>7. ASSUME NEW c \in Blocks PROVE h.body[c] = g.body[c]
    <2>1. Only(j.body[c], Ops \ more) = Only(i.body[c], Ops \ more)
      BY <1>1 DEF GrownFrom
    <2>2. ToSet(i.body[c]) \cap (Ops \ more) = ToSet(i.body[c]) \cap (Ops \ gone)
      BY <1>1, <1>5
    <2>3. i.body[c] \in Seq(Ops)
      BY <1>2, IrFields
    <2>4. Only(i.body[c], Ops \ more) = Only(i.body[c], Ops \ gone)
      BY <2>2, <2>3, OnlySame
    <2>5. h.body[c] = Only(j.body[c], Ops \ more)
      BY <1>3 DEF RidFrom
    <2>6. g.body[c] = Only(i.body[c], Ops \ gone)
      BY <1>4 DEF RidFrom
    <2> QED
      BY <2>1, <2>4, <2>5, <2>6, Zenon
  <1>8. h = g
    BY <1>6, <1>7, SameIr
  <1> QED
    BY <1>1, <1>3, <1>4, <1>8

(***************************************************************************)
(* What a conversion did is undone: the operations that it created, each   *)
(* of them once, are what tells the operations from those before the pass. *)
(***************************************************************************)
MadeOnce(l) ==
    \A j, k \in DOMAIN l : l[j].did = "create" /\ l[k].did = "create" /\ l[j].op = l[k].op => j = k

Reverts(i, l) ==
    /\ Filed(i) /\ Blank(i) /\ MadeOnce(l) /\ MadeIn(l, 0) \subseteq Live(i)
    /\ Rid(i, MadeIn(l, 0)) = origin

(* The builder and what the function saved of it are in the region.        *)
PointsOf(r) == {p \in Points : p.block \in r}
Placing(r, p, c, ph) ==
    /\ p \in PointsOf(r) /\ c.saved \in Seq(PointsOf(r))
    /\ c.home = <<>> \/ \E b \in r : c.home = <<b>>
    /\ ph = "call" => c.home # <<>>

Heard == \A n \in DOMAIN patterns : ~Does(patterns[n], Unheard)

RestoreInv ==
    ~greedy /\ Heard =>
        /\ Running => Reverts(ir, log) /\ Placing(ToSet(ir.region), point, call, phase)
        /\ FailureRestores

LEMMA GrownReverts ==
    ASSUME NEW i, NEW l \in Seq(Entry), Reverts(i, l), NEW o \in Ops \ Live(i), NEW k, NEW a, NEW b,
           NEW j, GrownFrom(i, o, k, a, b, j), NEW e, e = [did |-> "create", op |-> o]
    PROVE  Append(l, e) \in Seq(Entry) /\ Reverts(j, Append(l, e)) /\ j.region = i.region
  <1>1. e \in Entry /\ e.did = "create" /\ e.op = o
    BY DEF Entry
  <1>2. PICK n \in Nat : n = Len(l)
    OBVIOUS
  <1>3. PICK m \in Seq(Entry) : m = Append(l, e)
    BY <1>1, AppendProperties
  <1>4. Len(m) = n + 1 /\ m[n + 1] = e /\ \A x \in 1 .. n : m[x] = l[x]
    BY <1>1, <1>2, <1>3
  <1>5. MadeIn(m, 0) = MadeIn(l, 0) \cup {o}
    <2>1. 0 \in 0 .. Len(l)
      BY <1>2
    <2> QED
      BY <1>1, <1>3, <2>1, LogGrows
  <1>6. MadeOnce(m)
    <2> SUFFICES ASSUME NEW x \in 1 .. n + 1, NEW y \in 1 .. n + 1,
                        m[x].did = "create", m[y].did = "create", m[x].op = m[y].op
                 PROVE  x = y
      BY <1>3, <1>4 DEF MadeOnce
    <2>1. \A z \in 1 .. n : l[z].did = "create" => l[z].op # o
      <3> SUFFICES ASSUME NEW z \in 1 .. n, l[z].did = "create" PROVE l[z].op # o
        OBVIOUS
      <3>1. z \in 0 + 1 .. Len(l)
        BY <1>2
      <3>2. l[z].op \in MadeIn(l, 0)
        BY <3>1 DEF MadeIn
      <3> QED
        BY <3>2 DEF Reverts
    <2>2. \A z \in 1 .. n + 1 : z \in 1 .. n \/ z = n + 1
      OBVIOUS
    <2>3. CASE x \in 1 .. n /\ y \in 1 .. n
      <3>1. x \in DOMAIN l /\ y \in DOMAIN l
        BY <1>2, <2>3
      <3> QED
        BY <1>4, <2>3, <3>1 DEF Reverts, MadeOnce
    <2>4. CASE ~(x \in 1 .. n /\ y \in 1 .. n)
      BY <1>1, <1>4, <2>1, <2>2, <2>4
    <2> QED
      BY <2>3, <2>4
  <1>7. Filed(j) /\ Live(j) = Live(i) \cup {o} /\ j.region = i.region
    BY DEF GrownFrom
  <1>8. Blank(j)
    <2> SUFFICES ASSUME NEW x \in Ops \ Live(j)
                 PROVE  j.arg[x] = None /\ \A c \in Blocks : x \notin ToSet(j.body[c])
      BY DEF Blank
    <2>1. x # o /\ x \in Ops \ Live(i)
      BY <1>7
    <2>2. j.arg[x] = i.arg[x] /\ \A c \in Blocks : x \in ToSet(j.body[c]) => x \in ToSet(i.body[c])
      BY <2>1 DEF GrownFrom
    <2> QED
      BY <2>1, <2>2 DEF Reverts, Blank
  <1>9. Rid(j, MadeIn(m, 0)) = origin
    <2>1. Rid(j, MadeIn(l, 0) \cup {o}) = Rid(i, MadeIn(l, 0))
      BY MadeAndTaken DEF Reverts
    <2> QED
      BY <1>5, <2>1 DEF Reverts
  <1>10. MadeIn(m, 0) \subseteq Live(j)
    BY <1>5, <1>7 DEF Reverts
  <1> QED
    BY <1>3, <1>6, <1>7, <1>8, <1>9, <1>10 DEF Reverts

LEMMA RetiredReverts ==
    ASSUME NEW i, NEW l \in Seq(Entry), Reverts(i, l), NEW e \in Entry, e.did = "replace"
    PROVE  Reverts(i, Append(l, e))
  <1>1. PICK n \in Nat : n = Len(l)
    OBVIOUS
  <1>2. PICK m \in Seq(Entry) : m = Append(l, e)
    BY AppendProperties
  <1>3. Len(m) = n + 1 /\ m[n + 1] = e /\ \A x \in 1 .. n : m[x] = l[x]
    BY <1>1, <1>2
  <1>4. MadeIn(m, 0) = MadeIn(l, 0)
    <2>1. 0 \in 0 .. Len(l)
      BY <1>1
    <2> QED
      BY <1>2, <2>1, LogGrows
  <1>5. MadeOnce(m)
    <2> SUFFICES ASSUME NEW x \in 1 .. n + 1, NEW y \in 1 .. n + 1,
                        m[x].did = "create", m[y].did = "create", m[x].op = m[y].op
                 PROVE  x = y
      BY <1>2, <1>3 DEF MadeOnce
    <2>1. x # n + 1 /\ y # n + 1
      BY <1>3
    <2>2. x \in DOMAIN l /\ y \in DOMAIN l /\ m[x] = l[x] /\ m[y] = l[y]
      BY <1>1, <1>3, <2>1
    <2> QED
      BY <2>2 DEF Reverts, MadeOnce
  <1> QED
    BY <1>2, <1>4, <1>5 DEF Reverts

LEMMA UndoneReverts ==
    ASSUME log \in Seq(Entry), Reverts(ir, log), NEW n \in 0 .. Len(log)
    PROVE  /\ Reverts(Undone(n), SubSeq(log, 1, n)) /\ Undone(n).region = ir.region
           /\ n = 0 => Undone(n) = origin
  <1>1. PICK z \in Nat : z = Len(log) /\ n \in 0 .. z /\ n \in Nat
    OBVIOUS
  <1>2. PICK i : i = Undone(n)
    OBVIOUS
  <1>3. i = Rid(ir, MadeIn(log, n))
    BY <1>2, LogReads DEF Undone
  <1>4. PICK c \in Seq(Entry) : c = SubSeq(log, 1, n)
    <2>1. n \in 0 .. n
      BY <1>1
    <2> QED
      BY <2>1, LogCut
  <1>5. /\ Len(c) = n /\ \A x \in 1 .. n : c[x] = log[x]
        /\ MadeIn(log, 0) = MadeIn(c, 0) \cup MadeIn(log, n)
    <2>1. Len(c) = n /\ \A x \in 0 .. n : MadeIn(log, x) = MadeIn(c, x) \cup MadeIn(log, n)
      BY <1>4, LogCut
    <2>2. \A x \in 1 .. n : c[x] = log[x]
      BY <1>1, <1>4
    <2> QED
      BY <1>1, <2>1, <2>2
  <1>6. /\ Filed(i) /\ Live(i) = Live(ir) \ MadeIn(log, n) /\ i.region = ir.region /\ Blank(i)
    BY <1>3, RidFiled DEF Reverts
  <1>7. ir \in Irs
    BY DEF Reverts, Filed
  <1>8. Rid(i, MadeIn(c, 0)) = origin
    <2>1. Rid(Rid(ir, MadeIn(log, n)), MadeIn(c, 0)) = Rid(ir, MadeIn(log, n) \cup MadeIn(c, 0))
      BY <1>7, RidTwice
    <2>2. MadeIn(log, n) \cup MadeIn(c, 0) = MadeIn(log, 0)
      BY <1>5
    <2> QED
      BY <1>3, <2>1, <2>2 DEF Reverts
  <1>9. \A x \in 1 .. n : x \in DOMAIN log /\ x \in DOMAIN c
    BY <1>1, <1>5
  <1>10. MadeOnce(c)
    <2>1. DOMAIN c = 1 .. n
      BY <1>5
    <2> QED
      BY <1>5, <1>9, <2>1 DEF Reverts, MadeOnce
  <1>11. MadeIn(c, 0) \subseteq Live(i)
    <2> SUFFICES ASSUME NEW x \in 0 + 1 .. Len(c), c[x].did = "create" PROVE c[x].op \in Live(i)
      BY DEF MadeIn
    <2>1. x \in 1 .. n /\ c[x] = log[x]
      BY <1>1, <1>5
    <2>2. c[x].op \in MadeIn(c, 0)
      BY DEF MadeIn
    <2>3. ASSUME c[x].op \in MadeIn(log, n) PROVE FALSE
      <3>1. PICK y \in n + 1 .. Len(log) : log[y].did = "create" /\ log[y].op = c[x].op
        BY <2>3 DEF MadeIn
      <3>2. x \in DOMAIN log /\ y \in DOMAIN log /\ x # y
        BY <1>1, <1>9, <2>1
      <3> QED
        BY <2>1, <3>1, <3>2 DEF Reverts, MadeOnce
    <2> QED
      BY <1>5, <1>6, <2>2, <2>3 DEF Reverts
  <1>12. n = 0 => i = origin
    BY <1>3 DEF Reverts
  <1> QED
    BY <1>2, <1>4, <1>6, <1>8, <1>10, <1>11, <1>12 DEF Reverts

(***************************************************************************)
(* Where the builder inserts.                                              *)
(***************************************************************************)
LEMMA RegionBlocks ==
    ASSUME NEW i, Filed(i)
    PROVE  ToSet(i.region) \subseteq Blocks
  BY IrFields DEF Filed, ToSet

(* A point that the builder may insert at.                                 *)
LEMMA SoundPoint ==
    ASSUME Filed(ir), NEW p \in PointsOf(ToSet(ir.region)), Sound(p)
    PROVE  /\ p.block \in ToSet(ir.region) /\ p.before \in Ops \cup {End}
           /\ p.before = End \/ p.before \in ToSet(ir.body[p.block])
  <1>1. p \in Points /\ p.block \in ToSet(ir.region) /\ p.before \in Ops \cup {End}
    BY DEF PointsOf, Points
  <1>2. CASE p.before = End
    BY <1>1, <1>2
  <1>3. CASE p.before # End
    <2>1. p.before \in Live(ir) /\ BlockOf(ir, p.before) = p.block
      BY <1>1, <1>3 DEF Sound, Live
    <2>2. p.before \in ToSet(ir.body[BlockOf(ir, p.before)])
      BY <2>1, HomeOf
    <2> QED
      BY <1>1, <2>1, <2>2
  <1> QED
    BY <1>2, <1>3

(* The places before, after and around an operation.                       *)
LEMMA PointIn ==
    ASSUME NEW r, r \subseteq Blocks, NEW b \in r, NEW o \in Ops \cup {End}
    PROVE  [block |-> b, before |-> o] \in PointsOf(r)
  BY DEF PointsOf, Points

LEMMA NextPlace ==
    ASSUME NEW s \in Seq(Ops)
    PROVE  /\ First(s) \in Ops \cup {End}
           /\ \A o \in ToSet(s) : Following(s, o) \in Ops \cup {End}
  <1>1. \A t \in Seq(Ops) : First(t) \in Ops \cup {End}
    BY DEF First
  <1>2. ASSUME NEW o \in ToSet(s)
        PROVE  Following(s, o) \in Ops \cup {End}
    <2>1. \E n \in DOMAIN s : s[n] = o
      BY DEF ToSet
    <2>2. PICK n \in 1 .. Len(s) : n = PlaceIn(s, o)
      BY <2>1 DEF PlaceIn
    <2>3. n + 1 \in 1 .. Len(s) + 1
      OBVIOUS
    <2>4. SubSeq(s, n + 1, Len(s)) \in Seq(Ops)
      BY <2>3, Halves
    <2> QED
      BY <1>1, <2>2, <2>4 DEF Following
  <1> QED
    BY <1>1, <1>2

LEMMA PointForIn ==
    ASSUME Filed(ir), root \in Ops, Placing(ToSet(ir.region), point, call, "call"),
           NEW do \in Moves, do \in {"before", "after"} => ~RootFreed
    PROVE  PointFor(do) \in PointsOf(ToSet(ir.region))
  <1>1. PICK r : r = ToSet(ir.region) /\ r \subseteq Blocks
    BY RegionBlocks
  <1>2. \A b \in r : ir.body[b] \in Seq(Ops)
    BY <1>1, IrFields DEF Filed
  <1>3. CASE do \in {"start", "end"}
    <2>1. PICK b \in r : call.home = <<b>>
      BY <1>1 DEF Placing
    <2>2. PointFor(do) = [block |-> b, before |-> IF do = "start" THEN First(ir.body[b]) ELSE End]
      BY <1>3, <2>1 DEF PointFor
    <2>3. (IF do = "start" THEN First(ir.body[b]) ELSE End) \in Ops \cup {End}
      BY <1>2, NextPlace
    <2> QED
      BY <1>1, <2>2, <2>3, PointIn
  <1>4. CASE do \in {"before", "after"}
    <2>1. root \in Live(ir)
      BY <1>4 DEF RootFreed, Live
    <2>2. PICK b \in r : b = BlockOf(ir, root) /\ root \in ToSet(ir.body[b])
      BY <1>1, <2>1, HomeOf
    <2>3. PointFor(do) = [block |-> b, before |-> IF do = "before" THEN root ELSE Following(ir.body[b], root)]
      BY <1>4, <2>2 DEF PointFor
    <2>4. (IF do = "before" THEN root ELSE Following(ir.body[b], root)) \in Ops \cup {End}
      BY <1>2, <2>2, NextPlace
    <2> QED
      BY <1>1, <2>3, <2>4, PointIn
  <1> QED
    BY <1>3, <1>4 DEF Moves

(* What a call leaves of what the function holds.                          *)
LEMMA CallLeaves ==
    ASSUME DOMAIN call = {"at", "held", "home", "made", "saved"},
           Called \/ \E o : call' = [call EXCEPT !.at = @ + 1, !.made = Append(@, o)]
    PROVE  call'.saved = call.saved /\ call'.home = call.home
  <1>1. CASE Called
    BY <1>1 DEF Called
  <1>2. CASE \E o : call' = [call EXCEPT !.at = @ + 1, !.made = Append(@, o)]
    BY <1>2
  <1> QED
    BY <1>1, <1>2

LEMMA PlacingLeft ==
    ASSUME NEW r, NEW p, NEW c, NEW ph, Placing(r, p, c, ph), NEW d, d.saved = c.saved, d.home = c.home
    PROVE  Placing(r, p, d, ph)
  BY DEF Placing

(* No function is running.                                                 *)
LEMMA PlacingIdle ==
    ASSUME NEW r, NEW p \in PointsOf(r), NEW ph, ph # "call"
    PROVE  Placing(r, p, NoCall, ph)
  BY DEF Placing, NoCall

(* A function begins at a place of the region.                             *)
LEMMA PlacingBegins ==
    ASSUME NEW r, NEW p \in PointsOf(r), NEW b \in r, NEW h, NEW ph
    PROVE  Placing(r, p, [NoCall EXCEPT !.at = 1, !.held = h, !.home = <<b>>], ph)
  <1>1. PICK c : c = [NoCall EXCEPT !.at = 1, !.held = h, !.home = <<b>>]
    OBVIOUS
  <1>2. c.saved = <<>> /\ c.home = <<b>>
    BY <1>1 DEF NoCall
  <1>3. <<>> \in Seq(PointsOf(r)) /\ <<b>> # <<>>
    OBVIOUS
  <1>4. Placing(r, p, c, ph)
    BY <1>2, <1>3, Zenon DEF Placing
  <1> QED
    BY <1>1, <1>4

(***************************************************************************)
(* The steps of a conversion whose functions go through the builder.       *)
(***************************************************************************)
Ready ==
    /\ ~greedy /\ Heard /\ Typed /\ Shape
    /\ Reverts(ir, log) /\ Placing(ToSet(ir.region), point, call, phase)

LEMMA ReadyGoes ==
    ASSUME phase' # "done", NEW i, NEW l, ir' = i, log' = l, origin' = origin, Reverts(i, l),
           Placing(ToSet(i.region), point', call', phase')
    PROVE  RestoreInv'
  <1>1. Reverts(ir, log)'
    BY DEF Reverts
  <1>2. Placing(ToSet(ir.region), point, call, phase)'
    OBVIOUS
  <1> QED
    BY <1>1, <1>2 DEF RestoreInv, FailureRestores

LEMMA ReadyStays ==
    ASSUME Ready, phase' # "done", ir' = ir, log' = log, origin' = origin,
           Placing(ToSet(ir.region), point', call', phase')
    PROVE  RestoreInv'
  <1>1. PICK i, l : i = ir /\ l = log
    OBVIOUS
  <1>2. ir' = i /\ log' = l /\ Reverts(i, l) /\ Placing(ToSet(i.region), point', call', phase')
    BY <1>1 DEF Ready
  <1> QED
    BY <1>2, ReadyGoes

LEMMA ReadyStops ==
    ASSUME phase' \notin {"start", "legalize", "match", "call"},
           phase' = "done" =>
              \/ result' # "failure" \/ ir' = origin' \/ (pass'.driver = "lower" /\ ~Ordered(ir'))
    PROVE  RestoreInv'
  BY DEF RestoreInv, Running, FailureRestores

LEMMA ReadyFaults ==
    ASSUME NEW what, Fault(what)
    PROVE  RestoreInv'
  BY ReadyStops DEF Fault, Stop

LEMMA RestoreCollect ==
    ASSUME Ready, Collect \/ Legalize
    PROVE  RestoreInv'
  <1>1. CASE Legalize /\ ir.kind[Head(frame.todo)] = Freed
    <2>1. Fault("freed")
      BY <1>1 DEF Legalize
    <2> QED
      BY <2>1, ReadyFaults
  <1>2. CASE Collect \/ (Legalize /\ ir.kind[Head(frame.todo)] # Freed)
    <2>1. /\ ir' = ir /\ log' = log /\ origin' = origin /\ point' = point /\ call' = call
          /\ phase' \in {"legalize", "match"}
      BY <1>2 DEF Collect, Legalize
    <2>2. Placing(ToSet(ir.region), point, call, phase')
      BY <2>1 DEF Ready, Placing
    <2> QED
      BY <2>1, <2>2, ReadyStays
  <1> QED
    BY <1>1, <1>2

LEMMA RestoreLegalized ==
    ASSUME Ready, Legalized
    PROVE  RestoreInv'
  <1>1. CASE Len(frames) = 1 /\ UsedWhenErased
    <2>1. Fault("used")
      BY <1>1 DEF Legalized
    <2> QED
      BY <2>1, ReadyFaults
  <1>2. CASE Len(frames) = 1 /\ ~UsedWhenErased
    <2>1. /\ ir' = Applied /\ phase' = "done" /\ pass' = pass
          /\ result' = IF Accepted(Applied) THEN "success" ELSE "failure"
      BY <1>2 DEF Legalized, Stop
    <2>2. result' = "failure" => pass.driver = "lower" /\ ~Ordered(Applied)
      BY <2>1 DEF Accepted
    <2> QED
      BY <2>1, <2>2, ReadyStops
  <1>3. CASE Len(frames) # 1
    <2>1. /\ ir' = ir /\ log' = log /\ origin' = origin /\ point' = point /\ call' = call
          /\ phase' = phase /\ phase = "legalize"
      BY <1>3, Zenon DEF Legalized
    <2>2. Placing(ToSet(ir.region), point, call, phase')
      BY <2>1 DEF Ready
    <2> QED
      BY <2>1, <2>2, ReadyStays
  <1> QED
    BY <1>1, <1>2, <1>3

(* Something is given up, and all of it when the conversion fails.         *)
LEMMA RestoreUndoes ==
    ASSUME Ready, NEW n \in 0 .. Len(log), ir' = Undone(n), log' = SubSeq(log, 1, n), origin' = origin,
           phase' # "done", Placing(ToSet(ir.region), point', call', phase')
    PROVE  RestoreInv'
  <1>1. log \in Seq(Entry) /\ Reverts(ir, log)
    BY DEF Ready, Typed
  <1>2. PICK i, l : i = Undone(n) /\ l = SubSeq(log, 1, n)
    OBVIOUS
  <1>3. Reverts(i, l) /\ i.region = ir.region
    BY <1>1, <1>2, UndoneReverts
  <1>4. ir' = i /\ log' = l /\ Placing(ToSet(i.region), point', call', phase')
    BY <1>2, <1>3
  <1> QED
    BY <1>3, <1>4, ReadyGoes

LEMMA RestoreFails ==
    ASSUME Ready, GiveUp(0, Surrender)
    PROVE  RestoreInv'
  <1>1. CASE ~Undoable(0)
    <2>1. Fault("undo")
      BY <1>1 DEF GiveUp
    <2> QED
      BY <2>1, ReadyFaults
  <1>2. CASE Undoable(0)
    <2>1. ir' = Undone(0) /\ phase' = "done" /\ origin' = origin
      BY <1>2, Zenon DEF GiveUp, Surrender
    <2>2. log \in Seq(Entry) /\ Reverts(ir, log)
      BY DEF Ready, Typed
    <2>3. 0 \in 0 .. Len(log)
      BY <2>2
    <2>4. Undone(0) = origin
      BY <2>2, <2>3, UndoneReverts
    <2> QED
      BY <2>1, <2>4, ReadyStops
  <1> QED
    BY <1>1, <1>2

LEMMA RestoreUnconverted ==
    ASSUME Ready, phase = "match", Unconverted
    PROVE  RestoreInv'
  <1>1. /\ frames \in Seq(Frame) /\ Len(frames) \in Nat /\ log \in Seq(Entry) /\ Len(log) \in Nat
        /\ Placing(ToSet(ir.region), point, call, phase)
    BY DEF Ready, Typed
  <1>2. CASE Len(frames) > 2
    <2>1. PICK n \in Nat : n = Len(frames) - 1 /\ Len(frames) = n + 1 /\ n > 1
      BY <1>1, <1>2
    <2>2. n \in 1 .. Len(frames)
      BY <1>2, <2>1
    <2>3. frames[n] \in Frame
      BY <1>1, <2>2
    <2>4. PICK mark \in Nat : mark = frames[n].mark
      BY <2>3 DEF Frame
    <2>5. mark \in 0 .. Len(log)
      BY <1>1, <2>2, <2>4 DEF Ready, Shape
    <2>6. IF ~Undoable(mark) THEN Fault("undo")
          ELSE /\ ir' = Undone(mark) /\ log' = SubSeq(log, 1, mark)
               /\ frames' = [Front(frames) EXCEPT ![Len(frames) - 1].todo = <<>>]
               /\ UNCHANGED <<pass, origin, point, call, work, changed, round, phase, result>>
      <3>1. frames[Len(frames) - 1].mark = mark
        BY <2>1, <2>4
      <3>2. ~(Len(frames) = 2)
        BY <2>1
      <3> QED
        BY <3>1, <3>2, Zenon DEF Unconverted, GiveUp
    <2>7. CASE ~Undoable(mark)
      <3>1. Fault("undo")
        BY <2>6, <2>7
      <3> QED
        BY <3>1, ReadyFaults
    <2>8. CASE Undoable(mark)
      <3>1. /\ ir' = Undone(mark) /\ log' = SubSeq(log, 1, mark) /\ origin' = origin /\ phase' = phase
            /\ point' = point /\ call' = call
        BY <2>6, <2>8
      <3>2. phase' # "done" /\ Placing(ToSet(ir.region), point', call', phase')
        BY <1>1, <3>1
      <3> QED
        BY <2>5, <3>1, <3>2, RestoreUndoes
    <2> QED
      BY <2>7, <2>8
  <1>3. CASE Len(frames) = 2
    <2>1. CASE GiveUp(0, Surrender)
      BY <2>1, RestoreFails
    <2>2. CASE ~GiveUp(0, Surrender)
      <3>1. ~(Len(frames) > 2)
        BY <1>3
      <3>2. /\ phase' = "legalize" /\ ir' = ir /\ log' = log /\ origin' = origin
            /\ point' = point /\ call' = call
        BY <2>2, <3>1, Zenon DEF Unconverted
      <3>3. Placing(ToSet(ir.region), point, call, phase')
        BY <1>1, <3>2 DEF Placing
      <3> QED
        BY <3>2, <3>3, ReadyStays
    <2> QED
      BY <2>1, <2>2
  <1>4. Len(frames) > 2 \/ Len(frames) = 2
    BY Zenon DEF Unconverted
  <1> QED
    BY <1>2, <1>3, <1>4

LEMMA RestoreMatch ==
    ASSUME Ready, Match
    PROVE  RestoreInv'
  <1>1. phase = "match" /\ Len(frames) > 1
    BY DEF Match, Ready, Shape
  <1>2. root \in Ops
    BY <1>1, RootTyped DEF Ready
  <1>3. CASE ir.kind[root] = Freed
    <2>1. Fault("freed")
      BY <1>3 DEF Match
    <2> QED
      BY <2>1, ReadyFaults
  <1>4. CASE ir.kind[root] # Freed /\ Untried = {}
    <2>1. Unconverted
      BY <1>4 DEF Match, Unmatched, Ready
    <2> QED
      BY <1>1, <2>1, RestoreUnconverted
  <1>5. CASE ir.kind[root] # Freed /\ Untried # {}
    <2>1. /\ \/ phase' = "call" /\ call' = [NoCall EXCEPT !.at = 1, !.held = ir.arg[root],
                                                         !.home = <<BlockOf(ir, root)>>]
             \/ phase' = "match" /\ call' = call
          /\ point' = [block |-> BlockOf(ir, root), before |-> root]
          /\ origin' = origin /\ ir' = ir /\ log' = log
      BY <1>1, <1>5 DEF Match, Ready
    <2>2. root \in Live(ir) /\ Filed(ir)
      BY <1>2, <1>5 DEF Ready, Reverts, Live
    <2>3. PICK r : r = ToSet(ir.region) /\ r \subseteq Blocks
      BY <2>2, RegionBlocks
    <2>4. PICK b \in r : b = BlockOf(ir, root)
      BY <2>2, <2>3, HomeOf
    <2>5. PICK p \in PointsOf(r) : p = [block |-> b, before |-> root]
      BY <1>2, <2>3, PointIn
    <2>6. CASE phase' = "call" /\ call' = [NoCall EXCEPT !.at = 1, !.held = ir.arg[root],
                                                         !.home = <<BlockOf(ir, root)>>]
      <3>1. Placing(r, p, [NoCall EXCEPT !.at = 1, !.held = ir.arg[root], !.home = <<b>>], phase')
        BY PlacingBegins
      <3>2. Placing(ToSet(ir.region), point', call', phase')
        BY <2>1, <2>3, <2>4, <2>5, <2>6, <3>1
      <3> QED
        BY <2>1, <2>6, <3>2, ReadyStays
    <2>7. CASE phase' = "match" /\ call' = call
      <3>1. Placing(r, p, call, phase')
        BY <2>3, <2>7 DEF Ready, Placing
      <3>2. Placing(ToSet(ir.region), point', call', phase')
        BY <2>1, <2>3, <2>4, <2>5, <2>7, <3>1
      <3> QED
        BY <2>1, <2>7, <3>2, ReadyStays
    <2> QED
      BY <2>1, <2>6, <2>7
  <1> QED
    BY <1>3, <1>4, <1>5

LEMMA RestoreAnswer ==
    ASSUME Ready, Answer
    PROVE  RestoreInv'
  <1>1. phase = "call" /\ Len(frames) > 1
    BY DEF Answer, Ready, Shape
  <1>2. frame.mark \in 0 .. Len(log) /\ Placing(ToSet(ir.region), point, call, phase)
    BY <1>1, RootTyped DEF Ready
  <1>3. point \in PointsOf(ToSet(ir.region))
    BY <1>2 DEF Placing
  <1>4. CASE script.answer = "raises"
    <2>1. phase' = "raised"
      BY <1>4 DEF Answer
    <2> QED
      BY <2>1, ReadyStops
  <1>5. CASE script.answer # "raises" /\ Succeeded(script) /\ root \notin Replaced
    <2>1. Fault("kept")
      BY <1>5 DEF Answer, Ready
    <2> QED
      BY <2>1, ReadyFaults
  <1>6. CASE script.answer # "raises" /\ Succeeded(script) /\ root \in Replaced
    <2>1. /\ phase' = "legalize" /\ call' = NoCall /\ point' = point
          /\ ir' = ir /\ log' = log /\ origin' = origin
      BY <1>6 DEF Answer, Ready
    <2>2. Placing(ToSet(ir.region), point', call', phase')
      BY <1>3, <2>1, PlacingIdle
    <2> QED
      BY <2>1, <2>2, ReadyStays
  <1>7. CASE script.answer # "raises" /\ ~Succeeded(script)
    <2>1. PICK n \in 0 .. Len(log) : n = frame.mark
      BY <1>2
    <2>2. GiveUp(n, /\ phase' = "match" /\ call' = NoCall
                    /\ UNCHANGED <<pass, origin, point, frames, work, changed, round, result>>)
      BY <1>7, <2>1, Zenon DEF Answer, Ready
    <2>3. CASE ~Undoable(n)
      <3>1. Fault("undo")
        BY <2>2, <2>3 DEF GiveUp
      <3> QED
        BY <3>1, ReadyFaults
    <2>4. CASE Undoable(n)
      <3>1. /\ ir' = Undone(n) /\ log' = SubSeq(log, 1, n) /\ origin' = origin
            /\ phase' = "match" /\ call' = NoCall /\ point' = point
        BY <2>2, <2>4, Zenon DEF GiveUp
      <3>2. Placing(ToSet(ir.region), point', call', phase')
        BY <1>3, <3>1, PlacingIdle
      <3> QED
        BY <3>1, <3>2, RestoreUndoes
    <2> QED
      BY <2>3, <2>4
  <1> QED
    BY <1>4, <1>5, <1>6, <1>7

LEMMA RestoreCreate ==
    ASSUME Ready, Create
    PROVE  RestoreInv'
  <1>1. phase = "call" /\ Calling("create") /\ Typed /\ Shape
    BY DEF Create, Calling, Ready
  <1>2. /\ Argument \in Ops \cup {None} /\ now \in Calls /\ now.do = "create"
        /\ DOMAIN call = {"at", "held", "home", "made", "saved"}
    BY <1>1, CallTyped
  <1>3. PICK k \in Kinds : k = now.kind
    BY <1>2 DEF Calls
  <1>4. CASE RootFreed
    <2>1. Fault("freed")
      BY <1>4 DEF Create
    <2> QED
      BY <2>1, ReadyFaults
  <1>5. CASE ~RootFreed /\ ~Sound(point)
    <2>1. Fault("point")
      BY <1>5 DEF Create
    <2> QED
      BY <2>1, ReadyFaults
  <1>6. CASE ~RootFreed /\ Sound(point)
    <2>1. PICK o \in Fresh :
             /\ ir' = Grown(ir, o, now.kind, Argument, point.block, point.before)
             /\ call' = [call EXCEPT !.at = @ + 1, !.made = Append(@, o)]
             /\ log' = Append(log, [did |-> "create", op |-> o])
             /\ origin' = origin /\ point' = point /\ phase' = phase
      BY <1>6 DEF Create, Ready
    <2>2. o \in Ops \ Live(ir)
      BY DEF Fresh
    <2>3. Filed(ir) /\ Reverts(ir, log) /\ log \in Seq(Entry) /\ Placing(ToSet(ir.region), point, call, phase)
      BY DEF Ready, Reverts, Typed
    <2>4. point \in PointsOf(ToSet(ir.region))
      BY <2>3 DEF Placing
    <2>5. PICK a \in Ops \cup {None}, b \in ToSet(ir.region), before \in Ops \cup {End} :
             /\ a = Argument /\ b = point.block /\ before = point.before
             /\ before = End \/ before \in ToSet(ir.body[b])
      BY <1>2, <1>6, <2>3, <2>4, SoundPoint
    <2>6. PICK j : j = Grown(ir, o, k, a, b, before)
      OBVIOUS
    <2>7. GrownFrom(ir, o, k, a, b, j)
      BY <2>2, <2>3, <2>5, <2>6, GrownFiled
    <2>8. PICK e : e = [did |-> "create", op |-> o]
      OBVIOUS
    <2>9. PICK i, l : i = ir /\ l = log
      OBVIOUS
    <2>10. Reverts(j, Append(l, e)) /\ j.region = i.region
      <3>1. Reverts(i, l) /\ l \in Seq(Entry) /\ o \in Ops \ Live(i) /\ GrownFrom(i, o, k, a, b, j)
        BY <2>2, <2>3, <2>7, <2>9
      <3> QED
        BY <2>8, <3>1, GrownReverts
    <2>11. call'.saved = call.saved /\ call'.home = call.home
      BY <1>2, <2>1, CallLeaves
    <2>12. Placing(ToSet(j.region), point', call', phase')
      BY <2>1, <2>3, <2>9, <2>10, <2>11, PlacingLeft
    <2>13. ir' = j /\ log' = Append(l, e) /\ phase' # "done"
      BY <1>1, <1>3, <2>1, <2>5, <2>6, <2>8, <2>9
    <2> QED
      BY <2>1, <2>10, <2>12, <2>13, ReadyGoes
  <1> QED
    BY <1>4, <1>5, <1>6

(* A call that leaves the builder where it is.                             *)
LEMMA RestoreCalled ==
    ASSUME Ready, phase = "call", Called, point' = point, phase' = phase
    PROVE  Placing(ToSet(ir.region), point', call', phase')
  <1>1. DOMAIN call = {"at", "held", "home", "made", "saved"}
    BY DEF Ready, Typed
  <1>2. call'.saved = call.saved /\ call'.home = call.home
    BY <1>1, CallLeaves
  <1> QED
    BY <1>2, PlacingLeft DEF Ready

LEMMA RestoreRetires ==
    ASSUME Ready, phase = "call", NEW o \in Ops, NEW by \in Ops \cup {None}, NEW w, Retire(o, by, w),
           Called, origin' = origin, point' = point, phase' = phase
    PROVE  RestoreInv'
  <1>1. PICK e : e = [did |-> "replace", op |-> o, by |-> by]
    OBVIOUS
  <1>2. e \in Entry /\ e.did = "replace" /\ log \in Seq(Entry) /\ Reverts(ir, log)
    BY <1>1 DEF Entry, Ready, Typed
  <1>3. ir' = ir /\ log' = Append(log, e)
    BY <1>1 DEF Retire, Ready
  <1>4. PICK i, l : i = ir /\ l = Append(log, e)
    OBVIOUS
  <1>5. Reverts(i, l)
    BY <1>2, <1>4, RetiredReverts
  <1>6. Placing(ToSet(i.region), point', call', phase')
    BY <1>4, RestoreCalled
  <1>7. ir' = i /\ log' = l
    BY <1>3, <1>4
  <1> QED
    BY <1>5, <1>6, <1>7, ReadyGoes

LEMMA RestoreReplace ==
    ASSUME Ready, Replace
    PROVE  RestoreInv'
  <1>1. phase = "call" /\ Calling("replace") /\ Typed /\ Shape
    BY DEF Replace, Calling, Ready
  <1>2. Argument \in Ops \cup {None} /\ root \in Ops
    BY <1>1, CallTyped, RootTyped
  <1>3. CASE RootFreed \/ (Argument # None /\ ir.kind[Argument] = Freed)
    <2>1. Fault("freed")
      BY <1>3 DEF Replace
    <2> QED
      BY <2>1, ReadyFaults
  <1>4. CASE ~(RootFreed \/ (Argument # None /\ ir.kind[Argument] = Freed))
    <2>1. PICK w : /\ Retire(root, Argument, w) /\ Called
                   /\ origin' = origin /\ point' = point /\ phase' = phase
      BY <1>4, Zenon DEF Replace
    <2>2. PICK o, by : o = root /\ by = Argument
      OBVIOUS
    <2>3. o \in Ops /\ by \in Ops \cup {None} /\ Retire(o, by, w)
      BY <1>2, <2>1, <2>2
    <2> QED
      BY <1>1, <2>1, <2>3, RestoreRetires
  <1> QED
    BY <1>3, <1>4

LEMMA RestoreEraseOp ==
    ASSUME Ready, phase = "call", NEW o \in Ops, EraseOp(o)
    PROVE  RestoreInv'
  <1>1. CASE ir.kind[o] = Freed
    <2>1. Fault("freed")
      BY <1>1 DEF EraseOp
    <2> QED
      BY <2>1, ReadyFaults
  <1>2. CASE ~(ir.kind[o] = Freed)
    <2>1. /\ Retire(o, o, work) /\ Called
          /\ origin' = origin /\ point' = point /\ phase' = phase
      BY <1>2 DEF EraseOp, Ready
    <2>2. PICK w, by : w = work /\ by = o
      OBVIOUS
    <2>3. by \in Ops \cup {None} /\ Retire(o, by, w)
      BY <2>1, <2>2
    <2> QED
      BY <2>1, <2>3, RestoreRetires
  <1> QED
    BY <1>1, <1>2

LEMMA RestoreErase ==
    ASSUME Ready, Erase \/ EraseDef
    PROVE  RestoreInv'
  <1>1. phase = "call" /\ Typed /\ Shape
    BY DEF Erase, EraseDef, Calling, Ready
  <1>2. CASE Erase
    <2>1. PICK o \in Ops : o = root
      BY <1>1, CallTyped, RootTyped
    <2>2. EraseOp(o)
      BY <1>2, <2>1 DEF Erase
    <2> QED
      BY <1>1, <2>2, RestoreEraseOp
  <1>3. CASE EraseDef /\ call.held # None
    <2>1. PICK o \in Ops : o = call.held
      BY <1>1, <1>3 DEF Typed
    <2>2. EraseOp(o)
      BY <1>3, <2>1 DEF EraseDef
    <2> QED
      BY <1>1, <2>2, RestoreEraseOp
  <1>4. CASE EraseDef /\ call.held = None
    <2>1. Called /\ ir' = ir /\ log' = log /\ origin' = origin /\ point' = point /\ phase' = phase
      BY <1>4 DEF EraseDef
    <2>2. phase' # "done" /\ Placing(ToSet(ir.region), point', call', phase')
      BY <1>1, <2>1, RestoreCalled
    <2> QED
      BY <2>1, <2>2, ReadyStays
  <1> QED
    BY <1>2, <1>3, <1>4

LEMMA RestoreSetPoint ==
    ASSUME Ready, SetPoint
    PROVE  RestoreInv'
  <1>1. phase = "call" /\ Typed /\ Shape /\ Filed(ir) /\ Placing(ToSet(ir.region), point, call, "call")
    BY DEF SetPoint, Calling, Ready, Reverts
  <1>2. PICK do \in Moves : Calling(do) /\ now.do = do
    BY DEF SetPoint, Calling, Moves
  <1>3. CASE RootFreed /\ now.do \in {"before", "after"}
    <2>1. Fault("freed")
      BY <1>3 DEF SetPoint
    <2> QED
      BY <2>1, ReadyFaults
  <1>4. CASE ~(RootFreed /\ now.do \in {"before", "after"})
    <2>1. /\ point' = PointFor(do) /\ Called
          /\ ir' = ir /\ log' = log /\ origin' = origin /\ phase' = phase
      BY <1>2, <1>4 DEF SetPoint
    <2>2. root \in Ops
      BY <1>1, CallTyped, RootTyped
    <2>3. PICK p \in PointsOf(ToSet(ir.region)) : p = PointFor(do)
      BY <1>1, <1>2, <1>4, <2>2, PointForIn
    <2>4. call'.saved = call.saved /\ call'.home = call.home
      BY <1>1, <2>1, CallTyped, CallLeaves
    <2>5. Placing(ToSet(ir.region), point', call', phase')
      BY <1>1, <2>1, <2>3, <2>4 DEF Placing
    <2> QED
      BY <1>1, <2>1, <2>5, ReadyStays
  <1> QED
    BY <1>3, <1>4

LEMMA RestoreSaves ==
    ASSUME Ready, SavePoint \/ RestorePoint
    PROVE  RestoreInv'
  <1>1. phase = "call" /\ DOMAIN call = {"at", "held", "home", "made", "saved"}
    BY DEF SavePoint, RestorePoint, Calling, Ready, Typed
  <1>2. PICK r : r = ToSet(ir.region) /\ Placing(r, point, call, phase)
    BY DEF Ready
  <1>3. CASE SavePoint
    <2>1. /\ call' = [call EXCEPT !.at = @ + 1, !.saved = <<point>>] /\ point' = point
          /\ ir' = ir /\ log' = log /\ origin' = origin /\ phase' = phase
      BY <1>3 DEF SavePoint
    <2>2. call'.saved = <<point>> /\ call'.home = call.home
      BY <1>1, <2>1
    <2>3. <<point>> \in Seq(PointsOf(r))
      BY <1>2 DEF Placing
    <2>4. Placing(r, point', call', phase')
      BY <1>2, <2>1, <2>2, <2>3 DEF Placing
    <2> QED
      BY <1>1, <1>2, <2>1, <2>4, ReadyStays
  <1>4. CASE RestorePoint
    <2>1. /\ Called /\ point' = IF call.saved = <<>> THEN point ELSE call.saved[1]
          /\ ir' = ir /\ log' = log /\ origin' = origin /\ phase' = phase
      BY <1>4 DEF RestorePoint
    <2>2. call'.saved = call.saved /\ call'.home = call.home
      BY <1>1, <2>1, CallLeaves
    <2>3. point' \in PointsOf(r)
      <3>1. \A s \in Seq(PointsOf(r)) : s # <<>> => s[1] \in PointsOf(r)
        OBVIOUS
      <3> QED
        BY <1>2, <2>1, <3>1 DEF Placing
    <2>4. Placing(r, point', call', phase')
      BY <1>2, <2>1, <2>2, <2>3 DEF Placing
    <2> QED
      BY <1>1, <1>2, <2>1, <2>4, ReadyStays
  <1> QED
    BY <1>3, <1>4

(* What the builder would not hear of is not called.                       *)
LEMMA HeardCalls ==
    ASSUME Ready, Push \/ Unlink \/ SplitBlock
    PROVE  FALSE
  <1>1. PICK do \in Unheard : Calling(do)
    BY DEF Push, Unlink, SplitBlock, Unheard
  <1>2. phase = "call" /\ Typed /\ Shape /\ Heard
    BY <1>1 DEF Calling, Ready
  <1>3. frame.tried \in DOMAIN patterns /\ script = patterns[frame.tried] /\ Does(script, {do})
    BY <1>1, <1>2, CallTyped
  <1>4. Does(script, Unheard)
    BY <1>3 DEF Does
  <1> QED
    BY <1>2, <1>3, <1>4 DEF Heard

(***************************************************************************)
(* The theorem about conversions.                                          *)
(***************************************************************************)
LEMMA RestoreStarts ==
    ASSUME Init
    PROVE  RestoreInv
  <1>1. /\ ir \in Programs /\ origin = ir /\ point = [block |-> ir.region[1], before |-> End]
        /\ call = NoCall /\ log = <<>> /\ phase = "start"
    BY DEF Init
  <1>2. IsProgram(ir)
    BY <1>1, RewritingAssumption
  <1>3. Filed(ir) /\ Blank(ir) /\ ir.region # <<>> /\ ir.region \in Seq(Blocks)
    BY <1>2, ProgramFiled
  <1>4. MadeIn(log, 0) = {} /\ MadeOnce(log)
    BY <1>1 DEF MadeIn, MadeOnce
  <1>5. Rid(ir, {}) = ir
    BY <1>3, RidNone DEF Filed
  <1>6. Reverts(ir, log)
    BY <1>1, <1>3, <1>4, <1>5 DEF Reverts
  <1>7. PICK r : r = ToSet(ir.region) /\ r \subseteq Blocks /\ ir.region[1] \in r
    <2>1. 1 \in DOMAIN ir.region /\ ToSet(ir.region) \subseteq Blocks
      BY <1>3, RegionBlocks
    <2> QED
      BY <2>1 DEF ToSet
  <1>8. point \in PointsOf(r)
    BY <1>1, <1>7, PointIn
  <1>9. Placing(ToSet(ir.region), point, call, phase)
    BY <1>1, <1>7, <1>8, PlacingIdle
  <1> QED
    BY <1>1, <1>6, <1>9 DEF RestoreInv, FailureRestores

LEMMA RestoreStutters ==
    ASSUME RestoreInv, UNCHANGED vars
    PROVE  RestoreInv'
  <1>1. /\ pass' = pass /\ origin' = origin /\ ir' = ir /\ point' = point /\ call' = call /\ log' = log
        /\ phase' = phase /\ result' = result
    BY DEF vars
  <1>2. greedy' = greedy /\ Heard' = Heard /\ Running' = Running
    BY <1>1 DEF greedy, Heard, patterns, Running
  <1>3. Reverts(ir, log)' = Reverts(ir, log)
    BY <1>1 DEF Reverts
  <1>4. FailureRestores' = FailureRestores
    BY <1>1 DEF FailureRestores, patterns, greedy, Ordered, Live, InOrder
  <1> QED
    BY <1>1, <1>2, <1>3, <1>4 DEF RestoreInv

LEMMA RestoreInductive ==
    ASSUME ConversionInv, RestoreInv, [Next]_vars
    PROVE  RestoreInv'
  <1>1. CASE greedy \/ ~Heard
    <2>1. pass' = pass
      BY PassStays DEF vars
    <2>2. greedy' \/ ~Heard'
      BY <1>1, <2>1 DEF greedy, Heard, patterns
    <2> QED
      BY <2>2 DEF RestoreInv
  <1>2. CASE ~greedy /\ Heard /\ Running /\ Next
    <2>1. Ready
      BY <1>2 DEF ConversionInv, RestoreInv, Ready
    <2>2. CASE Walk \/ Pop \/ Iterate
      BY <1>2, <2>2 DEF Walk, Pop, Iterate
    <2>3. CASE Exhausted
      BY <2>3, ReadyStops DEF Exhausted, Stop
    <2>4. CASE Finished
      BY <1>2, <2>4 DEF Finished, Running, Ended
    <2> QED
      BY <1>2, <2>1, <2>2, <2>3, <2>4, RestoreCollect, RestoreLegalized, RestoreMatch, RestoreAnswer,
         RestoreCreate, RestoreReplace, RestoreErase, RestoreSetPoint, RestoreSaves, HeardCalls, Zenon DEF Next
  <1>3. CASE ~Running /\ ~greedy /\ Next
    <2>1. UNCHANGED vars
      BY <1>3 DEF Next, Running, Walk, Pop, Iterate, Collect, Legalize, Legalized, Match, Answer, Create, Push,
             Replace, Erase, EraseDef, Unlink, SplitBlock, SetPoint, SavePoint, RestorePoint, Exhausted,
             Calling, Finished
    <2> QED
      BY <2>1, RestoreStutters
  <1>4. CASE UNCHANGED vars
    BY <1>4, RestoreStutters
  <1> QED
    BY <1>1, <1>2, <1>3, <1>4

(***************************************************************************)
(* A conversion of ExposeBuilder.cpp that returns false leaves the         *)
(* operations as they were, whatever its functions created, replaced,      *)
(* erased and moved through the builder before it failed, and however deep *)
(* the legalisation of what they created was when it did; lowerToLLVM may  *)
(* also return false over converted operations that do not verify.         *)
(***************************************************************************)
THEOREM FailedConversionsRestore == Spec => []FailureRestores
  <1>1. RestoreInv => FailureRestores
    BY DEF RestoreInv, FailureRestores, Heard
  <1>2. Init => ConversionInv /\ RestoreInv
    BY ConversionStarts, RestoreStarts
  <1>3. ConversionInv /\ RestoreInv /\ [Next]_vars => ConversionInv' /\ RestoreInv'
    BY ConversionInductive, RestoreInductive
  <1> QED
    BY <1>1, <1>2, <1>3, PTL DEF Spec

(***************************************************************************)
(* The greedy driver.  As long as an iteration changed nothing, and the    *)
(* function that runs changes nothing either, every operation is in the    *)
(* worklist, is being matched, or has been tried in vain with all patterns.*)
(***************************************************************************)
Declines(o, p) ==
    p.root = ir.kind[o] /\ Suits(p, o) => ~Rewrites(p) /\ p.answer # "True"
Settled(o) == ~Dead(o) /\ \A n \in DOMAIN patterns : Declines(o, patterns[n])

Turning == phase \in {"start", "pop", "match", "call"}
Matching == phase \in {"match", "call"}
Untouched == All(Honest) /\ ~changed /\ (phase = "call" => ~Rewrites(script))

Paced ==
    /\ work \in Seq(Ops)
    /\ Matching => Len(frames) = 1 /\ root \in Ops
    /\ phase = "call" => frame.tried \in DOMAIN patterns /\ call.at # 0

Settling ==
    Untouched =>
        /\ phase = "pop" => \A o \in Live(ir) : o \in ToSet(work) \/ Settled(o)
        /\ Matching =>
              /\ \A o \in Live(ir) : o \in ToSet(work) \/ Settled(o) \/ o = root
              /\ ~Dead(root)
              /\ \A n \in DOMAIN patterns :
                    n < frame.tried \/ (n = frame.tried /\ phase = "match") =>
                       Declines(root, patterns[n])

GreedyInv ==
    greedy =>
        /\ phase # "legalize"
        /\ Turning => /\ Typed /\ Paced /\ Filed(ir) /\ Settling
                      /\ Placing(ToSet(ir.region), point, call, phase)
        /\ SettledWhenConverged

(***************************************************************************)
(* What the calls make of the operations.                                  *)
(***************************************************************************)
LEMMA WithoutFiled ==
    ASSUME NEW i, Filed(i), NEW o \in Live(i)
    PROVE  Filed(Without(i, o)) /\ Without(i, o).region = i.region
  <1>0. PICK j : j = Without(i, o)
    OBVIOUS
  <1>1. /\ i \in Irs /\ DOMAIN i = {"kind", "arg", "body", "region"}
        /\ i.kind \in [Ops -> Kinds \cup {Freed}] /\ i.arg \in [Ops -> Ops \cup {None}]
        /\ i.body \in [Blocks -> Seq(Ops)] /\ i.region \in Seq(Blocks)
    BY IrFields DEF Filed
  <1>2. PICK b \in Blocks : b = BlockOf(i, o) /\ b \in ToSet(i.region) /\ o \in Ops
    BY HomeOf DEF Live
  <1>3. PICK q \in Seq(Ops) : q = Only(i.body[b], Ops \ {o}) /\ ToSet(q) = ToSet(i.body[b]) \cap (Ops \ {o})
    <2>1. i.body[b] \in Seq(Ops)
      BY <1>1
    <2> QED
      BY <2>1, OnlyType
  <1>4. j = [i EXCEPT !.kind[o] = Freed, !.arg[o] = None, !.body[b] = q]
    BY <1>0, <1>2, <1>3 DEF Without
  <1>5. /\ DOMAIN j = DOMAIN i /\ j = [x \in DOMAIN i |-> j[x]]
        /\ j.kind = [i.kind EXCEPT ![o] = Freed] /\ j.arg = [i.arg EXCEPT ![o] = None]
        /\ j.body = [i.body EXCEPT ![b] = q] /\ j.region = i.region
    BY <1>1, <1>4
  <1>6. /\ j.kind \in [Ops -> Kinds \cup {Freed}] /\ j.arg \in [Ops -> Ops \cup {None}]
        /\ j.body \in [Blocks -> Seq(Ops)]
    <2>1. j.kind \in [Ops -> Kinds \cup {Freed}]
      BY <1>1, <1>2, <1>5
    <2>2. j.arg \in [Ops -> Ops \cup {None}]
      BY <1>1, <1>2, <1>5
    <2>3. j.body \in [Blocks -> Seq(Ops)]
      BY <1>1, <1>3, <1>5
    <2> QED
      BY <2>1, <2>2, <2>3
  <1>7. j \in Irs
    BY <1>1, <1>5, <1>6, IrMade
  <1>8. Live(j) = Live(i) \ {o}
    BY <1>1, <1>2, <1>5 DEF Live
  <1>9. \A c \in Blocks : j.body[c] = IF c = b THEN q ELSE i.body[c]
    BY <1>1, <1>5
  <1>10. \A c \in Blocks \ ToSet(j.region) : j.body[c] = <<>>
    BY <1>2, <1>5, <1>9 DEF Filed
  <1>11. ASSUME NEW x \in Live(j) PROVE \E c \in Blocks : x \in ToSet(j.body[c])
    <2>1. x \in Live(i) /\ x # o /\ x \in Ops
      BY <1>8 DEF Live
    <2>2. PICK c \in Blocks : x \in ToSet(i.body[c])
      BY <2>1 DEF Filed
    <2>3. x \in ToSet(j.body[c])
      BY <1>3, <1>9, <2>1, <2>2
    <2> QED
      BY <2>3
  <1> QED
    BY <1>0, <1>5, <1>7, <1>10, <1>11 DEF Filed

LEMMA ReroutedFiled ==
    ASSUME NEW i, Filed(i), NEW o \in Ops, NEW v \in Ops \cup {None}
    PROVE  Filed(Rerouted(i, o, v)) /\ Rerouted(i, o, v).region = i.region /\ Live(Rerouted(i, o, v)) = Live(i)
  <1>0. PICK j : j = Rerouted(i, o, v)
    OBVIOUS
  <1>1. /\ i \in Irs /\ DOMAIN i = {"kind", "arg", "body", "region"}
        /\ i.kind \in [Ops -> Kinds \cup {Freed}] /\ i.arg \in [Ops -> Ops \cup {None}]
        /\ i.body \in [Blocks -> Seq(Ops)] /\ i.region \in Seq(Blocks)
    BY IrFields DEF Filed
  <1>2. PICK a \in [Ops -> Ops \cup {None}] : a = [u \in Ops |-> IF i.arg[u] = o THEN v ELSE i.arg[u]]
    BY <1>1
  <1>3. j = [i EXCEPT !.arg = a]
    BY <1>0, <1>2 DEF Rerouted
  <1>4. /\ DOMAIN j = DOMAIN i /\ j = [x \in DOMAIN i |-> j[x]]
        /\ j.kind = i.kind /\ j.arg = a /\ j.body = i.body /\ j.region = i.region
    BY <1>1, <1>3
  <1>5. j \in Irs
    BY <1>1, <1>4, IrMade
  <1>6. Live(j) = Live(i)
    BY <1>4 DEF Live
  <1> QED
    BY <1>0, <1>4, <1>5, <1>6 DEF Filed

LEMMA SplitFiled ==
    ASSUME NEW i, Filed(i), NEW o \in Live(i), NEW new \in Blocks \ ToSet(i.region)
    PROVE  Filed(Split(i, o, new)) /\ ToSet(i.region) \subseteq ToSet(Split(i, o, new).region)
  <1>0. PICK j : j = Split(i, o, new)
    OBVIOUS
  <1>1. /\ i \in Irs /\ DOMAIN i = {"kind", "arg", "body", "region"}
        /\ i.kind \in [Ops -> Kinds \cup {Freed}] /\ i.arg \in [Ops -> Ops \cup {None}]
        /\ i.body \in [Blocks -> Seq(Ops)] /\ i.region \in Seq(Blocks)
    BY IrFields DEF Filed
  <1>2. PICK b \in Blocks : b = BlockOf(i, o) /\ b \in ToSet(i.region) /\ o \in ToSet(i.body[b])
    BY HomeOf
  <1>3. PICK s \in Seq(Ops) : s = i.body[b]
    BY <1>1
  <1>4. PICK n \in 1 .. Len(s) + 1 : n = PlaceIn(s, o)
    <2>1. \E m \in DOMAIN s : s[m] = o
      BY <1>2, <1>3 DEF ToSet
    <2>2. PlaceIn(s, o) \in DOMAIN s
      BY <2>1 DEF PlaceIn
    <2> QED
      BY <2>2
  <1>5. PICK p \in Seq(Ops), q \in Seq(Ops) :
           p = SubSeq(s, 1, n - 1) /\ q = SubSeq(s, n, Len(s)) /\ ToSet(s) = ToSet(p) \cup ToSet(q)
    <2>1. /\ SubSeq(s, 1, n - 1) \in Seq(Ops) /\ SubSeq(s, n, Len(s)) \in Seq(Ops)
          /\ ToSet(s) = ToSet(SubSeq(s, 1, n - 1)) \cup ToSet(SubSeq(s, n, Len(s)))
      BY Halves
    <2> QED
      BY <2>1, Zenon
  <1>6. PICK r \in Seq(Blocks) :
           r = InsertAt(i.region, PlaceIn(i.region, b) + 1, new) /\ ToSet(r) = ToSet(i.region) \cup {new}
    <2>1. \E m \in DOMAIN i.region : i.region[m] = b
      BY <1>2 DEF ToSet
    <2>2. PlaceIn(i.region, b) \in DOMAIN i.region
      BY <2>1 DEF PlaceIn
    <2>3. PICK m \in 1 .. Len(i.region) + 1 : m = PlaceIn(i.region, b) + 1
      BY <1>1, <2>2
    <2> QED
      BY <1>1, <2>3, Inserted
  <1>7. j = [i EXCEPT !.body[b] = p, !.body[new] = q, !.region = r]
    BY <1>0, <1>2, <1>3, <1>4, <1>5, <1>6 DEF Split
  <1>8. PICK c \in [Blocks -> Seq(Ops)] : c = [i.body EXCEPT ![b] = p, ![new] = q]
    BY <1>1
  <1>9. /\ DOMAIN j = DOMAIN i /\ j = [x \in DOMAIN i |-> j[x]]
        /\ j.kind = i.kind /\ j.arg = i.arg /\ j.body = c /\ j.region = r
    BY <1>1, <1>7, <1>8
  <1>10. j \in Irs
    BY <1>1, <1>9, IrMade
  <1>11. Live(j) = Live(i)
    BY <1>9 DEF Live
  <1>12. b # new /\ \A d \in Blocks : j.body[d] = IF d = new THEN q ELSE IF d = b THEN p ELSE i.body[d]
    BY <1>1, <1>2, <1>8, <1>9
  <1>13. \A d \in Blocks \ ToSet(j.region) : j.body[d] = <<>>
    BY <1>2, <1>6, <1>9, <1>12 DEF Filed
  <1>14. ASSUME NEW x \in Live(j) PROVE \E d \in Blocks : x \in ToSet(j.body[d])
    <2>1. PICK d \in Blocks : x \in ToSet(i.body[d])
      BY <1>11 DEF Filed
    <2>2. CASE d = b
      <3>1. j.body[b] = p /\ j.body[new] = q
        BY <1>12
      <3>2. x \in ToSet(p) \/ x \in ToSet(q)
        BY <1>3, <1>5, <2>1, <2>2
      <3> QED
        BY <3>1, <3>2
    <2>3. CASE d = new
      <3>1. i.body[new] = <<>>
        BY DEF Filed
      <3>2. x \notin ToSet(<<>>)
        BY DEF ToSet
      <3> QED
        BY <2>1, <2>3, <3>1, <3>2, Zenon
    <2>4. CASE d # b /\ d # new
      BY <1>12, <2>1, <2>4
    <2> QED
      BY <2>2, <2>3, <2>4
  <1> QED
    BY <1>0, <1>6, <1>9, <1>10, <1>13, <1>14 DEF Filed

(***************************************************************************)
(* The worklist.                                                           *)
(***************************************************************************)
LEMMA LastOut ==
    ASSUME NEW w \in Seq(Ops), w # <<>>
    PROVE  Last(w) \in Ops /\ Front(w) \in Seq(Ops) /\ ToSet(w) = ToSet(Front(w)) \cup {Last(w)}
  <1>1. PICK s \in Seq(Ops), x \in Ops : w = Append(s, x)
    BY SequenceEmptyOrAppend
  <1>2. PICK n \in Nat : n = Len(s)
    OBVIOUS
  <1>3. Len(w) = n + 1 /\ w[n + 1] = x
    BY <1>1, <1>2
  <1>4. Last(w) = x
    BY <1>3 DEF Last
  <1>5. Front(w) = s
    BY <1>1, <1>2, <1>3 DEF Front
  <1> QED
    BY <1>1, <1>4, <1>5, ToSetOfAppend

LEMMA WorkTyped ==
    ASSUME NEW w \in Seq(Ops)
    PROVE  /\ \A o \in Ops \cup {None} : Listed(w, o) \in Seq(Ops)
           /\ \A s \in Seq(Ops) : AllListed(w, s) \in Seq(Ops)
           /\ \A i \in Irs : \A o \in Ops : Dropped(w, i, o) \in Seq(Ops)
  <1>1. \A o \in Ops \cup {None} : Listed(w, o) \in Seq(Ops)
    <2>1. \A o \in Ops : Append(w, o) \in Seq(Ops)
      OBVIOUS
    <2> QED
      BY <2>1 DEF Listed
  <1>2. ASSUME NEW s \in Seq(Ops) PROVE AllListed(w, s) \in Seq(Ops)
    <2>1. Only(s, Ops \ ToSet(w)) \in Seq(Ops)
      BY OnlyType
    <2> QED
      BY <2>1, ConcatProperties DEF AllListed
  <1>3. ASSUME NEW i \in Irs, NEW o \in Ops PROVE Dropped(w, i, o) \in Seq(Ops)
    <2>1. i.arg[o] \in Ops \cup {None}
      BY IrFields
    <2>2. PICK v \in Seq(Ops) : v = IF i.arg[o] # None /\ Cardinality(Users(i, i.arg[o])) < 2
                                    THEN Listed(w, i.arg[o]) ELSE w
      BY <1>1, <2>1
    <2>3. Only(v, Ops \ {o}) \in Seq(Ops)
      BY OnlyType
    <2> QED
      BY <2>2, <2>3 DEF Dropped
  <1> QED
    BY <1>1, <1>2, <1>3

LEMMA UsersTyped ==
    ASSUME Filed(ir), NEW o, NEW s \in {InUse(o), Reverse(InUse(o))}
    PROVE  s \in Seq(Ops)
  <1>1. InOrder(ir) \in Seq(Ops)
    BY InOrderType DEF Filed
  <1>2. PICK t \in Seq(Ops) : t = InUse(o)
    BY <1>1, OnlyType DEF InUse
  <1>3. PICK n \in Nat : n = Len(t)
    OBVIOUS
  <1>4. \A m \in 1 .. n : (n - m) + 1 \in 1 .. n
    OBVIOUS
  <1>5. [m \in 1 .. n |-> t[(n - m) + 1]] \in Seq(Ops)
    <2>1. \A m \in 1 .. n : t[m] \in Ops
      BY <1>3
    <2> QED
      BY <1>4, <2>1
  <1>6. Reverse(t) \in Seq(Ops)
    BY <1>3, <1>5 DEF Reverse
  <1> QED
    BY <1>2, <1>6

(***************************************************************************)
(* The steps of the greedy driver.                                         *)
(***************************************************************************)
Going ==
    /\ greedy /\ Typed /\ Paced /\ Filed(ir) /\ Settling
    /\ Placing(ToSet(ir.region), point, call, phase)

LEMMA GreedyStops ==
    ASSUME phase' \notin {"start", "pop", "match", "call", "legalize"}, phase' = "done" => result' # "success"
    PROVE  GreedyInv'
  BY DEF GreedyInv, Turning, SettledWhenConverged

LEMMA GreedyFaults ==
    ASSUME NEW what, Fault(what)
    PROVE  GreedyInv'
  BY GreedyStops DEF Fault, Stop

LEMMA GreedyGoes ==
    ASSUME phase' \notin {"done", "legalize"}, Typed', Paced', Settling', NEW i, ir' = i, Filed(i),
           Placing(ToSet(i.region), point', call', phase')
    PROVE  GreedyInv'
  <1>1. Filed(ir)' /\ Placing(ToSet(ir.region), point, call, phase)'
    OBVIOUS
  <1> QED
    BY <1>1 DEF GreedyInv, SettledWhenConverged

LEMMA TypedGoes ==
    ASSUME Typed, pass' = pass, log' = log, NEW i, ir' = i, Filed(i), frames' \in Seq(Frame),
           DOMAIN call' = {"at", "held", "home", "made", "saved"}, call'.at \in Nat,
           call'.held \in Ops \cup {None}, call'.made \in Seq(Ops)
    PROVE  Typed'
  <1>1. /\ DOMAIN i = {"kind", "arg", "body", "region"}
        /\ i.kind \in [Ops -> Kinds \cup {Freed}] /\ i.arg \in [Ops -> Ops \cup {None}]
    BY IrFields DEF Filed
  <1> QED
    BY <1>1 DEF Typed

LEMMA SameCall ==
    ASSUME Typed, call' = call \/ call' = NoCall
    PROVE  /\ DOMAIN call' = {"at", "held", "home", "made", "saved"} /\ call'.at \in Nat
           /\ call'.held \in Ops \cup {None} /\ call'.made \in Seq(Ops)
  <1>1. CASE call' = call
    BY <1>1 DEF Typed
  <1>2. CASE call' = NoCall
    BY <1>2 DEF NoCall
  <1> QED
    BY <1>1, <1>2

(* The operations and the patterns stay: so does what was tried in vain.   *)
LEMMA SameSettled ==
    ASSUME pass' = pass, ir' = ir
    PROVE  /\ Live(ir)' = Live(ir) /\ patterns' = patterns /\ All(Honest)' = All(Honest)
           /\ \A o : Settled(o)' = Settled(o) /\ Dead(o)' = Dead(o)
           /\ \A o, p : Declines(o, p)' = Declines(o, p)
  <1>1. patterns' = patterns /\ Live(ir)' = Live(ir)
    BY DEF patterns, Live
  <1>2. \A o : Dead(o)' = Dead(o)
    BY DEF Dead, Users, Live
  <1>3. \A o, p : Declines(o, p)' = Declines(o, p)
    BY DEF Declines, Suits, IsDefinedBy
  <1>4. \A o : Settled(o)' = Settled(o)
    BY <1>1, <1>2, <1>3 DEF Settled
  <1> QED
    BY <1>1, <1>2, <1>3, <1>4 DEF All

LEMMA GreedyWalk ==
    ASSUME Going, Walk
    PROVE  GreedyInv'
  <1>1. /\ work' = InOrder(ir) /\ phase' = "pop" /\ phase = "start" /\ ir' = ir /\ pass' = pass
        /\ log' = log /\ frames' = frames /\ call' = call /\ point' = point
    BY DEF Walk
  <1>2. Filed(ir) /\ frames \in Seq(Frame) /\ Typed /\ Placing(ToSet(ir.region), point, call, phase)
    BY DEF Going, Typed
  <1>3. PICK i : i = ir
    OBVIOUS
  <1>4. Typed'
    BY <1>1, <1>2, <1>3, SameCall, TypedGoes
  <1>5. InOrder(ir) \in Seq(Ops) /\ ToSet(InOrder(ir)) = UNION {ToSet(ir.body[b]) : b \in ToSet(ir.region)}
    BY <1>2, InOrderType DEF Filed
  <1>6. Paced'
    BY <1>1, <1>5 DEF Paced, Matching
  <1>7. \A o \in Live(ir) : o \in ToSet(InOrder(ir))
    BY <1>2, <1>5, HomeOf
  <1>8. Settling'
    BY <1>1, <1>7, SameSettled DEF Settling, Matching
  <1>9. Placing(ToSet(ir.region), point', call', phase')
    BY <1>1, <1>2 DEF Placing
  <1> QED
    BY <1>1, <1>2, <1>3, <1>4, <1>6, <1>8, <1>9, GreedyGoes

LEMMA GreedyPop ==
    ASSUME Going, Pop
    PROVE  GreedyInv'
  <1>1. work \in Seq(Ops) /\ work # <<>> /\ phase = "pop" /\ Typed /\ Filed(ir)
        /\ Placing(ToSet(ir.region), point, call, phase)
    BY DEF Going, Paced, Pop
  <1>2. PICK o \in Ops, w \in Seq(Ops) : o = Last(work) /\ w = Front(work) /\ ToSet(work) = ToSet(w) \cup {o}
    BY <1>1, LastOut
  <1>3. frames \in Seq(Frame) /\ log \in Seq(Entry) /\ Len(log) \in Nat
    BY <1>1 DEF Typed
  <1>4. CASE ir.kind[o] = Freed
    <2>1. ~Dead(o)
      BY <1>4, RewritingAssumption DEF Dead, Freed
    <2>2. Fault("freed")
      BY <1>2, <1>4, <2>1, Zenon DEF Pop
    <2> QED
      BY <2>2, GreedyFaults
  <1>5. CASE ir.kind[o] # Freed /\ Dead(o)
    <2>1. /\ ir' = Without(ir, o) /\ changed' = TRUE /\ work' = Dropped(w, ir, o) /\ pass' = pass
          /\ log' = log /\ frames' = frames /\ call' = call /\ point' = point /\ phase' = phase
      BY <1>2, <1>5 DEF Pop
    <2>2. o \in Live(ir)
      BY <1>5 DEF Live
    <2>3. PICK i : i = Without(ir, o) /\ Filed(i) /\ i.region = ir.region
      BY <1>1, <2>2, WithoutFiled
    <2>4. Typed'
      BY <1>1, <1>3, <2>1, <2>3, SameCall, TypedGoes
    <2>5. work' \in Seq(Ops)
      BY <1>1, <2>1, WorkTyped DEF Filed
    <2>6. Paced'
      BY <1>1, <2>1, <2>5 DEF Paced, Matching
    <2>7. Settling'
      BY <2>1 DEF Settling, Untouched
    <2>8. Placing(ToSet(i.region), point', call', phase')
      BY <1>1, <2>1, <2>3
    <2> QED
      BY <1>1, <2>1, <2>3, <2>4, <2>6, <2>7, <2>8, GreedyGoes
  <1>6. CASE ir.kind[o] # Freed /\ ~Dead(o)
    <2>1. /\ work' = w /\ frames' = <<Framed(o)>> /\ phase' = "match" /\ ir' = ir /\ pass' = pass
          /\ point' = [block |-> BlockOf(ir, o), before |-> o]
          /\ log' = log /\ call' = call /\ changed' = changed
      BY <1>2, <1>6 DEF Pop
    <2>2. o \in Live(ir)
      BY <1>6 DEF Live
    <2>3. PICK i, r : i = ir /\ r = ToSet(ir.region) /\ r \subseteq Blocks
      BY <1>1, RegionBlocks
    <2>4. PICK f \in Frame : f = Framed(o) /\ f.op = o /\ f.tried = 0
      <3>1. <<>> \in Seq(Ops)
        OBVIOUS
      <3>2. PICK m \in Nat : m = Len(log)
        BY <1>3
      <3>3. PICK f : f = [op |-> o, tried |-> 0, mark |-> m, todo |-> <<>>]
        OBVIOUS
      <3>4. f \in Frame
        BY <3>1, <3>3 DEF Frame
      <3> QED
        BY <3>2, <3>3, <3>4 DEF Framed
    <2>5. frames' \in Seq(Frame) /\ Len(frames') = 1 /\ frames'[1] = f
      BY <2>1, <2>4
    <2>6. Typed'
      BY <1>1, <2>1, <2>3, <2>5, SameCall, TypedGoes
    <2>7. root' = o /\ frame'.tried = 0
      BY <2>4, <2>5 DEF root, frame
    <2>8. Paced'
      BY <2>1, <2>5, <2>7 DEF Paced
    <2>9. Settling'
      <3> SUFFICES ASSUME Untouched' PROVE Settling'
        BY DEF Settling
      <3>1. Untouched
        BY <1>1, <2>1, SameSettled DEF Untouched
      <3>2. \A x \in Live(ir) : x \in ToSet(work) \/ Settled(x)
        BY <1>1, <3>1 DEF Going, Settling
      <3>3. \A x \in Live(ir)' : x \in ToSet(work)' \/ Settled(x)' \/ x = root'
        BY <1>2, <2>1, <2>7, <3>2, SameSettled
      <3>4. ~Dead(o)'
        BY <1>6, <2>1, SameSettled
      <3>5. \A n \in DOMAIN patterns' : n # 0 /\ ~(n < 0)
        <4>1. pass.patterns \in Seq(ToSet(pass.patterns))
          BY <1>1 DEF Typed, IsPass
        <4>2. \A n \in DOMAIN patterns : n # 0 /\ ~(n < 0)
          BY <4>1 DEF patterns
        <4> QED
          BY <2>1, <4>2, SameSettled
      <3> QED
        BY <2>1, <2>7, <3>3, <3>4, <3>5 DEF Settling
    <2>10. PICK b \in r : b = BlockOf(ir, o)
      BY <1>1, <2>2, <2>3, HomeOf
    <2>11. PICK p \in PointsOf(r) : p = [block |-> b, before |-> o]
      BY <2>3, PointIn
    <2>12. Placing(ToSet(i.region), point', call', phase')
      <3>1. Placing(r, p, call, phase')
        BY <1>1, <2>1, <2>3 DEF Placing
      <3> QED
        BY <2>1, <2>3, <2>10, <2>11, <3>1
    <2> QED
      BY <1>1, <2>1, <2>3, <2>6, <2>8, <2>9, <2>12, GreedyGoes
  <1> QED
    BY <1>4, <1>5, <1>6

LEMMA GreedyIterate ==
    ASSUME Going, Iterate
    PROVE  GreedyInv'
  <1>1. work = <<>> /\ phase = "pop" /\ Typed /\ Filed(ir) /\ Placing(ToSet(ir.region), point, call, phase)
    BY DEF Going, Iterate
  <1>2. CASE changed /\ round + 1 < MaxIterations
    <2>1. /\ phase' = "start" /\ ir' = ir /\ pass' = pass /\ work' = work
          /\ log' = log /\ frames' = frames /\ call' = call /\ point' = point
      BY <1>2 DEF Iterate
    <2>2. PICK i : i = ir
      OBVIOUS
    <2>3. frames' \in Seq(Frame)
      BY <1>1, <2>1 DEF Typed
    <2>4. Typed'
      BY <1>1, <2>1, <2>2, <2>3, SameCall, TypedGoes
    <2>5. Paced'
      BY <2>1 DEF Paced, Going, Matching
    <2>6. Settling'
      BY <2>1 DEF Settling, Matching
    <2>7. Placing(ToSet(i.region), point', call', phase')
      BY <1>1, <2>1, <2>2 DEF Placing
    <2> QED
      BY <1>1, <2>1, <2>2, <2>4, <2>5, <2>6, <2>7, GreedyGoes
  <1>3. CASE ~(changed /\ round + 1 < MaxIterations)
    <2>1. /\ phase' = "done" /\ ir' = ir /\ pass' = pass
          /\ result' = IF ~changed THEN "success" ELSE "failure"
      BY <1>3 DEF Iterate, Converged, Stop
    <2>2. CASE changed
      BY <2>1, <2>2, GreedyStops
    <2>3. CASE ~changed
      <3>1. All(Honest) => Untouched
        BY <1>1, <2>3 DEF Untouched
      <3>2. \A o : o \notin ToSet(work)
        BY <1>1 DEF ToSet
      <3>3. All(Honest) => \A o \in Live(ir) : Settled(o)
        BY <1>1, <3>1, <3>2 DEF Going, Settling
      <3>4. All(Honest)' => \A o \in Live(ir)' : Settled(o)'
        BY <2>1, <3>3, SameSettled
      <3>5. SettledWhenConverged'
        BY <3>4 DEF SettledWhenConverged, Settled, Declines
      <3> QED
        BY <2>1, <3>5 DEF GreedyInv, Turning
    <2> QED
      BY <2>2, <2>3
  <1> QED
    BY <1>2, <1>3

(* The next pattern for the operation.                                     *)
LEMMA NextTried ==
    ASSUME Typed, greedy, Untried # {}, NEW n, n = Min(Untried)
    PROVE  /\ n \in DOMAIN patterns /\ n \in Nat /\ n > frame.tried
           /\ \A m \in DOMAIN patterns : m > frame.tried /\ m < n => patterns[m].root # ir.kind[root]
  <1>1. DOMAIN patterns \subseteq Nat
    <2>1. pass.patterns \in Seq(ToSet(pass.patterns))
      BY DEF Typed, IsPass
    <2> QED
      BY <2>1 DEF patterns
  <1>2. Untried \subseteq DOMAIN patterns
    BY DEF Untried
  <1>3. \E x \in Untried : \A y \in Untried : x <= y
    BY <1>1, <1>2, Least
  <1>4. n \in Untried /\ \A y \in Untried : n <= y
    BY <1>3 DEF Min
  <1>5. ASSUME NEW m \in DOMAIN patterns, m > frame.tried, m < n
        PROVE  patterns[m].root # ir.kind[root]
    <2>1. m \notin Untried
      BY <1>1, <1>2, <1>4, <1>5
    <2> QED
      BY <1>5, <2>1 DEF Untried
  <1> QED
    BY <1>1, <1>2, <1>4, <1>5 DEF Untried

LEMMA GreedyMatch ==
    ASSUME Going, Match
    PROVE  GreedyInv'
  <1>1. /\ phase = "match" /\ greedy /\ Typed /\ Paced /\ Filed(ir) /\ Settling
        /\ Placing(ToSet(ir.region), point, call, phase)
    BY DEF Going, Match
  <1>2. frames \in Seq(Frame) /\ Len(frames) = 1 /\ root \in Ops /\ frames # <<>> /\ frame = frames[1]
    <2>1. frames \in Seq(Frame) /\ Len(frames) = 1
      BY <1>1 DEF Typed, Paced, Matching
    <2>2. root \in Ops
      BY <1>1 DEF Paced, Matching
    <2>3. frame = frames[1]
      BY <2>1 DEF frame
    <2>4. frames # <<>>
      BY <2>1
    <2> QED
      BY <2>1, <2>2, <2>3, <2>4
  <1>3. frame.tried \in Nat /\ DOMAIN patterns \subseteq Nat
    <2>1. frames[1] \in Frame
      BY <1>2
    <2>2. pass.patterns \in Seq(ToSet(pass.patterns))
      BY <1>1 DEF Typed, IsPass
    <2> QED
      BY <1>2, <2>1, <2>2 DEF Frame, patterns
  <1>4. CASE ir.kind[root] = Freed
    <2>1. Fault("freed")
      BY <1>4 DEF Match
    <2> QED
      BY <2>1, GreedyFaults
  <1>5. PICK i : i = ir
    OBVIOUS
  <1>6. CASE ir.kind[root] # Freed /\ Untried = {}
    <2>1. /\ frames' = <<>> /\ phase' = "pop" /\ pass' = pass /\ ir' = ir /\ work' = work
          /\ call' = call /\ point' = point /\ log' = log /\ changed' = changed
      BY <1>1, <1>6 DEF Match, Unmatched
    <2>2. frames' \in Seq(Frame)
      BY <2>1
    <2>3. Typed'
      BY <1>1, <1>5, <2>1, <2>2, SameCall, TypedGoes
    <2>4. Paced'
      BY <1>1, <2>1 DEF Paced, Matching
    <2>5. Placing(ToSet(i.region), point', call', phase')
      BY <1>1, <1>5, <2>1 DEF Placing
    <2>6. ASSUME Untouched
          PROVE  \A o \in Live(ir) : o \in ToSet(work) \/ Settled(o)
      <3>1. /\ \A o \in Live(ir) : o \in ToSet(work) \/ Settled(o) \/ o = root
            /\ ~Dead(root)
            /\ \A n \in DOMAIN patterns : n < frame.tried \/ n = frame.tried => Declines(root, patterns[n])
        BY <1>1, <2>6 DEF Settling, Matching
      <3>2. \A n \in DOMAIN patterns : n > frame.tried => Declines(root, patterns[n])
        BY <1>1, <1>6 DEF Untried, Declines
      <3>3. \A n \in DOMAIN patterns : n < frame.tried \/ n = frame.tried \/ n > frame.tried
        BY <1>3
      <3>4. Settled(root)
        BY <3>1, <3>2, <3>3 DEF Settled
      <3> QED
        BY <3>1, <3>4
    <2>7. Settling'
      <3>1. Untouched' => Untouched
        BY <1>1, <2>1, SameSettled DEF Untouched
      <3> QED
        BY <2>1, <2>6, <3>1, SameSettled DEF Settling, Matching
    <2> QED
      BY <1>1, <1>5, <2>1, <2>3, <2>4, <2>5, <2>7, GreedyGoes
  <1>7. CASE ir.kind[root] # Freed /\ Untried # {}
    <2>1. PICK n : n = Min(Untried)
      OBVIOUS
    <2>2. /\ frames' = Retried(n) /\ pass' = pass /\ ir' = ir /\ work' = work
          /\ point' = point /\ log' = log /\ changed' = changed
      BY <1>1, <1>7, <2>1 DEF Match
    <2>3. \/ /\ Suits(patterns[n], root) /\ phase' = "call"
             /\ call' = [NoCall EXCEPT !.at = 1, !.held = ir.arg[root], !.home = <<BlockOf(ir, root)>>]
          \/ ~Suits(patterns[n], root) /\ phase' = "match" /\ call' = call
      BY <1>1, <1>7, <2>1 DEF Match
    <2>4. /\ n \in DOMAIN patterns /\ n \in Nat /\ n > frame.tried
          /\ \A m \in DOMAIN patterns : m > frame.tried /\ m < n => patterns[m].root # ir.kind[root]
      BY <1>1, <1>7, <2>1, NextTried
    <2>5. PICK gs \in Seq(Frame) :
              /\ gs = [frames EXCEPT ![Len(frames)].tried = n] /\ Len(gs) = Len(frames)
              /\ gs[Len(frames)].tried = n /\ gs[Len(frames)].op = frames[Len(frames)].op
      BY <1>2, <2>4, FrameTried, ZenonT(30)
    <2>6. frames' = gs /\ Len(gs) = 1 /\ gs[1].tried = n /\ gs[1].op = frames[1].op
      BY <1>2, <2>2, <2>5 DEF Retried
    <2>7. frame'.tried = n /\ root' = root
      BY <1>2, <2>6 DEF frame, root
    <2>8. PICK r : r = ToSet(ir.region)
      OBVIOUS
    <2>9. PICK b \in r : b = BlockOf(ir, root)
      BY <1>1, <1>2, <1>7, <2>8, HomeOf DEF Live
    <2>10. /\ DOMAIN call' = {"at", "held", "home", "made", "saved"} /\ call'.at \in Nat
           /\ call'.held \in Ops \cup {None} /\ call'.made \in Seq(Ops)
           /\ (phase' = "call" => call'.at # 0)
           /\ Placing(r, point, call', phase')
      <3>1. CASE phase' = "match" /\ call' = call
        <4>1. Placing(r, point, call, phase')
          BY <1>1, <2>8, <3>1 DEF Placing
        <4> QED
          BY <1>1, <3>1, <4>1, SameCall
      <3>2. CASE phase' = "call" /\ call' = [NoCall EXCEPT !.at = 1, !.held = ir.arg[root],
                                                          !.home = <<BlockOf(ir, root)>>]
        <4>1. PICK h \in Ops \cup {None} : h = ir.arg[root]
          BY <1>1, <1>2 DEF Typed
        <4>2. PICK c : c = [NoCall EXCEPT !.at = 1, !.held = h, !.home = <<b>>]
          OBVIOUS
        <4>3. call' = c
          BY <2>9, <3>2, <4>1, <4>2
        <4>4. /\ DOMAIN c = {"at", "held", "home", "made", "saved"} /\ c.at = 1
              /\ c.held = h /\ c.made = <<>>
          BY <4>2 DEF NoCall
        <4>5. point \in PointsOf(r)
          BY <1>1, <2>8 DEF Placing
        <4>6. Placing(r, point, c, phase')
          BY <4>2, <4>5, PlacingBegins
        <4> QED
          BY <4>1, <4>3, <4>4, <4>6
      <3> QED
        BY <2>3, <3>1, <3>2
    <2>11. Typed'
      BY <1>1, <1>5, <2>2, <2>6, <2>10, TypedGoes
    <2>12. phase' \in {"match", "call"} /\ patterns' = patterns
      BY <2>2, <2>3, SameSettled
    <2>13. Paced'
      BY <1>1, <1>2, <2>2, <2>4, <2>6, <2>7, <2>10, <2>12 DEF Paced
    <2>14. Settling'
      <3> SUFFICES ASSUME Untouched' PROVE Settling'
        BY DEF Settling
      <3>1. Untouched
        BY <1>1, <2>2, SameSettled DEF Untouched
      <3>2. /\ \A o \in Live(ir) : o \in ToSet(work) \/ Settled(o) \/ o = root
            /\ ~Dead(root)
            /\ \A m \in DOMAIN patterns : m < frame.tried \/ m = frame.tried => Declines(root, patterns[m])
        BY <1>1, <3>1 DEF Settling, Matching
      <3>3. \A m \in DOMAIN patterns : m < n => Declines(root, patterns[m])
        <4>1. \A m \in DOMAIN patterns : m < frame.tried \/ m = frame.tried \/ m > frame.tried
          BY <1>3
        <4> QED
          BY <2>4, <3>2, <4>1 DEF Declines
      <3>4. phase' = "match" => Declines(root, patterns[n])
        BY <2>3 DEF Declines
      <3>5. \A m \in DOMAIN patterns : m < n \/ (m = n /\ phase' = "match") => Declines(root, patterns[m])
        BY <3>3, <3>4
      <3>6. \A m \in DOMAIN patterns' :
               m < frame'.tried \/ (m = frame'.tried /\ phase' = "match") => Declines(root, patterns[m])'
        BY <2>2, <2>7, <2>12, <3>5, SameSettled
      <3>7. /\ \A o \in Live(ir)' : o \in ToSet(work)' \/ Settled(o)' \/ o = root'
            /\ ~Dead(root)'
        BY <2>2, <2>7, <3>2, SameSettled
      <3> QED
        BY <2>12, <3>6, <3>7 DEF Settling
    <2>15. Placing(ToSet(i.region), point', call', phase')
      BY <1>5, <2>2, <2>8, <2>10
    <2> QED
      BY <1>1, <1>5, <2>2, <2>11, <2>12, <2>13, <2>14, <2>15, GreedyGoes
  <1> QED
    BY <1>4, <1>6, <1>7

LEMMA GreedyAnswer ==
    ASSUME Going, Answer
    PROVE  GreedyInv'
  <1>1. /\ phase = "call" /\ greedy /\ Typed /\ Paced /\ Filed(ir) /\ Settling
        /\ Placing(ToSet(ir.region), point, call, phase) /\ frames \in Seq(Frame)
    BY DEF Going, Answer, Typed
  <1>2. point \in PointsOf(ToSet(ir.region))
    BY <1>1 DEF Placing
  <1>3. PICK i : i = ir
    OBVIOUS
  <1>4. CASE script.answer = "raises"
    <2>1. phase' = "raised"
      BY <1>4 DEF Answer
    <2> QED
      BY <2>1, GreedyStops
  <1>5. CASE script.answer # "raises" /\ Succeeded(script)
    <2>1. /\ changed' = TRUE /\ frames' = <<>> /\ phase' = "pop" /\ call' = NoCall
          /\ pass' = pass /\ ir' = ir /\ point' = point /\ work' = work /\ log' = log
      BY <1>1, <1>5 DEF Answer
    <2>2. frames' \in Seq(Frame)
      BY <2>1
    <2>3. Typed'
      BY <1>1, <1>3, <2>1, <2>2, SameCall, TypedGoes
    <2>4. Paced'
      BY <1>1, <2>1 DEF Paced, Matching
    <2>5. Settling'
      BY <2>1 DEF Settling, Untouched
    <2>6. Placing(ToSet(i.region), point', call', phase')
      BY <1>2, <1>3, <2>1, PlacingIdle
    <2> QED
      BY <1>1, <1>3, <2>1, <2>3, <2>4, <2>5, <2>6, GreedyGoes
  <1>6. CASE script.answer # "raises" /\ ~Succeeded(script)
    <2>1. /\ phase' = "match" /\ call' = NoCall /\ changed' = changed /\ frames' = frames
          /\ pass' = pass /\ ir' = ir /\ point' = point /\ work' = work /\ log' = log
      BY <1>1, <1>6, Zenon DEF Answer
    <2>2. Typed'
      BY <1>1, <1>3, <2>1, SameCall, TypedGoes
    <2>3. frame' = frame /\ root' = root
      BY <2>1 DEF frame, root
    <2>4. Paced'
      BY <1>1, <2>1, <2>3 DEF Paced, Matching
    <2>5. Settling'
      <3> SUFFICES ASSUME Untouched' PROVE Settling'
        BY DEF Settling
      <3>1. script = patterns[frame.tried] /\ frame.tried \in DOMAIN patterns /\ script.answer # "True"
        BY <1>1, <1>6 DEF script, Paced, Succeeded
      <3>2. All(Honest) /\ ~changed
        BY <2>1, SameSettled DEF Untouched
      <3>3. ~Rewrites(script)
        BY <3>1, <3>2 DEF All, Honest
      <3>4. Untouched
        BY <3>2, <3>3 DEF Untouched
      <3>5. /\ \A o \in Live(ir) : o \in ToSet(work) \/ Settled(o) \/ o = root
            /\ ~Dead(root)
            /\ \A m \in DOMAIN patterns : m < frame.tried => Declines(root, patterns[m])
        BY <1>1, <3>4 DEF Settling, Matching
      <3>6. \A m \in DOMAIN patterns : m < frame.tried \/ m = frame.tried => Declines(root, patterns[m])
        BY <3>1, <3>3, <3>5 DEF Declines
      <3> QED
        BY <2>1, <2>3, <3>5, <3>6, SameSettled DEF Settling, Matching
    <2>6. Placing(ToSet(i.region), point', call', phase')
      BY <1>2, <1>3, <2>1, PlacingIdle
    <2> QED
      BY <1>1, <1>3, <2>1, <2>2, <2>4, <2>5, <2>6, GreedyGoes
  <1> QED
    BY <1>4, <1>5, <1>6

(***************************************************************************)
(* The calls, under the greedy driver.                                     *)
(***************************************************************************)
LEMMA GreedyCall ==
    ASSUME Going, phase = "call"
    PROVE  /\ script = patterns[frame.tried] /\ root \in Ops /\ call.at \in Nat \ {0}
           /\ DOMAIN call = {"at", "held", "home", "made", "saved"}
           /\ call.held \in Ops \cup {None} /\ call.made \in Seq(Ops)
           /\ Argument \in Ops \cup {None}
           /\ \A do : Calling(do) => now \in Calls /\ now.do = do /\ Does(script, {do})
  <1>1. /\ script = patterns[frame.tried] /\ root \in Ops /\ call.at \in Nat \ {0}
        /\ DOMAIN call = {"at", "held", "home", "made", "saved"}
        /\ call.held \in Ops \cup {None} /\ call.made \in Seq(Ops)
        /\ frame.tried \in DOMAIN patterns /\ IsPass(pass)
    BY DEF Going, Typed, Paced, Matching, script
  <1>2. Argument \in Ops \cup {None}
    BY <1>1 DEF Argument, Last
  <1>3. IsPattern(script)
    BY <1>1 DEF IsPass, patterns
  <1>4. script.calls \in Seq(Calls)
    BY <1>3 DEF IsPattern
  <1>5. ASSUME NEW do, Calling(do)
        PROVE  now \in Calls /\ now.do = do /\ Does(script, {do})
    <2>1. call.at \in 1 .. Len(script.calls) /\ now = script.calls[call.at] /\ now.do = do
      BY <1>1, <1>4, <1>5 DEF Calling, now
    <2>2. call.at \in DOMAIN script.calls
      BY <1>4, <2>1
    <2> QED
      BY <1>4, <2>1, <2>2 DEF Does
  <1> QED
    BY <1>1, <1>2, <1>5

LEMMA PlacingGrows ==
    ASSUME NEW r, NEW q, r \subseteq q, NEW p, NEW c, NEW ph, Placing(r, p, c, ph)
    PROVE  Placing(q, p, c, ph)
  <1>1. PointsOf(r) \subseteq PointsOf(q)
    BY DEF PointsOf
  <1>2. Seq(PointsOf(r)) \subseteq Seq(PointsOf(q))
    BY <1>1
  <1> QED
    BY <1>1, <1>2 DEF Placing

(* A call that changes the operations: the function is one that rewrites.  *)
LEMMA GreedyRewrites ==
    ASSUME Going, phase = "call", NEW do \in Retires \cup Inserts \cup {"eraseDef", "split"}, Calling(do),
           pass' = pass, frames' = frames, log' = log, phase' = phase, point' = point,
           work' \in Seq(Ops), NEW i, ir' = i, Filed(i), ToSet(ir.region) \subseteq ToSet(i.region),
           Called \/ \E o \in Ops : call' = [call EXCEPT !.at = @ + 1, !.made = Append(@, o)]
    PROVE  GreedyInv'
  <1>1. /\ Typed /\ Paced /\ frames \in Seq(Frame) /\ call.at \in Nat \ {0}
        /\ DOMAIN call = {"at", "held", "home", "made", "saved"}
        /\ Placing(ToSet(ir.region), point, call, phase)
    BY GreedyCall DEF Going, Typed
  <1>2. /\ DOMAIN call' = {"at", "held", "home", "made", "saved"} /\ call'.at \in Nat \ {0}
        /\ call'.held \in Ops \cup {None} /\ call'.made \in Seq(Ops)
    BY <1>1, CalledTyped
  <1>3. Typed'
    BY <1>1, <1>2, TypedGoes
  <1>4. frame' = frame /\ root' = root /\ patterns' = patterns /\ script' = script
    BY DEF frame, root, patterns, script
  <1>5. Paced'
    BY <1>1, <1>2, <1>4 DEF Paced, Matching
  <1>6. Rewrites(script)
    <2>1. Does(script, {do})
      BY GreedyCall
    <2> QED
      BY <2>1 DEF Rewrites, Does
  <1>7. Rewrites(script')
    BY <1>4, <1>6
  <1>8. Settling'
    BY <1>7 DEF Settling, Untouched, Rewrites, Does
  <1>9. Placing(ToSet(i.region), point', call', phase')
    <2>1. call'.saved = call.saved /\ call'.home = call.home
      BY <1>1, CallLeaves
    <2>2. Placing(ToSet(ir.region), point', call', phase')
      BY <1>1, <2>1, PlacingLeft
    <2> QED
      BY <2>2, PlacingGrows
  <1> QED
    BY <1>3, <1>5, <1>8, <1>9, GreedyGoes

(* A call that moves the builder.                                          *)
LEMMA GreedyMoves ==
    ASSUME Going, phase = "call", pass' = pass, frames' = frames, log' = log, phase' = phase, ir' = ir,
           work' = work, changed' = changed,
           Called \/ \E p : call' = [call EXCEPT !.at = @ + 1, !.saved = p],
           Placing(ToSet(ir.region), point', call', phase')
    PROVE  GreedyInv'
  <1>1. Typed /\ Paced /\ Filed(ir) /\ Settling /\ frames \in Seq(Frame) /\ call.at \in Nat \ {0}
    BY GreedyCall DEF Going, Typed
  <1>2. /\ DOMAIN call' = {"at", "held", "home", "made", "saved"} /\ call'.at \in Nat \ {0}
        /\ call'.held \in Ops \cup {None} /\ call'.made \in Seq(Ops)
    BY <1>1, CalledTyped
  <1>3. PICK i : i = ir
    OBVIOUS
  <1>4. Typed'
    BY <1>1, <1>2, <1>3, TypedGoes
  <1>5. frame' = frame /\ root' = root /\ patterns' = patterns /\ script' = script
    BY DEF frame, root, patterns, script
  <1>6. Paced'
    BY <1>1, <1>2, <1>5 DEF Paced, Matching
  <1>7. Settling'
    <2> SUFFICES ASSUME Untouched' PROVE Settling'
      BY DEF Settling
    <2>1. Rewrites(script)' = Rewrites(script)
      BY <1>5 DEF Rewrites, Does
    <2>2. Untouched
      BY <2>1, SameSettled DEF Untouched
    <2>3. /\ \A o \in Live(ir) : o \in ToSet(work) \/ Settled(o) \/ o = root
          /\ ~Dead(root)
          /\ \A m \in DOMAIN patterns :
                m < frame.tried \/ (m = frame.tried /\ phase = "match") => Declines(root, patterns[m])
      BY <1>1, <2>2 DEF Settling, Matching
    <2> QED
      BY <1>5, <2>3, SameSettled DEF Settling, Matching
  <1> QED
    BY <1>1, <1>3, <1>4, <1>6, <1>7, GreedyGoes

LEMMA GreedyCreate ==
    ASSUME Going, Create
    PROVE  GreedyInv'
  <1>1. /\ phase = "call" /\ Calling("create") /\ greedy /\ Typed /\ Filed(ir) /\ work \in Seq(Ops)
        /\ Placing(ToSet(ir.region), point, call, phase)
    BY DEF Create, Calling, Going, Paced
  <1>2. /\ Argument \in Ops \cup {None} /\ now \in Calls /\ now.do = "create"
    BY <1>1, GreedyCall
  <1>3. PICK k \in Kinds : k = now.kind
    BY <1>2 DEF Calls
  <1>4. CASE RootFreed
    <2>1. Fault("freed")
      BY <1>4 DEF Create
    <2> QED
      BY <2>1, GreedyFaults
  <1>5. CASE ~RootFreed /\ ~Sound(point)
    <2>1. Fault("point")
      BY <1>5 DEF Create
    <2> QED
      BY <2>1, GreedyFaults
  <1>6. CASE ~RootFreed /\ Sound(point)
    <2>1. PICK o \in Fresh :
             /\ ir' = Grown(ir, o, now.kind, Argument, point.block, point.before)
             /\ call' = [call EXCEPT !.at = @ + 1, !.made = Append(@, o)]
             /\ work' = Listed(work, o) /\ log' = log
             /\ pass' = pass /\ frames' = frames /\ point' = point /\ phase' = phase
      BY <1>1, <1>6 DEF Create
    <2>2. o \in Ops
      BY DEF Fresh
    <2>3. point \in PointsOf(ToSet(ir.region))
      BY <1>1 DEF Placing
    <2>4. PICK a \in Ops \cup {None}, b \in ToSet(ir.region), before \in Ops \cup {End} :
             /\ a = Argument /\ b = point.block /\ before = point.before
             /\ before = End \/ before \in ToSet(ir.body[b])
      BY <1>1, <1>2, <1>6, <2>3, SoundPoint
    <2>5. PICK i : i = Grown(ir, o, k, a, b, before)
      OBVIOUS
    <2>6. GrownFrom(ir, o, k, a, b, i)
      BY <1>1, <2>2, <2>4, <2>5, GrownFiled
    <2>7. Filed(i) /\ ToSet(ir.region) \subseteq ToSet(i.region)
      BY <2>6 DEF GrownFrom
    <2>8. ir' = i
      BY <1>3, <2>1, <2>4, <2>5
    <2>9. work' \in Seq(Ops)
      BY <1>1, <2>1, <2>2, WorkTyped
    <2>10. "create" \in Retires \cup Inserts \cup {"eraseDef", "split"}
      BY DEF Inserts
    <2> QED
      BY <1>1, <2>1, <2>2, <2>7, <2>8, <2>9, <2>10, GreedyRewrites
  <1> QED
    BY <1>4, <1>5, <1>6

LEMMA GreedyPush ==
    ASSUME Going, Push
    PROVE  GreedyInv'
  <1>1. phase = "call" /\ Calling("append") /\ Typed /\ Filed(ir) /\ work \in Seq(Ops)
    BY DEF Push, Calling, Going, Paced
  <1>2. call.held \in Ops \cup {None} /\ now \in Calls /\ now.do = "append" /\ root \in Ops
    BY <1>1, GreedyCall
  <1>3. PICK k \in Kinds : k = now.kind
    BY <1>2 DEF Calls
  <1>4. CASE RootFreed
    <2>1. Fault("freed")
      BY <1>4 DEF Push
    <2> QED
      BY <2>1, GreedyFaults
  <1>5. CASE ~RootFreed
    <2>1. PICK o \in Fresh :
             /\ ir' = Grown(ir, o, now.kind, call.held, BlockOf(ir, root), End) /\ Called
             /\ pass' = pass /\ frames' = frames /\ work' = work /\ log' = log
             /\ point' = point /\ phase' = phase
      BY <1>5 DEF Push
    <2>2. o \in Ops
      BY DEF Fresh
    <2>3. root \in Live(ir)
      BY <1>2, <1>5 DEF RootFreed, Live
    <2>4. PICK b \in ToSet(ir.region) : b = BlockOf(ir, root)
      BY <1>1, <2>3, HomeOf
    <2>5. PICK a \in Ops \cup {None} : a = call.held
      BY <1>2
    <2>6. PICK before, i : before = End /\ i = Grown(ir, o, k, a, b, before)
      OBVIOUS
    <2>7. GrownFrom(ir, o, k, a, b, i)
      BY <1>1, <2>2, <2>6, GrownFiled
    <2>8. Filed(i) /\ ToSet(ir.region) \subseteq ToSet(i.region)
      BY <2>7 DEF GrownFrom
    <2>9. ir' = i
      BY <1>3, <2>1, <2>4, <2>5, <2>6
    <2>10. "append" \in Retires \cup Inserts \cup {"eraseDef", "split"}
      BY DEF Inserts
    <2> QED
      BY <1>1, <2>1, <2>8, <2>9, <2>10, GreedyRewrites
  <1> QED
    BY <1>4, <1>5

LEMMA GreedyRetires ==
    ASSUME Going, phase = "call", NEW do \in Retires \cup {"eraseDef"}, Calling(do),
           NEW o \in Live(ir), NEW by \in Ops \cup {None}, NEW w \in Seq(Ops), Retire(o, by, w), Called,
           pass' = pass, frames' = frames, phase' = phase, point' = point
    PROVE  GreedyInv'
  <1>1. greedy /\ Filed(ir) /\ o \in Ops
    BY DEF Going, Live
  <1>2. PICK j : j = Rerouted(ir, o, by) /\ Filed(j) /\ j.region = ir.region /\ o \in Live(j)
    BY <1>1, ReroutedFiled
  <1>3. PICK i : i = Without(j, o) /\ Filed(i) /\ i.region = j.region
    BY <1>2, WithoutFiled
  <1>4. ir' = i /\ work' = Dropped(w, j, o) /\ log' = log
    BY <1>1, <1>2, <1>3 DEF Retire
  <1>5. work' \in Seq(Ops)
    BY <1>1, <1>2, <1>4, WorkTyped DEF Filed
  <1>6. ToSet(ir.region) \subseteq ToSet(i.region)
    BY <1>2, <1>3
  <1> QED
    BY <1>3, <1>4, <1>5, <1>6, GreedyRewrites

LEMMA GreedyReplace ==
    ASSUME Going, Replace
    PROVE  GreedyInv'
  <1>1. phase = "call" /\ Calling("replace") /\ greedy /\ Filed(ir) /\ work \in Seq(Ops)
    BY DEF Replace, Calling, Going, Paced
  <1>2. Argument \in Ops \cup {None} /\ root \in Ops
    BY <1>1, GreedyCall
  <1>3. CASE RootFreed \/ (Argument # None /\ ir.kind[Argument] = Freed)
    <2>1. Fault("freed")
      BY <1>3 DEF Replace
    <2> QED
      BY <2>1, GreedyFaults
  <1>4. CASE ~(RootFreed \/ (Argument # None /\ ir.kind[Argument] = Freed))
    <2>1. PICK users \in {InUse(root), Reverse(InUse(root))} :
                   /\ Retire(root, Argument, IF greedy THEN AllListed(work, users) ELSE work) /\ Called
                   /\ pass' = pass /\ frames' = frames /\ point' = point /\ phase' = phase
      BY <1>4, Zenon DEF Replace
    <2>2. PICK o, by : o = root /\ by = Argument
      OBVIOUS
    <2>3. PICK w : w = IF greedy THEN AllListed(work, users) ELSE work
      OBVIOUS
    <2>4. o \in Live(ir) /\ by \in Ops \cup {None} /\ Retire(o, by, w)
      BY <1>2, <1>4, <2>1, <2>2, <2>3 DEF RootFreed, Live
    <2>5. users \in Seq(Ops)
      BY <1>1, UsersTyped
    <2>6. w \in Seq(Ops)
      BY <1>1, <2>3, <2>5, WorkTyped
    <2>7. "replace" \in Retires \cup {"eraseDef"}
      BY DEF Retires
    <2> QED
      BY <1>1, <2>1, <2>4, <2>6, <2>7, GreedyRetires
  <1> QED
    BY <1>3, <1>4

LEMMA GreedyEraseOp ==
    ASSUME Going, phase = "call", NEW do \in Retires \cup {"eraseDef"}, Calling(do), NEW o \in Ops, EraseOp(o)
    PROVE  GreedyInv'
  <1>1. greedy /\ Filed(ir) /\ work \in Seq(Ops)
    BY DEF Going, Paced
  <1>2. CASE ir.kind[o] = Freed
    <2>1. Fault("freed")
      BY <1>2 DEF EraseOp
    <2> QED
      BY <2>1, GreedyFaults
  <1>3. CASE ir.kind[o] # Freed /\ Users(ir, o) # {}
    <2>1. Fault("used")
      BY <1>1, <1>3 DEF EraseOp
    <2> QED
      BY <2>1, GreedyFaults
  <1>4. CASE ir.kind[o] # Freed /\ Users(ir, o) = {}
    <2>1. /\ Retire(o, o, work) /\ Called
          /\ pass' = pass /\ frames' = frames /\ point' = point /\ phase' = phase
      BY <1>4 DEF EraseOp
    <2>2. PICK by \in Ops \cup {None}, w \in Seq(Ops) : by = o /\ w = work
      BY <1>1
    <2>3. Retire(o, by, w) /\ o \in Live(ir)
      BY <1>4, <2>1, <2>2 DEF Live
    <2> QED
      BY <2>1, <2>3, GreedyRetires
  <1> QED
    BY <1>2, <1>3, <1>4

LEMMA GreedyErase ==
    ASSUME Going, Erase \/ EraseDef
    PROVE  GreedyInv'
  <1>1. phase = "call" /\ Typed /\ "erase" \in Retires \cup {"eraseDef"} /\ "eraseDef" \in Retires \cup {"eraseDef"}
    BY DEF Erase, EraseDef, Calling, Going, Retires
  <1>2. call.held \in Ops \cup {None} /\ root \in Ops /\ DOMAIN call = {"at", "held", "home", "made", "saved"}
    BY <1>1, GreedyCall
  <1>3. CASE Erase
    <2>1. PICK o \in Ops : o = root
      BY <1>2
    <2>2. EraseOp(o) /\ Calling("erase")
      BY <1>3, <2>1 DEF Erase
    <2> QED
      BY <1>1, <2>2, GreedyEraseOp
  <1>4. CASE EraseDef /\ call.held # None
    <2>1. PICK o \in Ops : o = call.held
      BY <1>2, <1>4
    <2>2. EraseOp(o) /\ Calling("eraseDef")
      BY <1>4, <2>1 DEF EraseDef
    <2> QED
      BY <1>1, <2>2, GreedyEraseOp
  <1>5. CASE EraseDef /\ call.held = None
    <2>1. /\ Called /\ ir' = ir /\ log' = log /\ point' = point /\ phase' = phase /\ pass' = pass
          /\ frames' = frames /\ work' = work /\ changed' = changed
      BY <1>5 DEF EraseDef
    <2>2. call'.saved = call.saved /\ call'.home = call.home
      BY <1>2, <2>1, CallLeaves
    <2>3. Placing(ToSet(ir.region), point', call', phase')
      BY <2>1, <2>2, PlacingLeft DEF Going
    <2> QED
      BY <1>1, <2>1, <2>3, GreedyMoves
  <1> QED
    BY <1>3, <1>4, <1>5

LEMMA GreedyUnlink ==
    ASSUME Going, Unlink \/ SplitBlock
    PROVE  GreedyInv'
  <1>1. /\ phase = "call" /\ Filed(ir) /\ work \in Seq(Ops)
        /\ "unlink" \in Retires \cup Inserts \cup {"eraseDef", "split"}
        /\ "split" \in Retires \cup Inserts \cup {"eraseDef", "split"}
    BY DEF Unlink, SplitBlock, Calling, Going, Paced, Retires
  <1>2. CASE RootFreed \/ (Unlink /\ root \in Replaced)
    <2>1. Fault("freed")
      BY <1>2 DEF Unlink, SplitBlock
    <2> QED
      BY <2>1, GreedyFaults
  <1>3. CASE Unlink /\ ~RootFreed /\ root \notin Replaced /\ Users(ir, root) # {}
    <2>1. Fault("used")
      BY <1>3 DEF Unlink
    <2> QED
      BY <2>1, GreedyFaults
  <1>4. PICK o : o = root
    OBVIOUS
  <1>5. ~RootFreed => o \in Live(ir)
    BY <1>1, <1>4, GreedyCall DEF RootFreed, Live
  <1>6. CASE Unlink /\ ~RootFreed /\ root \notin Replaced /\ Users(ir, root) = {}
    <2>1. /\ ir' = Without(ir, o) /\ Called /\ Calling("unlink") /\ log' = log /\ point' = point
          /\ phase' = phase /\ pass' = pass /\ frames' = frames /\ work' = work
      BY <1>4, <1>6 DEF Unlink
    <2>2. PICK i : i = Without(ir, o) /\ Filed(i) /\ i.region = ir.region
      BY <1>1, <1>5, <1>6, WithoutFiled
    <2>3. ir' = i /\ ToSet(ir.region) \subseteq ToSet(i.region)
      BY <2>1, <2>2
    <2> QED
      BY <1>1, <2>1, <2>2, <2>3, GreedyRewrites
  <1>7. CASE SplitBlock /\ ~RootFreed
    <2>1. PICK new \in Blocks \ ToSet(ir.region) :
             /\ ir' = Split(ir, o, new) /\ Called /\ Calling("split") /\ log' = log /\ point' = point
             /\ phase' = phase /\ pass' = pass /\ frames' = frames /\ work' = work
      BY <1>4, <1>7 DEF SplitBlock
    <2>2. PICK i : i = Split(ir, o, new) /\ Filed(i) /\ ToSet(ir.region) \subseteq ToSet(i.region)
      BY <1>1, <1>5, <1>7, SplitFiled
    <2>3. ir' = i
      BY <2>1, <2>2
    <2> QED
      BY <1>1, <2>1, <2>2, <2>3, GreedyRewrites
  <1> QED
    BY <1>2, <1>3, <1>6, <1>7

LEMMA GreedySetPoint ==
    ASSUME Going, SetPoint
    PROVE  GreedyInv'
  <1>1. phase = "call" /\ Filed(ir) /\ Placing(ToSet(ir.region), point, call, "call")
    BY DEF SetPoint, Calling, Going
  <1>2. PICK do \in Moves : Calling(do) /\ now.do = do
    BY DEF SetPoint, Calling, Moves
  <1>3. CASE RootFreed /\ now.do \in {"before", "after"}
    <2>1. Fault("freed")
      BY <1>3 DEF SetPoint
    <2> QED
      BY <2>1, GreedyFaults
  <1>4. CASE ~(RootFreed /\ now.do \in {"before", "after"})
    <2>1. /\ point' = PointFor(do) /\ Called /\ pass' = pass /\ frames' = frames
          /\ ir' = ir /\ log' = log /\ phase' = phase /\ work' = work /\ changed' = changed
      BY <1>2, <1>4 DEF SetPoint
    <2>2. root \in Ops /\ DOMAIN call = {"at", "held", "home", "made", "saved"}
      BY <1>1, GreedyCall
    <2>3. PICK p \in PointsOf(ToSet(ir.region)) : p = PointFor(do)
      BY <1>1, <1>2, <1>4, <2>2, PointForIn
    <2>4. call'.saved = call.saved /\ call'.home = call.home
      BY <2>1, <2>2, CallLeaves
    <2>5. Placing(ToSet(ir.region), point', call', phase')
      BY <1>1, <2>1, <2>3, <2>4 DEF Placing
    <2> QED
      BY <1>1, <2>1, <2>5, GreedyMoves
  <1> QED
    BY <1>3, <1>4

LEMMA GreedySaves ==
    ASSUME Going, SavePoint \/ RestorePoint
    PROVE  GreedyInv'
  <1>1. phase = "call" /\ DOMAIN call = {"at", "held", "home", "made", "saved"}
    BY DEF SavePoint, RestorePoint, Calling, Going, Typed
  <1>2. PICK r : r = ToSet(ir.region) /\ Placing(r, point, call, phase)
    BY DEF Going
  <1>3. CASE SavePoint
    <2>1. /\ call' = [call EXCEPT !.at = @ + 1, !.saved = <<point>>] /\ point' = point
          /\ pass' = pass /\ frames' = frames /\ ir' = ir /\ log' = log /\ phase' = phase
          /\ work' = work /\ changed' = changed
      BY <1>3 DEF SavePoint
    <2>2. call'.saved = <<point>> /\ call'.home = call.home
      BY <1>1, <2>1
    <2>3. <<point>> \in Seq(PointsOf(r))
      BY <1>2 DEF Placing
    <2>4. Placing(r, point', call', phase')
      BY <1>2, <2>1, <2>2, <2>3 DEF Placing
    <2> QED
      BY <1>1, <1>2, <2>1, <2>4, GreedyMoves
  <1>4. CASE RestorePoint
    <2>1. /\ Called /\ point' = IF call.saved = <<>> THEN point ELSE call.saved[1]
          /\ pass' = pass /\ frames' = frames /\ ir' = ir /\ log' = log /\ phase' = phase
          /\ work' = work /\ changed' = changed
      BY <1>4 DEF RestorePoint
    <2>2. call'.saved = call.saved /\ call'.home = call.home
      BY <1>1, <2>1, CallLeaves
    <2>3. point' \in PointsOf(r)
      <3>1. \A s \in Seq(PointsOf(r)) : s # <<>> => s[1] \in PointsOf(r)
        OBVIOUS
      <3> QED
        BY <1>2, <2>1, <3>1 DEF Placing
    <2>4. Placing(r, point', call', phase')
      BY <1>2, <2>1, <2>2, <2>3 DEF Placing
    <2> QED
      BY <1>1, <1>2, <2>1, <2>4, GreedyMoves
  <1> QED
    BY <1>3, <1>4

(***************************************************************************)
(* The theorem about the greedy driver.                                    *)
(***************************************************************************)
LEMMA GreedyStarts ==
    ASSUME Init
    PROVE  GreedyInv
  <1>1. /\ pass \in Passes /\ ir \in Programs /\ point = [block |-> ir.region[1], before |-> End]
        /\ call = NoCall /\ log = <<>> /\ frames = <<>> /\ work = <<>> /\ phase = "start"
    BY DEF Init
  <1>2. IsProgram(ir) /\ IsPass(pass)
    BY <1>1, RewritingAssumption
  <1>3. Filed(ir) /\ ir.region # <<>> /\ ir.region \in Seq(Blocks)
    BY <1>2, ProgramFiled
  <1>4. /\ DOMAIN ir = {"kind", "arg", "body", "region"}
        /\ ir.kind \in [Ops -> Kinds \cup {Freed}] /\ ir.arg \in [Ops -> Ops \cup {None}]
    BY <1>3, IrFields DEF Filed
  <1>5. /\ DOMAIN call = {"at", "held", "home", "made", "saved"}
        /\ call.at \in Nat /\ call.held \in Ops \cup {None} /\ call.made \in Seq(Ops)
    BY <1>1 DEF NoCall
  <1>6. Typed
    BY <1>1, <1>2, <1>4, <1>5 DEF Typed
  <1>7. Paced /\ Settling
    BY <1>1 DEF Paced, Settling, Matching
  <1>8. PICK r : r = ToSet(ir.region) /\ r \subseteq Blocks /\ ir.region[1] \in r
    <2>1. 1 \in DOMAIN ir.region /\ ToSet(ir.region) \subseteq Blocks
      BY <1>3, RegionBlocks
    <2> QED
      BY <2>1 DEF ToSet
  <1>9. point \in PointsOf(r)
    BY <1>1, <1>8, PointIn
  <1>10. Placing(ToSet(ir.region), point, call, phase)
    BY <1>1, <1>8, <1>9, PlacingIdle
  <1> QED
    BY <1>1, <1>3, <1>6, <1>7, <1>10 DEF GreedyInv, SettledWhenConverged

LEMMA GreedyStutters ==
    ASSUME GreedyInv, UNCHANGED vars
    PROVE  GreedyInv'
  <1>1. /\ pass' = pass /\ ir' = ir /\ point' = point /\ frames' = frames /\ call' = call /\ work' = work
        /\ log' = log /\ changed' = changed /\ phase' = phase /\ result' = result
    BY DEF vars
  <1>2. greedy' = greedy /\ Turning' = Turning /\ Matching' = Matching
    BY <1>1 DEF greedy, Turning, Matching
  <1>3. frame' = frame /\ root' = root /\ patterns' = patterns /\ script' = script
    BY <1>1 DEF frame, root, patterns, script
  <1>4. Typed' = Typed
    BY <1>1 DEF Typed
  <1>5. Paced' = Paced
    BY <1>1, <1>2, <1>3 DEF Paced
  <1>6. Filed(ir)' = Filed(ir)
    <2>1. PICK i : i = ir
      OBVIOUS
    <2>2. ir' = i /\ ir = i
      BY <1>1, <2>1
    <2> QED
      BY <2>2
  <1>7. Settling' = Settling
    <2>1. Rewrites(script)' = Rewrites(script)
      BY <1>3 DEF Rewrites, Does
    <2>2. Untouched' = Untouched
      BY <1>1, <2>1, SameSettled DEF Untouched
    <2> QED
      BY <1>1, <1>2, <1>3, <2>2, SameSettled DEF Settling
  <1>8. SettledWhenConverged => SettledWhenConverged'
    <2>1. SettledWhenConverged =>
            (greedy /\ phase = "done" /\ result = "success" /\ All(Honest) => \A o \in Live(ir) : Settled(o))
      BY DEF SettledWhenConverged, Settled, Declines
    <2>2. (greedy' /\ phase' = "done" /\ result' = "success" /\ All(Honest)' =>
              \A o \in Live(ir)' : Settled(o)') => SettledWhenConverged'
      BY DEF SettledWhenConverged, Settled, Declines
    <2> QED
      BY <1>1, <1>2, <2>1, <2>2, SameSettled
  <1>9. Placing(ToSet(ir.region), point, call, phase)' = Placing(ToSet(ir.region), point, call, phase)
    BY <1>1 DEF Placing
  <1> QED
    BY <1>1, <1>2, <1>4, <1>5, <1>6, <1>7, <1>8, <1>9 DEF GreedyInv

LEMMA GreedyInductive ==
    ASSUME GreedyInv, [Next]_vars
    PROVE  GreedyInv'
  <1>1. CASE ~greedy
    <2>1. pass' = pass
      BY PassStays DEF vars
    <2>2. ~greedy'
      BY <1>1, <2>1 DEF greedy
    <2> QED
      BY <2>2 DEF GreedyInv
  <1>2. CASE greedy /\ Turning /\ Next
    <2>1. Going
      BY <1>2 DEF GreedyInv, Going
    <2>2. CASE Collect \/ Legalize \/ Legalized
      BY <1>2, <2>2 DEF Collect, Legalize, Legalized, Turning
    <2>3. CASE Exhausted
      BY <2>3, GreedyStops DEF Exhausted, Stop
    <2>4. CASE Finished
      BY <1>2, <2>4 DEF Finished, Turning, Ended
    <2> QED
      BY <1>2, <2>1, <2>2, <2>3, <2>4, GreedyWalk, GreedyPop, GreedyIterate, GreedyMatch, GreedyAnswer,
         GreedyCreate, GreedyPush, GreedyReplace, GreedyErase, GreedyUnlink, GreedySetPoint, GreedySaves,
         Zenon DEF Next
  <1>3. CASE greedy /\ ~Turning /\ Next
    <2>1. phase # "legalize"
      BY <1>3 DEF GreedyInv
    <2>2. UNCHANGED vars
      BY <1>3, <2>1 DEF Next, Turning, Walk, Pop, Iterate, Collect, Legalize, Legalized, Match, Answer, Create, Push,
             Replace, Erase, EraseDef, Unlink, SplitBlock, SetPoint, SavePoint, RestorePoint, Exhausted,
             Calling, Finished
    <2> QED
      BY <2>2, GreedyStutters
  <1>4. CASE UNCHANGED vars
    BY <1>4, GreedyStutters
  <1> QED
    BY <1>1, <1>2, <1>3, <1>4

(***************************************************************************)
(* When applyOptPatterns returns true, the operations are at a fixpoint:   *)
(* no pattern that rewrites applies to any of them and none is dead, as    *)
(* long as no function answers None or False over a change, whatever they  *)
(* append, split and unlink behind the driver's back.                      *)
(***************************************************************************)
THEOREM ConvergedIsSettled == Spec => []SettledWhenConverged
  <1>1. GreedyInv => SettledWhenConverged
    BY DEF GreedyInv, SettledWhenConverged
  <1> QED
    BY <1>1, GreedyStarts, GreedyInductive, PTL DEF Spec
=============================================================================
