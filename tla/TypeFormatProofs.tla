-------------------------- MODULE TypeFormatProofs --------------------------
(***************************************************************************)
(* Theorems of TypeFormat, for types and attributes of any parameters and  *)
(* formats of any length.                                                  *)
(***************************************************************************)
EXTENDS TypeFormat, SequenceTheorems, FiniteSetTheorems, TLAPS

(***************************************************************************)
(* The invariant.  The parser of a format looks at what it has bound, not  *)
(* at its elements; what it accepts binds every parameter.                 *)
(***************************************************************************)
AllBound == def.formatted /\ stage \notin {"parsing", "rejected"} => bound = DOMAIN Declared

ElementsAreSeq == elements \in Seq(ToSet(elements))

TypeInv == TypeOK /\ ElementsAreSeq /\ AllBound

(***************************************************************************)
(* The elements of a format.                                               *)
(***************************************************************************)
LEMMA ElementsDiffer ==
    /\ \A i, j : Parameter(i) = Parameter(j) => i = j
    /\ \A i, j : Dims(i) = Dims(j) => i = j
    /\ \A i, j : Parameter(i) # Dims(j)
    /\ \A i, l : Parameter(i) # Literal(l) /\ Dims(i) # Literal(l)
  <1>1. \A i : Parameter(i).kind = "parameter" /\ Parameter(i).var = i
    BY DEF Parameter
  <1>2. \A i : Dims(i).kind = "dims" /\ Dims(i).var = i
    BY DEF Dims
  <1>3. \A l : Literal(l).kind = "literal"
    BY DEF Literal
  <1> QED
    BY <1>1, <1>2, <1>3

LEMMA DropTyped ==
    ASSUME rest \in Seq(Tokens), NEW n \in Nat
    PROVE  Drop(n) \in Seq(Tokens)
  <1>1. Len(rest) \in Nat
    OBVIOUS
  <1>2. \A i \in n + 1 .. Len(rest) : rest[i] \in Tokens
    BY <1>1
  <1> QED
    BY <1>1, <1>2, SubSeqProperties DEF Drop

(***************************************************************************)
(* A step that reads an element.  It binds nothing or one parameter that   *)
(* was not bound.                                                          *)
(***************************************************************************)
Binds(e, vs) ==
    \/ vs = {} /\ \E l \in Literals : e = Literal(l)
    \/ \E i \in DOMAIN Declared \ bound : vs = {i} /\ e \in {Parameter(i), Dims(i)}

LEMMA AddKeeps ==
    ASSUME TypeInv, stage = "parsing", NEW e, NEW vs, NEW n \in Nat, Add(e, vs, n), Binds(e, vs)
    PROVE  TypeInv'
  <1>1. PICK k \in Nat : k = Len(elements)
    BY DEF TypeInv, ElementsAreSeq
  <1>2. /\ DOMAIN elements = 1 .. k
        /\ elements' = Append(elements, e)
        /\ bound' = bound \cup vs /\ rest' = Drop(n)
        /\ def' = def /\ stage' = stage /\ params' = params
    BY <1>1 DEF Add, TypeInv, ElementsAreSeq
  <1>3. elements \in Seq(ToSet(elements) \cup {e})
    BY DEF TypeInv, ElementsAreSeq
  <1>4. /\ DOMAIN elements' = 1 .. k + 1
        /\ \A m \in 1 .. k : elements'[m] = elements[m]
        /\ elements'[k + 1] = e
    BY <1>1, <1>2, <1>3, AppendProperties
  <1>5. ElementsAreSeq'
    <2>1. ToSet(elements') = ToSet(elements) \cup {e}
      BY <1>1, <1>2, <1>4 DEF ToSet
    <2>2. elements' \in Seq(ToSet(elements) \cup {e})
      BY <1>2, <1>3, AppendProperties
    <2> QED
      BY <2>1, <2>2 DEF ElementsAreSeq
  <1>6. ASSUME NEW i
        PROVE  Binders(i)' = IF e \in {Parameter(i), Dims(i)} THEN Binders(i) \cup {k + 1} ELSE Binders(i)
    BY <1>1, <1>2, <1>4 DEF Binders, Parameter, Dims
  <1>7. \A i : IsFiniteSet(Binders(i)) /\ k + 1 \notin Binders(i)
    <2> SUFFICES ASSUME NEW i PROVE IsFiniteSet(Binders(i)) /\ k + 1 \notin Binders(i)
      OBVIOUS
    <2>1. Binders(i) \subseteq 1 .. k
      BY <1>2 DEF Binders
    <2>2. IsFiniteSet(1 .. k)
      BY FS_Interval
    <2> QED
      BY <1>1, <2>1, <2>2, FS_Subset
  <1>8. bound' \subseteq DOMAIN Declared /\ rest' \in Seq(Tokens) /\ def' \in Definitions
    BY <1>2, DropTyped DEF TypeInv, TypeOK, Binds
  <1>9. \A i \in DOMAIN Declared : Cardinality(Binders(i)') = IF i \in bound' THEN 1 ELSE 0
    <2> SUFFICES ASSUME NEW i \in DOMAIN Declared
                 PROVE  Cardinality(Binders(i)') = IF i \in bound' THEN 1 ELSE 0
      OBVIOUS
    <2>1. Cardinality(Binders(i)) = IF i \in bound THEN 1 ELSE 0
      BY DEF TypeInv, TypeOK
    <2>2. CASE e \in {Parameter(i), Dims(i)}
      <3>1. vs = {i} /\ i \notin bound
        BY <2>2, ElementsDiffer DEF Binds
      <3>2. IsFiniteSet(Binders(i)) /\ k + 1 \notin Binders(i)
        BY <1>7
      <3>3. Cardinality(Binders(i) \cup {k + 1}) = Cardinality(Binders(i)) + 1
        BY <3>2, FS_AddElement
      <3>4. Cardinality(Binders(i) \cup {k + 1}) = 1
        BY <2>1, <3>1, <3>3
      <3> QED
        BY <1>2, <1>6, <2>2, <3>1, <3>4
    <2>3. CASE e \notin {Parameter(i), Dims(i)}
      BY <1>2, <1>6, <2>1, <2>3 DEF Binds
    <2> QED
      BY <2>2, <2>3
  <1>10. \A m \in DOMAIN elements' :
            \/ elements'[m] \in {Literal(l) : l \in Literals}
            \/ \E i \in bound' : m \in Binders(i)'
    <2> SUFFICES ASSUME NEW m \in DOMAIN elements',
                        elements'[m] \notin {Literal(l) : l \in Literals}
                 PROVE  \E i \in bound' : m \in Binders(i)'
      OBVIOUS
    <2>1. CASE m \in 1 .. k
      <3>1. PICK i \in bound : m \in Binders(i)
        BY <1>2, <1>4, <2>1 DEF TypeInv, TypeOK
      <3> QED
        BY <1>2, <1>6, <3>1
    <2>2. CASE m = k + 1
      <3>1. PICK i \in DOMAIN Declared \ bound : vs = {i} /\ e \in {Parameter(i), Dims(i)}
        BY <1>4, <2>2 DEF Binds
      <3> QED
        BY <1>2, <1>6, <2>2, <3>1
    <2> QED
      BY <1>1, <1>4, <2>1, <2>2
  <1>11. AllBound' /\ stage' \notin {"built", "printed", "read"}
    BY <1>2 DEF AllBound, TypeInv
  <1>12. Declared' = Declared
    BY <1>2 DEF Declared
  <1>13. TypeOK'
    BY <1>8, <1>9, <1>10, <1>11, <1>12 DEF TypeOK
  <1> QED
    BY <1>5, <1>11, <1>13 DEF TypeInv

(***************************************************************************)
(* Any other step leaves the format as it is.                              *)
(***************************************************************************)
LEMMA FormatKept ==
    ASSUME TypeInv, UNCHANGED <<def, rest, elements, bound>>,
           def.formatted /\ stage' \notin {"parsing", "rejected"} => bound = DOMAIN Declared,
           stage' \in {"built", "printed", "read"} => Valid(params')
    PROVE  TypeInv'
  <1>1. Declared' = Declared /\ \A i : Binders(i)' = Binders(i)
    BY DEF Declared, Binders, Parameter, Dims
  <1>2. stage' \in {"built", "printed", "read"} => Valid(params)'
    BY <1>1 DEF Valid
  <1>3. TypeOK'
    BY <1>1, <1>2 DEF TypeInv, TypeOK
  <1> QED
    BY <1>1, <1>3 DEF TypeInv, ElementsAreSeq, AllBound

LEMMA TypeStarts ==
    ASSUME Init
    PROVE  TypeInv
  <1>1. rest \in Seq(Tokens) /\ def \in Definitions /\ elements = <<>> /\ bound = {}
    BY TypeFormatsAssumption DEF Init
  <1>2. DOMAIN elements = {}
    BY <1>1
  <1>3. \A i : Binders(i) = {}
    BY <1>2 DEF Binders
  <1>4. Cardinality({}) = 0
    BY FS_EmptySet
  <1>5. stage \in {"parsing", "generated"} /\ (def.formatted => stage = "parsing")
    BY DEF Init
  <1>6. ElementsAreSeq
    BY <1>1 DEF ElementsAreSeq
  <1>7. TypeOK
    BY <1>1, <1>2, <1>3, <1>4, <1>5 DEF TypeOK
  <1> QED
    BY <1>5, <1>6, <1>7 DEF TypeInv, AllBound

LEMMA TypeInductive ==
    ASSUME TypeInv, [Next]_vars
    PROVE  TypeInv'
  <1>1. CASE ParseLiteral
    <2>1. CASE rest[1].spelling \in Literals
      BY <1>1, <2>1, AddKeeps DEF ParseLiteral, Binds
    <2>2. CASE rest[1].spelling \notin Literals
      BY <1>1, <2>2, FormatKept DEF ParseLiteral, Reject
    <2> QED
      BY <2>1, <2>2
  <1>2. CASE ParseVariable
    <2>1. ASSUME NEW i \in Bindable(rest[1].spelling), Add(Parameter(i), {i}, 1) PROVE TypeInv'
      <3>1. i \in DOMAIN Declared \ bound
        BY DEF Bindable, Named
      <3> QED
        BY <1>2, <2>1, <3>1, AddKeeps DEF ParseVariable, Binds
    <2>2. CASE Reject
      BY <2>2, FormatKept DEF Reject
    <2> QED
      BY <1>2, <2>1, <2>2 DEF ParseVariable
  <1>3. CASE ParseDims
    <2>1. ASSUME NEW i \in Bindable(rest[3].spelling), Add(Dims(i), {i}, 4) PROVE TypeInv'
      <3>1. i \in DOMAIN Declared \ bound
        BY DEF Bindable, Named
      <3> QED
        BY <1>3, <2>1, <3>1, AddKeeps DEF ParseDims, Binds
    <2>2. CASE Reject
      BY <2>2, FormatKept DEF Reject
    <2> QED
      BY <1>3, <2>1, <2>2 DEF ParseDims
  <1>4. CASE Unexpected
    BY <1>4, FormatKept DEF Unexpected, Reject
  <1>5. CASE EndOfFormat
    BY <1>5, FormatKept DEF EndOfFormat
  <1>6. CASE BuildType \/ BuildAttribute
    <2>1. stage = "generated" /\ \E ps \in Arguments : Built(ps)
      BY <1>6 DEF BuildType, BuildAttribute
    <2>2. PICK ps \in Arguments : Built(ps)
      BY <2>1
    <2>3. stage' = (IF Valid(ps) THEN "built" ELSE "invalid") /\ (Valid(ps) => params' = ps)
      BY <2>2 DEF Built
    <2>4. def.formatted => bound = DOMAIN Declared
      BY <2>1 DEF TypeInv, AllBound
    <2> QED
      BY <2>2, <2>3, <2>4, FormatKept DEF Built
  <1>7. CASE PrintType \/ PrintAttribute
    <2>1. stage = "built" /\ Write
      BY <1>7 DEF PrintType, PrintAttribute
    <2> QED
      BY <2>1, FormatKept DEF Write, TypeInv, AllBound, TypeOK
  <1>8. CASE ParseType \/ ParseAttribute
    <2>1. stage = "printed" /\ Reads
      BY <1>8 DEF ParseType, ParseAttribute
    <2>2. UNCHANGED <<def, rest, elements, bound, params>>
      BY <2>1 DEF Reads
    <2>3. Valid(params) /\ (def.formatted => bound = DOMAIN Declared)
      BY <2>1 DEF TypeInv, AllBound, TypeOK
    <2> QED
      BY <2>2, <2>3, FormatKept
  <1>9. CASE UNCHANGED vars
    <2>1. UNCHANGED <<def, rest, elements, bound, params>> /\ stage' = stage
      BY <1>9 DEF vars
    <2> QED
      BY <2>1, FormatKept DEF TypeInv, AllBound, TypeOK
  <1> QED
    BY <1>1, <1>2, <1>3, <1>4, <1>5, <1>6, <1>7, <1>8, <1>9 DEF Next, Terminated

LEMMA TypeAlways == Spec => []TypeInv
  <1> QED
    BY TypeStarts, TypeInductive, PTL DEF Spec

(* What FormatParser of TypeFormatGen.cpp has bound is what its elements    *)
(* bind, each parameter once, although it never looks at them; and what is  *)
(* built by getChecked, printed and read back has valid parameters.         *)
THEOREM TypeFormatCorrect == Spec => []TypeOK
  <1>1. TypeInv => TypeOK
    BY DEF TypeInv
  <1> QED
    BY <1>1, TypeAlways, PTL

(* Whatever is printed by a format is printed whole: a format that          *)
(* FormatParser accepts has every parameter exactly once.                   *)
PrintedWhole ==
    def.formatted /\ stage \notin {"parsing", "rejected"} =>
        \A i \in DOMAIN Declared : Cardinality(Binders(i)) = 1

THEOREM EveryParameterOnce == Spec => []PrintedWhole
  <1>1. TypeInv => PrintedWhole
    BY DEF TypeInv, TypeOK, AllBound, PrintedWhole
  <1> QED
    BY <1>1, TypeAlways, PTL
=============================================================================
