--------------------------- MODULE OpFormatProofs ---------------------------
(***************************************************************************)
(* Theorems of OpFormat, for any declarations and formats of any length,   *)
(* and the same of OpAssembly, whose other steps leave the format alone.   *)
(*                                                                         *)
(* Every step of ParseFormat reads one element, opens or closes a group,   *)
(* rejects, or ends the format.  The lemmas say what each of these does to *)
(* the positions of the elements; the invariant ties the positions to what *)
(* the parser remembers in `seen'.                                         *)
(***************************************************************************)
EXTENDS OpAssembly, SequenceTheorems, TLAPS

(***************************************************************************)
(* The invariant.  The parser checks `seen', not the format: a variable is *)
(* in the format exactly when `seen' has it, and the lists that can be     *)
(* printed as a whole are when `seen' says so.                             *)
(***************************************************************************)
BoundIsSeen ==
    \A p \in Positions :
        ElementAt(p) \in Variables(Kinds) =>
            ElementAt(p).var \in seen.vars[ElementAt(p).kind]

SeenIsBound == \A k \in Kinds : \A i \in seen.vars[k] : InFormat(Variable(k, i))

WholeListsPrinted ==
    /\ seen.allSuccessors => InFormat(Directive("successors"))
    /\ seen.allOperands => InFormat(Directive("operands")) \/ seen.allTypes["operand"]

AllPrinted ==
    /\ \A v \in Variables({"region"}) : InFormat(v)
    /\ InFormat(Directive("successors")) \/ \A v \in Variables({"successor"}) : InFormat(v)
    /\ \/ seen.allTypes["operand"]
       \/ InFormat(Directive("operands"))
       \/ \A v \in Variables({"operand"}) : InFormat(v)

(* Also while operations are printed and parsed. *)
PrintedOnceAccepted == stage \notin {"parsing", "rejected"} => AllPrinted

FormatInv ==
    /\ FormatOK
    /\ BoundOnce
    /\ BoundIsSeen
    /\ SeenIsBound
    /\ WholeListsPrinted
    /\ PrintedOnceAccepted
-----------------------------------------------------------------------------
(***************************************************************************)
(* Kinds, names and arguments.                                             *)
(***************************************************************************)
LEMMA KindsAre == Kinds = {"attribute", "operand", "result", "successor", "region"}
  BY DEF Kinds, Lookup

LEMMA ListIsSeq ==
    ASSUME FormatOK, NEW k \in Kinds
    PROVE  List(k) \in Seq(Named)
  <1>1. decl \in Declaration
    BY FormatsAssumption DEF FormatOK
  <1> QED
    BY <1>1 DEF Declaration, List

(* Variables(S) holds the variables of the kinds in S.                     *)
LEMMA VariablesAre ==
    ASSUME NEW S, NEW v
    PROVE  v \in Variables(S) <=>
               \E k \in S : \E i \in DOMAIN List(k) : v = Variable(k, i)
  BY DEF Variables

LEMMA VariableParts ==
    ASSUME NEW k, NEW i
    PROVE  Variable(k, i).kind = k /\ Variable(k, i).var = i
  BY DEF Variable

(* parseVariable finds a variable of the declaration, or none.             *)
LEMMA VariableNamedFinds ==
    ASSUME NEW n
    PROVE  VariableNamed(n) = Directive("nothing") \/ VariableNamed(n) \in Variables(Kinds)
  <1> DEFINE found == {j \in DOMAIN Lookup : Places(Lookup[j], n) # {}}
             first == CHOOSE j \in found : \A l \in found : j <= l
             k == Lookup[first]
  <1>1. CASE found = {}
    BY <1>1 DEF VariableNamed
  <1>2. CASE found # {}
    <2>1. found \subseteq {1, 2, 3, 4, 5}
      BY DEF Lookup
    <2>2. \E j \in found : \A l \in found : j <= l
      BY <1>2, <2>1
    <2>3. first \in found
      BY <2>2
    <2>4. k \in Kinds /\ Places(k, n) # {}
      BY <2>3 DEF Kinds
    <2>5. VariableNamed(n) = Variable(k, CHOOSE i \in Places(k, n) : TRUE)
      BY <1>2 DEF VariableNamed
    <2>6. (CHOOSE i \in Places(k, n) : TRUE) \in DOMAIN List(k)
      BY <2>4 DEF Places
    <2> QED
      BY <2>4, <2>5, <2>6, VariablesAre
  <1> QED
    BY <1>1, <1>2

LEMMA ArgumentIs ==
    ASSUME NEW n
    PROVE  \/ Argument(n) \in Variables(Kinds)
           \/ Argument(n) \in {Directive("operands"), Directive("results"), Directive("nothing")}
  BY VariableNamedFinds DEF Argument

LEMMA DropTyped ==
    ASSUME FormatOK, NEW n \in Nat
    PROVE  Drop(n) \in Seq(Tokens)
  <1>1. rest \in Seq(Tokens) /\ Len(rest) \in Nat
    BY DEF FormatOK
  <1>2. \A i \in n + 1 .. Len(rest) : rest[i] \in Tokens
    BY <1>1
  <1> QED
    BY <1>1, <1>2, SubSeqProperties DEF Drop
-----------------------------------------------------------------------------
(***************************************************************************)
(* The steps.  A step that reads an element e leaves s in `seen': e is an  *)
(* element of the declaration, and s has grown by what e prints.           *)
(***************************************************************************)
SeenTyped(s) ==
    /\ s \in Seen
    /\ \A k \in Kinds : s.vars[k] \subseteq DOMAIN List(k)
    /\ \A side \in Sides : s.types[side] \subseteq DOMAIN List(side)

(* e binds a variable that the format did not have. *)
Binds(e, s) ==
    /\ e \in Variables(Kinds)
    /\ e.var \notin seen.vars[e.kind]
    /\ s = [seen EXCEPT !.vars[e.kind] = @ \cup {e.var}]

(* e is not a variable. *)
Passes(e, s) ==
    /\ e.kind \notin Kinds
    /\ s.vars = seen.vars
    /\ s.allSuccessors => seen.allSuccessors \/ e = Directive("successors")
    /\ s.allOperands =>
          seen.allOperands \/ e = Directive("operands") \/ s.allTypes["operand"]
    /\ seen.allTypes["operand"] => s.allTypes["operand"]

Reads(e, s) ==
    /\ e \in PlainElements
    /\ group.open => e \in GroupElements
    /\ SeenTyped(s)
    /\ Binds(e, s) \/ Passes(e, s)

ReadsElement == \E e, s : Reads(e, s) /\ \E n \in Nat : Add(e, s, n)

LEMMA ElementSteps ==
    ASSUME NEW e, NEW valid, NEW s, NEW n, Element(e, valid, s, n)
    PROVE  \/ Reject
           \/ /\ valid
              /\ group.open => ChildAllowed(e, Is(n + 1, "punctuation", "^"))
              /\ Add(e, s, n)
  BY DEF Element

(* The kinds tell the elements apart: what a group may have is of a group. *)
LEMMA ChildIsGroupElement ==
    ASSUME NEW e \in PlainElements, NEW anchor, ChildAllowed(e, anchor)
    PROVE  e \in GroupElements
  <1>1. e.kind \in {"attribute", "operand", "literal", "type", "functional-type"}
    BY DEF ChildAllowed
  <1>2. e \notin Variables({"successor", "region"})
    BY <1>1, VariablesAre, VariableParts
  <1>3. e \notin {AttrDict(b) : b \in BOOLEAN}
    BY <1>1 DEF AttrDict
  <1>4. e \notin {Directive("operands"), Directive("successors")}
    BY <1>1 DEF Directive
  <1>5. e \notin {Symbol(i) : i \in DOMAIN List("attribute")}
    BY <1>1 DEF Symbol
  <1> QED
    BY <1>2, <1>3, <1>4, <1>5 DEF PlainElements

(* Element e is read, or the format rejected, by a step that would read e. *)
LEMMA ElementReads ==
    ASSUME NEW e, NEW valid, NEW s, NEW n \in Nat, Element(e, valid, s, n),
           valid => e \in PlainElements /\ SeenTyped(s) /\ (Binds(e, s) \/ Passes(e, s))
    PROVE  Reject \/ ReadsElement
  <1>1. CASE valid /\ (group.open => ChildAllowed(e, Is(n + 1, "punctuation", "^"))) /\ Add(e, s, n)
    <2>1. group.open => e \in GroupElements
      BY <1>1, ChildIsGroupElement
    <2>2. Reads(e, s)
      BY <1>1, <2>1 DEF Reads
    <2> QED
      BY <1>1, <2>2 DEF ReadsElement
  <1> QED
    BY <1>1, ElementSteps

LEMMA SeenTypedNow == FormatOK => SeenTyped(seen)
  BY DEF FormatOK, SeenTyped

LEMMA VariableReads ==
    ASSUME FormatOK, ParseVariable
    PROVE  Reject \/ ReadsElement
  <1> DEFINE v == VariableNamed(rest[1].spelling)
             s == [seen EXCEPT !.vars[v.kind] = @ \cup {v.var}]
  <1>1. CASE MayBind(v)
    <2>1. Element(v, TRUE, s, 1)
      BY <1>1 DEF ParseVariable
    <2>2. v.kind \notin {"nothing", "result"} /\ v.var \notin seen.vars[v.kind]
      BY <1>1 DEF MayBind
    <2>3. v \in Variables(Kinds)
      BY <2>2, VariableNamedFinds DEF Directive
    <2>4. PICK k \in Kinds : \E i \in DOMAIN List(k) : v = Variable(k, i)
      BY <2>3, VariablesAre
    <2>5. PICK i \in DOMAIN List(k) : v = Variable(k, i)
      BY <2>4
    <2>6. v.kind = k /\ v.var = i
      BY <2>5, VariableParts
    <2>7. k \in {"attribute", "operand", "successor", "region"}
      BY <2>2, <2>6, KindsAre
    <2>8. v \in PlainElements
      <3>1. v \in Variables({"attribute", "operand"}) \/ v \in Variables({"successor", "region"})
        BY <2>5, <2>7, VariablesAre
      <3> QED
        BY <3>1 DEF PlainElements, GroupElements
    <2>9. SeenTyped(s)
      <3>1. List(k) \in Seq(Named)
        BY ListIsSeq
      <3>2. i \in Nat
        BY <3>1
      <3>3. /\ seen \in Seen
            /\ \A j \in Kinds : seen.vars[j] \subseteq DOMAIN List(j)
            /\ \A side \in Sides : seen.types[side] \subseteq DOMAIN List(side)
        BY DEF FormatOK
      <3>4. seen.vars \in [Kinds -> SUBSET Nat]
        BY <3>3 DEF Seen
      <3>5. s = [seen EXCEPT !.vars = [seen.vars EXCEPT ![k] = @ \cup {i}]]
        BY <2>6
      <3>6. [seen.vars EXCEPT ![k] = @ \cup {i}] \in [Kinds -> SUBSET Nat]
        BY <3>2, <3>4
      <3>7. s \in Seen
        BY <3>3, <3>5, <3>6 DEF Seen
      <3>8. s.vars = [seen.vars EXCEPT ![k] = @ \cup {i}] /\ s.types = seen.types
        BY <3>3, <3>5 DEF Seen
      <3>9. \A j \in Kinds : s.vars[j] \subseteq DOMAIN List(j)
        BY <3>3, <3>4, <3>8
      <3> QED
        BY <3>3, <3>7, <3>8, <3>9 DEF SeenTyped
    <2>10. Binds(v, s)
      BY <2>2, <2>3 DEF Binds
    <2> HIDE DEF v, s
    <2> QED
      BY <2>1, <2>8, <2>9, <2>10, ElementReads
  <1>2. CASE ~MayBind(v)
    BY <1>2 DEF ParseVariable
  <1> QED
    BY <1>1, <1>2

LEMMA LiteralReads ==
    ASSUME FormatOK, ParseLiteral
    PROVE  Reject \/ ReadsElement
  <1> DEFINE e == Literal(rest[1].spelling)
             valid == rest[1].spelling \in Literals
  <1>1. Element(e, valid, seen, 1)
    BY DEF ParseLiteral
  <1>2. valid => e \in PlainElements
    BY DEF PlainElements, GroupElements
  <1>3. Passes(e, seen)
    BY KindsAre DEF Passes, Literal
  <1> HIDE DEF e, valid
  <1> QED
    BY <1>1, <1>2, <1>3, SeenTypedNow, ElementReads

LEMMA AttrDictReads ==
    ASSUME FormatOK, ParseAttrDict
    PROVE  Reject \/ ReadsElement
  <1> DEFINE s == [seen EXCEPT !.attrDict = TRUE]
  <1>1. PICK keyword \in BOOLEAN : Element(AttrDict(keyword), ~seen.attrDict, s, 1)
    BY DEF ParseAttrDict
  <1>2. AttrDict(keyword) \in PlainElements
    BY DEF PlainElements
  <1>3. SeenTyped(s) /\ Passes(AttrDict(keyword), s)
    BY KindsAre DEF FormatOK, SeenTyped, Seen, Passes, AttrDict
  <1> HIDE DEF s
  <1> QED
    BY <1>1, <1>2, <1>3, ElementReads

LEMMA OperandsReads ==
    ASSUME FormatOK, ParseOperands
    PROVE  Reject \/ ReadsElement
  <1> DEFINE s == [seen EXCEPT !.allOperands = TRUE]
             e == Directive("operands")
             valid == ~seen.allOperands /\ seen.vars["operand"] = {}
  <1>1. Element(e, valid, s, 1)
    BY DEF ParseOperands
  <1>2. e \in PlainElements
    BY DEF PlainElements
  <1>3. SeenTyped(s) /\ Passes(e, s)
    BY KindsAre DEF FormatOK, SeenTyped, Seen, Passes, Directive
  <1> HIDE DEF s, e, valid
  <1> QED
    BY <1>1, <1>2, <1>3, ElementReads

LEMMA SuccessorsReads ==
    ASSUME FormatOK, ParseSuccessors
    PROVE  Reject \/ ReadsElement
  <1> DEFINE s == [seen EXCEPT !.allSuccessors = TRUE]
             e == Directive("successors")
             valid == ~seen.allSuccessors /\ seen.vars["successor"] = {}
  <1>1. Element(e, valid, s, 1)
    BY DEF ParseSuccessors
  <1>2. e \in PlainElements
    BY DEF PlainElements
  <1>3. SeenTyped(s) /\ Passes(e, s)
    BY KindsAre DEF FormatOK, SeenTyped, Seen, Passes, Directive
  <1> HIDE DEF s, e, valid
  <1> QED
    BY <1>1, <1>2, <1>3, ElementReads

(***************************************************************************)
(* A type directive leaves the variables alone; type(operands) makes       *)
(* `seen' say that all operands and all their types are there.             *)
(***************************************************************************)
Retyped(s, t) ==
    /\ t.vars = s.vars
    /\ t.allSuccessors = s.allSuccessors
    /\ t.allOperands => s.allOperands \/ t.allTypes["operand"]
    /\ s.allTypes["operand"] => t.allTypes["operand"]

LEMMA MayTypeTyped ==
    ASSUME FormatOK, NEW n, NEW s, SeenTyped(s), MayType(Argument(n), s)
    PROVE  /\ Argument(n) \in TypeArguments
           /\ SeenTyped(Typed(Argument(n), s))
           /\ Retyped(s, Typed(Argument(n), s))
  <1> DEFINE arg == Argument(n)
  <1>1. s \in Seen
    BY DEF SeenTyped
  <1>2. Sides = {"operand", "result"} /\ Sides \subseteq Kinds
    BY KindsAre DEF Sides
  <1>3. CASE arg.kind \in Sides
    <2>1. arg \in Variables(Kinds)
      BY <1>2, <1>3, ArgumentIs DEF Directive
    <2>2. PICK k \in Kinds : \E i \in DOMAIN List(k) : arg = Variable(k, i)
      BY <2>1, VariablesAre
    <2>3. PICK i \in DOMAIN List(k) : arg = Variable(k, i)
      BY <2>2
    <2>4. arg.kind = k /\ arg.var = i /\ k \in Sides
      BY <1>3, <2>3, VariableParts
    <2>5. arg \in TypeArguments
      BY <2>3, <2>4, VariablesAre DEF TypeArguments
    <2>6. List(k) \in Seq(Named)
      BY ListIsSeq
    <2>7. i \in Nat
      BY <2>6
    <2>8. Typed(arg, s) = [s EXCEPT !.types[arg.kind] = @ \cup {arg.var}]
      BY <1>2, <1>3 DEF Typed
    <2>9. Typed(arg, s) = [s EXCEPT !.types = [s.types EXCEPT ![k] = @ \cup {i}]]
      BY <2>4, <2>8
    <2>10. [s.types EXCEPT ![k] = @ \cup {i}] \in [Sides -> SUBSET Nat]
      BY <1>1, <2>4, <2>7 DEF Seen
    <2>11. /\ Typed(arg, s) \in Seen
           /\ Typed(arg, s).vars = s.vars
           /\ Typed(arg, s).types = [s.types EXCEPT ![k] = @ \cup {i}]
           /\ Typed(arg, s).allTypes = s.allTypes
           /\ Typed(arg, s).allOperands = s.allOperands
           /\ Typed(arg, s).allSuccessors = s.allSuccessors
      BY <1>1, <2>9, <2>10 DEF Seen
    <2>12. \A side \in Sides : Typed(arg, s).types[side] \subseteq DOMAIN List(side)
      BY <1>1, <2>11 DEF SeenTyped, Seen
    <2>13. SeenTyped(Typed(arg, s))
      BY <2>11, <2>12 DEF SeenTyped
    <2>14. Retyped(s, Typed(arg, s))
      BY <2>11 DEF Retyped
    <2> QED
      BY <2>5, <2>13, <2>14
  <1>4. CASE arg.kind = "operands"
    <2>1. arg = Directive("operands")
      <3>1. arg \notin Variables(Kinds)
        BY <1>4, VariablesAre, VariableParts, KindsAre
      <3> QED
        BY <1>4, <3>1, ArgumentIs DEF Directive
    <2>2. arg \in TypeArguments
      BY <2>1 DEF TypeArguments
    <2>3. Typed(arg, s) = [s EXCEPT !.allTypes["operand"] = TRUE, !.allOperands = TRUE]
      BY <1>4, <1>2 DEF Typed
    <2>3a. Typed(arg, s) = [s EXCEPT !.allTypes = [s.allTypes EXCEPT !["operand"] = TRUE],
                                     !.allOperands = TRUE]
      BY <2>3
    <2>3b. /\ [s.allTypes EXCEPT !["operand"] = TRUE] \in [Sides -> BOOLEAN]
           /\ [s.allTypes EXCEPT !["operand"] = TRUE]["operand"]
      BY <1>1 DEF Seen, Sides
    <2>4. /\ Typed(arg, s) \in Seen
          /\ Typed(arg, s).vars = s.vars
          /\ Typed(arg, s).types = s.types
          /\ Typed(arg, s).allTypes["operand"]
          /\ Typed(arg, s).allSuccessors = s.allSuccessors
      BY <1>1, <2>3a, <2>3b DEF Seen
    <2> QED
      BY <2>2, <2>4 DEF SeenTyped, Retyped
  <1>5. CASE arg.kind = "results"
    <2>1. arg = Directive("results")
      <3>1. arg \notin Variables(Kinds)
        BY <1>5, VariablesAre, VariableParts, KindsAre
      <3> QED
        BY <1>5, <3>1, ArgumentIs DEF Directive
    <2>2. arg \in TypeArguments
      BY <2>1 DEF TypeArguments
    <2>3. Typed(arg, s) = [s EXCEPT !.allTypes["result"] = TRUE]
      BY <1>5, <1>2 DEF Typed
    <2>3a. Typed(arg, s) = [s EXCEPT !.allTypes = [s.allTypes EXCEPT !["result"] = TRUE]]
      BY <2>3
    <2>3b. /\ [s.allTypes EXCEPT !["result"] = TRUE] \in [Sides -> BOOLEAN]
           /\ [s.allTypes EXCEPT !["result"] = TRUE]["operand"] = s.allTypes["operand"]
      BY <1>1 DEF Seen, Sides
    <2>4. /\ Typed(arg, s) \in Seen
          /\ Typed(arg, s).vars = s.vars
          /\ Typed(arg, s).types = s.types
          /\ Typed(arg, s).allTypes["operand"] = s.allTypes["operand"]
          /\ Typed(arg, s).allOperands = s.allOperands
          /\ Typed(arg, s).allSuccessors = s.allSuccessors
      BY <1>1, <2>3a, <2>3b DEF Seen
    <2> QED
      BY <2>2, <2>4 DEF SeenTyped, Retyped
  <1> QED
    BY <1>3, <1>4, <1>5 DEF MayType

LEMMA TypeReads ==
    ASSUME FormatOK, ParseType
    PROVE  Reject \/ ReadsElement
  <1> DEFINE arg == Argument(3)
             e == TypeOf(arg)
             s == Typed(arg, seen)
             valid == /\ Is(2, "punctuation", "(") /\ Is(4, "punctuation", ")")
                      /\ MayType(arg, seen)
  <1>1. Element(e, valid, s, 4)
    BY DEF ParseType
  <1>2. ASSUME valid
        PROVE  e \in PlainElements /\ SeenTyped(s) /\ Passes(e, s)
    <2>1. arg \in TypeArguments /\ SeenTyped(s) /\ Retyped(seen, s)
      BY <1>2, SeenTypedNow, MayTypeTyped
    <2>2. e \in PlainElements
      BY <2>1 DEF PlainElements, GroupElements
    <2>3. e.kind \notin Kinds
      BY KindsAre DEF TypeOf
    <2>4. Passes(e, s)
      BY <2>1, <2>3 DEF Passes, Retyped
    <2> QED
      BY <2>1, <2>2, <2>4
  <1> HIDE DEF arg, e, s, valid
  <1> QED
    BY <1>1, <1>2, ElementReads

LEMMA FunctionalTypeReads ==
    ASSUME FormatOK, ParseFunctionalType
    PROVE  Reject \/ ReadsElement
  <1> DEFINE ins == Argument(3)
             outs == Argument(5)
             e == FunctionalType(ins, outs)
             t == Typed(ins, seen)
             s == Typed(outs, t)
             valid == /\ Is(2, "punctuation", "(") /\ Is(4, "punctuation", ",")
                      /\ Is(6, "punctuation", ")")
                      /\ MayType(ins, seen) /\ MayType(outs, t)
  <1>1. Element(e, valid, s, 6)
    BY DEF ParseFunctionalType
  <1>2. ASSUME valid
        PROVE  e \in PlainElements /\ SeenTyped(s) /\ Passes(e, s)
    <2>1. ins \in TypeArguments /\ SeenTyped(t) /\ Retyped(seen, t)
      BY <1>2, SeenTypedNow, MayTypeTyped
    <2>2. outs \in TypeArguments /\ SeenTyped(s) /\ Retyped(t, s)
      BY <1>2, <2>1, MayTypeTyped
    <2>3. e \in PlainElements
      BY <2>1, <2>2 DEF PlainElements, GroupElements
    <2>4. e.kind \notin Kinds
      BY KindsAre DEF FunctionalType
    <2>5. Passes(e, s)
      BY <2>1, <2>2, <2>4 DEF Passes, Retyped
    <2> QED
      BY <2>2, <2>3, <2>5
  <1> HIDE DEF ins, outs, e, t, s, valid
  <1> QED
    BY <1>1, <1>2, ElementReads

LEMMA SymbolReads ==
    ASSUME FormatOK, ParseSymbol
    PROVE  Reject \/ ReadsElement
  <1> DEFINE attr == Argument(3)
             e == Symbol(attr.var)
             valid == Is(2, "punctuation", "(") /\ Is(4, "punctuation", ")")
  <1>1. CASE attr.kind = "attribute"
    <2>1. Element(e, valid, seen, 4)
      BY <1>1 DEF ParseSymbol
    <2>2. attr \in Variables(Kinds)
      BY <1>1, ArgumentIs DEF Directive
    <2>3. PICK k \in Kinds : \E i \in DOMAIN List(k) : attr = Variable(k, i)
      BY <2>2, VariablesAre
    <2>4. PICK i \in DOMAIN List(k) : attr = Variable(k, i)
      BY <2>3
    <2>5. k = "attribute" /\ attr.var = i
      BY <1>1, <2>4, VariableParts
    <2>6. e \in PlainElements
      BY <2>5 DEF PlainElements
    <2>7. Passes(e, seen)
      BY KindsAre DEF Passes, Symbol
    <2> HIDE DEF attr, e, valid
    <2> QED
      BY <2>1, <2>6, <2>7, SeenTypedNow, ElementReads
  <1>2. CASE attr.kind # "attribute"
    BY <1>2 DEF ParseSymbol
  <1> QED
    BY <1>1, <1>2

(***************************************************************************)
(* Steps that read nothing into `seen'.                                    *)
(***************************************************************************)
OpensGroup ==
    /\ ~group.open
    /\ group' = [ClosedGroup EXCEPT !.open = TRUE]
    /\ rest' = Drop(1)
    /\ UNCHANGED <<decl, elements, seen, stage>>

ClosesGroup ==
    /\ group.open /\ GroupAllowed(group.elements, group.anchor)
    /\ elements' = Append(elements, Optional(group.elements, group.anchor))
    /\ group' = ClosedGroup
    /\ rest' = Drop(2)
    /\ UNCHANGED <<decl, seen, stage>>

LEMMA FormatSteps ==
    ASSUME FormatOK, ParseFormat
    PROVE  Reject \/ ReadsElement \/ OpensGroup \/ ClosesGroup \/ EndOfFormat
  <1>1. CASE OpenOptional
    BY <1>1 DEF OpenOptional, OpensGroup
  <1>2. CASE CloseOptional
    BY <1>2 DEF CloseOptional, ClosesGroup
  <1>3. CASE Unexpected
    BY <1>3 DEF Unexpected
  <1> QED
    BY <1>1, <1>2, <1>3, VariableReads, LiteralReads, AttrDictReads, OperandsReads,
       SuccessorsReads, TypeReads, FunctionalTypeReads, SymbolReads DEF ParseFormat
-----------------------------------------------------------------------------
(***************************************************************************)
(* Type correctness.                                                       *)
(***************************************************************************)
LEMMA PlainKind ==
    ASSUME NEW e \in PlainElements
    PROVE  e.kind # "optional" /\ Children(e) = <<>>
  <1>1. \A v : v \in Variables({"attribute", "operand"}) \/ v \in Variables({"successor", "region"})
               => v.kind # "optional"
    BY VariablesAre, VariableParts
  <1>2. e.kind # "optional"
    BY <1>1 DEF PlainElements, GroupElements, Literal, TypeOf, FunctionalType, AttrDict,
       Directive, Symbol
  <1> QED
    BY <1>2 DEF Children

LEMMA SameDeclaration ==
    ASSUME decl' = decl
    PROVE  /\ PlainElements' = PlainElements
           /\ GroupElements' = GroupElements
           /\ Groups' = Groups
           /\ \A k : List(k)' = List(k)
           /\ \A S : Variables(S)' = Variables(S)
  <1>1. \A k : List(k)' = List(k)
    BY DEF List
  <1>2. \A S : Variables(S)' = Variables(S)
    BY <1>1 DEF Variables
  <1>3. GroupElements' = GroupElements
    BY <1>2 DEF GroupElements, TypeArguments
  <1>4. PlainElements' = PlainElements
    BY <1>1, <1>2, <1>3 DEF PlainElements
  <1> QED
    BY <1>1, <1>2, <1>3, <1>4 DEF Groups

LEMMA ReadsTyped ==
    ASSUME FormatOK, NEW e, NEW s, Reads(e, s), NEW n \in Nat, Add(e, s, n)
    PROVE  FormatOK'
  <1> DEFINE All == PlainElements \cup Groups
  <1>1. decl' = decl /\ seen' = s
    BY DEF Add
  <1>2. rest' \in Seq(Tokens)
    BY DropTyped DEF Add
  <1>3. elements \in Seq(All) /\ group.elements \in Seq(GroupElements)
    BY DEF FormatOK
  <1>4. /\ elements' \in Seq(All)
        /\ \A i \in DOMAIN elements' : elements'[i].kind = "optional" =>
              elements'[i].anchor \in DOMAIN elements'[i].elements
    <2>1. CASE group.open
      BY <1>3, <2>1 DEF Add, FormatOK
    <2>2. CASE ~group.open
      <3>1. elements' = Append(elements, e) /\ e \in All /\ e.kind # "optional"
        BY <2>2, PlainKind DEF Add, Reads
      <3>2. /\ elements' \in Seq(All) /\ Len(elements') = Len(elements) + 1
            /\ elements'[Len(elements) + 1] = e
            /\ \A i \in DOMAIN elements : elements'[i] = elements[i]
        BY <1>3, <3>1
      <3>3. DOMAIN elements' = DOMAIN elements \cup {Len(elements) + 1}
        BY <1>3, <3>2
      <3> QED
        BY <3>1, <3>2, <3>3 DEF FormatOK
    <2> QED
      BY <2>1, <2>2
  <1>5. /\ group' \in [open : BOOLEAN, elements : Seq(GroupElements), anchor : Nat]
        /\ group'.anchor \in 0 .. Len(group'.elements)
        /\ ~group'.open => group' = ClosedGroup
    <2>1. CASE group.open
      <3>1. e \in GroupElements
        BY <2>1 DEF Reads
      <3>2. PICK isAnchor \in BOOLEAN :
                group' = [group EXCEPT !.elements = Append(@, e),
                            !.anchor = IF isAnchor THEN Len(group.elements) + 1 ELSE @]
        BY <2>1 DEF Add, Is
      <3>3. /\ Append(group.elements, e) \in Seq(GroupElements)
            /\ Len(Append(group.elements, e)) = Len(group.elements) + 1
        BY <1>3, <3>1
      <3>4. /\ group'.elements = Append(group.elements, e)
            /\ group'.anchor = IF isAnchor THEN Len(group.elements) + 1 ELSE group.anchor
            /\ group'.open = group.open
            /\ group \in [open : BOOLEAN, elements : Seq(GroupElements), anchor : Nat]
            /\ group.anchor \in 0 .. Len(group.elements)
        BY <3>2 DEF FormatOK
      <3>5. group' \in [open : BOOLEAN, elements : Seq(GroupElements), anchor : Nat]
        <4>1. group' = [open |-> group.open, elements |-> Append(group.elements, e),
                        anchor |-> IF isAnchor THEN Len(group.elements) + 1 ELSE group.anchor]
          BY <3>2, <3>4
        <4>2. (IF isAnchor THEN Len(group.elements) + 1 ELSE group.anchor) \in Nat
          BY <1>3, <3>4
        <4> QED
          BY <3>3, <3>4, <4>1, <4>2
      <3> QED
        BY <1>3, <2>1, <3>3, <3>4, <3>5
    <2>2. CASE ~group.open
      BY <2>2 DEF Add, FormatOK
    <2> QED
      BY <2>1, <2>2
  <1>6. SeenTyped(seen')
    BY <1>1 DEF Reads
  <1>7. decl \in Declarations
    BY DEF FormatOK
  <1> QED
    BY <1>1, <1>2, <1>4, <1>5, <1>6, <1>7, SameDeclaration DEF FormatOK, SeenTyped

LEMMA ClosesTyped ==
    ASSUME FormatOK, ClosesGroup
    PROVE  FormatOK'
  <1> DEFINE All == PlainElements \cup Groups
             o == Optional(group.elements, group.anchor)
  <1>1. group.elements \in Seq(GroupElements) /\ group.anchor \in DOMAIN group.elements
    BY DEF FormatOK, ClosesGroup, GroupAllowed
  <1>2. /\ o \in Groups
        /\ o.anchor \in DOMAIN o.elements
    BY <1>1 DEF Optional, Groups
  <1>3. elements \in Seq(All) /\ elements' = Append(elements, o)
    BY DEF FormatOK, ClosesGroup
  <1> HIDE DEF o
  <1>4. /\ elements' \in Seq(All) /\ Len(elements') = Len(elements) + 1
        /\ elements'[Len(elements) + 1] = o
        /\ \A i \in DOMAIN elements : elements'[i] = elements[i]
    BY <1>2, <1>3
  <1>5. DOMAIN elements' = DOMAIN elements \cup {Len(elements) + 1}
    BY <1>3, <1>4
  <1>6. \A i \in DOMAIN elements' : elements'[i].kind = "optional" =>
              elements'[i].anchor \in DOMAIN elements'[i].elements
    BY <1>2, <1>4, <1>5 DEF FormatOK
  <1>7. /\ group' = ClosedGroup
        /\ group' \in [open : BOOLEAN, elements : Seq(GroupElements), anchor : Nat]
        /\ group'.anchor \in 0 .. Len(group'.elements)
    BY DEF ClosesGroup, ClosedGroup
  <1>8. rest' \in Seq(Tokens)
    BY DropTyped DEF ClosesGroup
  <1>9. decl' = decl /\ seen' = seen /\ decl \in Declarations
    BY DEF ClosesGroup, FormatOK
  <1>10. SeenTyped(seen)
    BY SeenTypedNow
  <1> QED
    BY <1>4, <1>6, <1>7, <1>8, <1>9, <1>10, SameDeclaration DEF FormatOK, SeenTyped

LEMMA OpensTyped ==
    ASSUME FormatOK, OpensGroup
    PROVE  FormatOK'
  <1>0. group' = [open |-> TRUE, elements |-> <<>>, anchor |-> 0]
    BY DEF OpensGroup, ClosedGroup
  <1>1. /\ group' \in [open : BOOLEAN, elements : Seq(GroupElements), anchor : Nat]
        /\ group'.anchor \in 0 .. Len(group'.elements)
        /\ group'.open
    BY <1>0
  <1>2. rest' \in Seq(Tokens)
    BY DropTyped DEF OpensGroup
  <1>3. decl' = decl /\ seen' = seen /\ elements' = elements
    BY DEF OpensGroup
  <1> QED
    BY <1>1, <1>2, <1>3, SameDeclaration DEF FormatOK

LEMMA FrameTyped ==
    ASSUME FormatOK, UNCHANGED <<decl, rest, elements, group, seen>>
    PROVE  FormatOK'
  BY SameDeclaration DEF FormatOK

LEMMA InitTyped == Init => FormatOK
  <1> SUFFICES ASSUME Init PROVE FormatOK
    OBVIOUS
  <1>1. rest \in Seq(Tokens) /\ decl \in Declarations
    BY FormatsAssumption DEF Init
  <1>2. elements \in Seq(PlainElements \cup Groups) /\ DOMAIN elements = {}
    BY DEF Init
  <1>3. /\ group = ClosedGroup
        /\ group \in [open : BOOLEAN, elements : Seq(GroupElements), anchor : Nat]
        /\ group.anchor \in 0 .. Len(group.elements)
    BY DEF Init, ClosedGroup
  <1>4. /\ seen \in Seen
        /\ \A k \in Kinds : seen.vars[k] = {}
        /\ \A side \in Sides : seen.types[side] = {}
    BY DEF Init, NothingSeen, Seen
  <1> QED
    BY <1>1, <1>2, <1>3, <1>4 DEF FormatOK
-----------------------------------------------------------------------------
(***************************************************************************)
(* Positions, of any elements es and any open group gs.                    *)
(***************************************************************************)
PositionsOf(es, gs) ==
    {<<i, 0>> : i \in DOMAIN es}
    \cup (UNION {{<<i, j>> : j \in DOMAIN Children(es[i])} : i \in DOMAIN es})
    \cup {<<0, j>> : j \in DOMAIN gs}

ElementIn(es, gs, p) ==
    IF p[2] = 0 THEN es[p[1]]
    ELSE IF p[1] = 0 THEN gs[p[2]]
    ELSE es[p[1]].elements[p[2]]

LEMMA PositionsNow ==
    /\ Positions = PositionsOf(elements, group.elements)
    /\ \A p : ElementAt(p) = ElementIn(elements, group.elements, p)
  BY DEF Positions, PositionsOf, ElementAt, ElementIn

LEMMA PositionsNext ==
    /\ Positions' = PositionsOf(elements', group'.elements)
    /\ \A p : ElementAt(p)' = ElementIn(elements', group'.elements, p)
  BY DEF Positions, PositionsOf, ElementAt, ElementIn

LEMMA PositionCases ==
    ASSUME NEW es, NEW gs, NEW p
    PROVE  p \in PositionsOf(es, gs) <=>
               \/ \E i \in DOMAIN es : p = <<i, 0>>
               \/ \E i \in DOMAIN es : \E j \in DOMAIN Children(es[i]) : p = <<i, j>>
               \/ \E j \in DOMAIN gs : p = <<0, j>>
  <1> DEFINE inside(i) == {<<i, j>> : j \in DOMAIN Children(es[i])}
             all == {inside(i) : i \in DOMAIN es}
             top == {<<i, 0>> : i \in DOMAIN es}
             open == {<<0, j>> : j \in DOMAIN gs}
             deep == UNION all
  <1>1. p \in deep <=> \E i \in DOMAIN es : p \in inside(i)
    OBVIOUS
  <1>2. \A i : p \in inside(i) <=> \E j \in DOMAIN Children(es[i]) : p = <<i, j>>
    OBVIOUS
  <1>3. p \in top <=> \E i \in DOMAIN es : p = <<i, 0>>
    OBVIOUS
  <1>4. p \in open <=> \E j \in DOMAIN gs : p = <<0, j>>
    OBVIOUS
  <1>5. PositionsOf(es, gs) = top \cup deep \cup open
    BY Zenon DEF PositionsOf
  <1>6. p \in PositionsOf(es, gs) <=> p \in top \/ p \in deep \/ p \in open
    <2> HIDE DEF top, deep, open
    <2> QED
      BY <1>5
  <1> HIDE DEF top, deep, open, inside
  <1> QED
    BY <1>1, <1>2, <1>3, <1>4, <1>6

(* The places in a list or in a group are numbered from one. *)
Numbered(es, gs) ==
    /\ Len(es) \in Nat /\ DOMAIN es = 1 .. Len(es)
    /\ Len(gs) \in Nat /\ DOMAIN gs = 1 .. Len(gs)
    /\ \A i \in DOMAIN es : DOMAIN Children(es[i]) \subseteq Nat \ {0}

LEMMA FormatNumbered ==
    ASSUME FormatOK
    PROVE  Numbered(elements, group.elements)
  <1>1. elements \in Seq(PlainElements \cup Groups) /\ group.elements \in Seq(GroupElements)
    BY DEF FormatOK
  <1>2. ASSUME NEW i \in DOMAIN elements
        PROVE  DOMAIN Children(elements[i]) \subseteq Nat \ {0}
    <2>1. elements[i] \in PlainElements \/ elements[i] \in Groups
      BY <1>1
    <2>2. CASE elements[i] \in PlainElements
      BY <2>2, PlainKind
    <2>3. CASE elements[i] \in Groups
      BY <2>3 DEF Groups, Children
    <2> QED
      BY <2>1, <2>2, <2>3
  <1> QED
    BY <1>1, <1>2 DEF Numbered

(* s2 is s with e after it. *)
Extends(s2, s, e) ==
    /\ DOMAIN s2 = DOMAIN s \cup {Len(s) + 1}
    /\ s2[Len(s) + 1] = e
    /\ \A i \in DOMAIN s : s2[i] = s[i]

(* A list grows by an element that is not a group. *)
LEMMA ListGrows ==
    ASSUME NEW es, NEW gs, Numbered(es, gs), NEW e, Children(e) = <<>>,
           NEW es2, Extends(es2, es, e)
    PROVE  \E new :
              /\ new \notin PositionsOf(es, gs)
              /\ PositionsOf(es2, gs) = PositionsOf(es, gs) \cup {new}
              /\ ElementIn(es2, gs, new) = e
              /\ \A p \in PositionsOf(es, gs) : ElementIn(es2, gs, p) = ElementIn(es, gs, p)
  <1> USE DEF Extends
  <1> DEFINE new == <<Len(es) + 1, 0>>
  <1>1. new \notin PositionsOf(es, gs)
    BY PositionCases DEF Numbered
  <1>2. ASSUME NEW p PROVE p \in PositionsOf(es2, gs) <=> p \in PositionsOf(es, gs) \/ p = new
    <2>1. (\E i \in DOMAIN es2 : p = <<i, 0>>) <=> (\E i \in DOMAIN es : p = <<i, 0>>) \/ p = new
      OBVIOUS
    <2>2. (\E i \in DOMAIN es2 : \E j \in DOMAIN Children(es2[i]) : p = <<i, j>>)
            <=> (\E i \in DOMAIN es : \E j \in DOMAIN Children(es[i]) : p = <<i, j>>)
      <3>1. DOMAIN Children(e) = {}
        OBVIOUS
      <3>2. \A i \in DOMAIN es : Children(es2[i]) = Children(es[i])
        OBVIOUS
      <3> QED
        BY <3>1, <3>2
    <2> QED
      BY <2>1, <2>2, PositionCases
  <1>3. PositionsOf(es2, gs) = PositionsOf(es, gs) \cup {new}
    BY <1>2
  <1>4. ElementIn(es2, gs, new) = e
    BY DEF ElementIn
  <1>5. ASSUME NEW p \in PositionsOf(es, gs)
        PROVE  ElementIn(es2, gs, p) = ElementIn(es, gs, p)
    <2>1. CASE \E i \in DOMAIN es : p = <<i, 0>>
      BY <2>1 DEF ElementIn
    <2>2. CASE \E i \in DOMAIN es : \E j \in DOMAIN Children(es[i]) : p = <<i, j>>
      BY <2>2 DEF ElementIn, Numbered
    <2>3. CASE \E j \in DOMAIN gs : p = <<0, j>>
      BY <2>3 DEF ElementIn, Numbered
    <2> QED
      BY <2>1, <2>2, <2>3, PositionCases
  <1> QED
    BY <1>1, <1>3, <1>4, <1>5

(* The open group grows. *)
LEMMA GroupGrows ==
    ASSUME NEW es, NEW gs, Numbered(es, gs), NEW e,
           NEW gs2, Extends(gs2, gs, e)
    PROVE  \E new :
              /\ new \notin PositionsOf(es, gs)
              /\ PositionsOf(es, gs2) = PositionsOf(es, gs) \cup {new}
              /\ ElementIn(es, gs2, new) = e
              /\ \A p \in PositionsOf(es, gs) : ElementIn(es, gs2, p) = ElementIn(es, gs, p)
  <1> USE DEF Extends
  <1> DEFINE new == <<0, Len(gs) + 1>>
  <1>1. new \notin PositionsOf(es, gs)
    BY PositionCases DEF Numbered
  <1>2. ASSUME NEW p PROVE p \in PositionsOf(es, gs2) <=> p \in PositionsOf(es, gs) \/ p = new
    <2>1. (\E j \in DOMAIN gs2 : p = <<0, j>>) <=> (\E j \in DOMAIN gs : p = <<0, j>>) \/ p = new
      OBVIOUS
    <2> QED
      BY <2>1, PositionCases
  <1>3. PositionsOf(es, gs2) = PositionsOf(es, gs) \cup {new}
    BY <1>2
  <1>4. ElementIn(es, gs2, new) = e
    BY DEF ElementIn, Numbered
  <1>5. ASSUME NEW p \in PositionsOf(es, gs)
        PROVE  ElementIn(es, gs2, p) = ElementIn(es, gs, p)
    <2>1. CASE \E i \in DOMAIN es : p = <<i, 0>>
      BY <2>1 DEF ElementIn
    <2>2. CASE \E i \in DOMAIN es : \E j \in DOMAIN Children(es[i]) : p = <<i, j>>
      BY <2>2 DEF ElementIn, Numbered
    <2>3. CASE \E j \in DOMAIN gs : p = <<0, j>>
      BY <2>3 DEF ElementIn, Numbered
    <2> QED
      BY <2>1, <2>2, <2>3, PositionCases
  <1> QED
    BY <1>1, <1>3, <1>4, <1>5

(***************************************************************************)
(* What the steps do to the positions.                                     *)
(***************************************************************************)
LEMMA ReadsPosition ==
    ASSUME FormatOK, NEW e, NEW s, Reads(e, s), NEW n \in Nat, Add(e, s, n)
    PROVE  \E new :
              /\ new \notin Positions
              /\ Positions' = Positions \cup {new}
              /\ ElementAt(new)' = e
              /\ \A p \in Positions : ElementAt(p)' = ElementAt(p)
  <1> DEFINE es == elements
             gs == group.elements
  <1>1. Numbered(es, gs)
    BY FormatNumbered
  <1>2. elements \in Seq(PlainElements \cup Groups) /\ gs \in Seq(GroupElements)
    BY DEF FormatOK
  <1>3. CASE group.open
    <2>1. e \in GroupElements /\ elements' = elements /\ group'.elements = Append(gs, e)
      BY <1>3 DEF Reads, Add, FormatOK
    <2>1a. PICK gs2 \in {Append(gs, e)} : TRUE
      OBVIOUS
    <2>2. Extends(gs2, gs, e)
      BY <1>2, <2>1, <2>1a DEF Extends
    <2> HIDE DEF es, gs
    <2>3. \E new :
              /\ new \notin PositionsOf(es, gs)
              /\ PositionsOf(es, gs2) = PositionsOf(es, gs) \cup {new}
              /\ ElementIn(es, gs2, new) = e
              /\ \A p \in PositionsOf(es, gs) : ElementIn(es, gs2, p) = ElementIn(es, gs, p)
      BY <1>1, <2>2, GroupGrows
    <2> QED
      BY <2>1, <2>1a, <2>3, PositionsNow, PositionsNext DEF es, gs
  <1>4. CASE ~group.open
    <2>1. elements' = Append(es, e) /\ group' = group /\ e \in PlainElements /\ Children(e) = <<>>
      BY <1>4, PlainKind DEF Reads, Add
    <2>1a. PICK es2 \in {Append(es, e)} : TRUE
      OBVIOUS
    <2>2. Extends(es2, es, e)
      BY <1>2, <2>1, <2>1a DEF Extends
    <2> HIDE DEF es, gs
    <2>3. \E new :
              /\ new \notin PositionsOf(es, gs)
              /\ PositionsOf(es2, gs) = PositionsOf(es, gs) \cup {new}
              /\ ElementIn(es2, gs, new) = e
              /\ \A p \in PositionsOf(es, gs) : ElementIn(es2, gs, p) = ElementIn(es, gs, p)
      BY <1>1, <2>1, <2>2, ListGrows
    <2> QED
      BY <2>1, <2>1a, <2>3, PositionsNow, PositionsNext DEF es, gs
  <1> QED
    BY <1>3, <1>4

(* The elements of the open group move to the new last place of the list.  *)
LEMMA ClosesPositions ==
    ASSUME FormatOK, ClosesGroup
    PROVE  \E new, moved :
              /\ ElementAt(new)'.kind = "optional"
              /\ \A p \in Positions : moved[p] \in Positions' /\ ElementAt(moved[p])' = ElementAt(p)
              /\ \A q \in Positions' : q = new \/ \E p \in Positions : q = moved[p]
  <1> DEFINE es == elements
             gs == group.elements
             last == Len(es) + 1
             o == Optional(gs, group.anchor)
             es2 == Append(es, o)
  <1>0. PICK moved \in {[p \in Positions |-> IF p[1] = 0 THEN <<last, p[2]>> ELSE p]} : TRUE
    OBVIOUS
  <1>0a. \A p \in Positions : moved[p] = IF p[1] = 0 THEN <<last, p[2]>> ELSE p
    BY <1>0
  <1>0b. PICK new \in {<<last, 0>>} : TRUE
    OBVIOUS
  <1>1. Numbered(es, gs)
    BY FormatNumbered
  <1>2. o.kind = "optional" /\ o.elements = gs /\ Children(o) = gs
    BY DEF Optional, Children
  <1>3. es2 = elements' /\ group'.elements = <<>>
    BY DEF ClosesGroup, ClosedGroup
  <1>4. /\ DOMAIN es2 = DOMAIN es \cup {last} /\ es2[last] = o
        /\ \A i \in DOMAIN es : es2[i] = es[i]
    <2>1. es \in Seq(PlainElements \cup Groups)
      BY DEF FormatOK
    <2>2. gs \in Seq(GroupElements) /\ group.anchor \in Nat
      BY DEF FormatOK
    <2>3. o \in PlainElements \cup Groups
      BY <2>2 DEF Optional, Groups
    <2> HIDE DEF o
    <2> QED
      BY <2>1, <2>3
  <1>5. Positions = PositionsOf(es, gs) /\ \A p : ElementAt(p) = ElementIn(es, gs, p)
    BY PositionsNow
  <1>6. Positions' = PositionsOf(es2, <<>>) /\ \A p : ElementAt(p)' = ElementIn(es2, <<>>, p)
    BY <1>3, PositionsNext
  <1> HIDE DEF es, gs, o, es2
  <1>7. ElementAt(new)'.kind = "optional"
    BY <1>0b, <1>2, <1>4, <1>6 DEF ElementIn
  <1>8. ASSUME NEW p \in Positions
        PROVE  moved[p] \in Positions' /\ ElementAt(moved[p])' = ElementAt(p)
    <2>1. CASE \E i \in DOMAIN es : p = <<i, 0>>
      <3>1. PICK i \in DOMAIN es : p = <<i, 0>>
        BY <2>1
      <3>2. moved[p] = p
        BY <1>0a, <1>1, <3>1 DEF Numbered
      <3>3. p \in Positions'
        BY <1>4, <1>6, <3>1, PositionCases
      <3>4. ElementIn(es2, <<>>, p) = ElementIn(es, gs, p)
        BY <1>4, <3>1 DEF ElementIn
      <3> QED
        BY <1>5, <1>6, <3>2, <3>3, <3>4
    <2>2. CASE \E i \in DOMAIN es : \E j \in DOMAIN Children(es[i]) : p = <<i, j>>
      <3>1. PICK i \in DOMAIN es : \E j \in DOMAIN Children(es[i]) : p = <<i, j>>
        BY <2>2
      <3>2. PICK j \in DOMAIN Children(es[i]) : p = <<i, j>>
        BY <3>1
      <3>3. i # 0 /\ j # 0
        BY <1>1, <3>1, <3>2 DEF Numbered
      <3>4. moved[p] = p
        BY <1>0a, <3>2, <3>3
      <3>5. p \in Positions'
        BY <1>4, <1>6, <3>2, PositionCases
      <3>6. ElementIn(es2, <<>>, p) = ElementIn(es, gs, p)
        BY <1>4, <3>2, <3>3 DEF ElementIn
      <3> QED
        BY <1>5, <1>6, <3>4, <3>5, <3>6
    <2>3. CASE \E j \in DOMAIN gs : p = <<0, j>>
      <3>1. PICK j \in DOMAIN gs : p = <<0, j>>
        BY <2>3
      <3>2. j # 0 /\ last # 0
        BY <1>0a, <1>1, <3>1 DEF Numbered
      <3>3. moved[p] = <<last, j>>
        BY <1>0a, <3>1
      <3>4. <<last, j>> \in Positions'
        BY <1>2, <1>4, <1>6, <3>1, PositionCases
      <3>5. ElementIn(es2, <<>>, <<last, j>>) = ElementIn(es, gs, p)
        BY <1>2, <1>4, <3>1, <3>2 DEF ElementIn
      <3>6. moved[p] \in Positions'
        BY <3>3, <3>4
      <3>7. ElementIn(es2, <<>>, moved[p]) = ElementIn(es, gs, p)
        BY <3>3, <3>5
      <3> QED
        BY <1>5, <1>6, <3>6, <3>7
    <2> QED
      BY <1>5, <2>1, <2>2, <2>3, PositionCases
  <1>9. ASSUME NEW q \in Positions'
        PROVE  q = new \/ \E p \in Positions : q = moved[p]
    <2>1. CASE \E i \in DOMAIN es2 : q = <<i, 0>>
      <3>1. PICK i \in DOMAIN es2 : q = <<i, 0>>
        BY <2>1
      <3>2. CASE i = last
        BY <1>0b, <3>1, <3>2
      <3>3. CASE i \in DOMAIN es
        <4>1. q \in Positions /\ i # 0
          BY <1>1, <1>5, <3>1, <3>3, PositionCases DEF Numbered
        <4> QED
          BY <1>0a, <3>1, <4>1
      <3> QED
        BY <1>4, <3>2, <3>3
    <2>2. CASE \E i \in DOMAIN es2 : \E j \in DOMAIN Children(es2[i]) : q = <<i, j>>
      <3>1. PICK i \in DOMAIN es2 : \E j \in DOMAIN Children(es2[i]) : q = <<i, j>>
        BY <2>2
      <3>2. PICK j \in DOMAIN Children(es2[i]) : q = <<i, j>>
        BY <3>1
      <3>3. CASE i = last
        <4>1. <<0, j>> \in Positions
          BY <1>2, <1>4, <1>5, <3>2, <3>3, PositionCases
        <4>2. moved[<<0, j>>] = <<last, j>>
          BY <1>0a, <4>1
        <4> QED
          BY <3>2, <3>3, <4>1, <4>2
      <3>4. CASE i \in DOMAIN es
        <4>1. q \in Positions /\ i # 0
          BY <1>1, <1>4, <1>5, <3>2, <3>4, PositionCases DEF Numbered
        <4> QED
          BY <1>0a, <3>2, <4>1
      <3> QED
        BY <1>4, <3>3, <3>4
    <2>3. ~ \E j \in DOMAIN <<>> : q = <<0, j>>
      OBVIOUS
    <2> QED
      BY <1>6, <2>1, <2>2, <2>3, PositionCases
  <1> QED
    BY <1>7, <1>8, <1>9
-----------------------------------------------------------------------------
(***************************************************************************)
(* The invariant, step by step.  Bindings is what of it a step can break   *)
(* while the format is being parsed.                                       *)
(***************************************************************************)
Bindings == BoundOnce /\ BoundIsSeen /\ SeenIsBound /\ WholeListsPrinted

LEMMA ReadsBindings ==
    ASSUME FormatOK, Bindings, NEW e, NEW s, Reads(e, s), NEW n \in Nat, Add(e, s, n)
    PROVE  Bindings'
  <1>1. PICK new :
           /\ new \notin Positions
           /\ Positions' = Positions \cup {new}
           /\ ElementAt(new)' = e
           /\ \A p \in Positions : ElementAt(p)' = ElementAt(p)
    BY ReadsPosition
  <1>2. seen' = s /\ decl' = decl
    BY DEF Add
  <1>3. Variables(Kinds)' = Variables(Kinds)
    BY <1>2, SameDeclaration
  <1>4. \A x : InFormat(x) => InFormat(x)'
    BY <1>1 DEF InFormat
  <1>5. InFormat(e)'
    BY <1>1 DEF InFormat
  <1>6. seen.vars \in [Kinds -> SUBSET Nat] /\ seen \in Seen
    BY DEF FormatOK, Seen
  <1>7. CASE Binds(e, s)
    <2>1. PICK k \in Kinds : \E i \in DOMAIN List(k) : e = Variable(k, i)
      BY <1>7, VariablesAre DEF Binds
    <2>2. PICK i \in DOMAIN List(k) : e = Variable(k, i)
      BY <2>1
    <2>3. e.kind = k /\ e.var = i /\ i \notin seen.vars[k] /\ e \in Variables(Kinds)
      BY <1>7, <2>2, VariableParts DEF Binds
    <2>4. /\ s.vars = [seen.vars EXCEPT ![k] = @ \cup {i}]
          /\ s.allSuccessors = seen.allSuccessors /\ s.allOperands = seen.allOperands
          /\ s.allTypes = seen.allTypes
      BY <1>6, <1>7, <2>3 DEF Binds, Seen
    <2>5. /\ \A j \in Kinds : seen.vars[j] \subseteq s.vars[j]
          /\ s.vars[k] = seen.vars[k] \cup {i}
          /\ \A j \in Kinds : j # k => s.vars[j] = seen.vars[j]
      BY <1>6, <2>4
    <2>6. \A p \in Positions : ElementAt(p) # e
      BY <2>3 DEF Bindings, BoundIsSeen
    <2>7. BoundOnce'
      BY <1>1, <1>3, <2>6 DEF Bindings, BoundOnce
    <2>8. BoundIsSeen'
      <3> SUFFICES ASSUME NEW p \in Positions', ElementAt(p)' \in Variables(Kinds)'
                   PROVE  ElementAt(p)'.var \in seen'.vars[ElementAt(p)'.kind]
        BY DEF BoundIsSeen
      <3>1. CASE p = new
        BY <1>1, <1>2, <2>3, <2>5, <3>1
      <3>2. CASE p \in Positions
        <4>1. ElementAt(p) \in Variables(Kinds) /\ ElementAt(p)' = ElementAt(p)
          BY <1>1, <1>3, <3>2
        <4>2. ElementAt(p).var \in seen.vars[ElementAt(p).kind]
          BY <3>2, <4>1 DEF Bindings, BoundIsSeen
        <4>3. ElementAt(p).kind \in Kinds
          BY <4>1, VariablesAre, VariableParts
        <4> QED
          BY <1>2, <2>5, <4>1, <4>2, <4>3
      <3> QED
        BY <1>1, <3>1, <3>2
    <2>9. SeenIsBound'
      <3> SUFFICES ASSUME NEW j \in Kinds, NEW x \in s.vars[j]
                   PROVE  InFormat(Variable(j, x))'
        BY <1>2 DEF SeenIsBound
      <3>1. CASE x \in seen.vars[j]
        BY <1>4, <3>1 DEF Bindings, SeenIsBound
      <3>2. CASE x \notin seen.vars[j]
        <4>1. j = k /\ x = i
          BY <2>5, <3>2
        <4> QED
          BY <1>5, <2>2, <4>1
      <3> QED
        BY <3>1, <3>2
    <2>10. WholeListsPrinted'
      BY <1>2, <1>4, <2>4 DEF Bindings, WholeListsPrinted
    <2> QED
      BY <2>7, <2>8, <2>9, <2>10 DEF Bindings
  <1>8. CASE Passes(e, s)
    <2>1. e \notin Variables(Kinds)
      BY <1>8, VariablesAre, VariableParts DEF Passes
    <2>2. s.vars = seen.vars
      BY <1>8 DEF Passes
    <2>3. BoundOnce'
      BY <1>1, <1>3, <2>1 DEF Bindings, BoundOnce
    <2>4. BoundIsSeen'
      BY <1>1, <1>2, <1>3, <2>1, <2>2 DEF Bindings, BoundIsSeen
    <2>5. SeenIsBound'
      BY <1>2, <1>4, <2>2 DEF Bindings, SeenIsBound
    <2>6. WholeListsPrinted'
      BY <1>2, <1>4, <1>5, <1>8 DEF Bindings, WholeListsPrinted, Passes
    <2> QED
      BY <2>3, <2>4, <2>5, <2>6 DEF Bindings
  <1> QED
    BY <1>7, <1>8 DEF Reads

LEMMA ClosesBindings ==
    ASSUME FormatOK, Bindings, ClosesGroup
    PROVE  Bindings'
  <1>1. PICK new, moved :
           /\ ElementAt(new)'.kind = "optional"
           /\ \A p \in Positions : moved[p] \in Positions' /\ ElementAt(moved[p])' = ElementAt(p)
           /\ \A q \in Positions' : q = new \/ \E p \in Positions : q = moved[p]
    BY ClosesPositions
  <1>2. seen' = seen /\ decl' = decl
    BY DEF ClosesGroup
  <1>3. Variables(Kinds)' = Variables(Kinds)
    BY <1>2, SameDeclaration
  <1>4. ElementAt(new)' \notin Variables(Kinds)
    BY <1>1, VariablesAre, VariableParts, KindsAre
  <1>5. \A x : InFormat(x) => InFormat(x)'
    BY <1>1 DEF InFormat
  <1>6. BoundOnce'
    <2> SUFFICES ASSUME NEW p \in Positions', NEW q \in Positions',
                        ElementAt(p)' \in Variables(Kinds), ElementAt(p)' = ElementAt(q)'
                 PROVE  p = q
      BY <1>3 DEF BoundOnce
    <2>1. PICK p0 \in Positions : p = moved[p0]
      BY <1>1, <1>4
    <2>2. PICK q0 \in Positions : q = moved[q0]
      BY <1>1, <1>4
    <2>3. ElementAt(p0) \in Variables(Kinds) /\ ElementAt(p0) = ElementAt(q0)
      BY <1>1, <2>1, <2>2
    <2>4. p0 = q0
      BY <2>3 DEF Bindings, BoundOnce
    <2> QED
      BY <2>1, <2>2, <2>4
  <1>7. BoundIsSeen'
    <2> SUFFICES ASSUME NEW q \in Positions', ElementAt(q)' \in Variables(Kinds)
                 PROVE  ElementAt(q)'.var \in seen.vars[ElementAt(q)'.kind]
      BY <1>2, <1>3 DEF BoundIsSeen
    <2>1. PICK p \in Positions : q = moved[p]
      BY <1>1, <1>4
    <2>2. ElementAt(q)' = ElementAt(p)
      BY <1>1, <2>1
    <2> QED
      BY <2>2 DEF Bindings, BoundIsSeen
  <1>8. SeenIsBound' /\ WholeListsPrinted'
    BY <1>2, <1>5 DEF Bindings, SeenIsBound, WholeListsPrinted
  <1> QED
    BY <1>6, <1>7, <1>8 DEF Bindings

(* Nothing that Bindings speaks of changes. *)
LEMMA FrameBindings ==
    ASSUME Bindings, UNCHANGED <<decl, elements, seen>>, group'.elements = group.elements
    PROVE  Bindings'
  <1>1. Positions' = Positions /\ \A p : ElementAt(p)' = ElementAt(p)
    BY PositionsNow, PositionsNext
  <1>2. \A x : InFormat(x)' <=> InFormat(x)
    BY <1>1 DEF InFormat
  <1>3. Variables(Kinds)' = Variables(Kinds)
    BY SameDeclaration
  <1> QED
    BY <1>1, <1>2, <1>3
    DEF Bindings, BoundOnce, BoundIsSeen, SeenIsBound, WholeListsPrinted

(* What is bound in full is printed in full. *)
LEMMA BoundIsPrinted ==
    ASSUME SeenIsBound, NEW k \in Kinds, Bound(k)
    PROVE  \A v \in Variables({k}) : InFormat(v)
  BY VariablesAre DEF SeenIsBound, Bound

LEMMA EndPrinted ==
    ASSUME FormatOK, Bindings, EndOfFormat
    PROVE  PrintedOnceAccepted'
  <1> SUFFICES ASSUME stage' = "generated" PROVE AllPrinted'
    BY DEF PrintedOnceAccepted, EndOfFormat
  <1>1. /\ seen.allOperands \/ Bound("operand")
        /\ seen.allSuccessors \/ Bound("successor")
        /\ Bound("region")
    BY DEF EndOfFormat
  <1>2. SeenIsBound /\ WholeListsPrinted /\ {"operand", "successor", "region"} \subseteq Kinds
    BY KindsAre DEF Bindings
  <1>3. \A v \in Variables({"region"}) : InFormat(v)
    BY <1>1, <1>2, BoundIsPrinted
  <1>4. InFormat(Directive("successors")) \/ \A v \in Variables({"successor"}) : InFormat(v)
    BY <1>1, <1>2, BoundIsPrinted DEF WholeListsPrinted
  <1>5. \/ seen.allTypes["operand"]
        \/ InFormat(Directive("operands"))
        \/ \A v \in Variables({"operand"}) : InFormat(v)
    BY <1>1, <1>2, BoundIsPrinted DEF WholeListsPrinted
  <1>6. UNCHANGED <<decl, elements, group, seen>>
    BY DEF EndOfFormat
  <1>7. /\ \A x : InFormat(x)' <=> InFormat(x)
        /\ \A S : Variables(S)' = Variables(S)
    BY <1>6, PositionsNow, PositionsNext, SameDeclaration DEF InFormat
  <1> QED
    BY <1>3, <1>4, <1>5, <1>6, <1>7 DEF AllPrinted

LEMMA FormatInitially == Init => FormatInv
  <1> SUFFICES ASSUME Init PROVE FormatInv
    OBVIOUS
  <1>1. elements = <<>> /\ group.elements = <<>> /\ seen = NothingSeen /\ stage = "parsing"
    BY DEF Init, ClosedGroup
  <1>2. Positions = {}
    <2>1. \A p : p \notin PositionsOf(<<>>, <<>>)
      BY PositionCases
    <2> QED
      BY <1>1, <2>1, PositionsNow
  <1>3. BoundOnce /\ BoundIsSeen
    BY <1>2 DEF BoundOnce, BoundIsSeen
  <1>4. SeenIsBound /\ WholeListsPrinted
    BY <1>1 DEF SeenIsBound, WholeListsPrinted, NothingSeen
  <1>5. PrintedOnceAccepted
    BY <1>1 DEF PrintedOnceAccepted
  <1> QED
    BY <1>3, <1>4, <1>5, InitTyped DEF FormatInv

LEMMA FormatInductive == FormatInv /\ ParseFormat => FormatInv'
  <1> SUFFICES ASSUME FormatInv, ParseFormat PROVE FormatInv'
    OBVIOUS
  <1>1. FormatOK /\ Bindings
    BY DEF FormatInv, Bindings
  <1>2. stage = "parsing"
    BY DEF ParseFormat, ParseVariable, ParseLiteral, ParseAttrDict, ParseOperands,
       ParseSuccessors, ParseType, ParseFunctionalType, ParseSymbol, OpenOptional,
       CloseOptional, Unexpected, EndOfFormat
  <1>3. CASE Reject
    <2>1. UNCHANGED <<decl, rest, elements, group, seen>> /\ stage' = "rejected"
      BY <1>3 DEF Reject
    <2>2. FormatOK' /\ Bindings'
      BY <1>1, <2>1, FrameTyped, FrameBindings
    <2> QED
      BY <2>1, <2>2 DEF FormatInv, Bindings, PrintedOnceAccepted
  <1>4. CASE ReadsElement
    <2>1. PICK e, s : Reads(e, s) /\ \E n \in Nat : Add(e, s, n)
      BY <1>4 DEF ReadsElement
    <2>2. PICK n \in Nat : Add(e, s, n)
      BY <2>1
    <2>3. FormatOK' /\ Bindings'
      BY <1>1, <2>1, <2>2, ReadsTyped, ReadsBindings
    <2>4. stage' = "parsing"
      BY <1>2, <2>2 DEF Add
    <2> QED
      BY <2>3, <2>4 DEF FormatInv, Bindings, PrintedOnceAccepted
  <1>5. CASE OpensGroup
    <2>1. FormatOK'
      BY <1>1, <1>5, OpensTyped
    <2>2. UNCHANGED <<decl, elements, seen>> /\ group'.elements = group.elements /\ stage' = "parsing"
      BY <1>1, <1>2, <1>5 DEF OpensGroup, FormatOK, ClosedGroup
    <2>3. Bindings'
      BY <1>1, <2>2, FrameBindings
    <2> QED
      BY <2>1, <2>2, <2>3 DEF FormatInv, Bindings, PrintedOnceAccepted
  <1>6. CASE ClosesGroup
    <2>1. FormatOK' /\ Bindings'
      BY <1>1, <1>6, ClosesTyped, ClosesBindings
    <2>2. stage' = "parsing"
      BY <1>2, <1>6 DEF ClosesGroup
    <2> QED
      BY <2>1, <2>2 DEF FormatInv, Bindings, PrintedOnceAccepted
  <1>7. CASE EndOfFormat
    <2>1. UNCHANGED <<decl, rest, elements, group, seen>>
      BY <1>7 DEF EndOfFormat
    <2>2. FormatOK' /\ Bindings'
      BY <1>1, <2>1, FrameTyped, FrameBindings
    <2>3. PrintedOnceAccepted'
      BY <1>1, <1>7, EndPrinted
    <2> QED
      BY <2>2, <2>3 DEF FormatInv, Bindings
  <1> QED
    BY <1>1, <1>3, <1>4, <1>5, <1>6, <1>7, FormatSteps

(* A step of OpAssembly that is none of ParseFormat leaves the format alone. *)
LEMMA FormatFrame ==
    ASSUME FormatInv, UNCHANGED <<decl, rest, elements, group, seen>>,
           stage \notin {"parsing", "rejected"} \/ UNCHANGED stage
    PROVE  FormatInv'
  <1>1. FormatOK' /\ Bindings'
    BY FrameTyped, FrameBindings DEF FormatInv, Bindings
  <1>2. PrintedOnceAccepted'
    <2>1. \A x : InFormat(x)' <=> InFormat(x)
      BY PositionsNow, PositionsNext DEF InFormat
    <2>2. \A S : Variables(S)' = Variables(S)
      BY SameDeclaration
    <2>3. AllPrinted => AllPrinted'
      BY <2>1, <2>2 DEF AllPrinted
    <2> QED
      BY <2>3 DEF FormatInv, PrintedOnceAccepted
  <1> QED
    BY <1>1, <1>2 DEF FormatInv, Bindings

LEMMA AssemblyInductive == FormatInv /\ [Next]_vars => FormatInv'
  <1> SUFFICES ASSUME FormatInv, [Next]_vars PROVE FormatInv'
    OBVIOUS
  <1>1. CASE GenerateFormat
    BY <1>1, FormatInductive DEF GenerateFormat
  <1>2. CASE PrintOp
    BY <1>2, FormatFrame DEF PrintOp
  <1>3. CASE ParseOp
    BY <1>3, FormatFrame DEF ParseOp
  <1>4. CASE UNCHANGED vars
    BY <1>4, FormatFrame DEF vars, fmtVars
  <1> QED
    BY <1>1, <1>2, <1>3, <1>4 DEF Next, Terminated

LEMMA FormatInvMeans == FormatInv => FormatOK /\ BoundOnce /\ EverythingPrinted
  BY DEF FormatInv, PrintedOnceAccepted, AllPrinted, EverythingPrinted

LEMMA FormatInvariant == FormatSpec => []FormatInv
  <1>1. FormatInv /\ [ParseFormat]_fmtVars => FormatInv'
    <2>1. FormatInv /\ UNCHANGED fmtVars => FormatInv'
      BY FormatFrame DEF fmtVars
    <2> QED
      BY <2>1, FormatInductive
  <1> QED
    BY <1>1, FormatInitially, PTL DEF FormatSpec

LEMMA AssemblyInvariant == Spec => []FormatInv
  <1>1. AssemblyInit => FormatInv
    BY FormatInitially DEF AssemblyInit
  <1> QED
    BY <1>1, AssemblyInductive, PTL DEF Spec

(***************************************************************************)
(* The elements that FormatParser keeps are those of the declaration, and  *)
(* a group holds only what parseOptionalChildElement lets in: while a      *)
(* format is read, and while operations are printed and parsed with it.    *)
(***************************************************************************)
THEOREM FormatCorrect == (FormatSpec => []FormatOK) /\ (Spec => []FormatOK)
  BY FormatInvariant, AssemblyInvariant, FormatInvMeans, PTL

(***************************************************************************)
(* parseVariable's checks of the sets of seen variables suffice: no        *)
(* variable is bound twice, in whatever groups, so each list of a          *)
(* generated parser is filled at most once.                                *)
(***************************************************************************)
THEOREM EveryVariableBoundOnce == (FormatSpec => []BoundOnce) /\ (Spec => []BoundOnce)
  BY FormatInvariant, AssemblyInvariant, FormatInvMeans, PTL

(***************************************************************************)
(* verifyOperands, verifySuccessors and verifyRegions suffice: an accepted *)
(* format prints every region, successor and, unless it has the types of   *)
(* all operands, every operand.                                            *)
(***************************************************************************)
THEOREM AcceptedPrintsEverything ==
    (FormatSpec => []EverythingPrinted) /\ (Spec => []EverythingPrinted)
  BY FormatInvariant, AssemblyInvariant, FormatInvMeans, PTL
=============================================================================
