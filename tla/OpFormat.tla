------------------------------ MODULE OpFormat ------------------------------
(***************************************************************************)
(* The assembly format of an operation: FormatParser of                    *)
(* lib/Embed/OpFormatGen.cpp reads the tokens of a format (Lexer of        *)
(* FormatUtils.cpp), element by element, and then checks that the printed  *)
(* text can determine the operation.                                       *)
(***************************************************************************)
EXTENDS FormatUtils, FiniteSets

CONSTANTS
    Declarations,   \* the dmc.Op declarations considered
    Formats         \* for each, the formats considered: sequences of tokens

(***************************************************************************)
(* What a variable can name, in the order in which parseVariable looks.    *)
(***************************************************************************)
Lookup == <<"attribute", "operand", "result", "successor", "region">>
Kinds == {Lookup[i] : i \in DOMAIN Lookup}
Sides == {"operand", "result"}

(* "builder": the type, or the type of the attribute, has a builder.       *)
Named == [name : STRING, variadic : BOOLEAN, builder : BOOLEAN,
          presence : {"required", "optional", "default"}]
Declaration == [lists : [Kinds -> Seq(Named)], traits : SUBSET STRING]

ASSUME FormatsAssumption ==
    /\ Declarations \subseteq Declaration
    /\ Formats \in [Declarations -> SUBSET Seq(Tokens)]

VARIABLES
    decl,       \* the OperationOp
    elements,   \* OperationFormat::elements
    group,      \* the optional group being read
    seen,       \* what FormatParser and OperationFormat keep about the format
    stage

fmtVars == <<decl, rest, elements, group, seen, stage>>
-----------------------------------------------------------------------------
(***************************************************************************)
(* Elements.  A variable is known by its kind and its place in the         *)
(* declaration.                                                            *)
(***************************************************************************)
Variable(k, i) == [kind |-> k, var |-> i]
Directive(d) == [kind |-> d]
AttrDict(withKeyword) == [kind |-> "attr-dict", withKeyword |-> withKeyword]
TypeOf(arg) == [kind |-> "type", arg |-> arg]
FunctionalType(ins, outs) == [kind |-> "functional-type", inputs |-> ins, results |-> outs]
Symbol(i) == [kind |-> "symbol", var |-> i]
Optional(es, anchor) == [kind |-> "optional", elements |-> es, anchor |-> anchor]

List(k) == decl.lists[k]
VarOf(e) == List(e.kind)[e.var]

TypeArgs(e) ==
    CASE e.kind = "type" -> {e.arg}
      [] e.kind = "functional-type" -> {e.inputs, e.results}
      [] OTHER -> {}

Children(e) == IF e.kind = "optional" THEN e.elements ELSE <<>>

ClosedGroup == [open |-> FALSE, elements |-> <<>>, anchor |-> 0]

NothingSeen ==
    [vars |-> [k \in Kinds |-> {}], types |-> [s \in Sides |-> {}],
     allTypes |-> [s \in Sides |-> FALSE],
     allOperands |-> FALSE, allSuccessors |-> FALSE, attrDict |-> FALSE]

Init ==
    /\ decl \in Declarations
    /\ rest \in Formats[decl]
    /\ elements = <<>>
    /\ group = ClosedGroup
    /\ seen = NothingSeen
    /\ stage = "parsing"
-----------------------------------------------------------------------------
Reject ==
    /\ stage' = "rejected"
    /\ UNCHANGED <<decl, rest, elements, group, seen>>

(* Fault: any variable may be in a group. *)
ChildAllowed_AnyVariable(e, isAnchor) ==
    /\ isAnchor => group.anchor = 0
    /\ \/ e.kind \in Kinds
       \/ e.kind \in {"literal", "type", "functional-type"} /\ ~isAnchor

(***************************************************************************)
(* parseOptionalChildElement: what may be in a group, and what may be its  *)
(* anchor.                                                                 *)
(***************************************************************************)
ChildAllowed(e, isAnchor) ==
    /\ isAnchor => group.anchor = 0
    /\ \/ e.kind = "attribute" /\ (isAnchor => VarOf(e).presence # "required")
       \/ e.kind = "operand" /\ VarOf(e).variadic
       \/ e.kind \in {"literal", "type", "functional-type"} /\ ~isAnchor

(***************************************************************************)
(* The n tokens of element e have been read, and s is what has been seen   *)
(* after them.                                                             *)
(***************************************************************************)
Add(e, s, n) ==
    /\ seen' = s
    /\ IF group.open
       THEN LET isAnchor == Is(n + 1, "punctuation", "^")
            IN /\ rest' = Drop(IF isAnchor THEN n + 1 ELSE n)
               /\ group' = [group EXCEPT !.elements = Append(@, e),
                              !.anchor = IF isAnchor THEN Len(group.elements) + 1 ELSE @]
               /\ UNCHANGED elements
       ELSE /\ elements' = Append(elements, e)
            /\ rest' = Drop(n)
            /\ UNCHANGED group
    /\ UNCHANGED <<decl, stage>>

Element(e, valid, s, n) ==
    IF valid /\ (group.open => ChildAllowed(e, Is(n + 1, "punctuation", "^")))
    THEN Add(e, s, n)
    ELSE Reject

(***************************************************************************)
(* parseVariable: the first list that has the name.                        *)
(***************************************************************************)
Places(k, n) == {i \in DOMAIN List(k) : List(k)[i].name = n}

VariableNamed(n) ==
    LET found == {j \in DOMAIN Lookup : Places(Lookup[j], n) # {}}
        k == Lookup[CHOOSE j \in found : \A l \in found : j <= l]
    IN IF found = {} THEN Directive("nothing")
       ELSE Variable(k, CHOOSE i \in Places(k, n) : TRUE)

(* Fault: attributes are not remembered as bound. *)
MayBind_AttributeAgain(v) ==
    /\ v.kind \notin {"nothing", "result"}
    /\ v.kind # "attribute" => v.var \notin seen.vars[v.kind]
    /\ v.kind = "operand" => ~seen.allOperands
    /\ v.kind = "successor" => ~seen.allSuccessors
    /\ v.kind = "region" => ~VarOf(v).variadic

MayBind(v) ==
    /\ v.kind \notin {"nothing", "result"}
    /\ v.var \notin seen.vars[v.kind]
    /\ v.kind = "operand" => ~seen.allOperands
    /\ v.kind = "successor" => ~seen.allSuccessors
    /\ v.kind = "region" => ~VarOf(v).variadic

ParseVariable ==
    /\ stage = "parsing" /\ Kind(1) = "variable"
    /\ LET v == VariableNamed(rest[1].spelling)
       IN IF MayBind(v)
          THEN Element(v, TRUE, [seen EXCEPT !.vars[v.kind] = @ \cup {v.var}], 1)
          ELSE Reject

ParseLiteral ==
    /\ stage = "parsing" /\ Kind(1) = "literal"
    /\ Element(Literal(rest[1].spelling), rest[1].spelling \in Literals, seen, 1)

ParseAttrDict ==
    /\ stage = "parsing"
    /\ \E keyword \in BOOLEAN :
        /\ Is(1, "keyword", IF keyword THEN "attr-dict-with-keyword" ELSE "attr-dict")
        /\ Element(AttrDict(keyword), ~seen.attrDict, [seen EXCEPT !.attrDict = TRUE], 1)

ParseOperands ==
    /\ stage = "parsing" /\ Is(1, "keyword", "operands")
    /\ Element(Directive("operands"), ~seen.allOperands /\ seen.vars["operand"] = {},
               [seen EXCEPT !.allOperands = TRUE], 1)

ParseSuccessors ==
    /\ stage = "parsing" /\ Is(1, "keyword", "successors")
    /\ Element(Directive("successors"), ~seen.allSuccessors /\ seen.vars["successor"] = {},
               [seen EXCEPT !.allSuccessors = TRUE], 1)

(***************************************************************************)
(* parseTypeDirectiveOperand: the argument of `type', and each one of      *)
(* `functional-type', is an operand, a result or all of either.  That of   *)
(* all operands goes through parseOperandsDirective.                       *)
(***************************************************************************)
Argument(n) ==
    IF Kind(n) = "variable" THEN VariableNamed(rest[n].spelling)
    ELSE IF Is(n, "keyword", "operands") THEN Directive("operands")
    ELSE IF Is(n, "keyword", "results") THEN Directive("results")
    ELSE Directive("nothing")

MayType(arg, s) ==
    CASE arg.kind \in Sides -> ~s.allTypes[arg.kind] /\ arg.var \notin s.types[arg.kind]
      [] arg.kind = "operands" -> ~s.allTypes["operand"] /\ s.types["operand"] = {}
      [] arg.kind = "results" -> ~s.allTypes["result"] /\ s.types["result"] = {}
      [] OTHER -> FALSE

Typed(arg, s) ==
    CASE arg.kind \in Sides -> [s EXCEPT !.types[arg.kind] = @ \cup {arg.var}]
      [] arg.kind = "operands" -> [s EXCEPT !.allTypes["operand"] = TRUE, !.allOperands = TRUE]
      [] arg.kind = "results" -> [s EXCEPT !.allTypes["result"] = TRUE]
      [] OTHER -> s

ParseType ==
    /\ stage = "parsing" /\ Is(1, "keyword", "type")
    /\ Element(TypeOf(Argument(3)),
               /\ Is(2, "punctuation", "(") /\ Is(4, "punctuation", ")")
               /\ MayType(Argument(3), seen),
               Typed(Argument(3), seen), 4)

ParseFunctionalType ==
    /\ stage = "parsing" /\ Is(1, "keyword", "functional-type")
    /\ LET inputs == Argument(3)
           results == Argument(5)
       IN Element(FunctionalType(inputs, results),
                  /\ Is(2, "punctuation", "(") /\ Is(4, "punctuation", ",")
                  /\ Is(6, "punctuation", ")")
                  /\ MayType(inputs, seen) /\ MayType(results, Typed(inputs, seen)),
                  Typed(results, Typed(inputs, seen)), 6)

(***************************************************************************)
(* The attribute of a symbol is not remembered as bound.  parseVariable is *)
(* called on whatever token comes; what is not a variable is taken not to  *)
(* spell an attribute.                                                     *)
(***************************************************************************)
ParseSymbol ==
    /\ stage = "parsing" /\ Is(1, "keyword", "symbol")
    /\ LET attr == Argument(3)
       IN IF attr.kind = "attribute"
          THEN Element(Symbol(attr.var),
                       Is(2, "punctuation", "(") /\ Is(4, "punctuation", ")"), seen, 4)
          ELSE Reject

OpenOptional ==
    /\ stage = "parsing" /\ Is(1, "punctuation", "(")
    /\ IF group.open THEN Reject
       ELSE /\ group' = [ClosedGroup EXCEPT !.open = TRUE]
            /\ rest' = Drop(1)
            /\ UNCHANGED <<decl, elements, seen, stage>>

(***************************************************************************)
(* The rest of parseOptional: the group has an anchor, starts with         *)
(* something that can be parsed optionally, and types only its own         *)
(* operands.                                                               *)
(***************************************************************************)
GroupAllowed(es, anchor) ==
    /\ anchor # 0
    /\ es[1].kind \in {"literal", "operand"}
    /\ \A i \in DOMAIN es : \A arg \in TypeArgs(es[i]) :
          /\ arg.kind = "operand"
          /\ \E j \in DOMAIN es : es[j].kind = "operand" /\ es[j].var = arg.var

CloseOptional ==
    /\ stage = "parsing" /\ group.open /\ group.elements # <<>>
    /\ Is(1, "punctuation", ")")
    /\ IF Is(2, "punctuation", "?") /\ GroupAllowed(group.elements, group.anchor)
       THEN /\ elements' = Append(elements, Optional(group.elements, group.anchor))
            /\ group' = ClosedGroup
            /\ rest' = Drop(2)
            /\ UNCHANGED <<decl, seen, stage>>
       ELSE Reject

Starts == {"attr-dict", "attr-dict-with-keyword", "operands", "successors", "type",
           "functional-type", "symbol"}

(* What no element starts with, `results' and `dims' among them. *)
Unexpected ==
    /\ stage = "parsing"
    /\ Kind(1) \notin {"literal", "variable"}
    /\ Kind(1) = "keyword" => rest[1].spelling \notin Starts
    /\ ~Is(1, "punctuation", "(")
    /\ ~(group.open /\ group.elements # <<>> /\ Is(1, "punctuation", ")"))
    /\ Kind(1) = "eof" => group.open
    /\ Reject
-----------------------------------------------------------------------------
(***************************************************************************)
(* The checks at the end of FormatParser::parse.                           *)
(*                                                                         *)
(* verifyAttributes: an attribute whose type is printed must not be        *)
(* followed by a colon.  Groups and dictionaries are skipped; what follows *)
(* the group of an attribute is looked at as well as what follows it in    *)
(* the group.                                                              *)
(***************************************************************************)
ColonFirst(es) ==
    \E i \in DOMAIN es :
        /\ es[i].kind = "literal" /\ es[i].literal = ":"
        /\ \A j \in 1 .. i - 1 : es[j].kind \in {"attr-dict", "optional"}

After(es, i) == SubSeq(es, i + 1, Len(es))
PrintsType(e) == e.kind = "attribute" /\ ~VarOf(e).builder

AttributesUnambiguous ==
    \A i \in DOMAIN elements :
        /\ PrintsType(elements[i]) => ~ColonFirst(After(elements, i))
        /\ LET es == Children(elements[i])
           IN \A j \in DOMAIN es :
                 PrintsType(es[j]) => /\ ~ColonFirst(After(elements, i))
                                      /\ ~ColonFirst(After(es, j))

(***************************************************************************)
(* handleSameTypesConstraint: the operand (or result) whose type stands    *)
(* for those that are not in the format, by the names of these.            *)
(***************************************************************************)
First(S) == CHOOSE i \in S : \A j \in S : i <= j

Resolver(includeResults) ==
    IF seen.types["operand"] # {} THEN {Variable("operand", First(seen.types["operand"]))}
    ELSE IF includeResults /\ seen.types["result"] # {}
    THEN {Variable("result", First(seen.types["result"]))}
    ELSE {}

Untyped(s) == {List(s)[i].name : i \in DOMAIN List(s) \ seen.types[s]}

Inferred(n) ==
    (IF "SameTypeOperands" \in decl.traits /\ n \in Untyped("operand")
     THEN Resolver(FALSE) ELSE {})
    \cup
    (IF "SameOperandsAndResultType" \in decl.traits /\ n \in Untyped("operand") \cup Untyped("result")
     THEN Resolver(TRUE) ELSE {})

(***************************************************************************)
(* TypeResolution of the i-th operand or result: its type is parsed,       *)
(* inferred from a variable, built, or cannot be known.                    *)
(***************************************************************************)
Buildable(s, i) ==
    /\ List(s)[i].builder
    /\ ~(List(s)[i].variadic /\ (s = "result" \/ seen.allOperands))

Resolution(s, i) ==
    IF seen.allTypes[s] \/ i \in seen.types[s] THEN "parsed"
    ELSE IF Inferred(List(s)[i].name) # {} THEN "inferred"
    ELSE IF Buildable(s, i) THEN "built"
    ELSE "unknown"

TypesKnown(s) == \A i \in DOMAIN List(s) : Resolution(s, i) # "unknown"

(* Fault: one is enough. *)
Bound_One(k) == seen.vars[k] # {} \/ List(k) = <<>>

(* verifyOperands, verifySuccessors, verifyRegions: all are in the format. *)
Bound(k) == seen.vars[k] = DOMAIN List(k)

(***************************************************************************)
(* A group of one element leaves the `if' of the generated parser empty,   *)
(* which Python does not compile.                                          *)
(***************************************************************************)
Compiles == \A i \in DOMAIN elements : Len(Children(elements[i])) # 1

EndOfFormat ==
    /\ stage = "parsing" /\ Kind(1) = "eof" /\ ~group.open
    /\ stage' = IF /\ seen.attrDict
                   /\ AttributesUnambiguous
                   /\ TypesKnown("result")
                   /\ seen.allOperands \/ Bound("operand")
                   /\ TypesKnown("operand")
                   /\ seen.allSuccessors \/ Bound("successor")
                   /\ Bound("region")
                   /\ Compiles
                THEN "generated" ELSE "rejected"
    /\ UNCHANGED <<decl, rest, elements, group, seen>>

ParseFormat ==
    \/ ParseVariable \/ ParseLiteral \/ ParseAttrDict \/ ParseOperands \/ ParseSuccessors
    \/ ParseType \/ ParseFunctionalType \/ ParseSymbol
    \/ OpenOptional \/ CloseOptional \/ Unexpected \/ EndOfFormat

FormatSpec == Init /\ [][ParseFormat]_fmtVars
-----------------------------------------------------------------------------
(***************************************************************************)
(* The elements of a format are sound: every variable is one of the        *)
(* declaration, of a kind that its place allows.                           *)
(***************************************************************************)
Variables(kinds) == UNION {{Variable(k, i) : i \in DOMAIN List(k)} : k \in kinds}
TypeArguments == Variables(Sides) \cup {Directive("operands"), Directive("results")}

GroupElements ==
    Variables({"attribute", "operand"})
    \cup {Literal(l) : l \in Literals}
    \cup {TypeOf(arg) : arg \in TypeArguments}
    \cup {FunctionalType(ins, outs) : ins \in TypeArguments, outs \in TypeArguments}

PlainElements ==
    GroupElements \cup Variables({"successor", "region"})
    \cup {AttrDict(b) : b \in BOOLEAN}
    \cup {Directive("operands"), Directive("successors")}
    \cup {Symbol(i) : i \in DOMAIN List("attribute")}

Groups == [kind : {"optional"}, elements : Seq(GroupElements), anchor : Nat]

Seen ==
    [vars : [Kinds -> SUBSET Nat], types : [Sides -> SUBSET Nat], allTypes : [Sides -> BOOLEAN],
     allOperands : BOOLEAN, allSuccessors : BOOLEAN, attrDict : BOOLEAN]

FormatOK ==
    /\ decl \in Declarations
    /\ rest \in Seq(Tokens)
    /\ elements \in Seq(PlainElements \cup Groups)
    /\ \A i \in DOMAIN elements : elements[i].kind = "optional" =>
          elements[i].anchor \in DOMAIN elements[i].elements
    /\ group \in [open : BOOLEAN, elements : Seq(GroupElements), anchor : Nat]
    /\ group.anchor \in 0 .. Len(group.elements)
    /\ ~group.open => group = ClosedGroup
    /\ seen \in Seen
    /\ \A k \in Kinds : seen.vars[k] \subseteq DOMAIN List(k)
    /\ \A side \in Sides : seen.types[side] \subseteq DOMAIN List(side)

(***************************************************************************)
(* Where elements are: at the top, in a group, in the open group.          *)
(***************************************************************************)
Positions ==
    {<<i, 0>> : i \in DOMAIN elements}
    \cup (UNION {{<<i, j>> : j \in DOMAIN Children(elements[i])} : i \in DOMAIN elements})
    \cup {<<0, j>> : j \in DOMAIN group.elements}

ElementAt(p) ==
    IF p[2] = 0 THEN elements[p[1]]
    ELSE IF p[1] = 0 THEN group.elements[p[2]]
    ELSE elements[p[1]].elements[p[2]]

InFormat(e) == \E p \in Positions : ElementAt(p) = e

(***************************************************************************)
(* A format binds a variable at most once, inside and outside the optional *)
(* groups, so the parser of an operation fills each list once.             *)
(***************************************************************************)
BoundOnce ==
    \A p, q \in Positions :
        ElementAt(p) \in Variables(Kinds) /\ ElementAt(p) = ElementAt(q) => p = q

(***************************************************************************)
(* An accepted format has every region, every successor and, unless it has *)
(* the types of all operands, every operand.                               *)
(***************************************************************************)
EverythingPrinted ==
    stage = "generated" =>
        /\ \A v \in Variables({"region"}) : InFormat(v)
        /\ InFormat(Directive("successors")) \/ \A v \in Variables({"successor"}) : InFormat(v)
        /\ \/ seen.allTypes["operand"]
           \/ InFormat(Directive("operands"))
           \/ \A v \in Variables({"operand"}) : InFormat(v)
=============================================================================
