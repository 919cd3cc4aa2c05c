----------------------------- MODULE OpAssembly -----------------------------
(***************************************************************************)
(* What an assembly format is turned into: OperationFormat::genPrinter and *)
(* genParser (lib/Embed/OpFormatGen.cpp) write a Python printer and a      *)
(* Python parser, which execPrinter and execParser (ParserPrinter.cpp) run *)
(* on the operations of a program through the bindings of                  *)
(* lib/Python/ExposeOpAsm.cpp and OpAsm.cpp.  An operation is printed and  *)
(* its text is parsed again.                                               *)
(***************************************************************************)
EXTENDS OpFormat, SequencesExt

CONSTANTS
    Instances,      \* for each declaration, the valid operations considered
    BuiltType       \* the type that a builder makes

VARIABLES
    op,         \* the operation being printed
    text,       \* what has been printed: a sequence of tokens
    read        \* the operation made from the text

vars == <<fmtVars, op, text, read>>

(***************************************************************************)
(* An operation: its values, group by group, as pairs <<name, type>>; its  *)
(* attributes as pairs <<value, type>>; its regions.                       *)
(***************************************************************************)
NoType == "none"
NoOp == [values |-> [s \in Sides |-> <<>>], attrs |-> <<>>, regions |-> <<>>]

TypesOf(values) == [i \in DOMAIN values |-> values[i][2]]
AllOf(s) == FlattenSeq(op.values[s])

Sized == "SizedOperandSegments" \in decl.traits
SegmentSizes == "operand_segment_sizes"

AllElements == UNION {{elements[i]} \cup Range(Children(elements[i])) : i \in DOMAIN elements}

Has(kind) == \E i \in DOMAIN elements : elements[i].kind = kind
-----------------------------------------------------------------------------
(***************************************************************************)
(* Text.  A token is a pair <<kind, what>>; `glue' stands between two      *)
(* words printed without a space.                                          *)
(***************************************************************************)
Opening == {"<", "(", "["}
Punct(l) == <<"punctuation", l>>
LiteralToken(l) == IF IsWord(l) THEN <<"word", l>> ELSE Punct(l)
WordLike(token) == token[1] \in {"word", "value", "type", "attr", "symbol", "null"}

Commas(kind, s) ==
    [k \in 1 .. (IF s = <<>> THEN 0 ELSE 2 * Len(s) - 1) |->
        IF k % 2 = 0 THEN Punct(",") ELSE <<kind, s[(k + 1) \div 2]>>]

Types(arg) ==
    CASE arg.kind \in Sides -> TypesOf(op.values[arg.kind][arg.var])
      [] arg.kind = "operands" -> TypesOf(AllOf("operand"))
      [] arg.kind = "results" -> TypesOf(AllOf("result"))

AttrName(i) == List("attribute")[i].name
HasAttr(i) == AttrName(i) \in DOMAIN op.attrs

(* Fault: no attribute is printed with its type. *)
AttributeText_Bare(i) ==
    IF ~HasAttr(i) THEN <<<<"null", "">>>> ELSE <<<<"attr", op.attrs[AttrName(i)][1]>>>>

(* A missing attribute is printed as a null one. *)
AttributeText(i) ==
    IF ~HasAttr(i) THEN <<<<"null", "">>>>
    ELSE LET a == op.attrs[AttrName(i)]
         IN IF List("attribute")[i].builder \/ a[2] = NoType THEN <<<<"attr", a[1]>>>>
            ELSE <<<<"attr", a[1]>>, Punct(":"), <<"type", a[2]>>>>

(* "none": no block, "plain": no arguments. *)
RegionText(r) ==
    CASE r = "none" -> <<<<"body", r>>>>
      [] r = "plain" -> <<Punct("("), Punct(")"), <<"body", r>>>>
      [] OTHER -> <<Punct("("), <<"arguments", r>>, Punct(")"), <<"body", r>>>>

(* The attributes that genAttrDictPrinter leaves to the other elements. *)
Elided ==
    {AttrName(e.var) : e \in {x \in AllElements : x.kind \in {"attribute", "symbol"}}}
    \cup (IF Sized /\ ~Has("operands") THEN {SegmentSizes} ELSE {})

DictText(withKeyword) ==
    LET shown == DOMAIN op.attrs \ Elided
    IN IF shown = {} THEN <<>>
       ELSE (IF withKeyword THEN <<<<"word", "attributes">>>> ELSE <<>>)
            \o <<<<"dict", Restrict(op.attrs, shown)>>>>

ElementText(e) ==
    CASE e.kind = "literal" -> <<LiteralToken(e.literal)>>
      [] e.kind = "attribute" -> AttributeText(e.var)
      [] e.kind = "operand" -> Commas("value", op.values["operand"][e.var])
      [] e.kind = "operands" -> Commas("value", AllOf("operand"))
      [] e.kind = "region" -> RegionText(op.regions[e.var])
      [] e.kind = "type" -> Commas("type", Types(e.arg))
      [] e.kind = "functional-type" ->
            <<<<"functype", <<Types(e.inputs), Types(e.results)>>>>>>
      [] e.kind = "symbol" -> <<<<"symbol", op.attrs[AttrName(e.var)][1]>>>>
      [] e.kind = "attr-dict" -> DictText(e.withKeyword)

(***************************************************************************)
(* genElementPrinter.  The two flags are those of the generator: they      *)
(* follow the format, also through a group that is not printed.  `shown'   *)
(* is whether the generated code runs.                                     *)
(***************************************************************************)
Spaced(e, p) ==
    CASE e.kind = "literal" ->
            /\ p.space
            /\ e.literal \notin {">", ")", "]", ","}
            /\ e.literal \in Opening => p.punct
      [] e.kind = "attr-dict" -> TRUE
      [] OTHER -> p.space \/ ~p.punct

Write(out, spaced, tokens) ==
    IF tokens = <<>> THEN out
    ELSE IF ~spaced /\ WordLike(out[Len(out)]) /\ WordLike(tokens[1])
    THEN out \o <<<<"glue", "">>>> \o tokens
    ELSE out \o tokens

PrintElement(p, e, shown) ==
    [out |-> IF shown THEN Write(p.out, Spaced(e, p), ElementText(e)) ELSE p.out,
     space |-> CASE e.kind = "literal" -> e.literal \notin Opening
                 [] e.kind = "attr-dict" -> p.space
                 [] OTHER -> TRUE,
     punct |-> e.kind = "literal" /\ ~IsWord(e.literal)]

GroupShown(e) ==
    LET anchor == e.elements[e.anchor]
    IN IF anchor.kind = "operand" THEN op.values["operand"][anchor.var] # <<>>
       ELSE HasAttr(anchor.var)

PrintTopLevel(p, e) ==
    IF e.kind = "optional"
    THEN Run(LAMBDA q, c : PrintElement(q, c, GroupShown(e)), p, e.elements)
    ELSE PrintElement(p, e, TRUE)

(* The operation's name comes first. *)
Printed == Run(PrintTopLevel, [out |-> <<<<"word", "name">>>>, space |-> TRUE, punct |-> FALSE],
                    elements).out

(***************************************************************************)
(* Nothing prints successors: printSuccessors, getSuccessor and            *)
(* getSuccessors are not bound.  A symbol needs a string.                  *)
(***************************************************************************)
CannotPrint ==
    \E i \in DOMAIN elements :
        \/ elements[i].kind \in {"successor", "successors"}
        \/ /\ elements[i].kind = "symbol"
           /\ ~(HasAttr(elements[i].var) /\ op.attrs[AttrName(elements[i].var)][2] = NoType)
-----------------------------------------------------------------------------
(***************************************************************************)
(* Parsing.  The state of a generated parser: the tokens left, the lists   *)
(* it fills and whether it goes on.  A false result of a binding ends it   *)
(* with a failure; a name that Python does not find raises.                *)
(***************************************************************************)
TypeLists == UNION {TypeArgs(e) : e \in AllElements}

Start ==
    [left |-> Tail(text), status |-> "ok",
     operands |-> [i \in DOMAIN List("operand") |-> <<>>], all |-> <<>>,
     types |-> [arg \in TypeLists |-> <<>>],
     attrs |-> <<>>, regions |-> <<>>]

Stop(q, status) == [q EXCEPT !.status = status]
Skip(q, n) == [q EXCEPT !.left = SubSeq(@, n + 1, Len(@))]
At(q, n, token) == n \in DOMAIN q.left /\ q.left[n] = token
AtKind(q, kind) == q.left # <<>> /\ q.left[1][1] = kind
Has1(q, n, kind) == n \in DOMAIN q.left /\ q.left[n][1] = kind

(* parseOperandList accepts no operand, parseTypeList wants a type. *)
ListLength(q, kind) ==
    Cardinality({k \in DOMAIN q.left : \A j \in 1 .. k :
        /\ Has1(q, 2 * j - 1, kind)
        /\ j > 1 => At(q, 2 * j - 2, Punct(","))})

ListItems(q, kind) == [k \in 1 .. ListLength(q, kind) |-> q.left[2 * k - 1][2]]
ListEnds(q, kind) == ListLength(q, kind) > 0 => ~At(q, 2 * ListLength(q, kind), Punct(","))
AfterList(q, kind) == Skip(q, IF ListLength(q, kind) = 0 THEN 0 ELSE 2 * ListLength(q, kind) - 1)

ParseOperand(q, i) ==
    IF List("operand")[i].variadic
    THEN IF ListEnds(q, "value")
         THEN [AfterList(q, "value") EXCEPT !.operands[i] = ListItems(q, "value")]
         ELSE Stop(q, "failed")
    ELSE IF AtKind(q, "value")
         THEN [Skip(q, 1) EXCEPT !.operands[i] = <<q.left[1][2]>>]
         ELSE Stop(q, "failed")

ParseAllOperands(q) ==
    IF ListEnds(q, "value")
    THEN [AfterList(q, "value") EXCEPT !.all = ListItems(q, "value")]
    ELSE Stop(q, "failed")

IsTypeList(arg) == arg.kind \in Sides => VarOf(arg).variadic

ParseTypes(q, arg) ==
    IF IsTypeList(arg)
    THEN IF ListLength(q, "type") > 0 /\ ListEnds(q, "type")
         THEN [AfterList(q, "type") EXCEPT !.types[arg] = ListItems(q, "type")]
         ELSE Stop(q, "failed")
    ELSE IF AtKind(q, "type")
         THEN [Skip(q, 1) EXCEPT !.types[arg] = <<q.left[1][2]>>]
         ELSE Stop(q, "failed")

ParseFunctionType(q, e) ==
    IF AtKind(q, "functype")
    THEN [Skip(q, 1) EXCEPT !.types[e.inputs] = q.left[1][2][1],
                            !.types[e.results] = q.left[1][2][2]]
    ELSE Stop(q, "failed")

(* An attribute whose type is not known takes a colon for its own. *)
ParseAttribute(q, i) ==
    IF ~AtKind(q, "attr") THEN Stop(q, "failed")
    ELSE IF List("attribute")[i].builder
    THEN [Skip(q, 1) EXCEPT !.attrs = (AttrName(i) :> <<q.left[1][2], BuiltType>>) @@ @]
    ELSE IF ~At(q, 2, Punct(":"))
    THEN [Skip(q, 1) EXCEPT !.attrs = (AttrName(i) :> <<q.left[1][2], NoType>>) @@ @]
    ELSE IF Has1(q, 3, "type")
    THEN [Skip(q, 3) EXCEPT !.attrs = (AttrName(i) :> <<q.left[1][2], q.left[3][2]>>) @@ @]
    ELSE Stop(q, "failed")

ParseSymbolName(q, i) ==
    IF AtKind(q, "symbol")
    THEN [Skip(q, 1) EXCEPT !.attrs = (AttrName(i) :> <<q.left[1][2], NoType>>) @@ @]
    ELSE Stop(q, "failed")

(* The braces of a region without blocks are those of no attributes. *)
ParseDict(q) ==
    IF AtKind(q, "dict") THEN [Skip(q, 1) EXCEPT !.attrs = q.left[1][2] @@ @]
    ELSE IF At(q, 1, <<"body", "none">>) THEN Skip(q, 1)
    ELSE IF AtKind(q, "body") THEN Stop(q, "failed")
    ELSE q

ParseOptionalAttrDict(q, withKeyword) ==
    IF ~withKeyword THEN ParseDict(q)
    ELSE IF At(q, 1, <<"word", "attributes">>) THEN ParseDict(Skip(q, 1))
    ELSE q

(* parseRegionWithArguments: without arguments the parentheses may lack. *)
ParseRegion(q) ==
    LET forms == {RegionText(r) : r \in {"none", "plain", "arguments"}}
                    \cup {<<<<"body", "plain">>>>}
        found == {f \in forms : IsPrefix(f, q.left)}
    IN IF found = {} THEN Stop(q, "failed")
       ELSE LET f == CHOOSE f \in found : TRUE
            IN [Skip(q, Len(f)) EXCEPT !.regions = Append(@, f[Len(f)][2])]

ParseElement(q, e) ==
    IF q.status # "ok" THEN q
    ELSE CASE e.kind = "literal" ->
                IF At(q, 1, LiteralToken(e.literal)) THEN Skip(q, 1) ELSE Stop(q, "failed")
           [] e.kind = "attribute" -> ParseAttribute(q, e.var)
           [] e.kind = "operand" -> ParseOperand(q, e.var)
           [] e.kind = "operands" -> ParseAllOperands(q)
           [] e.kind = "region" -> ParseRegion(q)
           [] e.kind = "type" -> ParseTypes(q, e.arg)
           [] e.kind = "functional-type" -> ParseFunctionType(q, e)
           [] e.kind = "symbol" -> ParseSymbolName(q, e.var)
           [] e.kind = "attr-dict" -> ParseOptionalAttrDict(q, e.withKeyword)
           [] OTHER -> Stop(q, "raised")

(* Fault: what gated the group is parsed once more. *)
ParseGroup_GateTwice(q, e) ==
    LET first == e.elements[1]
    IN IF first.kind = "operand" THEN q
       ELSE IF first.literal = "=" THEN Stop(q, "raised")
       ELSE IF At(q, 1, LiteralToken(first.literal))
       THEN Run(ParseElement, Skip(q, 1), e.elements)
       ELSE q

(***************************************************************************)
(* The first element of a group decides whether the rest is parsed.  An    *)
(* operand decides by its own list, which nothing has filled.  There is no *)
(* parseOptionalEqual.                                                     *)
(***************************************************************************)
ParseGroup(q, e) ==
    LET first == e.elements[1]
    IN IF first.kind = "operand" THEN q
       ELSE IF first.literal = "=" THEN Stop(q, "raised")
       ELSE IF At(q, 1, LiteralToken(first.literal))
       THEN Run(ParseElement, Skip(q, 1), Tail(e.elements))
       ELSE q

ParseTopLevel(q, e) ==
    IF e.kind = "optional" /\ q.status = "ok" THEN ParseGroup(q, e) ELSE ParseElement(q, e)

(***************************************************************************)
(* genParserTypeResolution: the types of each result and operand, then     *)
(* what resolveOperands does with them.                                    *)
(***************************************************************************)
ResolvedTypes(q, s, i) ==
    CASE Resolution(s, i) = "parsed" -> q.types[Variable(s, i)]
      [] Resolution(s, i) = "inferred" ->
            q.types[CHOOSE v \in Inferred(List(s)[i].name) : TRUE]
      [] Resolution(s, i) = "built" -> <<BuiltType>>

AllTypes(q, s) ==
    IF seen.allTypes[s] THEN q.types[Directive(IF s = "operand" THEN "operands" ELSE "results")]
    ELSE FlattenSeq([i \in DOMAIN List(s) |-> ResolvedTypes(q, s, i)])

Resolves(q) ==
    \/ List("operand") = <<>>
    \/ Has("operands") /\ TypesOf(q.all) = AllTypes(q, "operand")
    \/ ~Has("operands") /\ \A i \in DOMAIN List("operand") :
          TypesOf(q.operands[i]) = ResolvedTypes(q, "operand", i)

(* parseOperation: the defaults of the attributes that were not there. *)
Defaults(q) ==
    LET missing == {i \in DOMAIN List("attribute") :
                      /\ List("attribute")[i].presence = "default"
                      /\ AttrName(i) \notin DOMAIN q.attrs}
    IN [n \in {AttrName(i) : i \in missing} |-> <<"default", BuiltType>>]

Operands(q) ==
    IF List("operand") = <<>> THEN <<>>
    ELSE IF Has("operands") THEN q.all ELSE FlattenSeq(q.operands)

Made(q) ==
    [operands |-> Operands(q), results |-> AllTypes(q, "result"),
     attrs |-> Defaults(q) @@ q.attrs, regions |-> q.regions]

Original ==
    [operands |-> AllOf("operand"), results |-> TypesOf(AllOf("result")),
     attrs |-> op.attrs, regions |-> op.regions]

(* The names bound to the results were printed before the operation. *)
NamesBind(q) ==
    AllOf("result") # <<>> => Len(AllTypes(q, "result")) = Len(AllOf("result"))

(***************************************************************************)
(* Neither parser.getNameLoc, asked for when the types of all operands are *)
(* together and the operands are not, nor result.addAttribute is bound.    *)
(***************************************************************************)
TypesTogetherOnly == List("operand") # <<>> /\ seen.allTypes["operand"] /\ ~Has("operands")

Outcome(q) ==
    IF q.status # "ok" THEN q.status
    ELSE IF TypesTogetherOnly THEN "raised"
    ELSE IF ~Resolves(q) THEN "failed"
    ELSE IF Sized /\ ~Has("operands") THEN "raised"
    ELSE IF q.left # <<>> \/ ~NamesBind(q) THEN "failed"
    ELSE "read"
-----------------------------------------------------------------------------
AssemblyInit ==
    /\ Init
    /\ op = NoOp /\ text = <<>> /\ read = NoOp

GenerateFormat == ParseFormat /\ UNCHANGED <<op, text, read>>

PrintOp ==
    /\ stage = "generated"
    /\ UNCHANGED <<decl, rest, elements, group, seen, read>>
    /\ op' \in Instances[decl]
    /\ IF CannotPrint'
       THEN stage' = "raised" /\ UNCHANGED text
       ELSE stage' = "printed" /\ text' = Printed'

ParseOp ==
    /\ stage = "printed"
    /\ \E q \in {Run(ParseTopLevel, Start, elements)} :
          /\ stage' = Outcome(q)
          /\ read' = IF Outcome(q) = "read" THEN Made(q) ELSE NoOp
    /\ UNCHANGED <<decl, rest, elements, group, seen, op, text>>

Done == stage \in {"rejected", "raised", "failed", "read"}
Terminated == Done /\ UNCHANGED vars

Next == GenerateFormat \/ PrintOp \/ ParseOp \/ Terminated
Spec == AssemblyInit /\ [][Next]_vars
-----------------------------------------------------------------------------
(***************************************************************************)
(* What the text of an element can begin with, and whether it can be       *)
(* empty.  A word or punctuation is itself, another token its kind.        *)
(***************************************************************************)
OfKind(kind) == <<kind, "any">>

FirstTokens(e) ==
    CASE e.kind = "literal" -> {LiteralToken(e.literal)}
      [] e.kind = "attribute" -> {OfKind("attr")}
      [] e.kind \in {"operand", "operands"} -> {OfKind("value")}
      [] e.kind = "region" -> {OfKind("body"), Punct("(")}
      [] e.kind = "type" -> {OfKind("type")}
      [] e.kind = "attr-dict" -> {IF e.withKeyword THEN <<"word", "attributes">> ELSE OfKind("dict")}
      [] OTHER -> {OfKind(e.kind)}

MayBeEmpty(e) ==
    CASE e.kind = "operand" -> VarOf(e).variadic
      [] e.kind = "operands" -> \A i \in DOMAIN List("operand") : List("operand")[i].variadic
      [] OTHER -> e.kind = "attr-dict"

Begins(e) == IF e.kind = "optional" THEN FirstTokens(e.elements[1]) ELSE FirstTokens(e)
Skippable(e) == e.kind = "optional" \/ MayBeEmpty(e)

(* What can follow the i-th of the elements es, before what follows them.  *)
Follow(es, i, follow) ==
    UNION {Begins(es[j]) : j \in {k \in DOMAIN es : k > i /\ \A l \in i + 1 .. k - 1 : Skippable(es[l])}}
    \cup (IF \A l \in i + 1 .. Len(es) : Skippable(es[l]) THEN follow ELSE {})

(* One token is enough to see where the element e ends. *)
Ends(e, follow) ==
    /\ e.kind \in {"operand", "operands", "type"} => Punct(",") \notin follow
    /\ e.kind \in {"operand", "operands"} /\ MayBeEmpty(e) => OfKind("value") \notin follow
    /\ PrintsType(e) => Punct(":") \notin follow
    /\ e.kind = "attr-dict" =>
          (IF e.withKeyword THEN <<"word", "attributes">> ELSE OfKind("body")) \notin follow
    /\ e.kind = "optional" =>
          /\ Begins(e) \cap follow = {}
          /\ e.elements[Len(e.elements)].kind = "literal" =>
                e.elements[Len(e.elements)].literal \notin Opening

EndsSeen ==
    \A i \in DOMAIN elements :
        LET follow == Follow(elements, i, {})
            es == Children(elements[i])
        IN /\ Ends(elements[i], follow)
           /\ \A j \in DOMAIN es : Ends(es[j], Follow(es, j, follow))

(* Everything in a group is there when its anchor is. *)
GroupsWhole ==
    \A e \in AllElements : e.kind = "optional" =>
        /\ \A j \in DOMAIN e.elements : e.elements[j].kind \in Kinds => j = e.anchor
        /\ e.elements[1] # Literal("=")

LiteralGates ==
    \A e \in AllElements : e.kind = "optional" => e.elements[1].kind = "literal"

(* Nothing outside a group can be missing. *)
AllPresent ==
    \A i \in DOMAIN elements :
        LET e == elements[i]
        IN /\ e.kind \in {"attribute", "symbol"} =>
                 List("attribute")[e.var].presence # "optional"
           /\ e.kind = "type" =>
                 CASE e.arg.kind \in Sides -> ~VarOf(e.arg).variadic
                   [] e.arg.kind = "operands" -> \E j \in DOMAIN List("operand") : ~List("operand")[j].variadic
                   [] OTHER -> \E j \in DOMAIN List("result") : ~List("result")[j].variadic

(* A type is inferred for one value, from one value of its own side or,    *)
(* where the trait is about both, of the other.                            *)
OneInferred ==
    \A s \in Sides : \A i \in DOMAIN List(s) :
        Resolution(s, i) = "inferred" =>
            /\ ~List(s)[i].variadic
            /\ \A v \in Inferred(List(s)[i].name) : ~VarOf(v).variadic

NamesDiffer ==
    \A i \in DOMAIN List("operand"), j \in DOMAIN List("result") :
        List("operand")[i].name # List("result")[j].name

RegionsInOrder ==
    \A i, j \in DOMAIN elements :
        /\ elements[i].kind = "region" /\ elements[j].kind = "region" /\ i < j
        => elements[i].var < elements[j].var

Supported ==
    /\ ~Has("successor") /\ ~Has("successors")
    /\ Sized \/ seen.allTypes["operand"] => Has("operands") \/ List("operand") = <<>>

Plain ==
    /\ EndsSeen /\ GroupsWhole /\ AllPresent /\ OneInferred
    /\ NamesDiffer /\ RegionsInOrder /\ Supported

Tried == stage \in {"raised", "failed", "read"}

(***************************************************************************)
(* Where one token tells where an element ends, what is printed cannot be  *)
(* missing and only what the bindings support is used, every operation is  *)
(* read back as it was: nothing raises, nothing is refused, nothing is     *)
(* lost, whatever spaces and groups come between.                          *)
(***************************************************************************)
ClearFormatsReadBack ==
    Tried /\ Plain /\ LiteralGates => stage = "read" /\ read = Original

(***************************************************************************)
(* A text that is accepted gives the operation it was printed from, unless *)
(* the regions are printed in another order than they are declared, a      *)
(* group that is left out had more than its anchor, or an operand and a    *)
(* result share a name.                                                    *)
(***************************************************************************)
LostInGroup ==
    \E e \in AllElements : e.kind = "optional" /\ ~GroupShown(e) /\
        \E c \in Range(e.elements) :
            \/ c.kind = "attribute" /\ HasAttr(c.var)
            \/ c.kind = "operand" /\ op.values["operand"][c.var] # <<>>

NothingMisread ==
    stage = "read" /\ RegionsInOrder /\ ~LostInGroup /\ NamesDiffer => read = Original

(***************************************************************************)
(* "Generate a special optional parser for the first element to gate the   *)
(* parsing of the rest of the elements": a group is read back also when    *)
(* its first element is an operand.  It is not (see the README).           *)
(***************************************************************************)
OperandsGateGroups == Tried /\ Plain => stage = "read"
=============================================================================
