----------------------------- MODULE TypeFormat -----------------------------
(***************************************************************************)
(* Dynamic types and attributes: building one from parameters              *)
(* (lib/Dynamic/DynamicType.cpp, DynamicAttribute.cpp), printing it and    *)
(* parsing it again, in the generic form or by its assembly format         *)
(* (lib/Embed/TypeFormatGen.cpp, lib/Python/ExposeDialectAsm.cpp).         *)
(***************************************************************************)
EXTENDS FormatUtils, FiniteSets

CONSTANTS
    Definitions,    \* the dmc.Type and dmc.Attr considered
    FormatsOf,      \* for each, the formats considered
    Arguments,      \* lists of parameters that a program may ask for
    Width           \* the integer types, with their number of bits

ASSUME TypeFormatsAssumption == \A d \in Definitions : FormatsOf[d] \subseteq Seq(Tokens)

(***************************************************************************)
(* A parameter value is <<"int", n, type>>, <<"type", t>>, <<"string", s>>, *)
(* <<"array", sequence of values>>, or <<"custom", a>>: an attribute of a  *)
(* dynamic dialect.  A type or an attribute of a dynamic dialect that has  *)
(* no parameters is <<"type", "bare">> or <<"custom", "bare">>.  The       *)
(* constraint of a parameter is the set of the kinds that it accepts.      *)
(***************************************************************************)
ValueKinds == {"int", "type", "string", "array", "custom"}
IntTypes == DOMAIN Width
NoValue == <<"none">>

VARIABLES
    def,        \* what is declared: a type or an attribute, its parameters
                \* (names and accepted kinds), and whether it has a format
    elements,   \* the elements of the format
    bound,      \* FormatParser::seenParameters
    stage,
    params,     \* the parameters of the type or the attribute
    text,       \* what is printed for it: a sequence of lexemes
    read        \* the parameters of what is parsed from the text

vars == <<def, rest, elements, bound, stage, params, text, read>>

Declared == def.params
Parameter(i) == [kind |-> "parameter", var |-> i]
Dims(i) == [kind |-> "dims", var |-> i]
Binders(i) == {n \in DOMAIN elements : elements[n] \in {Parameter(i), Dims(i)}}
-----------------------------------------------------------------------------
Init ==
    /\ def \in Definitions
    /\ rest \in FormatsOf[def]
    /\ stage = IF def.formatted THEN "parsing" ELSE "generated"
    /\ elements = <<>> /\ bound = {}
    /\ params = <<>> /\ text = <<>> /\ read = <<>>

Reject ==
    /\ stage' = "rejected"
    /\ UNCHANGED <<def, rest, elements, bound, params, text, read>>

Add(e, vs, n) ==
    /\ elements' = Append(elements, e)
    /\ bound' = bound \cup vs
    /\ rest' = Drop(n)
    /\ UNCHANGED <<def, stage, params, text, read>>

Least(S) == CHOOSE i \in S : \A j \in S : i <= j
Named(n) == {i \in DOMAIN Declared : Declared[i].name = n}

(* Fault: a parameter can be bound again. *)
Bindable_Again(n) == {i \in Named(n) : i = Least(Named(n))}

(* parseVariable: the first parameter of the name, if it is not bound yet. *)
Bindable(n) == {i \in Named(n) : i = Least(Named(n))} \ bound

ParseLiteral ==
    /\ stage = "parsing" /\ Kind(1) = "literal"
    /\ IF rest[1].spelling \in Literals
       THEN Add(Literal(rest[1].spelling), {}, 1)
       ELSE Reject

ParseVariable ==
    /\ stage = "parsing" /\ Kind(1) = "variable"
    /\ \/ \E i \in Bindable(rest[1].spelling) : Add(Parameter(i), {i}, 1)
       \/ Bindable(rest[1].spelling) = {} /\ Reject

IsDims ==
    /\ Is(1, "keyword", "dims") /\ Is(2, "punctuation", "(")
    /\ Kind(3) = "variable" /\ Is(4, "punctuation", ")")

ParseDims ==
    /\ stage = "parsing" /\ IsDims
    /\ \/ \E i \in Bindable(rest[3].spelling) : Add(Dims(i), {i}, 4)
       \/ Bindable(rest[3].spelling) = {} /\ Reject

Unexpected ==
    /\ stage = "parsing"
    /\ Kind(1) \notin {"literal", "variable", "eof"} /\ ~IsDims
    /\ Reject

(* verifyParameters: all are in the format. *)
EndOfFormat ==
    /\ stage = "parsing" /\ Kind(1) = "eof"
    /\ stage' = IF bound = DOMAIN Declared THEN "generated" ELSE "rejected"
    /\ UNCHANGED <<def, rest, elements, bound, params, text, read>>

(***************************************************************************)
(* getChecked: as many parameters as declared, each of which meets its     *)
(* constraint; otherwise there is no type.                                 *)
(***************************************************************************)
Valid(ps) ==
    /\ Len(ps) = Len(Declared)
    /\ \A i \in DOMAIN Declared : ps[i][1] \in Declared[i].accepts

Built(ps) ==
    /\ stage' = IF Valid(ps) THEN "built" ELSE "invalid"
    /\ params' = IF Valid(ps) THEN ps ELSE <<>>
    /\ UNCHANGED <<def, rest, elements, bound, text, read>>

(* A Python program builds a type by the name of its dialect and its own;   *)
(* no binding builds an attribute, which comes from a text.                 *)
BuildType == stage = "generated" /\ def.sort = "type" /\ \E ps \in Arguments : Built(ps)
BuildAttribute == stage = "generated" /\ def.sort = "attribute" /\ \E ps \in Arguments : Built(ps)
-----------------------------------------------------------------------------
(***************************************************************************)
(* Text.  A lexeme is a pair.  Nothing is printed between two elements, so *)
(* the last lexeme of one and the first of the next can become one; a      *)
(* dimension is printed with the `x' after it, -1 as a question mark.  The *)
(* name of a dialect's own goes on with words and dashes, and what starts  *)
(* with `<' right after it is its body; the name that it has then is taken *)
(* for one that the dialect does not know.                                 *)
(***************************************************************************)
Punct(l) == <<"punctuation", l>>
Word(w) == <<"word", w>>
LiteralLexeme(l) == IF IsWord(l) THEN Word(l) ELSE Punct(l)
Unsigned(n, t) == n % 2 ^ Width[t]
Signed(n) == IF n >= 2 ^ (Width["i64"] - 1) THEN n - 2 ^ Width["i64"] ELSE n

BareName(l) == l[1] \in {"type", "custom"} /\ l[2] = "bare"
StartsWord(l) ==
    \/ l[1] = "word"
    \/ l[1] = "type" /\ ~BareName(l)
    \/ l[1] \in {"int", "dim"} /\ l[2] >= 0
EndsWord(l) == l[1] \in {"word", "type", "junk"} \/ BareName(l)
GoesOn(l) == l[1] = "int" \/ l \in {Punct("<"), Punct("->")}

Merged(l, m) ==
    IF l[1] = "type" /\ l[2] \in IntTypes /\ m[1] = "int" THEN <<"type", "wider">>
    ELSE <<"junk", "">>

Merge(l, m) ==
    \/ EndsWord(l) /\ StartsWord(m)
    \/ BareName(l) /\ GoesOn(m)
    \/ l = Punct(":") /\ m = Punct(":")

Join(s, t) ==
    IF s # <<>> /\ t # <<>> /\ Merge(Last(s), Head(t))
    THEN Front(s) \o <<Merged(Last(s), Head(t))>> \o Tail(t)
    ELSE s \o t

ValueText(a) ==
    IF a[1] = "int" THEN <<<<"int", a[2]>>, Punct(":"), <<"type", a[3]>>>>
    ELSE <<a>>

(* Fault: every negative dimension is taken for an unknown one. *)
DimText_Negative(a) ==
    IF a[1] = "int" THEN <<<<"dim", IF a[2] < 0 THEN -1 ELSE a[2]>>>>
    ELSE Join(ValueText(a), <<Word("x")>>)

(* printDimensionListOrRaw: any list of integers passes for dimensions. *)
DimText(a) ==
    IF a[1] = "int" THEN <<<<"dim", IF a[2] = -1 THEN -1 ELSE Unsigned(a[2], a[3])>>>>
    ELSE Join(ValueText(a), <<Word("x")>>)

DimsText(a) ==
    IF a[1] # "array" THEN ValueText(a)
    ELSE IF a[2] = <<>> THEN <<Word("x")>>
    ELSE Run(LAMBDA s, d : Join(s, DimText(d)), <<>>, a[2])

(* The printer asks for a parameter by its name and gets the first such.   *)
ParameterOf(i) == params[Least(Named(Declared[i].name))]

ElementText(e) ==
    CASE e.kind = "literal" -> <<LiteralLexeme(e.literal)>>
      [] e.kind = "parameter" -> ValueText(ParameterOf(e.var))
      [] e.kind = "dims" -> DimsText(ParameterOf(e.var))

Name == Word("name")

GenericText ==
    IF params = <<>> THEN <<Name>>
    ELSE <<Name, Punct("<")>>
            \o Run(LAMBDA s, a : s \o <<Punct(",")>> \o ValueText(a),
                        ValueText(Head(params)), Tail(params))
            \o <<Punct(">")>>

Printed ==
    IF def.formatted THEN Run(LAMBDA s, e : Join(s, ElementText(e)), <<Name>>, elements)
    ELSE GenericText
-----------------------------------------------------------------------------
(***************************************************************************)
(* Parsing.                                                                *)
(***************************************************************************)
Start == [left |-> Tail(text), status |-> "ok", params |-> [i \in DOMAIN Declared |-> NoValue]]
Stop(q, status) == [q EXCEPT !.status = status]
Skip(q, n) == [q EXCEPT !.left = SubSeq(@, n + 1, Len(@))]
Lexeme(q, n) == IF n \in DOMAIN q.left THEN q.left[n] ELSE <<"end", "">>

(* An integer, a string and an attribute of a dialect take a colon after   *)
(* them for their type, which dynamic attributes refuse to have.           *)
HasColon(q) == Lexeme(q, 1)[1] \in {"int", "string", "custom"} /\ Lexeme(q, 2) = Punct(":")
RefusesType(l) == l[1] = "custom"
ColonOK(q) ==
    /\ Lexeme(q, 3)[1] = "type" /\ ~RefusesType(Lexeme(q, 1))
    /\ Lexeme(q, 1)[1] = "int" => Lexeme(q, 3)[2] \in IntTypes \cup {"wider"}

(* Fault: the values are appended as they are read. *)
Place_AsRead(i) ==
    IF ~def.formatted THEN i
    ELSE Cardinality({j \in DOMAIN Declared :
             \E n \in Binders(i), m \in Binders(j) : m <= n})

(* The values are appended in the order of the declaration.                *)
Place(i) == i

ParseValue(q, i) ==
    LET l == Lexeme(q, 1)
    IN IF l[1] \notin ValueKinds \/ (HasColon(q) /\ ~ColonOK(q)) THEN Stop(q, "failed")
       ELSE IF HasColon(q) THEN [Skip(q, 3) EXCEPT !.params[i] = Append(l, Lexeme(q, 3)[2])]
       ELSE [Skip(q, 1) EXCEPT !.params[i] = IF l[1] = "int" THEN Append(l, "i64") ELSE l]

DimCount(q) == Cardinality({n \in DOMAIN q.left : \A m \in 1 .. n : q.left[m][1] = "dim"})

(***************************************************************************)
(* Dimensions go on as long as integers come, and each must be followed by *)
(* an `x'.                                                                 *)
(***************************************************************************)
ParseDimensions(q, i) ==
    LET n == DimCount(q)
        next == Lexeme(q, n + 1)
    IN IF next[1] = "int" /\ next[2] >= 0 THEN Stop(q, "failed")
       ELSE [Skip(q, n) EXCEPT !.params[i] =
                <<"array", [m \in 1 .. n |-> <<"int", Signed(q.left[m][2]), "i64">>]>>]

ExpectLiteral(q, l) == IF Lexeme(q, 1) = Punct(l) THEN Skip(q, 1) ELSE Stop(q, "failed")

(* parseKeyword is not bound for the parser of a dialect. *)
ParseElement(q, e) ==
    IF q.status # "ok" THEN q
    ELSE CASE e.kind = "parameter" -> ParseValue(q, Place(e.var))
           [] e.kind = "dims" -> ParseDimensions(q, Place(e.var))
           [] e.kind = "literal" /\ IsWord(e.literal) -> Stop(q, "raised")
           [] OTHER -> ExpectLiteral(q, e.literal)

Separator(i) == Literal(IF i = 1 THEN "<" ELSE ",")

(* The generic form: one parameter more than there are commas. *)
GenericElements ==
    IF Lexeme(Start, 1) # Punct("<") THEN <<>>
    ELSE FlattenSeq([i \in 1 .. Cardinality({n \in DOMAIN text : text[n] = Punct(",")}) + 1 |->
                        <<Separator(i), Parameter(i)>>]) \o <<Literal(">")>>

(* The dialect finds a type or an attribute by the word at the beginning.   *)
Recognised == Head(text) = Name

Parsed ==
    IF ~Recognised THEN Stop(Start, "failed")
    ELSE Run(ParseElement, Start, IF def.formatted THEN elements ELSE GenericElements)

Outcome(q) ==
    IF q.status # "ok" THEN q.status
    ELSE IF q.left # <<>> \/ ~Valid(q.params) THEN "failed"
    ELSE "read"

Write ==
    /\ text' = Printed /\ stage' = "printed"
    /\ UNCHANGED <<def, rest, elements, bound, params, read>>

PrintType == stage = "built" /\ def.sort = "type" /\ Write
PrintAttribute == stage = "built" /\ def.sort = "attribute" /\ Write

Reads ==
    /\ \E q \in {Parsed} :
          /\ stage' = Outcome(q)
          /\ read' = IF Outcome(q) = "read" THEN q.params ELSE <<>>
    /\ UNCHANGED <<def, rest, elements, bound, params, text>>

ParseType == stage = "printed" /\ def.sort = "type" /\ Reads
ParseAttribute == stage = "printed" /\ def.sort = "attribute" /\ Reads

Done == stage \in {"rejected", "invalid", "raised", "failed", "read"}
Terminated == Done /\ UNCHANGED vars

Next ==
    \/ ParseLiteral \/ ParseVariable \/ ParseDims \/ Unexpected \/ EndOfFormat
    \/ BuildType \/ PrintType \/ ParseType
    \/ BuildAttribute \/ PrintAttribute \/ ParseAttribute
    \/ Terminated
Spec == Init /\ [][Next]_vars
-----------------------------------------------------------------------------
(***************************************************************************)
(* Seen and bound agree: what has been read of a format binds each of the  *)
(* parameters it has seen exactly once; a type has valid parameters.       *)
(***************************************************************************)
TypeOK ==
    /\ def \in Definitions /\ rest \in Seq(Tokens)
    /\ bound \subseteq DOMAIN Declared
    /\ \A i \in DOMAIN Declared : Cardinality(Binders(i)) = IF i \in bound THEN 1 ELSE 0
    /\ \A n \in DOMAIN elements :
          \/ elements[n] \in {Literal(l) : l \in Literals}
          \/ \E i \in bound : n \in Binders(i)
    /\ stage \in {"built", "printed", "read"} => Valid(params)

Tried == stage \in {"raised", "failed", "read"}

(***************************************************************************)
(* What can be printed as a list of dimensions: 64-bit integers, and at    *)
(* least one, since no dimension at all is printed as `x'.                 *)
(***************************************************************************)
Dimensions(a) == a[1] = "array" /\ \A n \in DOMAIN a[2] : a[2][n][1] = "int" /\ a[2][n][3] = "i64"
DimsElements == {e \in Range(elements) : e.kind = "dims"}
DimsAreDimensions == \A e \in DimsElements : Dimensions(params[e.var])

(* Dimensions followed by dimensions are one list. *)
DimsApart ==
    \A n \in 1 .. Len(elements) - 1 :
        ~(elements[n].kind = "dims" /\ elements[n + 1].kind = "dims")

Accepts(e, kinds) == e.kind = "parameter" /\ Declared[e.var].accepts \cap kinds # {}
WordFirst(e) == e.kind = "dims" \/ Accepts(e, {"int", "type"})

(* Two elements, the name among them, with nothing between their words.    *)
Apart ==
    /\ elements # <<>> => ~WordFirst(elements[1])
    /\ \A n \in 1 .. Len(elements) - 1 :
          LET e == elements[n]
              f == elements[n + 1]
          IN /\ ~(Accepts(e, {"int", "type", "custom"}) /\ WordFirst(f))
             /\ f \in {Literal("<"), Literal("->")} => ~Accepts(e, {"type", "custom"})
             /\ ~(e.kind = "dims" /\ Accepts(f, {"int"}))
             /\ f = Literal(":") => e # Literal(":") /\ ~Accepts(e, {"string", "custom"})

Supported == \A n \in DOMAIN elements : elements[n].kind = "literal" => ~IsWord(elements[n].literal)

Clear ==
    /\ Apart /\ DimsApart /\ Supported
    /\ DimsAreDimensions /\ \A e \in DimsElements : params[e.var][2] # <<>>

(***************************************************************************)
(* Where no two words can run together, a type reads back as it was, with  *)
(* its parameters in the order of the declaration whatever the order of    *)
(* the format, negative and unknown dimensions included; and always in the *)
(* generic form.                                                           *)
(***************************************************************************)
ClearTypesReadBack == Tried /\ (~def.formatted \/ Clear) => stage = "read" /\ read = params

(***************************************************************************)
(* However ambiguous the format, a text that is accepted is never another  *)
(* type, but for lists under `dims' that are not of 64-bit integers or     *)
(* that follow one another.                                                *)
(***************************************************************************)
NothingMisread == stage = "read" /\ DimsAreDimensions /\ DimsApart => read = params

=============================================================================
