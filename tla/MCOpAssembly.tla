---------------------------- MODULE MCOpAssembly ----------------------------
(***************************************************************************)
(* Small declarations, formats and operations for OpAssembly.  A format is *)
(* a sequence of at most three chunks, most of them one element, and       *)
(* attr-dict where the chunks do not vary it; the formats of the stencil,  *)
(* lua and py dialects are added as they are.                              *)
(***************************************************************************)
EXTENDS OpAssembly

MCKeywords == {"as", "to"}

Token(kind, spelling) == <<[kind |-> kind, spelling |-> spelling]>>
V(n) == Token("variable", n)
L(l) == Token("literal", l)
K(d) == Token("keyword", d)
P(c) == Token("punctuation", c)

AnchorAt(n) == V(n) \o P("^")
Dict == K("attr-dict")
KeywordDict == K("attr-dict-with-keyword")
TypeChunk(arg) == K("type") \o P("(") \o arg \o P(")")
FunctionChunk(ins, outs) == K("functional-type") \o P("(") \o ins \o P(",") \o outs \o P(")")
SymbolChunk(n) == K("symbol") \o P("(") \o V(n) \o P(")")
GroupChunk(chunks) == P("(") \o chunks \o P(")") \o P("?")

One(n) == [name |-> n, variadic |-> FALSE, builder |-> FALSE, presence |-> "required"]
Many(n) == [One(n) EXCEPT !.variadic = TRUE]
Built(n) == [One(n) EXCEPT !.builder = TRUE]
Maybe(n) == [One(n) EXCEPT !.presence = "optional"]
Default(n) == [Built(n) EXCEPT !.presence = "default"]

NoLists == [k \in Kinds |-> <<>>]
Decl(lists, traits) == [lists |-> lists, traits |-> traits]

(***************************************************************************)
(* Attributes: of a known type, of an unknown one, optional, a symbol.     *)
(***************************************************************************)
Attrs == Decl([NoLists EXCEPT !["attribute"] = <<One("x"), Maybe("o"), Default("d"), One("s")>>], {})

AttrChunks ==
    {V("x"), V("o"), V("d"), L(":"), L("as"), L("("), SymbolChunk("s"), Dict, KeywordDict,
     GroupChunk(L("[") \o AnchorAt("o") \o L("(")),
     GroupChunk(L(":") \o AnchorAt("o") \o V("d")),
     GroupChunk(L(":") \o AnchorAt("o") \o L("as")),
     GroupChunk(L("=") \o AnchorAt("d"))}

(***************************************************************************)
(* Operands: one and many, with and without what their traits say.         *)
(***************************************************************************)
Ops(traits) == Decl([NoLists EXCEPT !["operand"] = <<One("a"), Many("b")>>], traits)

OpsDecls ==
    {Ops({"SameVariadicOperandSizes"}), Ops({"SameVariadicOperandSizes", "SameTypeOperands"}),
     Ops({"SizedOperandSegments"})}

OpsChunks ==
    {V("a"), V("b"), K("operands"), L(":"), L(","), L("("),
     TypeChunk(V("a")), TypeChunk(V("b")), TypeChunk(K("operands")), FunctionChunk(V("a"), V("b")),
     GroupChunk(L("[") \o AnchorAt("b")),
     GroupChunk(AnchorAt("b") \o L(":") \o TypeChunk(V("b"))),
     GroupChunk(L(",") \o AnchorAt("b") \o L(":") \o TypeChunk(V("b")))}

(* Results, one with the name of an operand, one whose type is inferred.   *)
ResultDecls ==
    {Decl([NoLists EXCEPT !["operand"] = <<One("a"), One("r")>>, !["result"] = <<One("r")>>],
          {"SameTypeOperands"}),
     Decl([NoLists EXCEPT !["operand"] = <<Built("a")>>, !["result"] = <<Many("r"), One("q")>>],
          {"SameOperandsAndResultType"})}

ResultChunks ==
    {V("a"), V("r"), K("operands"), TypeChunk(V("a")), TypeChunk(V("r")), TypeChunk(V("q")),
     TypeChunk(K("results")), FunctionChunk(K("operands"), K("results"))}

Blocks ==
    {Decl([NoLists EXCEPT !["region"] = <<One("f"), One("g")>>, !["attribute"] = <<Maybe("o")>>], {}),
     Decl([NoLists EXCEPT !["successor"] = <<One("f"), Many("g")>>], {})}

BlockChunks ==
    {V("f"), V("g"), V("o"), K("successors"), Dict,
     GroupChunk(L("(") \o AnchorAt("o") \o L("]")), GroupChunk(L("(") \o AnchorAt("o") \o V("f"))}

(***************************************************************************)
(* Formats of the repository: stencil.load, stencil.apply, lua.ret,        *)
(* lua.unpack, py.ret, py.func.                                            *)
(***************************************************************************)
MaybeIndex(n) == [Maybe(n) EXCEPT !.builder = TRUE]
Bounds == <<MaybeIndex("lb"), MaybeIndex("ub")>>
BoundsGroup(to) == GroupChunk(to \o L("(") \o AnchorAt("lb") \o L(":") \o V("ub") \o L(")"))

StencilLoad ==
    Decl([NoLists EXCEPT !["operand"] = <<One("field")>>, !["result"] = <<One("res")>>,
                         !["attribute"] = Bounds], {})
StencilApply ==
    Decl([NoLists EXCEPT !["operand"] = <<Many("operands")>>, !["result"] = <<Many("res")>>,
                         !["attribute"] = Bounds, !["region"] = <<One("region")>>],
         {"SameVariadicOperandSizes", "SameVariadicResultSizes"})
LuaRet ==
    Decl([NoLists EXCEPT !["operand"] = <<Many("vals"), Many("tail")>>], {"SizedOperandSegments"})
LuaUnpack ==
    Decl([NoLists EXCEPT !["operand"] = <<Built("pack")>>, !["result"] = <<Many("vals")>>],
         {"SameVariadicResultSizes"})
PyRet == Decl([NoLists EXCEPT !["operand"] = <<Many("args")>>], {"SameVariadicOperandSizes"})
PyFunc ==
    Decl([NoLists EXCEPT !["attribute"] = <<One("s"), One("sig")>>, !["region"] = <<One("body")>>], {})

DialectFormats ==
    (StencilLoad :>
        V("field") \o BoundsGroup(<<>>) \o KeywordDict \o L(":") \o FunctionChunk(V("field"), V("res")))
    @@ (StencilApply :>
        L("(") \o V("operands") \o L(")") \o L(":") \o FunctionChunk(V("operands"), V("res"))
            \o KeywordDict \o V("region") \o BoundsGroup(L("to")))
    @@ (LuaRet :> L("(") \o K("operands") \o L(")") \o L(":") \o TypeChunk(K("operands")) \o Dict)
    @@ (LuaUnpack :> V("pack") \o L(":") \o FunctionChunk(V("pack"), V("vals")) \o Dict)
    @@ (PyRet :> GroupChunk(AnchorAt("args") \o L(":") \o TypeChunk(V("args"))) \o Dict)
    @@ (PyFunc :> SymbolChunk("s") \o V("sig") \o V("body") \o Dict)

MCDeclarations ==
    {Attrs} \cup OpsDecls \cup ResultDecls \cup Blocks \cup DOMAIN DialectFormats

Sentences(chunks, n) == {FlattenSeq(s) : s \in BoundedSeq(chunks, n)}

MCFormats == [d \in MCDeclarations |->
    CASE d = Attrs -> Sentences(AttrChunks, 3)
      [] d \in OpsDecls -> {f \o Dict : f \in Sentences(OpsChunks, 3)}
      [] d \in ResultDecls -> {f \o Dict : f \in Sentences(ResultChunks, 3)}
      [] d \in Blocks -> Sentences(BlockChunks, 4)
      [] OTHER -> {DialectFormats[d]}]

(***************************************************************************)
(* The operations: up to two values in a variadic group, two types, of     *)
(* which one is what builders make.                                        *)
(***************************************************************************)
Value(s, i, j, t) == <<<<s, i, j, t>>, t>>
TypesFor(named) == IF named.builder THEN {BuiltType} ELSE {"t", BuiltType}

GroupsFor(d, s, i) ==
    {[j \in 1 .. n |-> Value(s, i, j, t)] :
        n \in IF d.lists[s][i].variadic THEN 0 .. 2 ELSE {1}, t \in TypesFor(d.lists[s][i])}

ValuesFor(d, s) ==
    LET choices == [DOMAIN d.lists[s] -> UNION {GroupsFor(d, s, i) : i \in DOMAIN d.lists[s]}]
    IN {f \in choices : \A i \in DOMAIN f : f[i] \in GroupsFor(d, s, i)}

NamesOf(d, presence) == {n.name : n \in {m \in Range(d.lists["attribute"]) : m.presence \in presence}}
IsBuilt(d, name) == \E n \in Range(d.lists["attribute"]) : n.name = name /\ n.builder

AttrsFor(d) ==
    {[n \in NamesOf(d, {"required", "default"}) \cup present |->
        <<n, IF n = "s" THEN NoType ELSE IF IsBuilt(d, n) THEN BuiltType ELSE t>>] :
        present \in SUBSET NamesOf(d, {"optional"}), t \in {NoType, "t"}}

SegmentsOf(d, values) ==
    IF "SizedOperandSegments" \in d.traits
    THEN SegmentSizes :> <<[i \in DOMAIN values |-> Len(values[i])], NoType>>
    ELSE <<>>

TypesIn(o, sides) == {v[2] : v \in UNION {Range(o.values[s][i]) : <<s, i>> \in
                        {<<x, y>> \in sides \X (1 .. 2) : y \in DOMAIN o.values[x]}}}

TraitsHold(d, o) ==
    /\ "SameTypeOperands" \in d.traits => Cardinality(TypesIn(o, {"operand"})) <= 1
    /\ "SameOperandsAndResultType" \in d.traits => Cardinality(TypesIn(o, Sides)) <= 1

MCInstances == [d \in MCDeclarations |->
    {o \in {[values |-> [s \in Sides |-> IF s = "operand" THEN ins ELSE outs],
             attrs |-> SegmentsOf(d, ins) @@ attrs, regions |-> regions] :
                ins \in ValuesFor(d, "operand"), outs \in ValuesFor(d, "result"),
                attrs \in AttrsFor(d),
                regions \in [DOMAIN d.lists["region"] -> {"none", "plain", "arguments"}]} :
        TraitsHold(d, o)}]
=============================================================================
