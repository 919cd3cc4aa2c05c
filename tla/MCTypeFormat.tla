---------------------------- MODULE MCTypeFormat ----------------------------
(***************************************************************************)
(* Types and attributes of one and two parameters, every format of up to   *)
(* four chunks over them, and that of stencil.field and stencil.temp.      *)
(***************************************************************************)
EXTENDS TypeFormat

MCKeywords == {"as"}
MCWidth == ("i64" :> 3) @@ ("i32" :> 2)

Token(kind, spelling) == <<[kind |-> kind, spelling |-> spelling]>>
V(n) == Token("variable", n)
L(l) == Token("literal", l)
D(n) == Token("keyword", "dims") \o Token("punctuation", "(") \o V(n) \o Token("punctuation", ")")

P(n, kinds) == [name |-> n, accepts |-> kinds]

Definition(sort, ps, formatted) == [sort |-> sort, params |-> ps, formatted |-> formatted]

Field == Definition("type", <<P("shape", {"array"}), P("type", {"type"})>>, TRUE)
FieldFormat == L("<") \o D("shape") \o V("type") \o L(">")

Sorts == {"type", "attribute"}
One == {Definition(s, <<P("a", ValueKinds)>>, TRUE) : s \in Sorts}
Two == {Definition("type", <<P("a", {"array"}), P("b", ValueKinds)>>, TRUE),
        Definition("attribute", <<P("a", {"string", "custom"}), P("b", {"array", "int"})>>, TRUE)}
Twice == {Definition("attribute", <<P("a", ValueKinds), P("a", {"int"})>>, formatted) : formatted \in BOOLEAN}
Bare == {Definition(s, ps, FALSE) : s \in Sorts, ps \in {<<>>, <<P("c", ValueKinds), P("d", ValueKinds)>>}}

MCDefinitions == One \cup Two \cup Twice \cup Bare \cup {Field}

Chunks(names) ==
    {V(n) : n \in names} \cup {D(n) : n \in names}
    \cup {L(l) : l \in {"<", ">", ":", "->", "as"}} \cup {Token("punctuation", "^")}

Sentences(chunks, n) == {FlattenSeq(s) : s \in BoundedSeq(chunks, n)}

MCFormatsOf == [d \in MCDefinitions |->
    CASE ~d.formatted -> {<<>>}
      [] d \in Twice /\ d.formatted -> Sentences(Chunks({"a"}), 3)
      [] d \in One -> Sentences(Chunks({"a", "c"}), 4)
      [] d \in Two -> Sentences(Chunks({"a", "b"}), 4)
      [] d = Field -> {FieldFormat}]

Number(n, t) == <<"int", n, t>>
Ints == {Number(1, "i64"), Number(-2, "i64"), Number(-2, "i32")}
Arrays == {<<>>, <<Number(1, "i64")>>, <<Number(-1, "i64"), Number(0, "i64")>>, <<Number(-2, "i64")>>,
           <<Number(-2, "i32")>>, <<<<"type", "f64">>>>}
MCValues ==
    Ints \cup {<<"type", "i64">>, <<"type", "f64">>, <<"type", "bare">>, <<"string", "s">>}
    \cup {<<"custom", "bare">>, <<"custom", "full">>}
    \cup {<<"array", s>> : s \in Arrays}

MCArguments == BoundedSeq(MCValues, 2)
=============================================================================
