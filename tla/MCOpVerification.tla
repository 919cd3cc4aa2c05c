-------------------------- MODULE MCOpVerification --------------------------
(***************************************************************************)
(* Small declarations and operations for OpVerification.  The declarations *)
(* vary the operands with every kind of user trait, or the regions, or two *)
(* parts at once; an operation varies the same parts.                      *)
(***************************************************************************)
EXTENDS OpVerification, SequencesExt

CONSTANTS a, b

MCSorts == {a, b}

Free == AnyOf({Type(a), Predicate({b})})
One == AllOf({Type(a)})
Many == Variadic(Predicate({a}))

(* Constraints within constraints. *)
Nested ==
    {AllOf({Predicate({a, b}), Predicate({a})}), AllOf({Type(a), Predicate({a, b})}),
     AllOf({Free}), AnyOf({AllOf({Type(a)}), Type(b)}), AnyOf({AllOf({Free, One}), One}),
     Variadic(AllOf({Predicate({a, b}), Type(b)})), Variadic(Type(b)), Variadic(Free)}

(* Names, and the argument of those that take one. *)
Given(name, kind, n) == [name |-> name, params |-> <<[kind |-> kind, value |-> n]>>]
User(name) == [name |-> name, params |-> <<>>]
UserN(name, n) == Given(name, "integer", n)

SideTraits(s) ==
    {<<>>, <<User(SameSizes(s))>>, <<User(Segments(s))>>,
     <<User(SameSizes(s)), User(Segments(s))>>,
     <<User(SameSizes(s)), Given(Other, "string", 0), User(SameSizes(s))>>,
     <<User(Unknown), User(SameSizes(s))>>,
     <<UserN(AtLeastN(s), 0), User(SameSizes(s))>>,
     <<User(SameSizes(s)), UserN(AtLeastN(s), 2)>>,
     <<User(Segments(s)), UserN(AtLeastN(s), UintMod + 1)>>,
     <<UserN(N(s), 2)>>, <<User(Segments(s)), UserN(N(s), 2)>>,
     <<User(Segments(s)), User(AtLeastN(s))>>,
     <<User(Segments(s)), Given(AtLeastN(s), "string", 0)>>}

BlockTraits(p) ==
    {<<>>, <<User(IsTerminator)>>,
     <<User(IsTerminator), UserN(AtLeastN(p), 0)>>,
     <<User(IsTerminator), UserN(N(p), 1)>>}

Bare(p, list) == [q \in Parts |-> IF q = p THEN list ELSE <<>>]

Single(p, list, traitList) == [lists |-> Bare(p, list), traits |-> traitList]

SideDecls(s, n) ==
    {Single(s, list, ts) : list \in BoundedSeq({Free, One, Many}, n), ts \in SideTraits(s)}
BlockDecls(p) ==
    {Single(p, list, ts) : list \in BoundedSeq({Free, One, Many}, 2), ts \in BlockTraits(p)}

(* lua.call and the terminators of lua.mlir: operands and results, or      *)
(* operands and successors.                                                *)
MixedDecls ==
    {[lists |-> [Bare("operand", <<Free, Many>>) EXCEPT ![p] = <<Many>>],
      traits |-> <<User(IsTerminator), User(SameSizes("operand")), User(Segments("result"))>>] :
        p \in {"result", "successor"}}

MCDeclarations ==
    SideDecls("operand", 3) \cup SideDecls("result", 1)
    \cup {Single("operand", list, <<>>) : list \in {<<c>> : c \in Nested} \cup {<<One, c>> : c \in Nested}}
    \cup BlockDecls("region") \cup BlockDecls("successor") \cup MixedDecls

(* The parts a declaration is about, and up to n values for each.          *)
Varied(d) ==
    {p \in Parts : d.lists[p] # <<>>} \cup
    {p \in Parts : \E i \in DOMAIN d.traits : d.traits[i].name[2] = p}

SegmentLists(d, s) ==
    IF \E i \in DOMAIN d.traits : d.traits[i].name = Segments(s)
    THEN {{}} \cup {{segs} : segs \in BoundedSeq(0 .. 2, 3)}
    ELSE {{}}

Operations(d) ==
    LET n == IF Cardinality(Varied(d)) > 1 THEN 2 ELSE 4
        V == BoundedSeq(MCSorts, n)
    IN {[vals |-> [p \in Parts |-> IF p \in Varied(d) THEN f[p] ELSE <<>>],
         segs |-> [s \in Sides |-> IF s = "operand" THEN x ELSE y]] :
           f \in [Varied(d) -> V],
           x \in SegmentLists(d, "operand"), y \in SegmentLists(d, "result")}

MCInstances == [d \in MCDeclarations |-> Operations(d)]
=============================================================================
