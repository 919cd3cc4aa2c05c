------------------------ MODULE MCExposedOperation ------------------------
(***************************************************************************)
(* Small declarations for ExposedOperation, each about one question: how   *)
(* operands or results are grouped, which attributes there are, which      *)
(* regions, the successors of a terminator, the parent, memory effects.    *)
(***************************************************************************)
EXTENDS ExposedOperation

CONSTANTS a, b

MCSorts == {a, b}

Free == Predicate({a, b})
One == Predicate({a})
Two == Predicate({b})
Many == Variadic(One)

User(name) == [name |-> name, params |-> IF name[1] = "AtLeastN" THEN <<[kind |-> "integer", value |-> 0]>> ELSE <<>>]

Declare(p, list, traitList) ==
    [lists |-> [q \in Parts |-> IF q = p THEN list ELSE <<>>], traits |-> traitList]

SideTraits(s) ==
    {<<User(SameSizes(s))>>, <<User(Segments(s))>>,
     <<User(AtLeastN(s)), User(SameSizes(s))>>}
SideLists(s) ==
    IF s = "operand"
    THEN BoundedSeq({One, Free, Many}, 2) \cup {<<Many, Two>>, <<Many, One, Many>>}
    ELSE {<<Many, Two>>}

Grouped == UNION {{Declare(s, list, ts) : list \in SideLists(s), ts \in SideTraits(s)} : s \in Sides}
Plain == {Declare("operand", list, <<>>) : list \in {<<>>, <<Free>>, <<Free, One>>}}

(* One declaration per list of attributes; a number of traits that the     *)
(* registry does not know and skips keeps them apart.                      *)
AttrLists ==
    <<<<"default">>, <<"plain">>, <<"optional">>, <<"misfit">>,
      <<"plain", "plain">>, <<"plain", "optional">>, <<"optional", "optional">>,
      <<"plain", "default">>, <<"default", "optional">>, <<"default", "misfit">>>>
AttrDecl(n) ==
    Declare("operand", <<>>, [i \in 1 .. n |-> User(Unknown)])
WithAttributes == {AttrDecl(n) : n \in DOMAIN AttrLists}

RegionDecls == {Declare("region", list, <<>>) : list \in {<<One>>, <<One, Free>>, <<One, Many>>, <<Many>>}}
TerminatorDecl == Declare("successor", <<One, Many>>, <<User(IsTerminator)>>)
ParentDecl == Declare("operand", <<>>, <<User(Other)>>)
EffectLists == {<<Free, Many>>, <<Many, One>>}
EffectDecls == {Declare("operand", list, <<User(Other), User(sized)>>) :
                   list \in EffectLists, sized \in {SameSizes("operand"), Segments("operand")}}

MCDeclarations ==
    Grouped \cup Plain \cup WithAttributes \cup RegionDecls \cup EffectDecls
    \cup {TerminatorDecl, ParentDecl}

MCAttributes ==
    [d \in MCDeclarations |->
        IF d \in WithAttributes THEN AttrLists[Len(d.traits)] ELSE <<>>]
MCParented == {ParentDecl}
MCPlaces == [d \in MCDeclarations |-> IF d = ParentDecl THEN {"right", "wrong"} ELSE {}]
On(effect, side, i) == [effect |-> effect, on |-> <<side, i>>]
MCTargets ==
    [d \in MCDeclarations |->
        IF d \in EffectDecls
        THEN IF d.lists["operand"] = <<Free, Many>>
             THEN <<On("Free", "operand", 2), On("WriteTo", "operand", 1)>>
             ELSE <<On("Alloc", "operand", 1), On("WriteTo", "result", 1)>>
        ELSE <<>>]
MCLoops == [d \in MCDeclarations |-> IF d \in RegionDecls THEN {Len(d.lists["region"]), 3} ELSE {}]

Varied(d) == {p \in Parts : d.lists[p] # <<>>}
(* No sizes, or sizes of up to the three values; as many sizes as names,   *)
(* or fewer in a list of up to two.                                        *)
SizeLists(n) ==
    {segs \in BoundedSeq(0 .. 2, n) :
        (n <= 2 \/ Len(segs) = n) /\ SizedFirst(segs, Len(segs) + 1) <= 3}
SegmentLists(d, s) ==
    IF \E i \in DOMAIN d.traits : d.traits[i].name = Segments(s)
    THEN {{}} \cup {{segs} : segs \in SizeLists(Len(d.lists[s]))}
    ELSE {{}}
Operations(d) ==
    {[vals |-> [p \in Parts |-> IF p \in Varied(d) THEN f[p] ELSE <<>>],
      segs |-> [s \in Sides |-> IF s = "operand" THEN x ELSE y]] :
         f \in [Varied(d) -> BoundedSeq(MCSorts, 3)],
         x \in SegmentLists(d, "operand"), y \in SegmentLists(d, "result")}
MCInstances == [d \in MCDeclarations |-> Operations(d)]

(* A sort for a fixed name, up to two for a variadic one. *)
ArgumentLists(list) ==
    {args \in [DOMAIN list -> BoundedSeq(MCSorts, 2)] :
        \A i \in DOMAIN list : list[i].variadic \/ Len(args[i]) = 1}
MCArguments ==
    [d \in MCDeclarations |->
        {[p \in Named |-> CASE p = "operand" -> x [] p = "result" -> y [] OTHER -> z] :
            x \in ArgumentLists(d.lists["operand"]), y \in ArgumentLists(d.lists["result"]),
            z \in ArgumentLists(d.lists["successor"])}]
=============================================================================
