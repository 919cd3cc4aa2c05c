---------------------------- MODULE MCRewriting ----------------------------
(***************************************************************************)
(* The instance of Rewriting that is checked.                              *)
(***************************************************************************)
EXTENDS Rewriting

MCKinds == {"a", "b", "c"}
MCDialectOf == [k \in MCKinds |-> IF k = "c" THEN "y" ELSE "x"]

(* A block of operations, each given by its name and its operand.           *)
Program(s) ==
    [kind |-> [o \in Ops |-> IF o \in DOMAIN s THEN s[o][1] ELSE Freed],
     arg |-> [o \in Ops |-> IF o \in DOMAIN s THEN s[o][2] ELSE None],
     body |-> [b \in Blocks |-> IF b = 1 THEN [o \in DOMAIN s |-> o] ELSE <<>>],
     region |-> <<1>>]

MCPrograms == {
    Program(<< <<"a", 0>> >>),
    Program(<< <<"b", 0>>, <<"a", 1>> >>),
    Program(<< <<"b", 0>>, <<"a", 1>>, <<"b", 2>> >>),
    Program(<< <<"b", 0>>, <<"a", 1>>, <<"a", 1>> >>)}

Do(do) == [do |-> do]
New(k) == [do |-> "create", kind |-> k]
App(k) == [do |-> "append", kind |-> k]
Pattern(r, d, calls, answer) == [root |-> r, def |-> d, calls |-> calls, answer |-> answer]

(* The shapes of the functions in oec/stencil.py and lua/luac.py.           *)
Scripts == {
    Pattern("a", "any", <<>>, "False"),
    Pattern("a", "b", <<Do("replace")>>, "None"),               \* elideLoad
    Pattern("a", "b", <<Do("replace")>>, "True"),               \* elideConcatPack
    Pattern("a", "any", <<New("c"), Do("replace")>>, "True"),   \* constNumber
    Pattern("a", "any", <<New("c"), Do("erase")>>, "None"),     \* raiseStencilAssert
    Pattern("a", "any", <<New("b"), Do("erase")>>, "True"),     \* tableSetPrealloc
    Pattern("a", "b", <<New("c"), Do("erase"), Do("eraseDef")>>, "False"),  \* assignTableSet
    Pattern("a", "b", <<New("c"), Do("replace"), Do("eraseDef")>>, "True"), \* elideConcatAndUnpack
    Pattern("a", "any", <<Do("split"), Do("end"), New("c"), App("b"), Do("erase")>>, "True"), \* lowerLoopWhile
    Pattern("a", "any", <<App("b"), New("c"), Do("replace")>>, "True"),    \* lowerFunctionDef
    Pattern("a", "b", <<New("c"), Do("start"), New("c"), Do("before"), Do("erase")>>, "True"), \* lowerNumericFor
    Pattern("a", "any", <<Do("save"), Do("end"), New("c"), Do("restore"), New("c"), Do("replace")>>, "True"),
    Pattern("a", "any", <<Do("end")>>, "False"),
    Pattern("a", "any", <<Do("unlink")>>, "True"),
    Pattern("a", "any", <<New("c")>>, "raises"),
    Pattern("b", "any", <<New("c"), Do("replace")>>, "True"),
    Pattern("b", "any", <<New("c"), Do("replace")>>, "None"),
    Pattern("b", "any", <<Do("erase")>>, "True")}

(* All functions of at most two calls.                                      *)
AllCalls == {New("a"), New("c"), App("c"), App("a"), Do("replace"), Do("erase"), Do("eraseDef"),
             Do("start"), Do("end"), Do("after"), Do("split")}
Short == {Pattern("a", "any", calls, answer) :
             calls \in {<<>>} \cup {<<x>> : x \in AllCalls} \cup {<<x, y>> : x, y \in AllCalls},
             answer \in {"True", "None"}}

(* And of three, of the calls that depend on each other most.               *)
Three == {New("c"), App("b"), Do("replace"), Do("erase"), Do("eraseDef"), Do("start"), Do("end"), Do("split")}
Longer == {Pattern("a", "any", <<x, y, z>>, "True") : x, y, z \in Three}
Single(calls) == {Pattern("a", "any", <<x>>, "None") : x \in calls}

(* A function may split once: there are blocks for no more.                 *)
SplitsOnce(p) == Cardinality({n \in DOMAIN p.calls : p.calls[n].do = "split"}) < 2
Small == {p \in Short \cup Scripts \cup Longer : SplitsOnce(p)}

(* Functions that insert in one place after the other, and one that erases  *)
(* behind the driver's back what it replaced.                               *)
Forward == {
    Pattern("a", "any", <<New("c"), Do("before"), New("b"), Do("after"), New("c"), New("b"), Do("replace")>>, "True"),
    Pattern("a", "any", <<Do("split"), Do("end"), New("c"), Do("before"), New("b"), Do("after"), New("c"), Do("replace")>>, "True"),
    Pattern("a", "any", <<New("c"), Do("replace"), Do("unlink")>>, "True")}

(* Functions for conversions, which create what other patterns convert.     *)
Nested == {Pattern("a", "any", <<New("c"), New("a"), New("b"), Do("replace")>>, "True")} \cup
          Single({Do("split"), New("a"), Do("eraseDef"), App("b"), Do("unlink")})

Legal(name) == [of |-> "dialect", name |-> name, action |-> "legal"]
Mark(k, action) == [of |-> "op", name |-> k, action |-> action]
Targets == {<<Legal("y")>>, <<Legal("x"), Mark("a", "illegal"), Legal("y")>>}

Pass(driver, list, target) == [driver |-> driver, patterns |-> list, target |-> target]
MCPasses ==
    {Pass("greedy", <<p>>, <<>>) : p \in Small \cup Forward} \cup
    {Pass("greedy", <<p, q>>, <<>>) : p \in Scripts \cup Single(AllCalls), q \in Scripts} \cup
    {Pass("partial", <<p>>, <<Legal("y")>>) : p \in Small \cup Forward} \cup
    {Pass(d, <<p>>, t) : d \in {"partial", "full"}, p \in Scripts, t \in Targets} \cup
    {Pass("partial", <<>>, t) : t \in Targets} \cup
    {Pass("lower", <<p>>, <<Legal("y")>>) : p \in Scripts \cup Longer} \cup
    {Pass("lower", <<p, q>>, <<Legal("y")>>) : p \in Single({Do("split"), App("b")}), q \in Scripts} \cup
    {Pass(d, <<p, q>>, <<Legal("y")>>) : d \in {"partial", "full"}, p, q \in Scripts \cup Nested}
=============================================================================
