--------------------------- MODULE OpVerification ---------------------------
(***************************************************************************)
(* The traits of a dynamic operation: OperationOp::verify checks the       *)
(* declaration (lib/Spec/SpecOps.cpp), registerOp turns it into a list of  *)
(* traits (lib/Spec/DialectGen.cpp), and MLIR's verifier runs the list in  *)
(* order on every operation of that kind (lib/Dynamic/DynamicOperation.cpp)*)
(* until one fails.                                                        *)
(*                                                                         *)
(* The lists of regions and successors are treated alike in the source,    *)
(* and so are those of operands and results.                               *)
(***************************************************************************)
EXTENDS ValueGroups, ConstraintLanguage

CONSTANTS
    Declarations,   \* the dmc.Op declarations considered
    Instances       \* for each, the operations a program can contain

Blocks == {"region", "successor"}
Sides == {"operand", "result"}
Parts == Blocks \cup Sides

(***************************************************************************)
(* A trait is known by its name and, for the families that exist once per  *)
(* part, the part.  The argument of the others plays no role.              *)
(***************************************************************************)
N(p) == <<"N", p>>
AtLeastN(p) == <<"AtLeastN", p>>
SameSizes(s) == <<"SameVariadicSizes", s>>
Segments(s) == <<"SizedSegments", s>>
TypeConstraint == <<"TypeConstraintTrait", "any">>
AttrConstraint == <<"AttrConstraintTrait", "any">>
BlockConstraint(b) == <<"ConstraintTrait", b>>
IsTerminator == <<"IsTerminator", "any">>
Other == <<"Other", "any">>         \* any trait that does not count values
Unknown == <<"Unknown", "any">>     \* a name the TraitRegistry does not have

UserTraits == {N(p) : p \in Parts} \cup {AtLeastN(p) : p \in Parts}
    \cup {SameSizes(s) : s \in Sides} \cup {Segments(s) : s \in Sides}
    \cup {IsTerminator, Other, Unknown}
TraitNames == UserTraits \cup {TypeConstraint, AttrConstraint}
    \cup {BlockConstraint(b) : b \in Blocks}

Traits == [name : TraitNames, arg : 0 .. UintMod - 1]
Params == [kind : {"integer", "string"}, value : Nat]
UserTrait == [name : UserTraits, params : Seq(Params)]
Declaration == [lists : [Parts -> Seq(Constraints)], traits : Seq(UserTrait)]

(* The segment sizes of an operation are an attribute, which it may lack. *)
Operation == [vals : [Parts -> Seq(Sorts)], segs : [Sides -> SUBSET Seq(Nat)]]

ASSUME DeclarationsAssumption ==
    /\ Declarations \subseteq Declaration
    /\ Instances \in [Declarations -> SUBSET Operation]
    /\ \A d \in Declarations, p \in Parts :
          Len(d.lists[p]) < UintMod /\ \A i \in DOMAIN d.lists[p] : Faithful(d.lists[p][i])
    /\ \A d \in Declarations : \A o \in Instances[d] :
          /\ \A p \in Parts : Len(o.vals[p]) < UintMod
          /\ \A s \in Sides : \A x, y \in o.segs[s] : x = y

VARIABLES
    decl,       \* the OperationOp
    traits,     \* DynamicOperation::traits
    stage,      \* how far the declaration, then an operation, has come
    next,       \* the trait to be added or run
    op          \* the operation being verified

vars == <<decl, traits, stage, next, op>>

Stages == {"parsed", "user", "registered", "rejected",
           "verifying", "valid", "invalid", "aborted"}

NoOp == [vals |-> [p \in Parts |-> <<>>], segs |-> [s \in Sides |-> {}]]

TypeOK ==
    /\ decl \in Declaration
    /\ traits \in Seq(Traits)
    /\ stage \in Stages
    /\ next \in Nat \ {0}
    /\ op \in Operation

Init ==
    /\ decl \in Declarations
    /\ traits = <<>>
    /\ stage = "parsed"
    /\ next = 1
    /\ op = NoOp
-----------------------------------------------------------------------------
(***************************************************************************)
(* The declaration.                                                        *)
(***************************************************************************)
Lists(p) == decl.lists[p]
Declares(name) == \E i \in DOMAIN decl.traits : decl.traits[i].name = name

SizesSpecified(s) ==
    /\ ~(Declares(SameSizes(s)) /\ Declares(Segments(s)))
    /\ HasVariadic(Lists(s)) => Declares(SameSizes(s)) \/ Declares(Segments(s))

OnlyLastVariadic(b) == Variadics(Lists(b)) \subseteq {Len(Lists(b))}

VerifyDeclaration ==
    /\ stage = "parsed"
    /\ stage' = IF /\ \A s \in Sides : SizesSpecified(s)
                   /\ \A b \in Blocks : OnlyLastVariadic(b)
                   /\ Lists("successor") # <<>> => Declares(IsTerminator)
                THEN "user" ELSE "rejected"
    /\ UNCHANGED <<decl, traits, next, op>>

Has(name) == \E i \in DOMAIN traits : traits[i].name = name

(* What the registry has each constructor take.                             *)
Signatures(name) ==
    CASE name[1] \in {"N", "AtLeastN"} -> {<<"integer">>}
      [] name = Other -> {<<>>, <<"string">>}
      [] OTHER -> {<<>>}
SignatureMet(t) == [k \in DOMAIN t.params |-> t.params[k].kind] \in Signatures(t.name)
Argument(t) == IF t.params = <<>> THEN 0 ELSE t.params[1].value

(* Fault: the argument of a count keeps its 64 bits. *)
Constructed_Wide(t) == [name |-> t.name, arg |-> Argument(t)]

(* The constructor of a count cuts the integer to unsigned.                 *)
Constructed(t) == [name |-> t.name, arg |-> Argument(t) % UintMod]

(***************************************************************************)
(* registerOp, first loop: a name the registry does not know is skipped;   *)
(* wrong parameters and a trait listed twice are errors.                   *)
(***************************************************************************)
AddUserTrait ==
    /\ stage = "user" /\ next \in DOMAIN decl.traits
    /\ LET t == decl.traits[next]
       IN \/ /\ t.name = Unknown
             /\ next' = next + 1
             /\ UNCHANGED <<traits, stage>>
          \/ /\ t.name # Unknown
             /\ ~SignatureMet(t) \/ Has(t.name)
             /\ stage' = "rejected"
             /\ UNCHANGED <<traits, next>>
          \/ /\ t.name # Unknown
             /\ SignatureMet(t) /\ ~Has(t.name)
             /\ traits' = Append(traits, Constructed(t))
             /\ next' = next + 1
             /\ UNCHANGED stage
    /\ UNCHANGED <<decl, op>>

(* Fault: a minimum is left to the user. *)
CountTrait_NoMinimum(p) ==
    IF HasVariadic(Lists(p)) THEN <<>>
    ELSE <<[name |-> N(p), arg |-> Len(Lists(p))]>>

(***************************************************************************)
(* Then the counts: exact when nothing is variadic, else a minimum, unless *)
(* the user gave one.                                                      *)
(***************************************************************************)
CountTrait(p) ==
    IF HasVariadic(Lists(p))
    THEN IF Has(AtLeastN(p)) THEN <<>>
         ELSE <<[name |-> AtLeastN(p), arg |-> NumFixed(Lists(p))]>>
    ELSE <<[name |-> N(p), arg |-> Len(Lists(p))]>>

ConstraintTraits ==
    <<[name |-> TypeConstraint, arg |-> 0],
      [name |-> AttrConstraint, arg |-> 0],
      [name |-> BlockConstraint("region"), arg |-> 0],
      [name |-> BlockConstraint("successor"), arg |-> 0]>>

AddSpecTraits ==
    /\ stage = "user" /\ next \notin DOMAIN decl.traits
    /\ \/ /\ \E p \in Parts : ~HasVariadic(Lists(p)) /\ Has(N(p))
          /\ stage' = "rejected"
          /\ UNCHANGED traits
       \/ /\ \A p \in Parts : ~HasVariadic(Lists(p)) => ~Has(N(p))
          /\ traits' = traits \o CountTrait("region") \o CountTrait("successor")
                              \o CountTrait("operand") \o CountTrait("result")
                              \o ConstraintTraits
          /\ stage' = "registered"
    /\ next' = 1
    /\ UNCHANGED <<decl, op>>
-----------------------------------------------------------------------------
(***************************************************************************)
(* What a trait makes of an operation: "undefined" when it reads past the  *)
(* operands, divides by zero or fails an assertion.                        *)
(***************************************************************************)
Verdict(holds) == IF holds THEN "ok" ELSE "invalid"

Num(o, p) == Len(o.vals[p])

SameSizesVerdict(o, s) ==
    IF ~HasVariadic(Lists(s)) THEN "undefined"
    ELSE Verdict(Divisible(Lists(s), Num(o, s)))

SegmentsVerdict(o, s) ==
    Verdict(\E segs \in o.segs[s] :
               SegmentsAddUp(segs, Num(o, s)) /\ SegmentsFit(Lists(s), segs))

(***************************************************************************)
(* The values run out at "limit"; the constraints are checked in order     *)
(* until one is not met or there is no value left to check.                *)
(***************************************************************************)
InOrder(unmet, overrun) ==
    IF unmet # {} THEN "invalid" ELSE IF overrun THEN "undefined" ELSE "ok"

(* getGroup: the positions of the values of group i. *)
Group(o, s, i) ==
    IF Has(Segments(s))
    THEN LET segs == CHOOSE x \in o.segs[s] : TRUE
         IN SizedFirst(segs, i) + 1 .. SizedFirst(segs, i) + segs[i]
    ELSE IF Has(SameSizes(s))
    THEN LET first == SameFirst(Lists(s), Num(o, s), i)
         IN first + 1 .. first + SameSize(Lists(s), Num(o, s), i)
    ELSE {i}

(* verifyVariadicTypes, verifyTypeRange *)
TypesVerdict(o, s) ==
    LET tys == Lists(s)
        sized == Has(Segments(s)) \/ Has(SameSizes(s))
    IN InOrder({i \in DOMAIN tys : \E j \in Group(o, s, i) \cap (1 .. Num(o, s)) :
                   o.vals[s][j] \notin tys[i].accepts},
               IF sized THEN \E i \in DOMAIN tys : ~(Group(o, s, i) \subseteq 1 .. Num(o, s))
               ELSE Num(o, s) # Len(tys))

(* Fault: the variadic constraint is checked on one region only. *)
BlocksVerdict_OneEach(o, b) ==
    InOrder({i \in DOMAIN Lists(b) \cap (1 .. Num(o, b)) :
                o.vals[b][i] \notin Lists(b)[i].accepts}, FALSE)

(* verifyConstraintsLastVariadic *)
BlocksVerdict(o, b) ==
    InOrder({i \in DOMAIN Lists(b) : \E j \in i .. Num(o, b) :
                /\ j = i \/ Lists(b)[i].variadic
                /\ o.vals[b][j] \notin Lists(b)[i].accepts},
            \E i \in DOMAIN Lists(b) : ~Lists(b)[i].variadic /\ i > Num(o, b))

Verdicts(t, o) ==
    IF t.name = TypeConstraint
    THEN IF TypesVerdict(o, "operand") = "ok" THEN {TypesVerdict(o, "result")}
         ELSE {TypesVerdict(o, "operand")}
    ELSE IF t.name \in {AttrConstraint, IsTerminator, Other} THEN {"ok", "invalid"}
    ELSE LET p == t.name[2]
         IN {CASE t.name = N(p) -> Verdict(Num(o, p) = t.arg)
               [] t.name = AtLeastN(p) -> Verdict(Num(o, p) >= t.arg)
               [] t.name = SameSizes(p) -> SameSizesVerdict(o, p)
               [] t.name = Segments(p) -> SegmentsVerdict(o, p)
               [] OTHER -> BlocksVerdict(o, p)}

Verify ==
    /\ stage = "registered"
    /\ op' \in Instances[decl]
    /\ stage' = "verifying"
    /\ UNCHANGED <<decl, traits, next>>

(* One turn of the loop of verifyOpTraits. *)
RunTrait ==
    /\ stage = "verifying"
    /\ \E verdict \in Verdicts(traits[next], op) :
        \/ /\ verdict = "ok"
           /\ next' = next + 1
           /\ stage' = IF next < Len(traits) THEN "verifying" ELSE "valid"
        \/ /\ verdict = "invalid"
           /\ stage' = "invalid"
           /\ UNCHANGED next
        \/ /\ verdict = "undefined"
           /\ stage' = "aborted"
           /\ UNCHANGED next
    /\ UNCHANGED <<decl, traits, op>>

(* The traits keep nothing of an operation. *)
Done ==
    /\ stage \in {"valid", "invalid"}
    /\ stage' = "registered"
    /\ next' = 1
    /\ op' = NoOp
    /\ UNCHANGED <<decl, traits>>

Terminated == stage \in {"rejected", "aborted"} /\ UNCHANGED vars

Next ==
    \/ VerifyDeclaration
    \/ AddUserTrait
    \/ AddSpecTraits
    \/ Verify
    \/ RunTrait
    \/ Done
    \/ Terminated

Spec == Init /\ [][Next]_vars
-----------------------------------------------------------------------------
(***************************************************************************)
(* Properties.                                                             *)
(***************************************************************************)

(* A minimum that the user gives is not below what the declaration needs.  *)
MinimumKept(p) ==
    \A i \in DOMAIN decl.traits :
        decl.traits[i].name = AtLeastN(p)
            => Constructed(decl.traits[i]).arg >= NumFixed(Lists(p))

SpecifierUsed(s) == Has(SameSizes(s)) => HasVariadic(Lists(s))

(***************************************************************************)
(* The assertions of the constraint traits hold and no value is read past  *)
(* the last, whatever the operation, as long as the declaration lowers no  *)
(* minimum and gives no size specifier to a list without variadic values:  *)
(* the counts are checked before anything that relies on them, also when   *)
(* the unsigned number of variadic values wrapped.                         *)
(***************************************************************************)
NeverUndefined ==
    /\ \A p \in Parts : MinimumKept(p)
    /\ \A s \in Sides : SpecifierUsed(s)
    => stage # "aborted"

Tiled(o, s) ==
    LET n == Len(Lists(s))
    IN /\ UNION {Group(o, s, i) : i \in 1 .. n} = 1 .. Num(o, s)
       /\ \A i, j \in 1 .. n : i < j =>
             \A x \in Group(o, s, i), y \in Group(o, s, j) : x < y
       /\ \A i \in 1 .. n : Lists(s)[i].variadic \/ Cardinality(Group(o, s, i)) = 1

Accepted(o, s) ==
    \A i \in DOMAIN Lists(s) : \A j \in Group(o, s, i) : o.vals[s][j] \in Lists(s)[i].accepts

(***************************************************************************)
(* What getOperand, getOperandGroup and the generated printers rely on:    *)
(* the groups of an operation that verified share out its operands, each   *)
(* fixed name denotes one of them, and each meets its constraint.          *)
(***************************************************************************)
GroupsTileValues ==
    stage = "valid" => \A s \in Sides : Tiled(op, s) /\ Accepted(op, s)

(***************************************************************************)
(* What a declaration means, without the traits that implement it: the     *)
(* values can be cut into one group per name, one value for a fixed name,  *)
(* with the sizes the specifier asks for.                                  *)
(***************************************************************************)
Cuts(o, p, cut) ==
    LET tys == Lists(p)
        size(i) == cut[i] - cut[i - 1]
    IN /\ cut[0] = 0 /\ cut[Len(tys)] = Num(o, p)
       /\ \A i \in DOMAIN tys :
             /\ IF tys[i].variadic THEN size(i) >= 0 ELSE size(i) = 1
             /\ \A j \in cut[i - 1] + 1 .. cut[i] : o.vals[p][j] \in tys[i].means
       /\ p \in Sides =>
             /\ Declares(SameSizes(p)) =>
                   \A i, j \in Variadics(tys) : size(i) = size(j)
             /\ Declares(Segments(p)) =>
                   \E segs \in o.segs[p] :
                       Len(segs) = Len(tys) /\ \A i \in DOMAIN tys : segs[i] = size(i)

Matches(o, p) ==
    \E cut \in [0 .. Len(Lists(p)) -> 0 .. Num(o, p)] : Cuts(o, p, cut)

Opaque == {AttrConstraint, IsTerminator, Other}
Conjoins == \E p \in Parts : \E i \in DOMAIN Lists(p) : Lists(p)[i].conjoins
UserCounts == {N(p) : p \in Parts} \cup {AtLeastN(p) : p \in Parts}

(***************************************************************************)
(* The list of traits accepts exactly the operations the declaration       *)
(* describes: one that verified matches it, and one that was rejected does *)
(* not, unless it failed a trait the user asked for on top, or a           *)
(* conjunction of constraints, which accepts nothing.                      *)
(***************************************************************************)
VerdictExact ==
    /\ stage = "valid" => \A p \in Parts : Matches(op, p)
    /\ stage = "invalid" /\ traits[next].name \notin Opaque
          /\ ~(traits[next].name \in UserCounts /\ Declares(traits[next].name))
          /\ ~Conjoins
       => \E p \in Parts : ~Matches(op, p)

(***************************************************************************)
(* Claims of the repository that the code does not keep.                   *)
(*                                                                         *)
(* SpecOps.cpp, "Having a size specifier without variadic values is okay": *)
(* no size specifier makes the verifier fail an assertion.                 *)
(***************************************************************************)
SpecifierHarmless ==
    stage = "aborted" => \A s \in Sides : traits[next].name # SameSizes(s)

(***************************************************************************)
(* SpecTypeImplementation.cpp, "Number of operands and results are         *)
(* verified by previous traits": the type constraints are looked at with   *)
(* at least one value per fixed name.                                      *)
(***************************************************************************)
CountsCheckedFirst ==
    stage = "verifying" /\ traits[next].name = TypeConstraint
        => \A s \in Sides : Num(op, s) >= NumFixed(Lists(s))
=============================================================================
