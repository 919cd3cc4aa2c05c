------------------------- MODULE ExposedOperation -------------------------
(***************************************************************************)
(* A dynamic operation in the hands of a Python program.                   *)
(*                                                                         *)
(* exposeDynamicOp (lib/Embed/Expose.cpp) writes a class for it: a         *)
(* constructor with one argument per name of the declaration and a getter  *)
(* per name.  The program builds an operation or wraps one that was        *)
(* parsed, changes it through the bindings of mlir.Operation               *)
(* (lib/Python/ExposeOps.cpp), has it verified with the traits of          *)
(* OpVerification, and reads it by name through OperationWrap              *)
(* (lib/Python/OpAsm.cpp), as the interfaces of BaseOp do for the passes   *)
(* of MLIR.  Nothing verifies an operation before it is read.              *)
(***************************************************************************)
EXTENDS OpVerification, SequencesExt

CONSTANTS
    Attributes,     \* for each declaration, its attributes in the order of their names
    Parented,       \* the declarations with the trait HasParent
    Places,         \* for each declaration, where its operations may be put
    Targets,        \* for each, its memory effects, in the order getEffects asks for them
    Loops,          \* for each, the regions its LoopLike trait may name
    Arguments,      \* for each, what its constructor may be given
    EmptyRegion     \* the sort of a region that was just made

(***************************************************************************)
(* "misfit" is a default value that its own constraint refuses, which      *)
(* nothing looks at; "raises" is a value on which a constraint written in  *)
(* Python throws.                                                          *)
(***************************************************************************)
AttributeKinds == {"plain", "optional", "default", "misfit"}
AttributeValues == {"met", "unmet", "raises", "absent"}
Named == Parts \ {"region"}     \* what a constructor has arguments for
Given == [Named -> Seq(Seq(Sorts))]
MemoryEffects == {"Alloc", "Free", "ReadFrom", "WriteTo"}

ASSUME ExposureAssumption ==
    /\ Attributes \in [Declarations -> Seq(AttributeKinds)]
    /\ Parented \subseteq Declarations
    /\ Places \in [Declarations -> SUBSET {"right", "wrong"}]
    /\ Targets \in [Declarations -> Seq([effect : MemoryEffects, on : Sides \X (Nat \ {0})])]
    /\ Loops \in [Declarations -> SUBSET (Nat \ {0})]
    /\ Arguments \in [Declarations -> SUBSET Given]
    /\ \A d \in Declarations : \A args \in Arguments[d], p \in Named :
          /\ DOMAIN args[p] = DOMAIN d.lists[p]
          /\ \A i \in DOMAIN args[p] : d.lists[p][i].variadic \/ Len(args[p][i]) = 1
          /\ Len(FlattenSeq(args[p])) < UintMod
    /\ EmptyRegion \in Sorts

VARIABLES
    use,        \* what the program has of the operation
    attrs,      \* the value of each declared attribute
    parent,     \* the operation that it is in: none, the one HasParent names, another
    given,      \* where it came from, and the arguments of its constructor
    checked,    \* it verified, and was not changed since
    got         \* what the last call returned

handle == <<use, attrs, parent, given, checked, got>>
allVars == <<vars, handle>>

Uses == {"hidden", "refused", "exposed", "held"}
Origins == {"nothing", "constructor", "custom form", "generic form", "changes"}
Outcomes == {"nothing", "values", "raised", "undefined"}

NoArguments == [p \in Named |-> <<>>]
Untouched(by) == [by |-> by, args |-> NoArguments]
NoAnswer == [of |-> <<>>, is |-> "nothing", values |-> <<>>]

HandleOK ==
    /\ TypeOK
    /\ use \in Uses
    /\ attrs \in Seq(AttributeValues)
    /\ parent \in {"none", "right", "wrong"}
    /\ given \in [by : Origins, args : Given]
    /\ checked \in BOOLEAN
    /\ got.is \in Outcomes /\ got.values \in Seq(Sorts)

ExposedInit ==
    /\ Init
    /\ use = "hidden"
    /\ attrs = [i \in DOMAIN Attributes[decl] |-> "absent"]
    /\ parent = "none"
    /\ given = Untouched("nothing")
    /\ checked = FALSE
    /\ got = NoAnswer

Register ==
    /\ VerifyDeclaration \/ AddUserTrait \/ AddSpecTraits
    /\ UNCHANGED handle
-----------------------------------------------------------------------------
(***************************************************************************)
(* The class, and how the program comes by an operation.                   *)
(***************************************************************************)
Kinds == Attributes[decl]

(* exposeDynamicOp throws on a default-valued attribute. *)
Expose ==
    /\ use = "hidden" /\ stage = "registered"
    /\ use' = IF \E i \in DOMAIN Kinds : Kinds[i] \in {"default", "misfit"}
              THEN "refused" ELSE "exposed"
    /\ UNCHANGED <<vars, attrs, parent, given, checked, got>>

(* Fault: a list is put in as one operand. *)
Spliced_Nested(list, args) ==
    [i \in DOMAIN args |-> IF list[i].variadic THEN args[i] ELSE args[i][1]]

(* Fault: the fixed arguments are spliced in first. *)
Spliced_FixedFirst(list, args) ==
    FlattenSeq([i \in DOMAIN args |-> IF list[i].variadic THEN <<>> ELSE args[i]])
        \o FlattenSeq([i \in DOMAIN args |-> IF list[i].variadic THEN args[i] ELSE <<>>])

(***************************************************************************)
(* inlineOrConcat: an argument per name, a list when it is variadic; here  *)
(* each is a list.                                                         *)
(***************************************************************************)
Spliced(list, args) == FlattenSeq(args)

Regions(n) == [i \in 1 .. n |-> EmptyRegion]

(***************************************************************************)
(* __init__ and operationCtor.  The arguments have the right classes; a    *)
(* null attribute is one, and is left out like an omitted optional one.    *)
(* The sizes of the groups are not written down, and the operation is in   *)
(* no block.                                                               *)
(***************************************************************************)
Construct ==
    /\ use = "exposed" /\ stage = "registered"
    /\ \E args \in Arguments[decl], n \in 0 .. Len(Lists("region")) + 1 :
        /\ op' = [vals |-> [p \in Parts |-> IF p = "region" THEN Regions(n)
                                            ELSE Spliced(Lists(p), args[p])],
                  segs |-> NoOp.segs]
        /\ given' = [by |-> "constructor", args |-> args]
    /\ attrs' \in [DOMAIN Kinds -> AttributeValues]
    /\ use' = "held"
    /\ parent' = "none"
    /\ UNCHANGED <<decl, traits, stage, next, checked, got>>

(* Fault: the values that the custom form leaves out are not filled in. *)
Filled_Not(values) == values

(* DynamicOperation::parseOperation: the default values. *)
Filled(values) ==
    [i \in DOMAIN values |->
        IF values[i] = "absent"
        THEN CASE Kinds[i] = "default" -> "met"
               [] Kinds[i] = "misfit" -> "unmet"
               [] OTHER -> "absent"
        ELSE values[i]]

(***************************************************************************)
(* An operation of a parsed module, or one built with mlir.Operation, is   *)
(* met in a walk, or its class is called with it as theOp.                 *)
(***************************************************************************)
Meet ==
    /\ use \in {"exposed", "refused"} /\ stage = "registered"
    /\ op' \in Instances[decl]
    /\ \E values \in [DOMAIN Kinds -> AttributeValues] :
        \/ attrs' = Filled(values) /\ given' = Untouched("custom form")
        \/ attrs' = values /\ given' = Untouched("generic form")
    /\ parent' \in Places[decl] \cup {"none"}
    /\ use' = "held"
    /\ UNCHANGED <<decl, traits, stage, next, checked, got>>
-----------------------------------------------------------------------------
(***************************************************************************)
(* Changes.  Every binding writes through to the operation.                *)
(***************************************************************************)
Idle == use = "held" /\ stage = "registered" /\ got = NoAnswer

Touched(by) == given' = Untouched(by) /\ checked' = FALSE

ChangeOperands ==
    /\ Idle
    /\ \E vals \in {o.vals["operand"] : o \in Instances[decl]} \cup
                   {RemoveAt(op.vals["operand"], i) : i \in 1 .. Num(op, "operand")} :
          op' = [op EXCEPT !.vals["operand"] = vals]
    /\ Touched("changes")
    /\ UNCHANGED <<decl, traits, stage, next, use, attrs, parent, got>>

(* setAttr and removeAttr; the sizes of the groups are attributes. *)
ChangeAttribute ==
    /\ Idle
    /\ \/ /\ \E i \in DOMAIN attrs, v \in AttributeValues : attrs' = [attrs EXCEPT ![i] = v]
          /\ Touched("changes")
          /\ UNCHANGED op
       \/ /\ \E s \in Sides : \E segs \in {o.segs[s] : o \in Instances[decl]} :
                op' = [op EXCEPT !.segs[s] = segs]
          /\ checked' = FALSE
          /\ UNCHANGED <<attrs, given>>
    /\ UNCHANGED <<decl, traits, stage, next, use, parent, got>>

(* moveBefore, moveAfter, Block.append and the insertions of the builder. *)
Insert ==
    /\ Idle
    /\ parent' \in Places[decl]
    /\ checked' = FALSE
    /\ UNCHANGED <<vars, use, attrs, given, got>>
-----------------------------------------------------------------------------
(***************************************************************************)
(* mlir.verify, or a pass that verifies the module.                        *)
(***************************************************************************)
Satisfied(i) == attrs[i] = "met" \/ (attrs[i] = "absent" /\ Kinds[i] = "optional")

(* verifyAttrConstraints; an exception passes through MLIR's verifier. *)
AttributesVerdict ==
    LET failing == {i \in DOMAIN attrs : ~Satisfied(i)}
    IN IF failing = {} THEN "ok"
       ELSE IF attrs[Min(failing)] = "raises" THEN "raised" ELSE "invalid"

(* HasParent *)
ParentVerdict ==
    CASE parent = "none" -> "undefined"
      [] parent = "right" -> "ok"
      [] parent = "wrong" -> "invalid"

VerifyHeld ==
    /\ Idle /\ ~checked
    /\ stage' = "verifying"
    /\ UNCHANGED <<decl, traits, next, op, handle>>

Raise ==
    /\ stage = "verifying" /\ traits[next].name = AttrConstraint
    /\ AttributesVerdict = "raised"
    /\ stage' = "registered" /\ next' = 1
    /\ UNCHANGED <<decl, traits, op, handle>>

HeldVerdicts ==
    CASE traits[next].name = AttrConstraint -> {AttributesVerdict}
      [] traits[next].name = Other /\ decl \in Parented -> {ParentVerdict}
      [] OTHER -> Verdicts(traits[next], op)

RunHeldTrait ==
    /\ stage = "verifying"
    /\ \E verdict \in HeldVerdicts \ {"raised"} :
        /\ next' = IF verdict = "ok" THEN next + 1 ELSE next
        /\ stage' = CASE verdict = "ok" /\ next < Len(traits) -> "verifying"
                      [] verdict = "ok" /\ next = Len(traits) -> "valid"
                      [] verdict = "invalid" -> "invalid"
                      [] verdict = "undefined" -> "aborted"
    /\ UNCHANGED <<decl, traits, op, handle>>

Return ==
    /\ stage \in {"valid", "invalid"}
    /\ checked' = (stage = "valid")
    /\ stage' = "registered" /\ next' = 1
    /\ UNCHANGED <<decl, traits, op, use, attrs, parent, given, got>>
-----------------------------------------------------------------------------
(***************************************************************************)
(* Reading by name.                                                        *)
(***************************************************************************)
ValueNames == {n \in Sides \X (1 .. Len(decl.lists["operand"]) + Len(decl.lists["result"])) :
                  n[2] \in DOMAIN Lists(n[1])}

Sizes(s) == CHOOSE segs \in op.segs[s] : TRUE

(* What the sizes of a group are read from is there. *)
Sized(s, i) ==
    CASE Has(Segments(s)) -> \E segs \in op.segs[s] : Len(segs) >= i
      [] ~Has(Segments(s)) /\ Has(SameSizes(s)) -> HasVariadic(Lists(s))
      [] OTHER -> TRUE

(* Fault: the values before a group are counted one per name. *)
Start_OneEach(s, i) == i - 1

Start(s, i) ==
    CASE Has(Segments(s)) -> SizedFirst(Sizes(s), i)
      [] ~Has(Segments(s)) /\ Has(SameSizes(s)) -> SameFirst(Lists(s), Num(op, s), i)
      [] OTHER -> i - 1

Answer(of, is, values) == [of |-> of, is |-> is, values |-> values]

(* A number of values from a place on. *)
ValuesFrom(name, size) ==
    LET s == name[1]
        i == name[2]
    IN IF Sized(s, i) /\ Start(s, i) + size <= Num(op, s)
       THEN Answer(name, "values", SubSeq(op.vals[s], Start(s, i) + 1, Start(s, i) + size))
       ELSE Answer(name, "undefined", <<>>)

GroupSize(name) ==
    IF Sized(name[1], name[2]) THEN Cardinality(Group(op, name[1], name[2])) ELSE 0

(* getOperandGroup, getResultGroup *)
GroupOf(name) == ValuesFrom(name, GroupSize(name))

(***************************************************************************)
(* The getter of a name: a group when it is variadic, else the value where *)
(* its group begins, whatever the size of the group.                       *)
(***************************************************************************)
ValueOf(name) ==
    IF Lists(name[1])[name[2]].variadic THEN GroupOf(name) ELSE ValuesFrom(name, 1)

(* OperationWrap::getRegion, which counts one region per name. *)
RegionOf(i) ==
    IF i \notin DOMAIN Lists("region") THEN Answer(<<"region", i>>, "raised", <<>>)
    ELSE IF i <= Num(op, "region")
    THEN Answer(<<"region", i>>, "values", <<op.vals["region"][i]>>)
    ELSE Answer(<<"region", i>>, "undefined", <<>>)

(* Fault: a variadic region is read as a single one. *)
BlockOf_Single(b, i) ==
    IF b = "successor" THEN Answer(<<b, i>>, "raised", <<>>) ELSE RegionOf(i)

(***************************************************************************)
(* The getters of successors and of variadic regions call methods that     *)
(* OperationWrap does not have.                                            *)
(***************************************************************************)
BlockOf(b, i) ==
    IF b = "successor" \/ Lists(b)[i].variadic THEN Answer(<<b, i>>, "raised", <<>>)
    ELSE RegionOf(i)

(***************************************************************************)
(* BaseOp::getEffects: the groups of the names the traits give, in order;  *)
(* a name that the declaration does not have throws.                       *)
(***************************************************************************)
EffectOf(name) ==
    IF name \in ValueNames THEN GroupOf(name) ELSE Answer(name, "raised", <<>>)

(***************************************************************************)
(* The values with an effect of some kinds.  All the groups are looked up  *)
(* whichever kinds are asked for.                                          *)
(***************************************************************************)
Effects(kinds) ==
    LET targets == Targets[decl]
        on == [k \in DOMAIN targets |-> EffectOf(targets[k].on)]
        failed == {k \in DOMAIN on : on[k].is # "values"}
        asked == [k \in DOMAIN on |->
                     IF targets[k].effect \in kinds THEN on[k].values ELSE <<>>]
    IN IF failed # {} THEN [on[Min(failed)] EXCEPT !.of = <<"effects">>]
       ELSE Answer(<<"effects">>, "values", FlattenSeq(asked))

(* getWriteEffectingValues; without such a trait there is no interface to  *)
(* ask, and there are no values.                                           *)
Writes == Effects({"WriteTo"})

(* A getter of the class, getEffects, getWriteEffectingValues or getLoopBody. *)
Answers ==
    {ValueOf(name) : name \in ValueNames}
        \cup (UNION {{BlockOf(b, i) : i \in DOMAIN Lists(b)} : b \in Blocks})
        \cup {Effects(MemoryEffects), Writes}
        \cup {[RegionOf(i) EXCEPT !.of = <<"loop", i>>] : i \in Loops[decl]}

Read ==
    /\ Idle
    /\ \E answer \in Answers :
        /\ got' = answer
        /\ stage' = IF answer.is = "undefined" THEN "aborted" ELSE stage
    /\ UNCHANGED <<decl, traits, next, op, use, attrs, parent, given, checked>>

GoOn ==
    /\ got # NoAnswer /\ stage # "aborted"
    /\ got' = NoAnswer
    /\ UNCHANGED <<vars, use, attrs, parent, given, checked>>

ExposedNext ==
    \/ Register
    \/ Expose
    \/ Construct
    \/ Meet
    \/ ChangeOperands
    \/ ChangeAttribute
    \/ Insert
    \/ VerifyHeld
    \/ Raise
    \/ RunHeldTrait
    \/ Return
    \/ Read
    \/ GoOn
    \/ Terminated /\ UNCHANGED handle

ExposedSpec == ExposedInit /\ [][ExposedNext]_allVars
-----------------------------------------------------------------------------
(***************************************************************************)
(* Properties.                                                             *)
(***************************************************************************)

(* The user lowers no minimum, and a size specifier has something to size. *)
Sound == (\A p \in Parts : MinimumKept(p)) /\ (\A s \in Sides : SpecifierUsed(s))

(***************************************************************************)
(* The operation says how the arguments were grouped: by segment sizes     *)
(* that the program has set, or by groups of one size.                     *)
(***************************************************************************)
GroupingKept(s) ==
    LET args == given.args[s]
    IN /\ Has(Segments(s)) => op.segs[s] = {[i \in DOMAIN args |-> Len(args[i])]}
       /\ Has(SameSizes(s)) =>
             /\ HasVariadic(Lists(s))
             /\ \A i, j \in Variadics(Lists(s)) : Len(args[i]) = Len(args[j])

(***************************************************************************)
(* As long as nothing is changed, the getters of an operation that the     *)
(* class constructed give the arguments of the constructor back, verified  *)
(* or not, when the operation says how they were grouped.                  *)
(***************************************************************************)
FreshReadsBack ==
    /\ given.by = "constructor"
    /\ got.of \in ValueNames
    /\ GroupingKept(got.of[1])
    => got.is = "values" /\ got.values = given.args[got.of[1]][got.of[2]]

(***************************************************************************)
(* What a program may rely on after verifying, and before the next change: *)
(* every attribute is met or absent and optional, and what a getter        *)
(* returns meets the constraint of its name.                               *)
(***************************************************************************)
CheckedReadsMeet ==
    checked =>
        /\ \A i \in DOMAIN attrs : Satisfied(i)
        /\ got.of \in ValueNames /\ got.is = "values" =>
              /\ Range(got.values) \subseteq Lists(got.of[1])[got.of[2]].accepts
              /\ Lists(got.of[1])[got.of[2]].variadic \/ Len(got.values) = 1

(***************************************************************************)
(* What ends the process.  Verification: only HasParent, on an operation   *)
(* in no block.  Reading: only an operation changed or made since it was   *)
(* last verified, or a LoopLike whose region is the variadic one.          *)
(***************************************************************************)
AbortsExplained ==
    stage = "aborted" /\ Sound =>
        \/ got.is = "nothing" /\ traits[next].name = Other
              /\ decl \in Parented /\ parent = "none"
        \/ got.is = "undefined" /\ ~checked
        \/ got.is = "undefined" /\ \E i \in Loops[decl] :
              got.of = <<"loop", i>> /\ Lists("region")[i].variadic

(***************************************************************************)
(* An operation that came through the custom form does not fail for want   *)
(* of a default-valued attribute, as one in the generic form does.         *)
(***************************************************************************)
DefaultsFilled ==
    stage = "invalid" /\ traits[next].name = AttrConstraint /\ given.by = "custom form"
        => \E i \in DOMAIN attrs :
              attrs[i] = "unmet" \/ (attrs[i] = "absent" /\ Kinds[i] = "plain")
=============================================================================
