------------------------- MODULE ConstraintLanguage -------------------------
(***************************************************************************)
(* The constraints a declaration puts on its operands, results, regions    *)
(* and successors (lib/Spec/SpecTypes.cpp, lib/Spec/SpecRegion.cpp).  A    *)
(* constraint is known by what its verify method accepts, beside what it   *)
(* says; a type that stands where a constraint may is "plain".             *)
(***************************************************************************)
EXTENDS Naturals

CONSTANT Sorts      \* what a constraint can tell apart: types, kinds of region

Constraints ==
    [plain : BOOLEAN, variadic : BOOLEAN, conjoins : BOOLEAN,
     accepts : SUBSET Sorts, means : SUBSET Sorts]

(* A type, compared with ==. *)
Type(t) ==
    [plain |-> TRUE, variadic |-> FALSE, conjoins |-> FALSE, accepts |-> {t}, means |-> {t}]

(* Any, AnyInteger, I, F, Isa, Py, AnyRegion, Sized, ...: a test of its own.*)
Predicate(S) ==
    [plain |-> FALSE, variadic |-> FALSE, conjoins |-> FALSE, accepts |-> S, means |-> S]

(* SpecTypes::is and delegateVerify; a plain type is never delegated to.   *)
Delegated(c, t) == ~c.plain /\ t \in c.accepts
Equal(c, t) == c.plain /\ c.accepts = {t}

AnyOfAccepts(list) == {t \in Sorts : \E c \in list : Delegated(c, t) \/ Equal(c, t)}

(***************************************************************************)
(* AllOfType::verify falls into its comparison also for a constraint that  *)
(* was met, and no constraint equals the type of a value.                  *)
(***************************************************************************)
AllOfAccepts(list) ==
    {t \in Sorts : \A c \in list : (c.plain \/ Delegated(c, t)) /\ Equal(c, t)}

AnyOf(list) ==
    [plain |-> FALSE, variadic |-> FALSE, conjoins |-> \E c \in list : c.conjoins,
     accepts |-> AnyOfAccepts(list), means |-> UNION {c.means : c \in list}]

(* "conjoins" marks a conjunction with a constraint in it. *)
AllOf(list) ==
    [plain |-> FALSE, variadic |-> FALSE,
     conjoins |-> \E c \in list : c.conjoins \/ ~c.plain,
     accepts |-> AllOfAccepts(list),
     means |-> {t \in Sorts : \A c \in list : t \in c.means}]

(* VariadicType and VariadicRegion mark the constraint they hold. *)
Variadic(c) ==
    [c EXCEPT !.plain = FALSE, !.variadic = TRUE,
              !.accepts = {t \in Sorts : Delegated(c, t) \/ Equal(c, t)}]

(* A constraint accepts what it says, and one with a conjunction of         *)
(* constraints in it at most that; a plain one is one type.                 *)
Faithful(c) ==
    /\ c.accepts \subseteq c.means
    /\ c.conjoins \/ c.accepts = c.means
    /\ c.plain => \E t \in Sorts : c.accepts = {t}
=============================================================================
