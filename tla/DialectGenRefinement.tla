------------------------ MODULE DialectGenRefinement ------------------------
(***************************************************************************)
(* DialectGen implements NamespaceRegistry.  A namespace is open while     *)
(* registerDialect works on it; one that is registered with MLIR but       *)
(* neither open nor exposed was abandoned.                                 *)
(***************************************************************************)
EXTENDS DialectGen

Status ==
    [d \in Dialects |->
        CASE d \notin registered -> "absent"
          [] d = cur -> "open"
          [] d \in exposed -> "sealed"
          [] OTHER -> "abandoned"]

(* What a symbol stands for: an operation, or the value its name denotes   *)
(* as a type or an attribute.                                              *)
SymbolMeanings == {<<"op">>} \cup {<<"value", k, v>> : k \in Kinds, v \in Values}

KindOf(d, n) ==
    CHOOSE k \in Kinds : n \in DOMAIN dynObjs[k][d] \cup DOMAIN aliases[k][d]

MeaningOf(d, n) ==
    IF n \in DOMAIN dynOps[d] THEN <<"op">>
    ELSE LET k == KindOf(d, n)
         IN <<"value", k, Parsed(k, <<d, n>>, registered)>>

Means == [d \in Dialects |-> [n \in Declared(d) |-> MeaningOf(d, n)]]

Registry ==
    INSTANCE NamespaceRegistry WITH
        Namespaces <- Dialects,
        SymbolNames <- Names,
        Meanings <- SymbolMeanings,
        status <- Status,
        means <- Means,
        ended <- crash # "none"

(***************************************************************************)
(* registerDialect runs to completion in one thread: its loop over the     *)
(* children moves on as long as the process lives.                         *)
(***************************************************************************)
FairSpec == Spec /\ WF_vars(Next)

(***************************************************************************)
(* Every registration step is a step of the registry or changes nothing a  *)
(* later program can see.                                                  *)
(***************************************************************************)
ImplementsRegistry == Registry!Spec

(***************************************************************************)
(* registerDialect always closes the namespace it opened: it exposes it,   *)
(* reports a failure or takes the process down.                            *)
(***************************************************************************)
RegistryCloses == Registry!Closes
=============================================================================
