---------------------------- MODULE MCDialectGen ----------------------------
(***************************************************************************)
(* Small instances of DialectGen.  Names are interchangeable; dialects are *)
(* too, since nothing orders them but the scope of a call.                 *)
(***************************************************************************)
EXTENDS DialectGen, TLC

CONSTANTS type, attr, d1, d2, n1, n2, i64

MCDialects == {d1, d2}
MCKinds == {type, attr}
MCNames == {n1, n2}
MCBuiltins == {i64}

Symmetry ==
    Permutations(MCDialects) \cup Permutations(MCNames) \cup Permutations(MCKinds)
=============================================================================
