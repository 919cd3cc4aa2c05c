---------------------- MODULE MCDialectGenRefinement ----------------------
(***************************************************************************)
(* One kind of value is enough here: the registry tells kinds apart only   *)
(* through the meaning of a symbol.  No symmetry, as liveness is checked.  *)
(***************************************************************************)
EXTENDS DialectGenRefinement

CONSTANTS type, d1, d2, n1, n2, i64

MCKinds == {type}
MCDialects == {d1, d2}
MCNames == {n1, n2}
MCBuiltins == {i64}
=============================================================================
