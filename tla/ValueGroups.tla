----------------------------- MODULE ValueGroups -----------------------------
(***************************************************************************)
(* How the operands (or results) of an operation are divided among the     *)
(* names of its declaration: the group arithmetic of                       *)
(* lib/Traits/SpecTraits.cpp.  A declaration is a sequence of constraints  *)
(* [variadic, accepts]; the values of group i are those at the positions   *)
(* First(i) + 1 .. First(i) + Size(i).                                     *)
(***************************************************************************)
EXTENDS Integers, Sequences, FiniteSets, Functions

CONSTANT UintMod    \* 2^32 in the source: the sizes are unsigned
ASSUME UintModAssumption == UintMod \in Nat \ {0}

Variadics(tys) == {i \in DOMAIN tys : tys[i].variadic}
HasVariadic(tys) == Variadics(tys) # {}
NumFixed(tys) == Cardinality(DOMAIN tys \ Variadics(tys))

(***************************************************************************)
(* SameVariadicOperandSizes, SameVariadicResultSizes: the variadic groups  *)
(* share what the fixed ones leave.  The difference is unsigned, so it     *)
(* wraps when values are missing.                                          *)
(***************************************************************************)
NumVariadicValues(tys, n) == (n - NumFixed(tys)) % UintMod

Divisible(tys, n) == NumVariadicValues(tys, n) % Cardinality(Variadics(tys)) = 0

SegmentSize(tys, n) == NumVariadicValues(tys, n) \div Cardinality(Variadics(tys))

SameSize(tys, n, i) == IF i \in Variadics(tys) THEN SegmentSize(tys, n) ELSE 1

Below(S, i) == {j \in S : j < i}

(* What std::accumulate adds up to over the types before i. *)
SameFirst(tys, n, i) ==
    Cardinality(Below(DOMAIN tys \ Variadics(tys), i))
        + SegmentSize(tys, n) * Cardinality(Below(Variadics(tys), i))

(***************************************************************************)
(* SizedOperandSegments, SizedResultSegments: the sizes are an attribute   *)
(* of the operation, segs here.                                            *)
(***************************************************************************)
SizedFirst(segs, i) ==
    LET sum[k \in 0 .. Len(segs)] == IF k = 0 THEN 0 ELSE sum[k - 1] + segs[k]
    IN sum[i - 1]

(* Fault: the segment of a fixed operand is not looked at. *)
SegmentsFit_AnyFixed(tys, segs) == Len(segs) = Len(tys)

(* checkVariadicSegments *)
SegmentsFit(tys, segs) ==
    /\ Len(segs) = Len(tys)
    /\ \A i \in DOMAIN tys : tys[i].variadic \/ segs[i] = 1

(* MLIR's part of the check: the sizes add up to the number of values. *)
SegmentsAddUp(segs, n) == SizedFirst(segs, Len(segs) + 1) = n
=============================================================================
