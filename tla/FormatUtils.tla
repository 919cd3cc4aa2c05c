----------------------------- MODULE FormatUtils -----------------------------
(***************************************************************************)
(* What the two format parsers share (lib/Embed/FormatUtils.h and .cpp):   *)
(* tokens, literals, and looking at the tokens that are left.              *)
(***************************************************************************)
EXTENDS Integers, SequencesExt

CONSTANT Keywords       \* literals that are identifiers

VARIABLE rest           \* the tokens not read yet

(* What `isValidLiteral' accepts. *)
Punctuation == {"_", ":", ",", "=", "<", ">", "(", ")", "[", "]", "->"}
Literals == Keywords \cup Punctuation
IsWord(l) == l \in Keywords \cup {"_"}

TokenKinds == {"keyword", "literal", "variable", "punctuation", "other"}
Tokens == [kind : TokenKinds, spelling : STRING]

Literal(l) == [kind |-> "literal", literal |-> l]

(***************************************************************************)
(* The elements es are worked off one after the other, with F(x, e) for    *)
(* the value x so far.                                                     *)
(***************************************************************************)
Apply(F(_, _), q, e) == CHOOSE r \in {F(x, e) : x \in {q}} : TRUE
Run(F(_, _), q, es) == FoldLeft(LAMBDA x, e : Apply(F, x, e), q, es)

Kind(n) == IF n \in DOMAIN rest THEN rest[n].kind ELSE "eof"
Is(n, k, s) == Kind(n) = k /\ rest[n].spelling = s
Drop(n) == SubSeq(rest, n + 1, Len(rest))
=============================================================================
