-------------------------- MODULE NamespaceRegistry --------------------------
(***************************************************************************)
(* What registration promises to the programs parsed afterwards.  A        *)
(* namespace is opened once, is given symbols while it is open, and is     *)
(* then sealed (exposed to Python) or abandoned (its registration failed). *)
(* A symbol keeps its meaning for good and a closed namespace never        *)
(* changes or reopens.  One namespace is open at a time, and it does not   *)
(* stay open.                                                              *)
(***************************************************************************)
CONSTANTS Namespaces, SymbolNames, Meanings

VARIABLES
    status,     \* the stage each namespace has reached
    means,      \* the symbols of each namespace, with their meaning
    ended       \* the process has died

vars == <<status, means, ended>>

Stages == {"absent", "open", "sealed", "abandoned"}

TypeOK ==
    /\ status \in [Namespaces -> Stages]
    /\ \A d \in Namespaces :
        /\ DOMAIN means[d] \subseteq SymbolNames
        /\ \A n \in DOMAIN means[d] : means[d][n] \in Meanings
    /\ ended \in BOOLEAN

Init ==
    /\ status = [d \in Namespaces |-> "absent"]
    /\ means = [d \in Namespaces |-> [n \in {} |-> n]]
    /\ ended = FALSE

Define(f, n, m) == [x \in DOMAIN f \cup {n} |-> IF x = n THEN m ELSE f[x]]

Open(d) ==
    /\ ~ended
    /\ status[d] = "absent"
    /\ \A e \in Namespaces : status[e] # "open"
    /\ status' = [status EXCEPT ![d] = "open"]
    /\ UNCHANGED <<means, ended>>

AddSymbol(d, n, m) ==
    /\ ~ended
    /\ status[d] = "open"
    /\ n \notin DOMAIN means[d]
    /\ means' = [means EXCEPT ![d] = Define(@, n, m)]
    /\ UNCHANGED <<status, ended>>

Seal(d) ==
    /\ ~ended
    /\ status[d] = "open"
    /\ status' = [status EXCEPT ![d] = "sealed"]
    /\ UNCHANGED <<means, ended>>

(* The symbol whose registration failed may have been left behind.         *)
Abandon(d) ==
    /\ ~ended
    /\ status[d] = "open"
    /\ status' = [status EXCEPT ![d] = "abandoned"]
    /\ \/ UNCHANGED means
       \/ \E n \in SymbolNames \ DOMAIN means[d], m \in Meanings :
             means' = [means EXCEPT ![d] = Define(@, n, m)]
    /\ UNCHANGED ended

End ==
    /\ ~ended
    /\ ended' = TRUE
    /\ UNCHANGED <<status, means>>

Next ==
    \/ \E d \in Namespaces :
        \/ Open(d) \/ Seal(d) \/ Abandon(d)
        \/ \E n \in SymbolNames, m \in Meanings : AddSymbol(d, n, m)
    \/ End

(***************************************************************************)
(* An open namespace is eventually closed, unless the process dies.        *)
(***************************************************************************)
Closes == \A d \in Namespaces : status[d] = "open" ~> status[d] # "open" \/ ended

Spec == Init /\ [][Next]_vars
=============================================================================
