----------------------------- MODULE Rewriting -----------------------------
(***************************************************************************)
(* Patterns written in Python, run by the drivers of MLIR.                 *)
(*                                                                         *)
(* lib/Python/ExposeBuilder.cpp lets a program give a list of patterns, a  *)
(* root operation and a function each, to the greedy driver                *)
(* (applyOptPatterns) or to a dialect conversion (applyPartialConversion,  *)
(* applyFullConversion; lowerToLLVM, which converts partially as a pass of *)
(* MLIR's pass manager).  The function gets the operation and the builder  *)
(* of the driver, changes the operations through the builder and through   *)
(* the bindings of lib/Python/ExposeOps.cpp, and its answer, taken for a   *)
(* Boolean, tells the driver whether it rewrote anything.  The drivers are *)
(* MLIR's and are modelled from how they are used here.                    *)
(*                                                                         *)
(* A function is a script: a test on the operation that defines the        *)
(* operand of its root, a sequence of calls, an answer.  The identity of   *)
(* an operation is its address, which is given out again once the          *)
(* operation was erased.                                                   *)
(***************************************************************************)
EXTENDS Naturals, FiniteSets, SequencesExt

CONSTANTS
    Ops,            \* the addresses an operation may have
    Blocks,         \* the blocks of the region that is rewritten
    Kinds,          \* the names of operations
    Pure,           \* those that may be removed when nothing uses them
    DialectOf,      \* the dialect of each name
    Passes,         \* the passes that are run, see PassSet
    Programs,       \* what they are run on
    MaxIterations   \* the limit of the greedy driver, 10 in MLIR

Freed == "freed"
None == 0           \* no operation: an argument of the block
End == 0            \* before no operation: the end of the block

Calls ==
    [do : {"create", "append"}, kind : Kinds] \cup
    [do : {"replace", "erase", "eraseDef", "unlink", "split", "start", "end",
           "before", "after", "save", "restore"}]
Answers == {"True", "False", "None", "raises"}
Actions == {"legal", "illegal"}
Dialects == {DialectOf[k] : k \in Kinds}
Irs == [kind : [Ops -> Kinds \cup {Freed}], arg : [Ops -> Ops \cup {None}],
        body : [Blocks -> Seq(Ops)], region : Seq(Blocks)]

IsPattern(p) ==
    /\ DOMAIN p = {"root", "def", "calls", "answer"}
    /\ p.root \in Kinds /\ p.def \in Kinds \cup {"any"}
    /\ p.calls \in Seq(Calls) /\ p.answer \in Answers

IsAddition(t) ==
    \/ /\ t.of = "op" /\ t.name \in Kinds /\ t.action \in Actions
    \/ /\ t.of = "dialect" /\ t.name \in Dialects /\ t.action \in Actions

IsPass(p) ==
    /\ p.driver \in {"greedy", "partial", "full", "lower"}
    /\ p.patterns \in Seq(ToSet(p.patterns)) /\ p.target \in Seq(ToSet(p.target))
    /\ \A n \in DOMAIN p.patterns : IsPattern(p.patterns[n])
    /\ \A n \in DOMAIN p.target : IsAddition(p.target[n])

VARIABLES
    pass,       \* the driver, the list of patterns and the conversion target
    origin,     \* the operations before the pass
    ir,         \* the operations
    point,      \* where the builder of the driver inserts
    frames,     \* the operations that are being matched, the innermost last
    call,       \* the call of the pattern that is running
    work,       \* the worklist of the greedy driver
    log,        \* what a conversion did through its builder
    changed,    \* the iteration changed something
    round,      \* iterations before this one
    phase,
    result      \* what the pass returned

vars == <<pass, origin, ir, point, frames, call, work, log, changed, round, phase, result>>

patterns == pass.patterns
greedy == pass.driver = "greedy"

Ended == {"done", "raised", "fault"}
NoCall == [at |-> 0, held |-> None, home |-> <<>>, made |-> <<>>, saved |-> <<>>]

(***************************************************************************)
(* Operations and blocks.                                                  *)
(***************************************************************************)
Live(i) == {o \in Ops : i.kind[o] # Freed}
Users(i, o) == {u \in Live(i) : i.arg[u] = o}
BlockOf(i, o) == CHOOSE b \in Blocks : o \in ToSet(i.body[b])
PlaceIn(s, o) == CHOOSE n \in DOMAIN s : s[n] = o
InOrder(i) == FlattenSeq([n \in DOMAIN i.region |-> i.body[i.region[n]]])

(* An operation that is not freed is in one place of one block of the       *)
(* region, and no other operation is in a block.                            *)
Placed(i) ==
    /\ \A b, c \in Blocks : b # c => ToSet(i.body[b]) \cap ToSet(i.body[c]) = {}
    /\ Live(i) = ToSet(InOrder(i)) /\ Len(InOrder(i)) = Cardinality(Live(i))

IsProgram(i) ==
    /\ i \in Irs /\ Placed(i) /\ i.region # <<>> /\ IsInjective(i.region)
    /\ \A b \in Blocks \ ToSet(i.region) : i.body[b] = <<>>
    /\ \A o \in Ops \ Live(i) : i.arg[o] = None

ASSUME RewritingAssumption ==
    /\ Ops \subseteq Nat \ {0} /\ Blocks \subseteq Nat
    /\ "freed" \notin Kinds /\ "any" \notin Kinds /\ Pure \subseteq Kinds
    /\ MaxIterations \in Nat \ {0}
    /\ \A i \in Programs : IsProgram(i)
    /\ \A p \in Passes : IsPass(p)

(* The elements of a list that are in a set, in their order.                *)
Only(s, kept) ==
    LET only[n \in 0 .. Len(s)] ==
          IF n = 0 THEN <<>>
          ELSE IF s[n] \in kept THEN Append(only[n - 1], s[n]) ELSE only[n - 1]
    IN only[Len(s)]

Put(s, o, before) == IF before = End THEN Append(s, o) ELSE InsertAt(s, PlaceIn(s, before), o)

Grown(i, o, k, a, b, before) ==
    [i EXCEPT !.kind[o] = k, !.arg[o] = a, !.body[b] = Put(@, o, before)]

Without(i, o) ==
    [i EXCEPT !.kind[o] = Freed, !.arg[o] = None, !.body[BlockOf(i, o)] = Only(@, Ops \ {o})]

(* Every operand is defined, before it is used.                             *)
Ordered(i) ==
    \A o \in Live(i) : i.arg[o] # None =>
       i.arg[o] \in Live(i) /\ PlaceIn(InOrder(i), i.arg[o]) < PlaceIn(InOrder(i), o)

(* What the programs read in and verified before a driver runs on them.     *)
ASSUME ProgramsVerified == \A i \in Programs : Ordered(i)

Rerouted(i, o, v) ==
    [i EXCEPT !.arg = [u \in Ops |-> IF i.arg[u] = o THEN v ELSE i.arg[u]]]

(* Block::splitBlock: the operation and all after it go to a new block.     *)
Split(i, o, new) ==
    LET b == BlockOf(i, o)  n == PlaceIn(i.body[b], o) IN
    [i EXCEPT !.body[b] = SubSeq(@, 1, n - 1),
              !.body[new] = SubSeq(i.body[b], n, Len(i.body[b])),
              !.region = InsertAt(@, PlaceIn(@, b) + 1, new)]

(***************************************************************************)
(* The target of a conversion.  What was said of an operation goes before  *)
(* what was said of its dialect; of two statements the later one counts.   *)
(***************************************************************************)
Said(of, name) == {n \in DOMAIN pass.target : pass.target[n].of = of /\ pass.target[n].name = name}

Action(k) ==
    LET said == IF Said("op", k) # {} THEN Said("op", k) ELSE Said("dialect", DialectOf[k]) IN
    IF said = {} THEN "unknown" ELSE pass.target[Max(said)].action

(***************************************************************************)
(* The driver's side of the builder.  The greedy driver hears of what is   *)
(* inserted, replaced and erased through it and keeps its worklist; a      *)
(* conversion writes it down, and replaces and erases only at its end.     *)
(***************************************************************************)
Listed(w, o) == IF o = None \/ o \in ToSet(w) THEN w ELSE Append(w, o)
(* The same for a list of different operations.                            *)
AllListed(w, s) == w \o Only(s, Ops \ ToSet(w))

(* An operand that the erased operation was the only one to use comes back. *)
Dropped(w, i, o) ==
    LET a == i.arg[o] IN
    Only(IF a # None /\ Cardinality(Users(i, a)) < 2 THEN Listed(w, a) ELSE w, Ops \ {o})

EntriesSince(n, did) == Only(SubSeq(log, n + 1, Len(log)), {e \in ToSet(log) : e.did = did})
Entries(did) == EntriesSince(0, did)
Replaced == {e.op : e \in ToSet(Entries("replace"))}
CreatedSince(n) == LET made == EntriesSince(n, "create") IN [m \in DOMAIN made |-> made[m].op]

(* The operations without those of a set.                                   *)
Rid(i, gone) ==
    [i EXCEPT !.kind = [o \in Ops |-> IF o \in gone THEN Freed ELSE i.kind[o]],
              !.arg = [o \in Ops |-> IF o \in gone THEN None ELSE i.arg[o]],
              !.body = [b \in Blocks |-> Only(i.body[b], Ops \ gone)]]

Undone(n) == Rid(ir, ToSet(CreatedSince(n)))
Undoable(n) ==
    LET created == ToSet(CreatedSince(n)) IN
    created \subseteq Live(ir) /\ \A u \in Live(ir) \ created : ir.arg[u] \notin created

(* At the end of a conversion uses follow the replacements, then what was   *)
(* replaced is erased, the last first.  What a pattern erases is written    *)
(* down as replaced by itself: its uses stay.                               *)
By(o) == (CHOOSE e \in ToSet(Entries("replace")) : e.op = o).by
Final[o \in Ops \cup {None}] == IF o \in Replaced /\ By(o) # o THEN Final[By(o)] ELSE o
Applied == LET i == [ir EXCEPT !.arg = [o \in Ops |-> Final[ir.arg[o]]]] IN Rid(i, Replaced)
UsedWhenErased ==
    LET gone == Entries("replace") IN
    \/ \E o \in Live(ir) \ Replaced : Final[ir.arg[o]] \in Replaced
    \/ \E n, m \in DOMAIN gone : n < m /\ Final[ir.arg[gone[n].op]] = gone[m].op

(***************************************************************************)
(* The driver and the patterns.                                            *)
(***************************************************************************)
frame == frames[Len(frames)]
root == frame.op
Framed(o) == [op |-> o, tried |-> 0, mark |-> Len(log), todo |-> <<>>]
Retried(n) == [frames EXCEPT ![Len(frames)].tried = n]
Advanced == [Front(frames) EXCEPT ![Len(frames) - 1].todo = Tail(@)]

Init ==
    /\ pass \in Passes /\ ir \in Programs /\ origin = ir
    /\ point = [block |-> ir.region[1], before |-> End]
    /\ frames = <<>> /\ call = NoCall /\ work = <<>> /\ log = <<>>
    /\ changed = FALSE /\ round = 0 /\ phase = "start" /\ result = "none"

Stop(how, what) ==
    /\ phase' = how /\ result' = what
    /\ UNCHANGED <<pass, origin, point, frames, call, work, log, changed, round>>
Fault(what) == Stop("fault", what) /\ UNCHANGED ir

(***************************************************************************)
(* The greedy driver: all operations go to the worklist, which is emptied  *)
(* from its end, again and again until nothing changed or too often.       *)
(***************************************************************************)
Walk ==
    /\ greedy /\ phase = "start"
    /\ work' = InOrder(ir) /\ changed' = FALSE /\ phase' = "pop"
    /\ UNCHANGED <<pass, origin, ir, point, frames, call, log, round, result>>

Dead(o) == ir.kind[o] \in Pure /\ Users(ir, o) = {}

Pop ==
    /\ greedy /\ phase = "pop" /\ work # <<>>
    /\ LET o == Last(work) IN
       CASE ir.kind[o] = Freed -> Fault("freed")
         [] Dead(o) ->
              /\ ir' = Without(ir, o) /\ changed' = TRUE
              /\ work' = Dropped(Front(work), ir, o)
              /\ UNCHANGED <<pass, origin, point, frames, call, log, round, phase, result>>
         [] OTHER ->
              /\ work' = Front(work) /\ frames' = <<Framed(o)>> /\ phase' = "match"
              /\ point' = [block |-> BlockOf(ir, o), before |-> o]
              /\ UNCHANGED <<pass, origin, ir, call, log, changed, round, result>>

(* Fault: applyOptPatterns returns true whenever it ends.                   *)
X_Converged == TRUE
(* applyOptPatterns returns whether the last iteration changed nothing.     *)
Converged == ~changed

Iterate ==
    /\ greedy /\ phase = "pop" /\ work = <<>>
    /\ IF changed /\ round + 1 < MaxIterations
       THEN /\ round' = round + 1 /\ phase' = "start"
            /\ UNCHANGED <<pass, origin, ir, point, frames, call, work, log, changed, result>>
       ELSE Stop("done", IF Converged THEN "success" ELSE "failure") /\ UNCHANGED ir

(***************************************************************************)
(* A conversion: the operations in their order, and after a pattern those  *)
(* that it created.  What a pattern did is undone when it fails or when    *)
(* something it created cannot be made legal.                              *)
(***************************************************************************)
Collect ==
    /\ ~greedy /\ phase = "start"
    /\ frames' = <<[Framed(None) EXCEPT !.todo = InOrder(ir)]>> /\ phase' = "legalize"
    /\ UNCHANGED <<pass, origin, ir, point, call, work, log, changed, round, result>>

Legalize ==
    /\ phase = "legalize" /\ frame.todo # <<>>
    /\ LET o == Head(frame.todo) IN
       CASE ir.kind[o] = Freed -> Fault("freed")
         [] ir.kind[o] # Freed /\ (o \in Replaced \/ Action(ir.kind[o]) = "legal") ->
              /\ frames' = [frames EXCEPT ![Len(frames)].todo = Tail(@)]
              /\ UNCHANGED <<pass, origin, ir, point, call, work, log, changed, round, phase, result>>
         [] OTHER ->
              /\ frames' = Append(frames, Framed(o)) /\ phase' = "match"
              /\ UNCHANGED <<pass, origin, ir, point, call, work, log, changed, round, result>>

(* The pass of lowerToLLVM fails when its conversion does, and when what it  *)
(* made does not verify: the pass manager verifies after each of its passes.*)
Accepted(i) == pass.driver = "lower" => Ordered(i)

Legalized ==
    /\ phase = "legalize" /\ frame.todo = <<>>
    /\ IF Len(frames) = 1
       THEN IF UsedWhenErased
            THEN Fault("used")
            ELSE ir' = Applied /\ Stop("done", IF Accepted(Applied) THEN "success" ELSE "failure")
       ELSE /\ frames' = Advanced
            /\ UNCHANGED <<pass, origin, ir, point, call, work, log, changed, round, phase, result>>

(* A conversion gives up what was done since the mark, and goes on with the *)
(* frames it is left with.                                                  *)
GiveUp(n, rest) ==
    IF ~Undoable(n) THEN Fault("undo")
    ELSE /\ ir' = Undone(n) /\ log' = SubSeq(log, 1, n)
         /\ rest

(* Fault: applyPartialConversion and applyFullConversion return true        *)
(* whenever they end.                                                       *)
X_Surrender ==
    /\ phase' = "done" /\ result' = "success"
    /\ UNCHANGED <<pass, origin, point, frames, call, work, changed, round>>

Surrender ==
    /\ phase' = "done" /\ result' = "failure"
    /\ UNCHANGED <<pass, origin, point, frames, call, work, changed, round>>

Unconverted ==
    LET lost == pass.driver = "full" \/ Action(ir.kind[root]) = "illegal" IN
    \/ /\ Len(frames) > 2      \* the pattern that created the operation fails
       /\ GiveUp(frames[Len(frames) - 1].mark,
                 /\ frames' = [Front(frames) EXCEPT ![Len(frames) - 1].todo = <<>>]
                 /\ UNCHANGED <<pass, origin, point, call, work, changed, round, phase, result>>)
    \/ /\ Len(frames) = 2 /\ lost
       /\ GiveUp(0, Surrender)
    \/ /\ Len(frames) = 2 /\ ~lost
       /\ frames' = Advanced /\ phase' = "legalize"
       /\ UNCHANGED <<pass, origin, ir, point, call, work, log, changed, round, result>>

(***************************************************************************)
(* The matcher: the patterns for the name of the operation, in the order   *)
(* of the list, until one answers that it rewrote.  A conversion does not  *)
(* apply a pattern inside of itself.                                       *)
(***************************************************************************)
Applying == {frames[n].tried : n \in 1 .. Len(frames) - 1}

(* Fault: a conversion applies a pattern to what it created itself.         *)
X_Untried == {n \in DOMAIN patterns : n > frame.tried /\ patterns[n].root = ir.kind[root]}
Untried ==
    {n \in DOMAIN patterns : /\ n > frame.tried /\ patterns[n].root = ir.kind[root]
                             /\ greedy \/ n \notin Applying}

(* isa: the operand is the result of an operation of that name.             *)
IsDefinedBy(o, k) == o # None /\ ir.kind[o] = k
Suits(p, o) == p.def = "any" \/ IsDefinedBy(ir.arg[o], p.def)

Unmatched ==
    IF greedy
    THEN /\ frames' = <<>> /\ phase' = "pop"
         /\ UNCHANGED <<pass, origin, ir, point, call, work, log, changed, round, result>>
    ELSE Unconverted

Match ==
    /\ phase = "match"
    /\ CASE ir.kind[root] = Freed -> Fault("freed")
         [] ir.kind[root] # Freed /\ Untried = {} -> Unmatched
         [] OTHER ->
              LET n == Min(Untried) IN
              /\ frames' = Retried(n)
              /\ IF Suits(patterns[n], root)
                 THEN /\ phase' = "call"
                      /\ call' = [NoCall EXCEPT !.at = 1, !.held = ir.arg[root],
                                               !.home = <<BlockOf(ir, root)>>]
                 ELSE UNCHANGED <<phase, call>>
              /\ point' = IF greedy THEN point ELSE [block |-> BlockOf(ir, root), before |-> root]
              /\ UNCHANGED <<pass, origin, ir, work, log, changed, round, result>>

(***************************************************************************)
(* The calls of a function.                                                *)
(***************************************************************************)
script == patterns[frame.tried]
now == script.calls[call.at]

Calling(do) ==
    /\ phase = "call" /\ call.at <= Len(script.calls) /\ now.do = do

Called == call' = [call EXCEPT !.at = @ + 1]
RootFreed == ir.kind[root] = Freed

Sound(p) ==     \* the point is in the block it is said to be in
    p.before = End \/ (ir.kind[p.before] # Freed /\ BlockOf(ir, p.before) = p.block)

Argument == IF call.made # <<>> THEN Last(call.made) ELSE call.held

(* A new operation gets an address that something still mentions, or any    *)
(* other: those are alike, and the first of them stands for all.            *)
Mentioned ==
    ToSet(work) \cup ToSet(call.made) \cup {point.before, call.held} \cup
    {frames[n].op : n \in DOMAIN frames} \cup UNION {ToSet(frames[n].todo) : n \in DOMAIN frames} \cup
    {call.saved[n].before : n \in DOMAIN call.saved}
Fresh ==
    LET free == Ops \ Live(ir)  spare == free \ Mentioned IN
    (free \cap Mentioned) \cup {o \in spare : \A q \in spare : o <= q}

(* Fault: Builder.create puts the operation into its block by itself, so    *)
(* that the driver does not hear of it.                                     *)
X_Create ==
    /\ Calling("create")
    /\ CASE RootFreed -> Fault("freed")
         [] ~RootFreed /\ ~Sound(point) -> Fault("point")
         [] OTHER ->
              \E o \in Fresh :
                 /\ ir' = Grown(ir, o, now.kind, Argument, point.block, point.before)
                 /\ call' = [call EXCEPT !.at = @ + 1, !.made = Append(@, o)]
                 /\ UNCHANGED <<pass, origin, point, frames, work, log, changed, round, phase, result>>

(* Builder.create makes the operation, which reads its root for a location  *)
(* and operands, and inserts it.                                            *)
Create ==
    /\ Calling("create")
    /\ CASE RootFreed -> Fault("freed")
         [] ~RootFreed /\ ~Sound(point) -> Fault("point")
         [] OTHER ->
              \E o \in Fresh :
                 /\ ir' = Grown(ir, o, now.kind, Argument, point.block, point.before)
                 /\ call' = [call EXCEPT !.at = @ + 1, !.made = Append(@, o)]
                 /\ work' = IF greedy THEN Listed(work, o) ELSE work
                 /\ log' = IF greedy THEN log ELSE Append(log, [did |-> "create", op |-> o])
                 /\ UNCHANGED <<pass, origin, point, frames, changed, round, phase, result>>

(* Block.append, which the driver does not hear of.                         *)
Push ==
    /\ Calling("append")
    /\ IF RootFreed THEN Fault("freed")
       ELSE \E o \in Fresh :
               /\ ir' = Grown(ir, o, now.kind, call.held, BlockOf(ir, root), End)
               /\ Called
               /\ UNCHANGED <<pass, origin, point, frames, work, log, changed, round, phase, result>>

(* Builder.replace and Builder.erase.                                       *)
Retire(o, by, w) ==
    IF greedy
    THEN LET i == Rerouted(ir, o, by) IN
         /\ ir' = Without(i, o) /\ work' = Dropped(w, i, o) /\ UNCHANGED log
    ELSE /\ log' = Append(log, [did |-> "replace", op |-> o, by |-> by])
         /\ UNCHANGED <<ir, work>>

InUse(o) == Only(InOrder(ir), Users(ir, o))

Replace ==
    /\ Calling("replace")
    /\ IF RootFreed \/ (Argument # None /\ ir.kind[Argument] = Freed) THEN Fault("freed")
       ELSE \E users \in {InUse(root), Reverse(InUse(root))} :
               /\ Retire(root, Argument, IF greedy THEN AllListed(work, users) ELSE work)
               /\ Called
               /\ UNCHANGED <<pass, origin, point, frames, changed, round, phase, result>>

EraseOp(o) ==
    CASE ir.kind[o] = Freed -> Fault("freed")
      [] ir.kind[o] # Freed /\ greedy /\ Users(ir, o) # {} -> Fault("used")
      [] OTHER ->
           /\ Retire(o, o, work) /\ Called
           /\ UNCHANGED <<pass, origin, point, frames, changed, round, phase, result>>

(* Fault: Builder.erase is bound to Operation::erase.                       *)
X_Erase ==
    /\ Calling("erase")
    /\ CASE RootFreed -> Fault("freed")
         [] ~RootFreed /\ Users(ir, root) # {} -> Fault("used")
         [] OTHER -> /\ ir' = Without(ir, root) /\ Called
                     /\ UNCHANGED <<pass, origin, point, frames, work, log, changed, round, phase, result>>

Erase == Calling("erase") /\ EraseOp(root)

EraseDef ==
    /\ Calling("eraseDef")
    /\ IF call.held # None THEN EraseOp(call.held)
       ELSE Called /\ UNCHANGED <<pass, origin, ir, point, frames, work, log, changed, round, phase, result>>

(* Fault: Operation.erase is bound to Operation::destroy, which leaves the  *)
(* operation in its block.                                                  *)
X_Unlink ==
    /\ Calling("unlink")
    /\ CASE RootFreed \/ root \in Replaced -> Fault("freed")
         [] ~RootFreed /\ root \notin Replaced /\ Users(ir, root) # {} -> Fault("used")
         [] OTHER -> /\ ir' = [ir EXCEPT !.kind[root] = Freed, !.arg[root] = None] /\ Called
                     /\ UNCHANGED <<pass, origin, point, frames, work, log, changed, round, phase, result>>

(* Operation.erase, which the driver does not hear of: a conversion reads   *)
(* what it is to replace again, when it ends and when it undoes that.       *)
Unlink ==
    /\ Calling("unlink")
    /\ CASE RootFreed \/ root \in Replaced -> Fault("freed")
         [] ~RootFreed /\ root \notin Replaced /\ Users(ir, root) # {} -> Fault("used")
         [] OTHER -> /\ ir' = Without(ir, root) /\ Called
                     /\ UNCHANGED <<pass, origin, point, frames, work, log, changed, round, phase, result>>

(* Block.split, which the driver does not hear of.                          *)
SplitBlock ==
    /\ Calling("split")
    /\ IF RootFreed THEN Fault("freed")
       ELSE \E new \in Blocks \ ToSet(ir.region) :
               /\ \A b \in Blocks \ ToSet(ir.region) : new <= b     \* they are alike
               /\ ir' = Split(ir, root, new) /\ Called
               /\ UNCHANGED <<pass, origin, point, frames, work, log, changed, round, phase, result>>

(* insertBefore and insertAfter on the root, insertAtStart and insertAtEnd  *)
(* on the block that it was in, saveIp and restoreIp.                       *)
First(s) == IF s = <<>> THEN End ELSE s[1]
Following(s, o) == First(SubSeq(s, PlaceIn(s, o) + 1, Len(s)))
(* Fault: insertAtEnd is bound to setInsertionPointToStart.                 *)
X_PointFor(do) ==
    LET b == IF do \in {"start", "end"} THEN call.home[1] ELSE BlockOf(ir, root) IN
    [block |-> b,
     before |-> CASE do = "before" -> root
                  [] do = "after" -> Following(ir.body[b], root)
                  [] do \in {"start", "end"} -> First(ir.body[b])]

PointFor(do) ==
    LET b == IF do \in {"start", "end"} THEN call.home[1] ELSE BlockOf(ir, root) IN
    [block |-> b,
     before |-> CASE do = "before" -> root
                  [] do = "after" -> Following(ir.body[b], root)
                  [] do = "start" -> First(ir.body[b])
                  [] do = "end" -> End]

SetPoint ==
    /\ \E do \in {"before", "after", "start", "end"} : Calling(do)
    /\ IF RootFreed /\ now.do \in {"before", "after"} THEN Fault("freed")
       ELSE /\ point' = PointFor(now.do) /\ Called
            /\ UNCHANGED <<pass, origin, ir, frames, work, log, changed, round, phase, result>>

SavePoint ==
    /\ Calling("save")
    /\ call' = [call EXCEPT !.at = @ + 1, !.saved = <<point>>]
    /\ UNCHANGED <<pass, origin, ir, point, frames, work, log, changed, round, phase, result>>

RestorePoint ==
    /\ Calling("restore")
    /\ point' = IF call.saved = <<>> THEN point ELSE call.saved[1]
    /\ Called
    /\ UNCHANGED <<pass, origin, ir, frames, work, log, changed, round, phase, result>>

(***************************************************************************)
(* PyPatternImpl::matchAndRewrite: the answer of the function as a Boolean *)
(* (None is false), or its exception, which goes through the driver.       *)
(***************************************************************************)
Succeeded(p) == p.answer = "True"

Answer ==
    /\ phase = "call" /\ call.at > Len(script.calls)
    /\ CASE script.answer = "raises" ->
              /\ phase' = "raised" /\ call' = NoCall
              /\ UNCHANGED <<pass, origin, ir, point, frames, work, log, changed, round, result>>
         [] script.answer # "raises" /\ Succeeded(script) /\ greedy ->
              /\ changed' = TRUE /\ frames' = <<>> /\ phase' = "pop" /\ call' = NoCall
              /\ UNCHANGED <<pass, origin, ir, point, work, log, round, result>>
         [] script.answer # "raises" /\ Succeeded(script) /\ ~greedy /\ root \notin Replaced ->
              Fault("kept")
         [] script.answer # "raises" /\ Succeeded(script) /\ ~greedy /\ root \in Replaced ->
              /\ frames' = [frames EXCEPT ![Len(frames)].todo = CreatedSince(frame.mark)]
              /\ phase' = "legalize" /\ call' = NoCall
              /\ UNCHANGED <<pass, origin, ir, point, work, log, changed, round, result>>
         [] script.answer # "raises" /\ ~Succeeded(script) /\ greedy ->
              /\ phase' = "match" /\ call' = NoCall
              /\ UNCHANGED <<pass, origin, ir, point, frames, work, log, changed, round, result>>
         [] OTHER ->
              GiveUp(frame.mark,
                     /\ phase' = "match" /\ call' = NoCall
                     /\ UNCHANGED <<pass, origin, point, frames, work, changed, round, result>>)

(* The bound of the model: no address or no block is left.                  *)
Exhausted ==
    /\ \/ \E do \in {"create", "append"} : Calling(do) /\ Live(ir) = Ops
       \/ Calling("split") /\ ToSet(ir.region) = Blocks
    /\ ~RootFreed
    /\ Stop("cut", "none") /\ UNCHANGED ir

Finished == phase \in Ended \cup {"cut"} /\ UNCHANGED vars

Next ==
    \/ Walk \/ Pop \/ Iterate
    \/ Collect \/ Legalize \/ Legalized
    \/ Match \/ Answer
    \/ Create \/ Push \/ Replace \/ Erase \/ EraseDef \/ Unlink \/ SplitBlock
    \/ SetPoint \/ SavePoint \/ RestorePoint
    \/ Exhausted \/ Finished

Spec == Init /\ [][Next]_vars

(* A driver is one loop in one thread: it goes on until it returns.         *)
FairSpec == Spec /\ WF_vars(Next)

(***************************************************************************)
(* What a function is like.  Nothing enforces any of this: the properties  *)
(* say what the code gives to a client that keeps to it, and the           *)
(* exceptions are needed, each of them.                                    *)
(***************************************************************************)
Does(p, dos) == \E n \in DOMAIN p.calls : p.calls[n].do \in dos
Unheard == {"append", "unlink", "split"}
Inserts == {"create", "append"}
Retires == {"replace", "erase", "unlink"}
Moves == {"start", "end", "before", "after"}
Removes(p) == Does(p, Retires)
Rewrites(p) == Does(p, Retires \cup Inserts \cup {"eraseDef", "split"})

(* After a call that may take the insertion point away, it is set again     *)
(* before an operation is created; what was erased is not used any more.    *)
Orderly(p) ==
    /\ \A n \in DOMAIN p.calls : p.calls[n].do = "create" =>
         \A m \in 1 .. n - 1 : p.calls[m].do \in Retires \cup {"eraseDef", "split"} =>
             \E l \in m + 1 .. n - 1 : p.calls[l].do \in Moves
    /\ \A m, n \in DOMAIN p.calls : m < n =>
         /\ p.calls[m].do \in Retires =>
              p.calls[n].do \notin Retires \cup Inserts \cup {"before", "after", "split"}
         /\ p.calls[m].do = "eraseDef" => p.calls[n].do \notin Inserts \cup {"eraseDef", "replace"}
    /\ ~Does(p, {"restore"}) \/ ~Does(p, Retires \cup {"eraseDef", "split"})

(* It does not say that it did nothing when it did something.               *)
Honest(p) == p.answer = "True" \/ ~Rewrites(p)

(* It retires operations through the builder, says so, and in a conversion  *)
(* creates them through it too and replaces what it says it rewrote.        *)
Disciplined(p) ==
    /\ Orderly(p) /\ ~Does(p, {"unlink"})
    /\ p.answer = "True" \/ ~Does(p, Retires \cup {"split"})
    /\ greedy \/ (p.answer = "True" => Removes(p))
    /\ greedy \/ ~Does(p, {"append"})

(* It inserts next to its root and never goes back: to the end of what it   *)
(* split off, then before the root, then after it, once and as the last of  *)
(* its moves, and it does not leave the point there to the next function.   *)
InPlace(p) ==
    /\ ~Does(p, {"start", "restore"})
    /\ \A n \in DOMAIN p.calls : p.calls[n].do = "end" =>
         \E m \in 1 .. n - 1 : p.calls[m].do = "split"
    /\ \A m, n \in DOMAIN p.calls : m < n =>
         /\ p.calls[m].do = "before" => p.calls[n].do # "end"
         /\ p.calls[m].do = "after" => p.calls[n].do \notin {"before", "after", "end", "split"}
    /\ Does(p, {"after"}) => p.answer = "True"

All(P(_)) == \A n \in DOMAIN patterns : P(patterns[n])

(* What a function creates is of a lower rank than its root, which it       *)
(* removes.                                                                 *)
Falling ==
    \E rank \in [Kinds -> 1 .. Cardinality(Kinds)] :
       \A n \in DOMAIN patterns : LET p == patterns[n] IN
          /\ Does(p, Inserts \cup {"split"}) => Removes(p)
          /\ \A m \in DOMAIN p.calls :
                p.calls[m].do \in Inserts => rank[p.calls[m].kind] < rank[p.root]

(***************************************************************************)
(* Properties.                                                             *)
(***************************************************************************)
Points == [block : Blocks, before : Ops \cup {End}]

(* The variables have their types, and every operation has its place.       *)
TypeOK ==
    /\ IsPass(pass) /\ origin \in Programs /\ ir \in Irs /\ point \in Points
    /\ work \in Seq(Ops) /\ changed \in BOOLEAN /\ round \in 0 .. MaxIterations - 1
    /\ phase \in {"start", "pop", "legalize", "match", "call", "cut"} \cup Ended
    /\ Placed(ir)

(* With disciplined functions no erased operation is ever read, by the      *)
(* driver from its worklist, by a later pattern for the same root or by the *)
(* one builder through its insertion point: the only fault is the one MLIR  *)
(* asserts against, to erase what is still used.  (ExposeBuilder.cpp:45-46  *)
(* notes rare segfaults of isa whose cause is not known.)                   *)
NoFault == All(Disciplined) /\ phase = "fault" => result = "used"

(* When applyOptPatterns returns true and no function hid a rewrite behind  *)
(* None or False, the operations are at a fixpoint: no pattern that         *)
(* rewrites applies to any of them, and nothing unused could be removed,    *)
(* also where operations came by Block.append, unheard by the driver.       *)
SettledWhenConverged ==
    greedy /\ phase = "done" /\ result = "success" /\ All(Honest) =>
       \A o \in Live(ir) :
          /\ ~Dead(o)
          /\ \A n \in DOMAIN patterns : LET p == patterns[n] IN
                p.root = ir.kind[o] /\ Suits(p, o) => ~Rewrites(p) /\ p.answer # "True"

(* When the functions insert next to their roots and never go back, every   *)
(* operand is defined before it is used at every step, in the middle of a   *)
(* function and of a conversion as well.                                    *)
(* When lowerToLLVM returns true this holds whatever the functions did.     *)
DefsFirst ==
    \/ All(InPlace)
    \/ pass.driver = "lower" /\ phase = "done" /\ result = "success"
    => Ordered(ir)

(* A conversion that returns true leaves no operation that is illegal, a    *)
(* full one only legal ones, whatever the functions answered, as long as    *)
(* they append nothing else behind its back.                                *)
HeardOf(p) ==
    /\ ~Does(p, {"unlink"})
    /\ \A n \in DOMAIN p.calls : p.calls[n].do = "append" => Action(p.calls[n].kind) = "legal"

ConvertedIsLegal ==
    ~greedy /\ phase = "done" /\ result = "success" /\ All(HeardOf) =>
       \A o \in Live(ir) :
          IF pass.driver = "full" THEN Action(ir.kind[o]) = "legal"
                                  ELSE Action(ir.kind[o]) # "illegal"

(* A conversion that returns false leaves the operations as they were,      *)
(* whatever the functions that it tried did through the builder; only       *)
(* lowerToLLVM may also leave operations converted that do not verify.      *)
FailureRestores ==
    ~greedy /\ phase = "done" /\ result = "failure"
    /\ (\A n \in DOMAIN patterns : ~Does(patterns[n], Unheard)) =>
       ir = origin \/ (pass.driver = "lower" /\ ~Ordered(ir))

(* A conversion always ends, and the greedy driver does so, within one      *)
(* iteration too, when the patterns lower the rank of what they rewrite.    *)
Returns == phase = "start" /\ (greedy => Falling) ~> phase \in Ended
=============================================================================
