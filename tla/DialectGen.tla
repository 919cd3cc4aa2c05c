----------------------------- MODULE DialectGen -----------------------------
(***************************************************************************)
(* Registration of the dialects of a dmc module: lib/Spec/DialectGen.cpp,  *)
(* the reparse methods of lib/Spec/OpReparsing.cpp and the Python entry    *)
(* point of lib/Python/ExternalModule.cpp.  One call registers the         *)
(* dialects of one module in order; the first reported failure ends the    *)
(* call and leaves everything done so far in place.  A Python program may  *)
(* catch the exception and call again with another module; the C++ tools   *)
(* make one call.                                                          *)
(***************************************************************************)
EXTENDS DynamicContext

CONSTANT NoDialect
ASSUME NoDialectAssumption == NoDialect \notin Dialects

VARIABLES
    running,    \* inside registerAllDialects or registerDynamicDialects
    scope,      \* the dialects of the call so far, in order
    cur,        \* the dialect registerDialect is working on
    exposed,    \* namespaces with a register_internal_module_* function
    diag,       \* the last diagnostic emitted by a failed registration
    crash       \* what killed the process, if anything did

driverVars == <<running, scope, cur, exposed, diag, crash>>
vars == <<ctxVars, driverVars>>

Diagnostics == {"none", "unparsed", "trait", "aliasExists"}
Crashes == {"none", "namespace", "pool", "format", "expose"}

Scope == {scope[i] : i \in DOMAIN scope}

TypeOK ==
    /\ ContextTypeOK
    /\ running \in BOOLEAN
    /\ scope \in Seq(Dialects)
    /\ cur \in Dialects \cup {NoDialect}
    /\ exposed \subseteq Dialects
    /\ diag \in Diagnostics
    /\ crash \in Crashes

Init ==
    /\ ContextInit
    /\ running = FALSE
    /\ scope = <<>>
    /\ cur = NoDialect
    /\ exposed = {}
    /\ diag = "none"
    /\ crash = "none"

-----------------------------------------------------------------------------
Alive == crash = "none"

(* Fault: the scope is not local to the call.                              *)
Fail_KeepScope(d) ==
    /\ running' = FALSE
    /\ cur' = NoDialect
    /\ diag' = d
    /\ UNCHANGED <<scope, exposed, crash>>

(* A failed handler: the failure is returned through every caller.         *)
Fail(d) ==
    /\ running' = FALSE
    /\ cur' = NoDialect
    /\ scope' = <<>>
    /\ diag' = d
    /\ UNCHANGED <<exposed, crash>>

(***************************************************************************)
(* The process aborts: report_fatal_error, a failed assertion, or an       *)
(* exception that leaves a destructor.                                     *)
(***************************************************************************)
Abort(c) ==
    /\ crash' = c
    /\ UNCHANGED <<ctxVars, running, scope, cur, exposed, diag>>

(* Fault: every call gets a pool of its own.                               *)
StartCall_FreshPool ==
    /\ Alive /\ ~running
    /\ running' = TRUE
    /\ diag' = "none"
    /\ nextID' = 0
    /\ UNCHANGED <<registered, tables, scope, cur, exposed, crash>>

StartCall ==
    /\ Alive /\ ~running
    /\ running' = TRUE
    /\ diag' = "none"
    /\ UNCHANGED <<ctxVars, scope, cur, exposed, crash>>

EndCall ==
    /\ Alive /\ running /\ cur = NoDialect
    /\ running' = FALSE
    /\ scope' = <<>>
    /\ UNCHANGED <<ctxVars, cur, exposed, diag, crash>>

(* Fault: a namespace that exists is opened again.                         *)
CreateDialect_Reopen(d) ==
    /\ Alive /\ running /\ cur = NoDialect
    /\ d \notin Scope
    /\ AllocateID
    /\ registered' = registered \cup {d}
    /\ scope' = Append(scope, d)
    /\ cur' = d
    /\ UNCHANGED <<tables, running, exposed, diag, crash>>

(***************************************************************************)
(* createDynamicDialect.  The names of a module's dialects are distinct    *)
(* (ModuleOp is a symbol table); a namespace of an earlier call is         *)
(* registered under another TypeID and getOrCreateDialect aborts.          *)
(***************************************************************************)
CreateDialect(d) ==
    /\ Alive /\ running /\ cur = NoDialect
    /\ d \notin Scope
    /\ \/ nextID = PoolSize /\ Abort("pool")
       \/ nextID < PoolSize /\ d \in registered /\ Abort("namespace")
       \/ /\ d \notin registered
          /\ AllocateID
          /\ registered' = registered \cup {d}
          /\ scope' = Append(scope, d)
          /\ cur' = d
          /\ UNCHANGED <<tables, running, exposed, diag, crash>>

-----------------------------------------------------------------------------
(***************************************************************************)
(* The children of the dialect.  DialectOp is a symbol table, so their     *)
(* names are distinct, whatever they declare.                              *)
(***************************************************************************)
Declared(d) ==
    DOMAIN dynOps[d] \cup UNION {DOMAIN dynObjs[k][d] \cup DOMAIN aliases[k][d] : k \in Kinds}

Child(n) == Alive /\ cur # NoDialect /\ n \notin Declared(cur)

(***************************************************************************)
(* A reference was parsed a first time with the module, when only the      *)
(* dialects of earlier calls were registered, and is printed and parsed    *)
(* again (reparseType, reparseAttr) when its turn comes.                   *)
(***************************************************************************)
Before == registered \ Scope
Written(k, r) == Printed(Parsed(k, r, Before))
Reparses(k, r) == Parses(k, Written(k, r), registered)
(* Fault: the result of the second parse is not stored.                    *)
Reparsed_FirstOnly(k, r) == Parsed(k, r, Before)

Reparsed(k, r) == Parsed(k, Written(k, r), registered)

Unparsed(k, r) == ~Reparses(k, r) /\ Fail("unparsed") /\ UNCHANGED ctxVars

(***************************************************************************)
(* registerOp: the TypeID is taken first; a user trait may be rejected     *)
(* (its parameters do not verify, or it is listed twice); a format that    *)
(* does not parse leaves an empty Python function, which the destructor of *)
(* InMemoryDef cannot execute.                                             *)
(***************************************************************************)
OpOutcomes == {"ok", "traitRejected", "badFormat"}

RegisterOp(n, k, r, outcome, hasDefault) ==
    /\ Child(n) /\ Parses(k, r, Before)
    /\ \/ Unparsed(k, r)
       \/ Reparses(k, r) /\ nextID = PoolSize /\ Abort("pool")
       \/ /\ Reparses(k, r) /\ outcome = "traitRejected"
          /\ AllocateID
          /\ Fail("trait")
          /\ UNCHANGED <<registered, tables>>
       \/ /\ Reparses(k, r) /\ nextID < PoolSize /\ outcome = "badFormat"
          /\ Abort("format")
       \/ /\ Reparses(k, r) /\ outcome = "ok"
          /\ AllocateID
          /\ FinalizeOp(cur, n, [uses |-> <<k, Reparsed(k, r)>>, hasDefault |-> hasDefault])
          /\ UNCHANGED <<registered, driverVars>>

(***************************************************************************)
(* registerType and registerAttr: k is what is declared, the constraint of *)
(* its parameter refers to r of kind kr.  The format comes after the       *)
(* registration.                                                           *)
(***************************************************************************)
RegisterObject(k, n, kr, r, badFormat) ==
    /\ Child(n) /\ Parses(kr, r, Before)
    /\ \/ Unparsed(kr, r)
       \/ Reparses(kr, r) /\ nextID = PoolSize /\ Abort("pool")
       \/ Reparses(kr, r) /\ nextID < PoolSize /\ badFormat /\ Abort("format")
       \/ /\ Reparses(kr, r) /\ ~badFormat
          /\ AllocateID
          /\ CreateDynamicObject(k, cur, n, <<kr, Reparsed(kr, r)>>)
          /\ UNCHANGED <<registered, driverVars>>

(* Fault: a value that is taken is not reported.                           *)
RegisterAlias_Unreported(k, n, r) ==
    /\ Child(n) /\ Parses(k, r, Before)
    /\ \/ Unparsed(k, r)
       \/ /\ Reparses(k, r)
          /\ PutAlias(k, cur, n, Reparsed(k, r))
          /\ UNCHANGED <<nextID, registered, driverVars>>

(***************************************************************************)
(* registerAlias.  The checks that the name is free cannot fail (Child);   *)
(* both ways in which the value is taken emit the same diagnostic.         *)
(***************************************************************************)
RegisterAlias(k, n, r) ==
    /\ Child(n) /\ Parses(k, r, Before)
    /\ \/ Unparsed(k, r)
       \/ /\ Reparses(k, r)
          /\ PutAlias(k, cur, n, Reparsed(k, r))
          /\ UNCHANGED <<nextID, registered>>
          /\ \/ AliasValueFree(k, cur, Reparsed(k, r)) /\ UNCHANGED driverVars
             \/ ~AliasValueFree(k, cur, Reparsed(k, r)) /\ Fail("aliasExists")

(***************************************************************************)
(* py::exposeDialectInternal imports the modules of the dialects of the    *)
(* scope and throws for an operation with a DefaultAttr while a class is   *)
(* half written, whose destructor throws again.                            *)
(***************************************************************************)
Importable == Scope \subseteq exposed \cup {cur}
Exposable == Importable /\ \A n \in DOMAIN dynOps[cur] : ~dynOps[cur][n].hasDefault

(* Fault: the dialect stays current.                                       *)
Expose_StaysCurrent ==
    /\ Alive /\ cur # NoDialect /\ Exposable
    /\ exposed' = exposed \cup {cur}
    /\ UNCHANGED <<ctxVars, running, scope, cur, diag, crash>>

Expose ==
    /\ Alive /\ cur # NoDialect
    /\ \/ ~Exposable /\ Abort("expose")
       \/ /\ Exposable
          /\ exposed' = exposed \cup {cur}
          /\ cur' = NoDialect
          /\ UNCHANGED <<ctxVars, running, scope, diag, crash>>

(* The process has ended. *)
Terminated == ~Alive /\ UNCHANGED vars

Next ==
    \/ StartCall
    \/ EndCall
    \/ \E d \in Dialects : CreateDialect(d)
    \/ \E n \in Names, k \in Kinds, r \in References :
        \/ \E outcome \in OpOutcomes, hasDefault \in BOOLEAN :
              RegisterOp(n, k, r, outcome, hasDefault)
        \/ \E kind \in Kinds, badFormat \in BOOLEAN :
              RegisterObject(kind, n, k, r, badFormat)
        \/ RegisterAlias(k, n, r)
    \/ Expose
    \/ Terminated

Spec == Init /\ [][Next]_vars
-----------------------------------------------------------------------------
(***************************************************************************)
(* Properties.                                                             *)
(***************************************************************************)

(***************************************************************************)
(* BaseOp::parseAssembly asserts "Not a dynamic operation", then uses what *)
(* lookupOp returns: what MLIR knows as an operation of a dynamic dialect is *)
(* found in the symbol map under that dialect and in its dynOps, and no    *)
(* entry of either outlives a rejected operation.                          *)
(***************************************************************************)
OpLookupTotal ==
    /\ \A d \in Dialects, n \in Names :
        /\ <<d, n>> \in absOps <=> n \in DOMAIN dynOps[d]
        /\ <<d, n>> \in absOps <=> OpSymbol(d, n) \in DOMAIN dialectSymbols
    /\ \A d \in Dialects : \A n \in DOMAIN dynOps[d] : dialectSymbols[OpSymbol(d, n)] = d

(***************************************************************************)
(* An alias that reached typeAliases stays reachable by name even when its *)
(* registration failed later.  Its value always has an owner in the symbol *)
(* map, and that owner has the metadata: lookupTypeData never finds a      *)
(* dialect and then nothing, whichever insertion failed.                   *)
(***************************************************************************)
AliasValueOwned ==
    \A k \in Kinds, d \in Dialects : \A n \in DOMAIN aliases[k][d] :
        LET v == aliases[k][d][n]
        IN /\ Owned(k, v)
           /\ AliasedHere(k, dialectSymbols[ValueSymbol(k, v)], v)

OwnsAliases(k, d) ==
    \A n \in DOMAIN aliases[k][d] :
        LET v == aliases[k][d][n]
        IN /\ Owned(k, v) /\ dialectSymbols[ValueSymbol(k, v)] = d
           /\ AliasedHere(k, d, v) /\ aliasData[k][d][v] = n

(***************************************************************************)
(* A dialect exposed to Python owns the value of each of its aliases, and  *)
(* its metadata names that very alias.                                     *)
(***************************************************************************)
ExposedOwnsAliases == \A k \in Kinds, d \in exposed : OwnsAliases(k, d)

(***************************************************************************)
(* exposeDialectInternal finds register_internal_module_* for the dialects *)
(* that precede the current one in the scope of the call.                  *)
(***************************************************************************)
ScopeImportable == cur # NoDialect => Importable

Objects == {o \in Kinds \X Dialects \X Names : o[3] \in DOMAIN dynObjs[o[1]][o[2]]}
Live == ({"dialect"} \X registered) \cup ({"op"} \X absOps) \cup ({"object"} \X Objects)
Abandoned == registered \ (exposed \cup {cur})

(***************************************************************************)
(* TypeIDs are never returned to the pool, but only a rejected operation   *)
(* wastes one: what the pool has handed out is one ID per live object and  *)
(* at most one per dialect whose registration failed.                      *)
(***************************************************************************)
PoolAccounted ==
    /\ Cardinality(Live) <= nextID
    /\ nextID <= Cardinality(Live) + Cardinality(Abandoned)

UsesOf(d) ==
    {dynOps[d][n].uses : n \in DOMAIN dynOps[d]} \cup
    UNION {{dynObjs[k][d][n] : n \in DOMAIN dynObjs[k][d]} : k \in Kinds}

(***************************************************************************)
(* A dynamic type or attribute held by a registered object exists.         *)
(***************************************************************************)
NoDanglingUse ==
    \A d \in Dialects : \A u \in UsesOf(d) :
        u[2] \notin Builtins /\ u[2][1] = "dynamic"
            => u[2][3] \in DOMAIN dynObjs[u[1]][u[2][2]]

(***************************************************************************)
(* The second parse happens after the namespace of the dialect itself was  *)
(* created, so while a dialect is being registered its objects keep an     *)
(* opaque type of a registered namespace in one case only: they named an   *)
(* alias that was bound to the opaque type before that namespace existed.  *)
(***************************************************************************)
StaleAlias(k, v) ==
    \E d \in registered : \E n \in DOMAIN aliases[k][d] : aliases[k][d][n] = v

OpaqueOnlyByAlias ==
    cur # NoDialect =>
        \A u \in UsesOf(cur) :
            IsOpaque(u[2]) /\ u[2][2] \in registered => StaleAlias(u[1], u[2])

Denotes(k, r) == Parses(k, r, registered) /\ (r \in Builtins \/ r[1] \in registered)

(***************************************************************************)
(* Once a reference to a registered dialect means something it means that  *)
(* for good: no later registration, failed or not, rebinds it.             *)
(***************************************************************************)
MeaningStable ==
    [][\A k \in Kinds, r \in References :
        Denotes(k, r) => /\ Denotes(k, r)'
                         /\ Parsed(k, r, registered)' = Parsed(k, r, registered)]_vars

(***************************************************************************)
(* Claims of the repository that the code does not keep.                   *)
(*                                                                         *)
(* ReparseOpInterface.td, "dynamic types and attributes, for example,      *)
(* remain opaque and must be resolved during second pass": after a call    *)
(* that registered every dialect of its module no object of these dialects *)
(* has an opaque type of a registered dialect left.                        *)
(***************************************************************************)
AllResolved ==
    [][EndCall => \A d \in Scope : \A u \in UsesOf(d) :
                    IsOpaque(u[2]) => u[2][2] \notin registered]_vars

(***************************************************************************)
(* DynamicDialectImpl.cpp, "When registering aliases, map the aliased      *)
(* values back to the metadata": looking up the value of an alias of an    *)
(* exposed dialect gives the metadata of that alias.                       *)
(***************************************************************************)
AliasMetadataFound ==
    \A k \in Kinds, d \in exposed : \A n \in DOMAIN aliases[k][d] :
        LookupData(k, aliases[k][d][n]) = {<<"alias", d, n>>}
=============================================================================
