--------------------------- MODULE DynamicContext ---------------------------
(***************************************************************************)
(* The stores in which DMC keeps dynamic dialects: the tables of every     *)
(* DynamicDialect (lib/Dynamic/DynamicDialectImpl.cpp), the symbol map of  *)
(* the DynamicContext (lib/Dynamic/DynamicContext.cpp), the TypeID pool    *)
(* (lib/Dynamic/TypeIDAllocator.cpp) and the part of MLIRContext they      *)
(* write to (namespaces and AbstractOperations).                           *)
(*                                                                         *)
(* Types and attributes go through two copies of the same code, so every   *)
(* table that exists twice in the source is indexed by Kinds here.         *)
(***************************************************************************)
EXTENDS Naturals, FiniteSets, Sequences

CONSTANTS
    Dialects,   \* namespaces a module may declare
    Names,      \* symbol names of the children of a dialect
    Kinds,      \* types and attributes
    Builtins,   \* types and attributes of MLIR itself: i64, unit, ...
    PoolSize    \* TypeIDs in the pool: 2048 in the source

ASSUME PoolSizeAssumption == PoolSize \in Nat
ASSUME KindsAssumption == "op" \notin Kinds

(***************************************************************************)
(* What a module can write: a builtin, or !d.n (#d.n for an attribute).    *)
(***************************************************************************)
References == Builtins \cup (Dialects \X Names)

(***************************************************************************)
(* What the parser makes of it: a builtin, an instance of the type or      *)
(* attribute n of dialect d, or MLIR's OpaqueType/OpaqueAttr when the      *)
(* namespace is not registered.                                            *)
(***************************************************************************)
Dynamic(d, n) == <<"dynamic", d, n>>
Opaque(d, n) == <<"opaque", d, n>>
Values == Builtins \cup ({"dynamic", "opaque"} \X Dialects \X Names)

IsOpaque(v) == v \notin Builtins /\ v[1] = "opaque"

(* Keys of dialectSymbols: operation names, aliased types and attributes.  *)
OpSymbol(d, n) == <<"op", <<d, n>>>>
ValueSymbol(k, v) == <<k, v>>
Symbols == ({"op"} \X (Dialects \X Names)) \cup (Kinds \X Values)

VARIABLES
    nextID,         \* FixedTypeIDAllocator::index
    registered,     \* namespaces known to MLIRContext
    absOps,         \* AbstractOperations added by the dynamic dialects
    dynOps,         \* DynamicDialect::Impl::dynOps, by dialect
    dynObjs,        \* dynTys and dynAttrs, by kind and dialect
    aliases,        \* typeAliases and attrAliases: name -> aliased value
    aliasData,      \* typeAliasData and attrAliasData: value -> alias name
    dialectSymbols  \* DynamicContext::Impl::dialectSymbols

tables == <<absOps, dynOps, dynObjs, aliases, aliasData, dialectSymbols>>
ctxVars == <<nextID, registered, tables>>

IsPartial(f, S, T) == DOMAIN f \subseteq S /\ f \in [DOMAIN f -> T]
IsTable(f, S, T) == DOMAIN f = Dialects /\ \A d \in Dialects : IsPartial(f[d], S, T)
IsTableByKind(f, S, T) == DOMAIN f = Kinds /\ \A k \in Kinds : IsTable(f[k], S, T)

Uses == Kinds \X Values
OpRecords == [uses : Uses, hasDefault : BOOLEAN]

ContextTypeOK ==
    /\ nextID \in 0 .. PoolSize
    /\ registered \subseteq Dialects
    /\ absOps \subseteq Dialects \X Names
    /\ IsTable(dynOps, Names, OpRecords)
    /\ IsTableByKind(dynObjs, Names, Uses)
    /\ IsTableByKind(aliases, Names, Values)
    /\ IsTableByKind(aliasData, Values, Names)
    /\ IsPartial(dialectSymbols, Symbols, Dialects)

Empty == [x \in {} |-> x]

ContextInit ==
    /\ nextID = 0
    /\ registered = {}
    /\ absOps = {}
    /\ dynOps = [d \in Dialects |-> Empty]
    /\ dynObjs = [k \in Kinds |-> [d \in Dialects |-> Empty]]
    /\ aliases = [k \in Kinds |-> [d \in Dialects |-> Empty]]
    /\ aliasData = [k \in Kinds |-> [d \in Dialects |-> Empty]]
    /\ dialectSymbols = Empty

-----------------------------------------------------------------------------
(* Fault: an unknown name of a known dialect is taken for a type.          *)
Parses_AnyName(k, r, known) == TRUE

(***************************************************************************)
(* Parsing a reference.  DynamicDialect::parseType and parseAttribute look *)
(* for an alias first, then for a type or attribute, and report an unknown *)
(* name otherwise; MLIR never calls them for a namespace in "unknown".     *)
(***************************************************************************)
Parses(k, r, known) ==
    r \notin Builtins /\ r[1] \in known
        => r[2] \in DOMAIN aliases[k][r[1]] \cup DOMAIN dynObjs[k][r[1]]

Parsed(k, r, known) ==
    IF r \in Builtins THEN r
    ELSE LET d == r[1]
             n == r[2]
         IN IF d \notin known THEN Opaque(d, n)
            ELSE IF n \in DOMAIN aliases[k][d] THEN aliases[k][d][n]
            ELSE Dynamic(d, n)

(* The text MLIR prints for a value: !d.n whether it is opaque or not.     *)
Printed(v) == IF v \in Builtins THEN v ELSE <<v[2], v[3]>>

(***************************************************************************)
(* The dialect whose metadata describes a value: the owner of a dynamic    *)
(* value, else the dialect that registered the value as an alias.          *)
(***************************************************************************)
LookupDialectFor(k, v) ==
    IF v \notin Builtins /\ v[1] = "dynamic" THEN {v[2]}
    ELSE {dialectSymbols[s] : s \in DOMAIN dialectSymbols \cap {ValueSymbol(k, v)}}

(***************************************************************************)
(* lookupTypeData/lookupAttributeData of the dialect so found: the names   *)
(* under which it can describe the value ({} is the null pointer).         *)
(***************************************************************************)
LookupData(k, v) ==
    IF v \notin Builtins /\ v[1] = "dynamic" THEN {<<"object", v[2], v[3]>>}
    ELSE {<<"alias", d, aliasData[k][d][v]>> :
             d \in {e \in LookupDialectFor(k, v) : v \in DOMAIN aliasData[k][e]}}

-----------------------------------------------------------------------------
(* Updates of one entry.  try_emplace leaves an existing entry as it is.   *)
Put(f, x, y) == [z \in DOMAIN f \cup {x} |-> IF z = x THEN y ELSE f[z]]

(* Fault: the bound of the pool is not checked.                            *)
AllocateID_Unchecked == nextID' = nextID + 1

AllocateID == nextID < PoolSize /\ nextID' = nextID + 1

(* Fault: the symbol map is not told of the operation.                     *)
FinalizeOp_NoSymbol(d, n, op) ==
    /\ absOps' = absOps \cup {<<d, n>>}
    /\ dynOps' = [dynOps EXCEPT ![d] = Put(@, n, op)]
    /\ UNCHANGED <<dialectSymbols, dynObjs, aliases, aliasData>>

(***************************************************************************)
(* DynamicOperation::finalize adds the AbstractOperation, then             *)
(* DynamicDialect::registerDynamicOp fills dynOps and the symbol map.      *)
(***************************************************************************)
FinalizeOp(d, n, op) ==
    /\ absOps' = absOps \cup {<<d, n>>}
    /\ dynOps' = [dynOps EXCEPT ![d] = Put(@, n, op)]
    /\ dialectSymbols' = Put(dialectSymbols, OpSymbol(d, n), d)
    /\ UNCHANGED <<dynObjs, aliases, aliasData>>

CreateDynamicObject(k, d, n, use) ==
    /\ dynObjs' = [dynObjs EXCEPT ![k][d] = Put(@, n, use)]
    /\ UNCHANGED <<absOps, dynOps, aliases, aliasData, dialectSymbols>>

(***************************************************************************)
(* registerTypeAlias and registerAttrAlias insert in three maps, one after *)
(* the other, and give up at the first that already has the key.  Nothing  *)
(* is undone.                                                              *)
(***************************************************************************)
AliasedHere(k, d, v) == v \in DOMAIN aliasData[k][d]
Owned(k, v) == ValueSymbol(k, v) \in DOMAIN dialectSymbols

AliasValueFree(k, d, v) == ~AliasedHere(k, d, v) /\ ~Owned(k, v)

(* Faults: the metadata is not kept; a value keeps its last alias only.    *)
PutAlias_NoMetadata(k, d, n, v) ==
    /\ aliases' = [aliases EXCEPT ![k][d] = Put(@, n, v)]
    /\ dialectSymbols' = IF Owned(k, v) THEN dialectSymbols
                         ELSE Put(dialectSymbols, ValueSymbol(k, v), d)
    /\ UNCHANGED <<absOps, dynOps, dynObjs, aliasData>>

PutAlias_LastName(k, d, n, v) ==
    /\ aliases' = [aliases EXCEPT ![k][d] =
                     [m \in {x \in DOMAIN @ : @[x] # v} \cup {n} |-> IF m = n THEN v ELSE @[m]]]
    /\ aliasData' = [aliasData EXCEPT ![k][d] = Put(@, v, n)]
    /\ dialectSymbols' = Put(dialectSymbols, ValueSymbol(k, v), d)
    /\ UNCHANGED <<absOps, dynOps, dynObjs>>

PutAlias(k, d, n, v) ==
    /\ aliases' = [aliases EXCEPT ![k][d] = Put(@, n, v)]
    /\ aliasData' = IF AliasedHere(k, d, v) THEN aliasData
                    ELSE [aliasData EXCEPT ![k][d] = Put(@, v, n)]
    /\ dialectSymbols' = IF AliasValueFree(k, d, v)
                         THEN Put(dialectSymbols, ValueSymbol(k, v), d)
                         ELSE dialectSymbols
    /\ UNCHANGED <<absOps, dynOps, dynObjs>>
=============================================================================
