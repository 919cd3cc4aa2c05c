-------------------------- MODULE DialectGenProofs --------------------------
(***************************************************************************)
(* Theorems of DialectGen: type correctness, and the agreement of the      *)
(* stores written one after the other by registerOp and registerAlias;     *)
(* what the children of a dialect refer to, and the TypeIDs that           *)
(* registering them costs; and that registration implements the abstract   *)
(* NamespaceRegistry.                                                      *)
(***************************************************************************)
EXTENDS DialectGenRefinement, FiniteSetTheorems, TLAPS

(***************************************************************************)
(* Put and the partial functions it updates.                               *)
(***************************************************************************)
LEMMA PutPartial ==
    ASSUME NEW S, NEW T, NEW f, IsPartial(f, S, T), NEW x \in S, NEW y \in T
    PROVE  IsPartial(Put(f, x, y), S, T)
  BY DEF IsPartial, Put

LEMMA PutTable ==
    ASSUME NEW S, NEW T, NEW f, IsTable(f, S, T),
           NEW d \in Dialects, NEW x \in S, NEW y \in T
    PROVE  IsTable([f EXCEPT ![d] = Put(@, x, y)], S, T)
  <1>1. IsPartial(Put(f[d], x, y), S, T)
    BY PutPartial DEF IsTable
  <1> QED
    BY <1>1 DEF IsTable

LEMMA PutTableByKind ==
    ASSUME NEW S, NEW T, NEW f, IsTableByKind(f, S, T),
           NEW k \in Kinds, NEW d \in Dialects, NEW x \in S, NEW y \in T
    PROVE  IsTableByKind([f EXCEPT ![k][d] = Put(@, x, y)], S, T)
  <1>1. IsTable([f[k] EXCEPT ![d] = Put(@, x, y)], S, T)
    BY PutTable DEF IsTableByKind
  <1> QED
    BY <1>1 DEF IsTableByKind

LEMMA EmptyPartial ==
    ASSUME NEW S, NEW T
    PROVE  IsPartial(Empty, S, T)
  BY DEF IsPartial, Empty

(***************************************************************************)
(* Printing a value gives a reference, parsing a reference gives a value.  *)
(***************************************************************************)
LEMMA PrintedType ==
    ASSUME NEW v \in Values
    PROVE  Printed(v) \in References
  BY DEF Printed, Values, References

LEMMA ParsedType ==
    ASSUME TypeOK, NEW k \in Kinds, NEW r \in References, NEW known,
           Parses(k, r, known)
    PROVE  Parsed(k, r, known) \in Values
  <1>1. CASE r \in Builtins
    BY <1>1 DEF Parsed, Values
  <1>2. CASE r \notin Builtins
    <2>1. r[1] \in Dialects /\ r[2] \in Names
      BY <1>2 DEF References
    <2>2. ASSUME r[2] \in DOMAIN aliases[k][r[1]]
          PROVE  aliases[k][r[1]][r[2]] \in Values
      BY <2>1, <2>2 DEF TypeOK, ContextTypeOK, IsTableByKind, IsTable, IsPartial
    <2>3. Opaque(r[1], r[2]) \in Values /\ Dynamic(r[1], r[2]) \in Values
      BY <2>1 DEF Opaque, Dynamic, Values
    <2> QED
      BY <1>2, <2>2, <2>3 DEF Parsed
  <1> QED
    BY <1>1, <1>2

LEMMA ReparsedType ==
    ASSUME TypeOK, NEW k \in Kinds, NEW r \in References,
           Parses(k, r, Before), Reparses(k, r)
    PROVE  Reparsed(k, r) \in Values
  <1>1. Written(k, r) \in References
    BY ParsedType, PrintedType DEF Written
  <1> QED
    BY <1>1, ParsedType DEF Reparses, Reparsed

(* A value that the second parse stores comes from a reference that parses *)
(* with the dialects registered by then.                                   *)
Traced(k, v) ==
    \E r \in References : Parses(k, r, registered) /\ v = Parsed(k, r, registered)

LEMMA ReparsedTraced ==
    ASSUME TypeOK, NEW k \in Kinds, NEW r \in References,
           Parses(k, r, Before), Reparses(k, r)
    PROVE  Traced(k, Reparsed(k, r))
  <1>1. Written(k, r) \in References
    BY ParsedType, PrintedType DEF Written
  <1> QED
    BY <1>1 DEF Reparses, Reparsed, Traced

(***************************************************************************)
(* What the handlers share: a failure resets the driver and leaves the     *)
(* stores alone, an abort only records its cause.                          *)
(***************************************************************************)
LEMMA FailType ==
    ASSUME TypeOK, ContextTypeOK', NEW d \in Diagnostics, Fail(d)
    PROVE  TypeOK'
  <1>1. scope' \in Seq(Dialects)
    BY DEF Fail
  <1> QED
    BY <1>1 DEF TypeOK, Fail

LEMMA AbortType ==
    ASSUME TypeOK, NEW c \in Crashes, Abort(c)
    PROVE  TypeOK'
  BY DEF TypeOK, ContextTypeOK, Abort, ctxVars, tables

LEMMA ChildType ==
    ASSUME TypeOK, NEW n \in Names, Child(n)
    PROVE  cur \in Dialects
  BY DEF TypeOK, Child

LEMMA RegisterOpType ==
    ASSUME TypeOK, NEW n \in Names, NEW k \in Kinds, NEW r \in References,
           NEW outcome \in OpOutcomes, NEW hasDefault \in BOOLEAN,
           RegisterOp(n, k, r, outcome, hasDefault)
    PROVE  TypeOK'
  <1>1. cur \in Dialects
    BY ChildType DEF RegisterOp
  <1>2. CASE Unparsed(k, r)
    BY <1>2, FailType DEF Unparsed, ctxVars, tables, Diagnostics, TypeOK, ContextTypeOK
  <1>3. CASE Abort("pool") \/ Abort("format")
    BY <1>3, AbortType DEF Crashes
  <1>4. CASE AllocateID /\ Fail("trait") /\ UNCHANGED <<registered, tables>>
    <2>1. ContextTypeOK'
      BY <1>4, PoolSizeAssumption DEF AllocateID, tables, TypeOK, ContextTypeOK
    <2> QED
      BY <1>4, <2>1, FailType DEF Diagnostics
  <1>5. CASE /\ Reparses(k, r)
             /\ AllocateID
             /\ FinalizeOp(cur, n, [uses |-> <<k, Reparsed(k, r)>>, hasDefault |-> hasDefault])
             /\ UNCHANGED <<registered, driverVars>>
    <2> DEFINE op == [uses |-> <<k, Reparsed(k, r)>>, hasDefault |-> hasDefault]
    <2>1. op \in OpRecords
      BY <1>5, ReparsedType DEF RegisterOp, OpRecords, Uses
    <2> HIDE DEF op
    <2>2. FinalizeOp(cur, n, op)
      BY <1>5 DEF op
    <2>3. IsTable(dynOps', Names, OpRecords)
      BY <1>1, <2>1, <2>2, PutTable DEF FinalizeOp, TypeOK, ContextTypeOK
    <2>4. OpSymbol(cur, n) \in Symbols
      BY <1>1 DEF OpSymbol, Symbols
    <2>5. IsPartial(dialectSymbols', Symbols, Dialects)
      BY <1>1, <2>2, <2>4, PutPartial DEF FinalizeOp, TypeOK, ContextTypeOK
    <2>6. nextID' \in 0 .. PoolSize
      BY <1>5, PoolSizeAssumption DEF AllocateID, TypeOK, ContextTypeOK
    <2> QED
      BY <1>1, <1>5, <2>2, <2>3, <2>5, <2>6
         DEF FinalizeOp, driverVars, TypeOK, ContextTypeOK
  <1> QED
    BY <1>2, <1>3, <1>4, <1>5 DEF RegisterOp

LEMMA RegisterObjectType ==
    ASSUME TypeOK, NEW kind \in Kinds, NEW n \in Names,
           NEW k \in Kinds, NEW r \in References, NEW badFormat \in BOOLEAN,
           RegisterObject(kind, n, k, r, badFormat)
    PROVE  TypeOK'
  <1>1. cur \in Dialects
    BY ChildType DEF RegisterObject
  <1>2. CASE Unparsed(k, r)
    BY <1>2, FailType DEF Unparsed, ctxVars, tables, Diagnostics, TypeOK, ContextTypeOK
  <1>3. CASE Abort("pool") \/ Abort("format")
    BY <1>3, AbortType DEF Crashes
  <1>4. CASE /\ Reparses(k, r)
             /\ AllocateID
             /\ CreateDynamicObject(kind, cur, n, <<k, Reparsed(k, r)>>)
             /\ UNCHANGED <<registered, driverVars>>
    <2>1. <<k, Reparsed(k, r)>> \in Uses
      BY <1>4, ReparsedType DEF RegisterObject, Uses
    <2>2. IsTableByKind(dynObjs', Names, Uses)
      BY <1>1, <1>4, <2>1, PutTableByKind DEF CreateDynamicObject, TypeOK, ContextTypeOK
    <2>3. nextID' \in 0 .. PoolSize
      BY <1>4, PoolSizeAssumption DEF AllocateID, TypeOK, ContextTypeOK
    <2> QED
      BY <1>4, <2>2, <2>3 DEF CreateDynamicObject, driverVars, TypeOK, ContextTypeOK
  <1> QED
    BY <1>2, <1>3, <1>4 DEF RegisterObject

LEMMA PutAliasType ==
    ASSUME TypeOK, NEW k \in Kinds, NEW n \in Names, NEW v \in Values,
           cur \in Dialects, PutAlias(k, cur, n, v), UNCHANGED <<nextID, registered>>
    PROVE  ContextTypeOK'
  <1>1. IsTableByKind(aliases', Names, Values)
    BY PutTableByKind DEF PutAlias, TypeOK, ContextTypeOK
  <1>2. IsTableByKind(aliasData', Values, Names)
    BY PutTableByKind DEF PutAlias, TypeOK, ContextTypeOK
  <1>3. ValueSymbol(k, v) \in Symbols
    BY DEF ValueSymbol, Symbols
  <1>4. IsPartial(dialectSymbols', Symbols, Dialects)
    BY <1>3, PutPartial DEF PutAlias, TypeOK, ContextTypeOK
  <1> QED
    BY <1>1, <1>2, <1>4 DEF PutAlias, TypeOK, ContextTypeOK

LEMMA RegisterAliasType ==
    ASSUME TypeOK, NEW k \in Kinds, NEW n \in Names, NEW r \in References,
           RegisterAlias(k, n, r)
    PROVE  TypeOK'
  <1>1. cur \in Dialects
    BY ChildType DEF RegisterAlias
  <1>2. CASE Unparsed(k, r)
    BY <1>2, FailType DEF Unparsed, ctxVars, tables, Diagnostics, TypeOK, ContextTypeOK
  <1>3. CASE /\ Reparses(k, r)
             /\ PutAlias(k, cur, n, Reparsed(k, r))
             /\ UNCHANGED <<nextID, registered>>
             /\ UNCHANGED driverVars \/ Fail("aliasExists")
    <2>1. ContextTypeOK'
      BY <1>1, <1>3, ReparsedType, PutAliasType DEF RegisterAlias
    <2>2. CASE UNCHANGED driverVars
      BY <2>1, <2>2 DEF driverVars, TypeOK
    <2>3. CASE Fail("aliasExists")
      BY <2>1, <2>3, FailType DEF Diagnostics
    <2> QED
      BY <1>3, <2>2, <2>3
  <1> QED
    BY <1>2, <1>3 DEF RegisterAlias

LEMMA CreateDialectType ==
    ASSUME TypeOK, NEW d \in Dialects, CreateDialect(d)
    PROVE  TypeOK'
  <1>1. CASE Abort("pool") \/ Abort("namespace")
    BY <1>1, AbortType DEF Crashes
  <1>2. CASE /\ AllocateID
             /\ registered' = registered \cup {d}
             /\ scope' = Append(scope, d)
             /\ cur' = d
             /\ UNCHANGED <<tables, running, exposed, diag, crash>>
    <2>1. scope' \in Seq(Dialects)
      BY <1>2 DEF TypeOK
    <2>2. ContextTypeOK'
      BY <1>2, PoolSizeAssumption DEF AllocateID, tables, TypeOK, ContextTypeOK
    <2> QED
      BY <1>2, <2>1, <2>2 DEF TypeOK
  <1> QED
    BY <1>1, <1>2 DEF CreateDialect

LEMMA DriverType ==
    ASSUME TypeOK, StartCall \/ EndCall \/ Expose \/ UNCHANGED vars
    PROVE  TypeOK'
  <1>1. CASE Abort("expose")
    BY <1>1, AbortType DEF Crashes
  <1>2. CASE UNCHANGED ctxVars
    <2>1. ContextTypeOK'
      BY <1>2 DEF ctxVars, tables, TypeOK, ContextTypeOK
    <2>2. CASE StartCall
      BY <2>1, <2>2 DEF StartCall, TypeOK, Diagnostics
    <2>3. CASE EndCall
      <3>1. scope' \in Seq(Dialects)
        BY <2>3 DEF EndCall
      <3> QED
        BY <2>1, <2>3, <3>1 DEF EndCall, TypeOK
    <2>4. CASE Expose /\ ~Abort("expose")
      BY <2>1, <2>4 DEF Expose, TypeOK
    <2>5. CASE UNCHANGED vars
      BY <2>1, <2>5 DEF vars, driverVars, TypeOK
    <2> QED
      BY <1>1, <2>2, <2>3, <2>4, <2>5
  <1> QED
    BY <1>1, <1>2 DEF StartCall, EndCall, Expose, vars

LEMMA TypeInit == Init => TypeOK
  <1> SUFFICES ASSUME Init PROVE TypeOK
    OBVIOUS
  <1>1. \A S, T : IsPartial(Empty, S, T)
    BY EmptyPartial
  <1>2. scope \in Seq(Dialects)
    BY DEF Init
  <1>3. ContextTypeOK
    BY <1>1, PoolSizeAssumption
       DEF Init, ContextInit, ContextTypeOK, IsTable, IsTableByKind
  <1> QED
    BY <1>2, <1>3 DEF Init, TypeOK, Diagnostics, Crashes

LEMMA TypeNext == TypeOK /\ [Next]_vars => TypeOK'
  <1> SUFFICES ASSUME TypeOK, [Next]_vars PROVE TypeOK'
    OBVIOUS
  <1>1. CASE StartCall \/ EndCall \/ Expose \/ Terminated \/ UNCHANGED vars
    BY <1>1, DriverType DEF Terminated
  <1>2. ASSUME NEW d \in Dialects, CreateDialect(d) PROVE TypeOK'
    BY <1>2, CreateDialectType
  <1>3. ASSUME NEW n \in Names, NEW k \in Kinds, NEW r \in References,
               NEW outcome \in OpOutcomes, NEW hasDefault \in BOOLEAN,
               RegisterOp(n, k, r, outcome, hasDefault)
        PROVE  TypeOK'
    BY <1>3, RegisterOpType
  <1>4. ASSUME NEW n \in Names, NEW k \in Kinds, NEW r \in References,
               NEW kind \in Kinds, NEW badFormat \in BOOLEAN,
               RegisterObject(kind, n, k, r, badFormat)
        PROVE  TypeOK'
    BY <1>4, RegisterObjectType
  <1>5. ASSUME NEW n \in Names, NEW k \in Kinds, NEW r \in References,
               RegisterAlias(k, n, r)
        PROVE  TypeOK'
    BY <1>5, RegisterAliasType
  <1> QED
    BY <1>1, <1>2, <1>3, <1>4, <1>5 DEF Next

(***************************************************************************)
(* Every reachable state of the registration is well typed, whatever the   *)
(* module declares and however large the pool is.                          *)
(***************************************************************************)
THEOREM TypeCorrect == Spec => []TypeOK
  BY TypeInit, TypeNext, PTL DEF Spec

-----------------------------------------------------------------------------
(***************************************************************************)
(* Which stores a step can touch.  A step either adds one operation, one   *)
(* dynamic type or attribute or one alias to the dialect being registered, *)
(* or leaves every store alone; an alias may end the call, the others do   *)
(* not.                                                                    *)
(***************************************************************************)
OpStep ==
    \E n \in Names, op \in OpRecords :
        /\ Child(n) /\ FinalizeOp(cur, n, op) /\ UNCHANGED <<registered, driverVars>>
        /\ Traced(op.uses[1], op.uses[2])

ObjectStep ==
    \E k \in Kinds, n \in Names, use \in Uses :
        /\ Child(n) /\ CreateDynamicObject(k, cur, n, use) /\ Traced(use[1], use[2])
        /\ UNCHANGED <<registered, driverVars>>

AliasStep ==
    \E k \in Kinds, n \in Names, v \in Values :
        /\ Child(n) /\ PutAlias(k, cur, n, v) /\ UNCHANGED registered
        /\ Traced(k, v)
        /\ \/ AliasValueFree(k, cur, v) /\ UNCHANGED driverVars
           \/ ~AliasValueFree(k, cur, v) /\ Fail("aliasExists")

(* No store changes: the call moves on, opens or closes a dialect, or ends.*)
DriverStep ==
    /\ UNCHANGED tables
    /\ \/ /\ UNCHANGED <<registered, cur, exposed>>
          /\ UNCHANGED crash \/ (Alive /\ crash' # "none")
       \/ /\ Alive /\ cur # NoDialect
          /\ cur' = NoDialect /\ UNCHANGED <<registered, exposed, crash>>
       \/ /\ Alive /\ cur = NoDialect
          /\ \E d \in Dialects \ registered :
                registered' = registered \cup {d} /\ cur' = d /\ UNCHANGED <<exposed, crash>>
       \/ /\ Alive /\ cur \in Dialects
          /\ exposed' = exposed \cup {cur} /\ cur' = NoDialect /\ UNCHANGED <<registered, crash>>

LEMMA NextSteps ==
    ASSUME TypeOK, [Next]_vars
    PROVE  OpStep \/ ObjectStep \/ AliasStep \/ DriverStep
  <1>1. ASSUME NEW c, c # "none", Alive, Abort(c) PROVE DriverStep
    BY <1>1 DEF Abort, DriverStep, ctxVars
  <1>2. ASSUME NEW n, Child(n), NEW k, NEW r, Unparsed(k, r) PROVE DriverStep
    BY <1>2 DEF Child, Unparsed, Fail, DriverStep, ctxVars
  <1>3. CASE StartCall \/ EndCall \/ Expose \/ Terminated \/ UNCHANGED vars
    <2>1. CASE StartCall \/ EndCall
      BY <2>1 DEF StartCall, EndCall, DriverStep, ctxVars
    <2>2. CASE Expose
      BY <1>1, <2>2 DEF Expose, DriverStep, ctxVars, TypeOK
    <2>3. CASE UNCHANGED vars
      BY <2>3 DEF vars, ctxVars, driverVars, DriverStep
    <2> QED
      BY <1>3, <2>1, <2>2, <2>3 DEF Terminated
  <1>4. ASSUME NEW d \in Dialects, CreateDialect(d) PROVE DriverStep
    BY <1>1, <1>4 DEF CreateDialect, DriverStep
  <1>5. ASSUME NEW n \in Names, NEW k \in Kinds, NEW r \in References,
               NEW outcome \in OpOutcomes, NEW hasDefault \in BOOLEAN,
               RegisterOp(n, k, r, outcome, hasDefault)
        PROVE  OpStep \/ DriverStep
    <2>1. CASE AllocateID /\ Fail("trait") /\ UNCHANGED <<registered, tables>>
      BY <1>5, <2>1 DEF RegisterOp, Child, Fail, DriverStep
    <2>2. CASE /\ Reparses(k, r)
               /\ FinalizeOp(cur, n, [uses |-> <<k, Reparsed(k, r)>>,
                                      hasDefault |-> hasDefault])
               /\ UNCHANGED <<registered, driverVars>>
      <3>1. [uses |-> <<k, Reparsed(k, r)>>, hasDefault |-> hasDefault] \in OpRecords
        BY <1>5, <2>2, ReparsedType DEF RegisterOp, OpRecords, Uses
      <3>2. Traced(k, Reparsed(k, r))
        BY <1>5, <2>2, ReparsedTraced DEF RegisterOp
      <3> QED
        BY <1>5, <2>2, <3>1, <3>2 DEF RegisterOp, OpStep
    <2> QED
      BY <1>1, <1>2, <1>5, <2>1, <2>2 DEF RegisterOp, Child
  <1>6. ASSUME NEW n \in Names, NEW k \in Kinds, NEW r \in References,
               NEW kind \in Kinds, NEW badFormat \in BOOLEAN,
               RegisterObject(kind, n, k, r, badFormat)
        PROVE  ObjectStep \/ DriverStep
    <2>1. CASE /\ Reparses(k, r)
               /\ CreateDynamicObject(kind, cur, n, <<k, Reparsed(k, r)>>)
               /\ UNCHANGED <<registered, driverVars>>
      <3>1. <<k, Reparsed(k, r)>> \in Uses
        BY <1>6, <2>1, ReparsedType DEF RegisterObject, Uses
      <3>2. Traced(k, Reparsed(k, r))
        BY <1>6, <2>1, ReparsedTraced DEF RegisterObject
      <3> QED
        BY <1>6, <2>1, <3>1, <3>2 DEF RegisterObject, ObjectStep
    <2> QED
      BY <1>1, <1>2, <1>6, <2>1 DEF RegisterObject, Child
  <1>7. ASSUME NEW n \in Names, NEW k \in Kinds, NEW r \in References,
               RegisterAlias(k, n, r)
        PROVE  AliasStep \/ DriverStep
    BY <1>2, <1>7, ReparsedType, ReparsedTraced DEF RegisterAlias, AliasStep
  <1> QED
    BY <1>3, <1>4, <1>5, <1>6, <1>7 DEF Next

-----------------------------------------------------------------------------
LEMMA OpLookupInit == Init => OpLookupTotal
  BY DEF Init, ContextInit, Empty, OpLookupTotal

LEMMA OpLookupNext ==
    TypeOK /\ OpLookupTotal /\ [Next]_vars => OpLookupTotal'
  <1> SUFFICES ASSUME TypeOK, OpLookupTotal, [Next]_vars PROVE OpLookupTotal'
    OBVIOUS
  <1>1. CASE OpStep
    <2>1. PICK n \in Names, op \in OpRecords : Child(n) /\ FinalizeOp(cur, n, op)
      BY <1>1 DEF OpStep
    <2>2. cur \in Dialects /\ DOMAIN dynOps = Dialects
      BY <2>1, ChildType DEF TypeOK, ContextTypeOK, IsTable
    <2>3. DOMAIN dynOps'[cur] = DOMAIN dynOps[cur] \cup {n}
      <3>1. dynOps'[cur] = Put(dynOps[cur], n, op)
        BY <2>1, <2>2 DEF FinalizeOp
      <3> QED
        BY <3>1 DEF Put
    <2>4. \A d \in Dialects \ {cur} : dynOps'[d] = dynOps[d]
      BY <2>1, <2>2 DEF FinalizeOp
    <2>5. dialectSymbols' = Put(dialectSymbols, OpSymbol(cur, n), cur)
      BY <2>1 DEF FinalizeOp
    <2>6. /\ DOMAIN dialectSymbols' = DOMAIN dialectSymbols \cup {OpSymbol(cur, n)}
          /\ dialectSymbols'[OpSymbol(cur, n)] = cur
          /\ \A s \in DOMAIN dialectSymbols :
                s # OpSymbol(cur, n) => dialectSymbols'[s] = dialectSymbols[s]
      BY <2>5 DEF Put
    <2>7. absOps' = absOps \cup {<<cur, n>>}
      BY <2>1 DEF FinalizeOp
    <2>8. ASSUME NEW d \in Dialects, NEW m \in Names
          PROVE  /\ <<d, m>> \in absOps' <=> m \in DOMAIN dynOps'[d]
                 /\ <<d, m>> \in absOps' <=> OpSymbol(d, m) \in DOMAIN dialectSymbols'
                 /\ m \in DOMAIN dynOps'[d] => dialectSymbols'[OpSymbol(d, m)] = d
      <3>1. OpSymbol(d, m) = OpSymbol(cur, n) <=> d = cur /\ m = n
        BY DEF OpSymbol
      <3>2. CASE d = cur /\ m = n
        BY <2>3, <2>6, <2>7, <3>2
      <3>3. CASE ~(d = cur /\ m = n)
        BY <2>2, <2>3, <2>4, <2>6, <2>7, <3>1, <3>3 DEF OpLookupTotal
      <3> QED
        BY <3>2, <3>3
    <2>9. \A d \in Dialects : DOMAIN dynOps'[d] \subseteq Names
      BY TypeNext DEF TypeOK, ContextTypeOK, IsTable, IsPartial
    <2> QED
      BY <2>8, <2>9 DEF OpLookupTotal
  <1>2. CASE ObjectStep \/ DriverStep
    BY <1>2 DEF ObjectStep, CreateDynamicObject, DriverStep, tables, OpLookupTotal
  <1>3. CASE AliasStep
    <2>1. PICK k \in Kinds, n \in Names, v \in Values : PutAlias(k, cur, n, v)
      BY <1>3 DEF AliasStep
    <2>2. /\ absOps' = absOps /\ dynOps' = dynOps
          /\ \/ dialectSymbols' = dialectSymbols
             \/ dialectSymbols' = Put(dialectSymbols, ValueSymbol(k, v), cur)
      BY <2>1 DEF PutAlias
    <2>3. ASSUME NEW d \in Dialects, NEW m \in Names
          PROVE  /\ OpSymbol(d, m) \in DOMAIN dialectSymbols'
                       <=> OpSymbol(d, m) \in DOMAIN dialectSymbols
                 /\ OpSymbol(d, m) \in DOMAIN dialectSymbols
                       => dialectSymbols'[OpSymbol(d, m)] = dialectSymbols[OpSymbol(d, m)]
      <3>1. OpSymbol(d, m) # ValueSymbol(k, v)
        BY KindsAssumption DEF OpSymbol, ValueSymbol
      <3>2. CASE dialectSymbols' = Put(dialectSymbols, ValueSymbol(k, v), cur)
        BY <3>1, <3>2 DEF Put
      <3> QED
        BY <2>2, <3>2
    <2>4. \A d \in Dialects : DOMAIN dynOps[d] \subseteq Names
      BY DEF TypeOK, ContextTypeOK, IsTable, IsPartial
    <2> QED
      BY <2>2, <2>3, <2>4 DEF OpLookupTotal
  <1> QED
    BY <1>1, <1>2, <1>3, NextSteps

(***************************************************************************)
(* The assertion of BaseOp::parseAssembly never fails and the operation it *)
(* looks up is never null, however registrations fail.                     *)
(***************************************************************************)
THEOREM OpLookupCorrect == Spec => []OpLookupTotal
  BY TypeInit, TypeNext, OpLookupInit, OpLookupNext, PTL DEF Spec

-----------------------------------------------------------------------------
(***************************************************************************)
(* The three stores of an alias.  AliasValueOwned is not inductive: when   *)
(* the value is aliased twice in one dialect the owner is the one left by  *)
(* the first alias, so every value with metadata must have an owner, and   *)
(* when another dialect owns it that owner must have metadata for it.      *)
(***************************************************************************)
DataOwned ==
    \A k \in Kinds, d \in Dialects : \A v \in DOMAIN aliasData[k][d] : Owned(k, v)

OwnerHasData ==
    \A k \in Kinds, v \in Values :
        Owned(k, v) => AliasedHere(k, dialectSymbols[ValueSymbol(k, v)], v)

AliasInv == DataOwned /\ OwnerHasData /\ AliasValueOwned

(* The entries after PutAlias: only those of k and cur change.             *)
LEMMA AliasEffect ==
    ASSUME TypeOK, NEW k \in Kinds, NEW n \in Names, NEW v \in Values,
           cur \in Dialects, PutAlias(k, cur, n, v)
    PROVE  \A k2 \in Kinds, d2 \in Dialects :
             /\ aliases'[k2][d2] = IF k2 = k /\ d2 = cur
                                   THEN Put(aliases[k][cur], n, v) ELSE aliases[k2][d2]
             /\ aliasData'[k2][d2] = IF k2 = k /\ d2 = cur /\ ~AliasedHere(k, cur, v)
                                     THEN Put(aliasData[k][cur], v, n) ELSE aliasData[k2][d2]
  BY DEF PutAlias, TypeOK, ContextTypeOK, IsTableByKind, IsTable

(* What is written stays, and the value written ends up owned.             *)
LEMMA AliasGrowth ==
    ASSUME TypeOK, NEW k \in Kinds, NEW n \in Names, NEW v \in Values,
           cur \in Dialects, PutAlias(k, cur, n, v)
    PROVE  /\ v \in DOMAIN aliasData'[k][cur]
           /\ \A k2 \in Kinds, d2 \in Dialects : \A v2 :
                 AliasedHere(k2, d2, v2) => AliasedHere(k2, d2, v2)'
           /\ \A k2 \in Kinds : \A v2 : Owned(k2, v2) =>
                 /\ Owned(k2, v2)'
                 /\ dialectSymbols'[ValueSymbol(k2, v2)] = dialectSymbols[ValueSymbol(k2, v2)]
           /\ AliasValueFree(k, cur, v) =>
                 Owned(k, v)' /\ dialectSymbols'[ValueSymbol(k, v)] = cur
           /\ \A k2 \in Kinds : \A v2 : Owned(k2, v2)' =>
                 Owned(k2, v2) \/ (k2 = k /\ v2 = v /\ AliasValueFree(k, cur, v))
           /\ \A k2 \in Kinds, d2 \in Dialects : \A v2 : AliasedHere(k2, d2, v2)' =>
                 AliasedHere(k2, d2, v2) \/ (k2 = k /\ d2 = cur /\ v2 = v)
  <1>1. \A k2 \in Kinds, d2 \in Dialects :
          aliasData'[k2][d2] = IF k2 = k /\ d2 = cur /\ ~AliasedHere(k, cur, v)
                               THEN Put(aliasData[k][cur], v, n) ELSE aliasData[k2][d2]
    BY AliasEffect
  <1>2. dialectSymbols' = IF AliasValueFree(k, cur, v)
                          THEN Put(dialectSymbols, ValueSymbol(k, v), cur)
                          ELSE dialectSymbols
    BY DEF PutAlias
  <1>3. \A k2, v2 : ValueSymbol(k2, v2) = ValueSymbol(k, v) <=> k2 = k /\ v2 = v
    BY DEF ValueSymbol
  <1>4. v \in DOMAIN aliasData'[k][cur]
    BY <1>1 DEF AliasedHere, Put
  <1>5. ASSUME NEW k2 \in Kinds, NEW d2 \in Dialects, NEW v2
        PROVE  /\ AliasedHere(k2, d2, v2) => AliasedHere(k2, d2, v2)'
               /\ AliasedHere(k2, d2, v2)' =>
                    AliasedHere(k2, d2, v2) \/ (k2 = k /\ d2 = cur /\ v2 = v)
    BY <1>1 DEF AliasedHere, Put
  <1>6. ASSUME NEW k2 \in Kinds, NEW v2
        PROVE  /\ Owned(k2, v2)' =>
                    Owned(k2, v2) \/ (k2 = k /\ v2 = v /\ AliasValueFree(k, cur, v))
               /\ Owned(k2, v2) => Owned(k2, v2)'
    BY <1>2, <1>3 DEF Owned, Put
  <1>7. ASSUME NEW k2 \in Kinds, NEW v2, Owned(k2, v2)
        PROVE  dialectSymbols'[ValueSymbol(k2, v2)] = dialectSymbols[ValueSymbol(k2, v2)]
    BY <1>2, <1>7 DEF Owned, AliasValueFree, Put
  <1>8. ASSUME AliasValueFree(k, cur, v)
        PROVE  Owned(k, v)' /\ dialectSymbols'[ValueSymbol(k, v)] = cur
    BY <1>2, <1>8 DEF Owned, Put
  <1> QED
    BY <1>4, <1>5, <1>6, <1>7, <1>8

LEMMA AliasInit == Init => AliasInv
  BY DEF Init, ContextInit, Empty, AliasInv, DataOwned, OwnerHasData, AliasValueOwned, Owned

LEMMA AliasNext == TypeOK /\ AliasInv /\ [Next]_vars => AliasInv'
  <1> SUFFICES ASSUME TypeOK, AliasInv, [Next]_vars PROVE AliasInv'
    OBVIOUS
  <1>t. TypeOK'
    BY TypeNext
  <1>1. CASE OpStep
    <2>1. PICK n \in Names, op \in OpRecords : FinalizeOp(cur, n, op)
      BY <1>1 DEF OpStep
    <2>2. /\ aliases' = aliases /\ aliasData' = aliasData
          /\ dialectSymbols' = Put(dialectSymbols, OpSymbol(cur, n), cur)
      BY <2>1 DEF FinalizeOp
    <2>3. ASSUME NEW k \in Kinds, NEW v
          PROVE  /\ Owned(k, v)' <=> Owned(k, v)
                 /\ Owned(k, v) =>
                      dialectSymbols'[ValueSymbol(k, v)] = dialectSymbols[ValueSymbol(k, v)]
      <3>1. ValueSymbol(k, v) # OpSymbol(cur, n)
        BY KindsAssumption DEF OpSymbol, ValueSymbol
      <3> QED
        BY <2>2, <3>1 DEF Owned, Put
    <2> QED
      BY <2>2, <2>3 DEF AliasInv, DataOwned, OwnerHasData, AliasValueOwned, AliasedHere
  <1>2. CASE ObjectStep \/ DriverStep
    BY <1>2 DEF ObjectStep, CreateDynamicObject, DriverStep, tables,
                AliasInv, DataOwned, OwnerHasData, AliasValueOwned, Owned, AliasedHere
  <1>3. CASE AliasStep
    <2>1. PICK k \in Kinds, n \in Names, v \in Values : Child(n) /\ PutAlias(k, cur, n, v)
      BY <1>3 DEF AliasStep
    <2>2. cur \in Dialects
      BY <2>1, ChildType
    <2>3. OwnerHasData'
      <3> SUFFICES ASSUME NEW k2 \in Kinds, NEW v2 \in Values, Owned(k2, v2)'
                   PROVE  AliasedHere(k2, dialectSymbols[ValueSymbol(k2, v2)], v2)'
        BY DEF OwnerHasData
      <3>1. CASE Owned(k2, v2)
        <4>1. dialectSymbols[ValueSymbol(k2, v2)] \in Dialects
          BY <3>1 DEF Owned, TypeOK, ContextTypeOK, IsPartial
        <4>2. AliasedHere(k2, dialectSymbols[ValueSymbol(k2, v2)], v2)
          BY <3>1 DEF AliasInv, OwnerHasData
        <4>3. dialectSymbols'[ValueSymbol(k2, v2)] = dialectSymbols[ValueSymbol(k2, v2)]
          BY <2>1, <2>2, <3>1, AliasGrowth
        <4>4. \A d \in Dialects : AliasedHere(k2, d, v2) => AliasedHere(k2, d, v2)'
          BY <2>1, <2>2, AliasGrowth
        <4> QED
          BY <4>1, <4>2, <4>3, <4>4 DEF AliasedHere
      <3>2. CASE k2 = k /\ v2 = v /\ AliasValueFree(k, cur, v)
        <4>1. v \in DOMAIN aliasData'[k][cur] /\ dialectSymbols'[ValueSymbol(k, v)] = cur
          BY <2>1, <2>2, <3>2, AliasGrowth
        <4> QED
          BY <3>2, <4>1 DEF AliasedHere
      <3> QED
        BY <2>1, <2>2, <3>1, <3>2, AliasGrowth
    <2>4. Owned(k, v)'
      <3>1. Owned(k, v) => Owned(k, v)'
        BY <2>1, <2>2, AliasGrowth
      <3>2. AliasValueFree(k, cur, v) => Owned(k, v)'
        BY <2>1, <2>2, AliasGrowth
      <3> QED
        BY <2>2, <3>1, <3>2 DEF AliasValueFree, AliasedHere, AliasInv, DataOwned
    <2>5. DataOwned'
      <3> SUFFICES ASSUME NEW k2 \in Kinds, NEW d2 \in Dialects, NEW v2,
                          AliasedHere(k2, d2, v2)'
                   PROVE  Owned(k2, v2)'
        BY DEF DataOwned, AliasedHere
      <3>1. AliasedHere(k2, d2, v2) \/ (k2 = k /\ v2 = v)
        BY <2>1, <2>2, AliasGrowth
      <3>2. CASE AliasedHere(k2, d2, v2)
        <4>1. Owned(k2, v2)
          BY <3>2 DEF AliasedHere, AliasInv, DataOwned
        <4> QED
          BY <2>1, <2>2, <4>1, AliasGrowth
      <3> QED
        BY <2>4, <3>1, <3>2
    <2>6. ASSUME NEW k2 \in Kinds, NEW d2 \in Dialects, NEW m \in DOMAIN aliases'[k2][d2]
          PROVE  Owned(k2, aliases[k2][d2][m])'
      <3>1. aliases'[k2][d2] = IF k2 = k /\ d2 = cur
                               THEN Put(aliases[k][cur], n, v) ELSE aliases[k2][d2]
        BY <2>1, <2>2, AliasEffect
      <3>2. CASE k2 = k /\ d2 = cur /\ m = n
        BY <2>4, <3>1, <3>2 DEF Put, Owned
      <3>3. CASE ~(k2 = k /\ d2 = cur /\ m = n)
        <4>1. m \in DOMAIN aliases[k2][d2] /\ aliases'[k2][d2][m] = aliases[k2][d2][m]
          BY <3>1, <3>3 DEF Put
        <4>2. Owned(k2, aliases[k2][d2][m])
          BY <4>1 DEF AliasInv, AliasValueOwned
        <4>3. \A x : Owned(k2, x) => Owned(k2, x)'
          BY <2>1, <2>2, AliasGrowth
        <4> QED
          BY <4>1, <4>2, <4>3 DEF Owned
      <3> QED
        BY <3>2, <3>3
    <2>7. \A k2 \in Kinds, d2 \in Dialects : \A m \in DOMAIN aliases'[k2][d2] :
            aliases'[k2][d2][m] \in Values
      BY <1>t DEF TypeOK, ContextTypeOK, IsTableByKind, IsTable, IsPartial
    <2>8. AliasValueOwned'
      BY <2>3, <2>6, <2>7 DEF AliasValueOwned, OwnerHasData
    <2> QED
      BY <2>3, <2>5, <2>8 DEF AliasInv
  <1> QED
    BY <1>1, <1>2, <1>3, NextSteps

(***************************************************************************)
(* Every alias name, also one left behind by a failed registration, names  *)
(* a value that the symbol map and the metadata agree on.                  *)
(***************************************************************************)
THEOREM AliasOwnership == Spec => []AliasValueOwned
  <1>1. Init => TypeOK /\ AliasInv
    BY TypeInit, AliasInit
  <1>2. TypeOK /\ AliasInv /\ [Next]_vars => (TypeOK /\ AliasInv)'
    BY TypeNext, AliasNext
  <1>3. AliasInv => AliasValueOwned
    BY DEF AliasInv
  <1> QED
    BY <1>1, <1>2, <1>3, PTL DEF Spec

-----------------------------------------------------------------------------
(***************************************************************************)
(* Exposed dialects own their aliases.  The property speaks of exposed     *)
(* dialects only; it is inductive once it also covers the dialect being    *)
(* registered, which starts with no alias and gives up at the first value  *)
(* that is taken.                                                          *)
(***************************************************************************)
Phases ==
    /\ exposed \subseteq registered
    /\ cur \notin exposed
    /\ cur # NoDialect => cur \in registered

Unborn == \A k \in Kinds, d \in Dialects \ registered : DOMAIN aliases[k][d] = {}

Settled == exposed \cup ({cur} \cap Dialects)

SettledInv ==
    /\ Phases
    /\ Unborn
    /\ \A k \in Kinds, d \in Settled : OwnsAliases(k, d)

LEMMA SettledInit == Init => SettledInv
  BY NoDialectAssumption
     DEF Init, ContextInit, Empty, SettledInv, Phases, Unborn, Settled, OwnsAliases

(* An operation or an object leaves what OwnsAliases reads as it is.       *)
LEMMA OwnsAliasesFrame ==
    ASSUME TypeOK, OpStep \/ ObjectStep \/ DriverStep,
           NEW k \in Kinds, NEW d \in Dialects, OwnsAliases(k, d)
    PROVE  OwnsAliases(k, d)'
  <1>1. CASE OpStep
    <2>1. PICK n \in Names, op \in OpRecords : FinalizeOp(cur, n, op)
      BY <1>1 DEF OpStep
    <2>2. /\ aliases' = aliases /\ aliasData' = aliasData
          /\ dialectSymbols' = Put(dialectSymbols, OpSymbol(cur, n), cur)
      BY <2>1 DEF FinalizeOp
    <2>3. ASSUME NEW v
          PROVE  Owned(k, v) =>
                    /\ Owned(k, v)'
                    /\ dialectSymbols'[ValueSymbol(k, v)] = dialectSymbols[ValueSymbol(k, v)]
      <3>1. ValueSymbol(k, v) # OpSymbol(cur, n)
        BY KindsAssumption DEF OpSymbol, ValueSymbol
      <3> QED
        BY <2>2, <3>1 DEF Owned, Put
    <2> QED
      BY <2>2, <2>3 DEF OwnsAliases, AliasedHere
  <1>2. CASE ObjectStep \/ DriverStep
    BY <1>2 DEF ObjectStep, CreateDynamicObject, DriverStep, tables,
                OwnsAliases, Owned, AliasedHere
  <1> QED
    BY <1>1, <1>2

LEMMA SettledNext == TypeOK /\ SettledInv /\ [Next]_vars => SettledInv'
  <1> SUFFICES ASSUME TypeOK, SettledInv, [Next]_vars PROVE SettledInv'
    OBVIOUS
  <1>d. Settled \subseteq Dialects
    BY DEF Settled, TypeOK
  <1>1. CASE OpStep \/ ObjectStep
    <2>1. UNCHANGED <<registered, cur, exposed, aliases>>
      BY <1>1 DEF OpStep, ObjectStep, FinalizeOp, CreateDynamicObject, driverVars
    <2>2. \A k \in Kinds, d \in Settled : OwnsAliases(k, d)'
      BY <1>1, <1>d, OwnsAliasesFrame DEF SettledInv
    <2> QED
      BY <2>1, <2>2 DEF SettledInv, Phases, Unborn, Settled
  <1>2. CASE DriverStep
    <2>1. \A k \in Kinds, d \in Dialects : OwnsAliases(k, d) => OwnsAliases(k, d)'
      BY <1>2, OwnsAliasesFrame
    <2>2. aliases' = aliases
      BY <1>2 DEF DriverStep, tables
    <2>3. CASE UNCHANGED <<registered, cur, exposed>>
      BY <1>d, <2>1, <2>2, <2>3 DEF SettledInv, Phases, Unborn, Settled
    <2>4. CASE cur' = NoDialect /\ UNCHANGED <<registered, exposed>>
      BY <1>d, <2>1, <2>2, <2>4, NoDialectAssumption
         DEF SettledInv, Phases, Unborn, Settled, TypeOK
    <2>5. ASSUME NEW d \in Dialects \ registered,
                 registered' = registered \cup {d} /\ cur' = d /\ UNCHANGED exposed
          PROVE  SettledInv'
      <3>1. \A k \in Kinds : OwnsAliases(k, d)
        BY DEF SettledInv, Unborn, OwnsAliases
      <3>2. Settled' \subseteq exposed \cup {d}
        BY <2>5 DEF Settled
      <3>3. \A k \in Kinds, e \in Settled' : OwnsAliases(k, e)'
        BY <1>d, <2>1, <3>1, <3>2 DEF SettledInv, Settled, TypeOK
      <3> QED
        BY <2>2, <2>5, <3>3 DEF SettledInv, Phases, Unborn
    <2>6. CASE /\ cur \in Dialects
               /\ exposed' = exposed \cup {cur} /\ cur' = NoDialect /\ UNCHANGED registered
      BY <1>d, <2>1, <2>2, <2>6, NoDialectAssumption
         DEF SettledInv, Phases, Unborn, Settled, TypeOK
    <2> QED
      BY <1>2, <2>3, <2>4, <2>5, <2>6 DEF DriverStep
  <1>3. CASE AliasStep
    <2>1. PICK k \in Kinds, n \in Names, v \in Values :
             /\ Child(n) /\ PutAlias(k, cur, n, v) /\ UNCHANGED registered
        /\ Traced(k, v)
             /\ \/ AliasValueFree(k, cur, v) /\ UNCHANGED driverVars
                \/ ~AliasValueFree(k, cur, v) /\ Fail("aliasExists")
      BY <1>3 DEF AliasStep
    <2>2. cur \in Dialects /\ cur # NoDialect
      BY <2>1, ChildType, NoDialectAssumption
    <2>3. exposed' = exposed /\ cur' \in {cur, NoDialect} /\ registered' = registered
      BY <2>1 DEF Fail, driverVars
    <2>4. Phases'
      BY <2>3, NoDialectAssumption DEF Phases, SettledInv, TypeOK
    <2>5. \A k2 \in Kinds, d2 \in Dialects :
             (k2 # k \/ d2 # cur) =>
                aliases'[k2][d2] = aliases[k2][d2] /\ aliasData'[k2][d2] = aliasData[k2][d2]
      BY <2>1, <2>2, AliasEffect
    <2>6. Unborn'
      BY <2>2, <2>3, <2>5 DEF Unborn, SettledInv, Phases
    <2>7. ASSUME NEW k2 \in Kinds, NEW d2 \in Dialects, OwnsAliases(k2, d2), k2 # k \/ d2 # cur
          PROVE  OwnsAliases(k2, d2)'
      <3>1. \A x : Owned(k2, x) =>
               /\ Owned(k2, x)'
               /\ dialectSymbols'[ValueSymbol(k2, x)] = dialectSymbols[ValueSymbol(k2, x)]
        BY <2>1, <2>2, AliasGrowth
      <3> QED
        BY <2>5, <2>7, <3>1 DEF OwnsAliases, AliasedHere
    <2>8. ASSUME AliasValueFree(k, cur, v), OwnsAliases(k, cur)
          PROVE  \A m \in DOMAIN aliases'[k][cur] :
                    LET x == aliases'[k][cur][m]
                    IN /\ ValueSymbol(k, x) \in DOMAIN dialectSymbols'
                       /\ dialectSymbols'[ValueSymbol(k, x)] = cur
                       /\ x \in DOMAIN aliasData'[k][cur] /\ aliasData'[k][cur][x] = m
      <3>1. /\ aliases'[k][cur] = Put(aliases[k][cur], n, v)
            /\ aliasData'[k][cur] = Put(aliasData[k][cur], v, n)
        BY <2>1, <2>2, <2>8, AliasEffect DEF AliasValueFree
      <3>2. Owned(k, v)' /\ dialectSymbols'[ValueSymbol(k, v)] = cur
        BY <2>1, <2>2, <2>8, AliasGrowth
      <3>3. \A x : Owned(k, x) =>
               /\ Owned(k, x)'
               /\ dialectSymbols'[ValueSymbol(k, x)] = dialectSymbols[ValueSymbol(k, x)]
        BY <2>1, <2>2, AliasGrowth
      <3> SUFFICES ASSUME NEW m \in DOMAIN aliases'[k][cur]
                   PROVE  LET x == aliases'[k][cur][m]
                          IN /\ ValueSymbol(k, x) \in DOMAIN dialectSymbols'
                             /\ dialectSymbols'[ValueSymbol(k, x)] = cur
                             /\ x \in DOMAIN aliasData'[k][cur] /\ aliasData'[k][cur][x] = m
        OBVIOUS
      <3>4. CASE m = n
        BY <3>1, <3>2, <3>4 DEF Put, Owned
      <3>5. CASE m # n
        <4>1. m \in DOMAIN aliases[k][cur] /\ aliases'[k][cur][m] = aliases[k][cur][m]
          BY <3>1, <3>5 DEF Put
        <4>x. PICK x : x = aliases[k][cur][m]
          OBVIOUS
        <4>2. /\ Owned(k, x) /\ dialectSymbols[ValueSymbol(k, x)] = cur
              /\ x \in DOMAIN aliasData[k][cur] /\ aliasData[k][cur][x] = m
          BY <2>8, <4>1, <4>x DEF OwnsAliases, AliasedHere
        <4>3. x # v
          BY <2>8, <4>2 DEF AliasValueFree, AliasedHere
        <4>4. x \in DOMAIN aliasData'[k][cur] /\ aliasData'[k][cur][x] = m
          BY <3>1, <4>2, <4>3 DEF Put
        <4>5. Owned(k, x)' /\ dialectSymbols'[ValueSymbol(k, x)] = cur
          BY <3>3, <4>2
        <4> QED
          BY <4>1, <4>x, <4>4, <4>5 DEF Owned
      <3> QED
        BY <3>4, <3>5
    <2>9. ASSUME NEW k2 \in Kinds, NEW d2 \in Settled'
          PROVE  OwnsAliases(k2, d2)'
      <3>1. d2 \in Settled /\ d2 \in Dialects /\ OwnsAliases(k2, d2)
        BY <1>d, <2>3, NoDialectAssumption DEF Settled, SettledInv
      <3>2. CASE k2 # k \/ d2 # cur
        BY <2>7, <3>1, <3>2
      <3>3. CASE k2 = k /\ d2 = cur
        <4>1. AliasValueFree(k, cur, v)
          BY <2>1, <2>2, <3>3, NoDialectAssumption DEF Fail, Settled, SettledInv, Phases
        <4> QED
          BY <2>8, <3>1, <3>3, <4>1 DEF OwnsAliases, AliasedHere, Owned
      <3> QED
        BY <3>2, <3>3
    <2> QED
      BY <2>4, <2>6, <2>9 DEF SettledInv
  <1> QED
    BY <1>1, <1>2, <1>3, NextSteps

(***************************************************************************)
(* A dialect that Python sees owns the value of each of its aliases, so no *)
(* two exposed dialects alias the same type or attribute.                  *)
(***************************************************************************)
THEOREM ExposedOwnership == Spec => []ExposedOwnsAliases
  <1>1. Init => TypeOK /\ SettledInv
    BY TypeInit, SettledInit
  <1>2. TypeOK /\ SettledInv /\ [Next]_vars => (TypeOK /\ SettledInv)'
    BY TypeNext, SettledNext
  <1>3. SettledInv => ExposedOwnsAliases
    BY DEF SettledInv, Settled, ExposedOwnsAliases
  <1> QED
    BY <1>1, <1>2, <1>3, PTL DEF Spec

-----------------------------------------------------------------------------
(***************************************************************************)
(* A name that denotes something is never rebound.  An alias could hide a  *)
(* type or another alias only if it had its name, and the names of the     *)
(* children of a dialect are distinct.                                     *)
(***************************************************************************)
MeaningKept(k, r) ==
    Denotes(k, r) => /\ Denotes(k, r)'
                     /\ Parsed(k, r, registered)' = Parsed(k, r, registered)

(* What the two tables that give d.m its meaning do in a step.             *)
LEMMA NameKept ==
    ASSUME TypeOK, [Next]_vars, NEW k \in Kinds, NEW d \in Dialects, NEW m \in Names,
           m \in DOMAIN aliases[k][d] \cup DOMAIN dynObjs[k][d]
    PROVE  /\ m \in DOMAIN aliases'[k][d] \cup DOMAIN dynObjs'[k][d]
           /\ m \in DOMAIN aliases'[k][d] <=> m \in DOMAIN aliases[k][d]
           /\ m \in DOMAIN aliases[k][d] => aliases'[k][d][m] = aliases[k][d][m]
  <1>1. CASE OpStep \/ DriverStep
    <2>1. aliases' = aliases /\ dynObjs' = dynObjs
      BY <1>1 DEF OpStep, FinalizeOp, DriverStep, tables
    <2> QED
      BY <2>1
  <1>2. CASE ObjectStep
    <2>1. PICK k0 \in Kinds, n \in Names, use \in Uses :
             Child(n) /\ CreateDynamicObject(k0, cur, n, use)
      BY <1>2 DEF ObjectStep
    <2>2. aliases' = aliases
      BY <2>1 DEF CreateDynamicObject
    <2>3. dynObjs' = [dynObjs EXCEPT ![k0][cur] = Put(dynObjs[k0][cur], n, use)]
      BY <2>1 DEF CreateDynamicObject
    <2>4. \/ dynObjs'[k][d] = dynObjs[k][d]
          \/ dynObjs'[k][d] = Put(dynObjs[k][d], n, use)
      BY <2>3 DEF TypeOK, ContextTypeOK, IsTableByKind, IsTable
    <2>5. DOMAIN dynObjs[k][d] \subseteq DOMAIN dynObjs'[k][d]
      BY <2>4 DEF Put
    <2> QED
      BY <2>2, <2>5
  <1>3. CASE AliasStep
    <2>1. PICK k0 \in Kinds, n \in Names, v \in Values :
             Child(n) /\ PutAlias(k0, cur, n, v)
      BY <1>3 DEF AliasStep
    <2>2. cur \in Dialects
      BY <2>1, ChildType
    <2>3. dynObjs' = dynObjs
      BY <2>1 DEF PutAlias
    <2>4. CASE k # k0 \/ d # cur
      <3>1. aliases'[k][d] = aliases[k][d]
        BY <2>1, <2>2, <2>4, AliasEffect
      <3> QED
        BY <2>3, <3>1
    <2>5. CASE k = k0 /\ d = cur
      <3>1. aliases'[k][d] = Put(aliases[k][d], n, v)
        BY <2>1, <2>2, <2>5, AliasEffect
      <3>2. m # n
        BY <2>1, <2>5 DEF Child, Declared
      <3> QED
        BY <2>3, <3>1, <3>2 DEF Put
    <2> QED
      BY <2>4, <2>5
  <1> QED
    BY <1>1, <1>2, <1>3, NextSteps

LEMMA MeaningStep ==
    ASSUME TypeOK, [Next]_vars, NEW k \in Kinds, NEW r \in References
    PROVE  MeaningKept(k, r)
  <1>1. CASE r \in Builtins
    BY <1>1 DEF MeaningKept, Denotes, Parses, Parsed
  <1>2. CASE r \notin Builtins
    <2>1. r[1] \in Dialects /\ r[2] \in Names
      BY <1>2 DEF References
    <2>2. registered \subseteq registered'
      BY NextSteps DEF OpStep, ObjectStep, AliasStep, DriverStep
    <2>3. SUFFICES ASSUME Denotes(k, r)
                   PROVE  Denotes(k, r)' /\ Parsed(k, r, registered)' = Parsed(k, r, registered)
      BY DEF MeaningKept
    <2>4. /\ r[1] \in registered
          /\ r[2] \in DOMAIN aliases[k][r[1]] \cup DOMAIN dynObjs[k][r[1]]
      BY <1>2, <2>3 DEF Denotes, Parses
    <2>5. /\ r[2] \in DOMAIN aliases'[k][r[1]] \cup DOMAIN dynObjs'[k][r[1]]
          /\ r[2] \in DOMAIN aliases'[k][r[1]] <=> r[2] \in DOMAIN aliases[k][r[1]]
          /\ r[2] \in DOMAIN aliases[k][r[1]]
                => aliases'[k][r[1]][r[2]] = aliases[k][r[1]][r[2]]
      BY <2>1, <2>4, NameKept
    <2>6. Denotes(k, r)'
      BY <1>2, <2>2, <2>4, <2>5 DEF Denotes, Parses
    <2>7. Parsed(k, r, registered)' = Parsed(k, r, registered)
      BY <1>2, <2>2, <2>4, <2>5 DEF Parsed
    <2> QED
      BY <2>6, <2>7
  <1> QED
    BY <1>1, <1>2

(***************************************************************************)
(* No registration, failed or not, changes what an earlier reference to a  *)
(* registered dialect denotes.                                             *)
(***************************************************************************)
THEOREM MeaningNeverChanges == Spec => MeaningStable
  <1>1. TypeOK /\ [Next]_vars =>
           \A k \in Kinds, r \in References : MeaningKept(k, r)
    BY MeaningStep
  <1>2. TypeOK /\ [Next]_vars =>
           [\A k \in Kinds, r \in References :
               Denotes(k, r) => /\ Denotes(k, r)'
                                /\ Parsed(k, r, registered)' = Parsed(k, r, registered)]_vars
    BY <1>1 DEF MeaningKept
  <1> QED
    BY <1>2, TypeCorrect, PTL DEF Spec, MeaningStable

(***************************************************************************)
(* What the children of a dialect refer to: the dialects of the call can   *)
(* be imported, the types and attributes that registered objects hold      *)
(* exist, and they are opaque for one reason only.                         *)
(***************************************************************************)

(***************************************************************************)
(* The scope of the call: a dialect joins it when it becomes current, and  *)
(* stays when it was exposed; a failure empties it.                        *)
(***************************************************************************)
LEMMA ImportableInit == Init => Importable
  BY DEF Init, Importable, Scope

LEMMA ImportableKept ==
    ASSUME Importable, UNCHANGED <<scope, exposed, cur>>
    PROVE  Importable'
  BY DEF Importable, Scope

LEMMA ImportableEmpty ==
    ASSUME scope' = <<>>
    PROVE  Importable'
  BY DEF Importable, Scope

LEMMA ImportableNext == TypeOK /\ Importable /\ [Next]_vars => Importable'
  <1> SUFFICES ASSUME TypeOK, Importable, [Next]_vars PROVE Importable'
    OBVIOUS
  <1>1. ASSUME NEW c, Abort(c) PROVE Importable'
    BY <1>1, ImportableKept DEF Abort
  <1>2. ASSUME NEW d, Fail(d) PROVE Importable'
    BY <1>2, ImportableEmpty DEF Fail
  <1>3. CASE UNCHANGED driverVars
    BY <1>3, ImportableKept DEF driverVars
  <1>4. CASE StartCall \/ EndCall
    BY <1>4, ImportableKept, ImportableEmpty DEF StartCall, EndCall
  <1>5. ASSUME NEW d \in Dialects, CreateDialect(d) PROVE Importable'
    <2>1. CASE cur = NoDialect /\ scope' = Append(scope, d) /\ cur' = d /\ exposed' = exposed
      <3>1. Scope \subseteq exposed
        BY <2>1, NoDialectAssumption DEF Importable, Scope, TypeOK
      <3>2. Scope' \subseteq Scope \cup {d}
        BY <2>1 DEF Scope, TypeOK
      <3> QED
        BY <2>1, <3>1, <3>2 DEF Importable
    <2> QED
      BY <1>1, <1>5, <2>1 DEF CreateDialect
  <1>6. CASE Expose
    <2>1. CASE exposed' = exposed \cup {cur} /\ UNCHANGED scope
      BY <2>1 DEF Importable, Scope
    <2> QED
      BY <1>1, <1>6, <2>1 DEF Expose
  <1>7. ASSUME NEW n \in Names, NEW k \in Kinds, NEW r \in References,
               \/ \E outcome \in OpOutcomes, hasDefault \in BOOLEAN :
                     RegisterOp(n, k, r, outcome, hasDefault)
               \/ \E kind \in Kinds, badFormat \in BOOLEAN :
                     RegisterObject(kind, n, k, r, badFormat)
               \/ RegisterAlias(k, n, r)
        PROVE  Importable'
    BY <1>1, <1>2, <1>3, <1>7 DEF RegisterOp, RegisterObject, RegisterAlias, Unparsed
  <1>8. CASE Terminated \/ UNCHANGED vars
    BY <1>3, <1>8 DEF Terminated, vars
  <1> QED
    BY <1>4, <1>5, <1>6, <1>7, <1>8 DEF Next

(***************************************************************************)
(* Whenever a dialect is being registered, exposeDialectInternal finds the *)
(* modules of the other dialects of the call, even after earlier calls     *)
(* failed.                                                                 *)
(***************************************************************************)
THEOREM ScopeAlwaysImportable == Spec => []ScopeImportable
  <1>1. Init => TypeOK /\ Importable
    BY TypeInit, ImportableInit
  <1>2. TypeOK /\ Importable /\ [Next]_vars => (TypeOK /\ Importable)'
    BY TypeNext, ImportableNext
  <1>3. Importable => ScopeImportable
    BY DEF ScopeImportable
  <1> QED
    BY <1>1, <1>2, <1>3, PTL DEF Spec

-----------------------------------------------------------------------------
(***************************************************************************)
(* A dynamic type or attribute that is held somewhere is registered.  The  *)
(* second parse finds it through an alias as well as by its own name, so   *)
(* the invariant covers the values of the aliases too.                     *)
(***************************************************************************)
Exists(k, v) == v \notin Builtins /\ v[1] = "dynamic" => v[3] \in DOMAIN dynObjs[k][v[2]]

AliasesExist ==
    \A k \in Kinds, d \in Dialects : \A n \in DOMAIN aliases[k][d] :
        Exists(k, aliases[k][d][n])

UsesExist == \A d \in Dialects : \A u \in UsesOf(d) : Exists(u[1], u[2])

LEMMA UseInit == Init => AliasesExist /\ UsesExist
  BY DEF Init, ContextInit, Empty, AliasesExist, UsesExist, UsesOf

(* What a reference denotes exists.                                        *)
LEMMA TracedExists ==
    ASSUME TypeOK, AliasesExist, NEW k \in Kinds, NEW v, Traced(k, v)
    PROVE  Exists(k, v)
  <1>1. PICK r \in References : Parses(k, r, registered) /\ v = Parsed(k, r, registered)
    BY DEF Traced
  <1>2. CASE r \in Builtins
    BY <1>1, <1>2 DEF Parsed, Exists
  <1>3. CASE r \notin Builtins
    <2>1. r[1] \in Dialects /\ r[2] \in Names
      BY <1>3 DEF References
    <2>2. CASE r[1] \notin registered
      BY <1>1, <1>3, <2>2 DEF Parsed, Opaque, Exists
    <2>3. CASE r[2] \in DOMAIN aliases[k][r[1]] /\ r[1] \in registered
      <3>1. v = aliases[k][r[1]][r[2]]
        BY <1>1, <1>3, <2>3 DEF Parsed
      <3> QED
        BY <2>1, <2>3, <3>1 DEF AliasesExist
    <2>4. CASE r[2] \notin DOMAIN aliases[k][r[1]] /\ r[1] \in registered
      BY <1>1, <1>3, <2>4 DEF Parses, Parsed, Dynamic, Exists
    <2> QED
      BY <2>2, <2>3, <2>4
  <1> QED
    BY <1>2, <1>3

(* Types and attributes are never unregistered.                            *)
LEMMA ObjectsGrow ==
    ASSUME TypeOK, [Next]_vars, NEW k \in Kinds, NEW d \in Dialects
    PROVE  DOMAIN dynObjs[k][d] \subseteq DOMAIN dynObjs'[k][d]
  <1>1. CASE OpStep \/ AliasStep \/ DriverStep
    BY <1>1 DEF OpStep, FinalizeOp, AliasStep, PutAlias, DriverStep, tables
  <1>2. CASE ObjectStep
    <2>1. PICK k0 \in Kinds, n \in Names, use \in Uses : CreateDynamicObject(k0, cur, n, use)
      BY <1>2 DEF ObjectStep
    <2>2. dynObjs' = [dynObjs EXCEPT ![k0][cur] = Put(dynObjs[k0][cur], n, use)]
      BY <2>1 DEF CreateDynamicObject
    <2>3. \/ dynObjs'[k][d] = dynObjs[k][d]
          \/ dynObjs'[k][d] = Put(dynObjs[k][d], n, use)
      BY <2>2 DEF TypeOK, ContextTypeOK, IsTableByKind, IsTable
    <2> QED
      BY <2>3 DEF Put
  <1> QED
    BY <1>1, <1>2, NextSteps

LEMMA ExistsKept ==
    ASSUME TypeOK, [Next]_vars, NEW k \in Kinds, NEW v \in Values, Exists(k, v)
    PROVE  Exists(k, v)'
  <1>1. CASE v \in Builtins
    BY <1>1 DEF Exists
  <1>2. CASE v \notin Builtins
    <2>1. v[2] \in Dialects
      BY <1>2 DEF Values
    <2>2. DOMAIN dynObjs[k][v[2]] \subseteq DOMAIN dynObjs'[k][v[2]]
      BY <2>1, ObjectsGrow
    <2> QED
      BY <2>2 DEF Exists
  <1> QED
    BY <1>1, <1>2

(* A step gives at most one dialect one new use, a traced one.             *)
LEMMA UsesOfType ==
    ASSUME TypeOK, NEW d \in Dialects, NEW u \in UsesOf(d)
    PROVE  u \in Uses
  <1>1. \A n \in DOMAIN dynOps[d] : dynOps[d][n].uses \in Uses
    BY DEF TypeOK, ContextTypeOK, IsTable, IsPartial, OpRecords
  <1>2. \A k \in Kinds : \A n \in DOMAIN dynObjs[k][d] : dynObjs[k][d][n] \in Uses
    BY DEF TypeOK, ContextTypeOK, IsTableByKind, IsTable, IsPartial
  <1> QED
    BY <1>1, <1>2 DEF UsesOf

LEMMA UsesGrowth ==
    ASSUME TypeOK, [Next]_vars, NEW d \in Dialects, NEW u \in UsesOf(d)'
    PROVE  \/ u \in UsesOf(d)
           \/ u \in Uses /\ Traced(u[1], u[2]) /\ d = cur
  <1>1. CASE AliasStep \/ DriverStep
    BY <1>1 DEF AliasStep, PutAlias, DriverStep, tables, UsesOf
  <1>2. CASE OpStep
    <2>1. PICK n \in Names, op \in OpRecords :
             FinalizeOp(cur, n, op) /\ Traced(op.uses[1], op.uses[2])
      BY <1>2 DEF OpStep
    <2>2. dynOps' = [dynOps EXCEPT ![cur] = Put(dynOps[cur], n, op)] /\ dynObjs' = dynObjs
      BY <2>1 DEF FinalizeOp
    <2>3. \/ dynOps'[d] = dynOps[d]
          \/ dynOps'[d] = Put(dynOps[d], n, op) /\ d = cur
      BY <2>2 DEF TypeOK, ContextTypeOK, IsTable
    <2>4. op.uses \in Uses
      BY DEF OpRecords
    <2>5. ASSUME NEW m \in DOMAIN dynOps'[d], u = dynOps'[d][m].uses
          PROVE  u \in UsesOf(d) \/ (u = op.uses /\ d = cur)
      <3>1. CASE dynOps'[d] = dynOps[d]
        BY <2>5, <3>1 DEF UsesOf
      <3>2. CASE dynOps'[d] = Put(dynOps[d], n, op) /\ d = cur
        <4>1. u = op.uses \/ (m \in DOMAIN dynOps[d] /\ u = dynOps[d][m].uses)
          BY <2>5, <3>2 DEF Put
        <4> QED
          BY <3>2, <4>1 DEF UsesOf
      <3> QED
        BY <2>3, <3>1, <3>2
    <2>6. CASE \E k \in Kinds : \E m \in DOMAIN dynObjs'[k][d] : u = dynObjs'[k][d][m]
      BY <2>2, <2>6 DEF UsesOf
    <2> QED
      BY <2>1, <2>4, <2>5, <2>6 DEF UsesOf
  <1>3. CASE ObjectStep
    <2>1. PICK k \in Kinds, n \in Names, use \in Uses :
             CreateDynamicObject(k, cur, n, use) /\ Traced(use[1], use[2])
      BY <1>3 DEF ObjectStep
    <2>2. dynObjs' = [dynObjs EXCEPT ![k][cur] = Put(dynObjs[k][cur], n, use)]
          /\ dynOps' = dynOps
      BY <2>1 DEF CreateDynamicObject
    <2>3. \A k2 \in Kinds :
             \/ dynObjs'[k2][d] = dynObjs[k2][d]
             \/ dynObjs'[k2][d] = Put(dynObjs[k2][d], n, use) /\ d = cur
      BY <2>2 DEF TypeOK, ContextTypeOK, IsTableByKind, IsTable
    <2>4. CASE \E m \in DOMAIN dynOps'[d] : u = dynOps'[d][m].uses
      BY <2>2, <2>4 DEF UsesOf
    <2>5. ASSUME NEW k2 \in Kinds, NEW m \in DOMAIN dynObjs'[k2][d], u = dynObjs'[k2][d][m]
          PROVE  u \in UsesOf(d) \/ (u = use /\ d = cur)
      <3>1. CASE dynObjs'[k2][d] = dynObjs[k2][d]
        BY <2>5, <3>1 DEF UsesOf
      <3>2. CASE dynObjs'[k2][d] = Put(dynObjs[k2][d], n, use) /\ d = cur
        <4>1. u = use \/ (m \in DOMAIN dynObjs[k2][d] /\ u = dynObjs[k2][d][m])
          BY <2>5, <3>2 DEF Put
        <4> QED
          BY <3>2, <4>1 DEF UsesOf
      <3> QED
        BY <2>3, <3>1, <3>2
    <2> QED
      BY <2>1, <2>4, <2>5 DEF UsesOf
  <1> QED
    BY <1>1, <1>2, <1>3, NextSteps

LEMMA AliasGrows ==
    ASSUME TypeOK, [Next]_vars, NEW k \in Kinds, NEW d \in Dialects,
           NEW n \in DOMAIN aliases'[k][d]
    PROVE  \/ n \in DOMAIN aliases[k][d] /\ aliases'[k][d][n] = aliases[k][d][n]
           \/ aliases'[k][d][n] \in Values /\ Traced(k, aliases'[k][d][n])
  <1>1. CASE OpStep \/ ObjectStep \/ DriverStep
    BY <1>1 DEF OpStep, FinalizeOp, ObjectStep, CreateDynamicObject, DriverStep, tables
  <1>2. CASE AliasStep
    <2>1. PICK k0 \in Kinds, m \in Names, v \in Values :
             Child(m) /\ PutAlias(k0, cur, m, v) /\ Traced(k0, v)
      BY <1>2 DEF AliasStep
    <2>2. aliases' = [aliases EXCEPT ![k0][cur] = Put(aliases[k0][cur], m, v)]
      BY <2>1 DEF PutAlias
    <2>3. \/ aliases'[k][d] = aliases[k][d]
          \/ aliases'[k][d] = Put(aliases[k][d], m, v) /\ k = k0
      BY <2>2 DEF TypeOK, ContextTypeOK, IsTableByKind, IsTable
    <2> QED
      BY <2>1, <2>3 DEF Put
  <1> QED
    BY <1>1, <1>2, NextSteps

LEMMA UseNext ==
    TypeOK /\ AliasesExist /\ UsesExist /\ [Next]_vars => (AliasesExist /\ UsesExist)'
  <1> SUFFICES ASSUME TypeOK, AliasesExist, UsesExist, [Next]_vars
               PROVE  (AliasesExist /\ UsesExist)'
    OBVIOUS
  <1>1. ASSUME NEW k \in Kinds, NEW d \in Dialects, NEW n \in DOMAIN aliases'[k][d]
        PROVE  Exists(k, aliases[k][d][n])'
    <2>1. PICK v : v = aliases'[k][d][n]
      OBVIOUS
    <2>2. v \in Values /\ Exists(k, v)
      <3>1. CASE n \in DOMAIN aliases[k][d] /\ v = aliases[k][d][n]
        BY <3>1 DEF AliasesExist, TypeOK, ContextTypeOK, IsTableByKind, IsTable, IsPartial
      <3>2. CASE v \in Values /\ Traced(k, v)
        BY <3>2, TracedExists
      <3> QED
        BY <2>1, <3>1, <3>2, AliasGrows
    <2>3. Exists(k, v)'
      BY <2>2, ExistsKept
    <2> QED
      BY <2>1, <2>3 DEF Exists
  <1>2. ASSUME NEW d \in Dialects, NEW u \in UsesOf(d)'
        PROVE  Exists(u[1], u[2])'
    <2>1. u \in Uses /\ Exists(u[1], u[2])
      <3>1. CASE u \in UsesOf(d)
        BY <3>1, UsesOfType DEF UsesExist
      <3>2. CASE u \in Uses /\ Traced(u[1], u[2])
        BY <3>2, TracedExists DEF Uses
      <3> QED
        BY <3>1, <3>2, UsesGrowth
    <2>2. u[1] \in Kinds /\ u[2] \in Values
      BY <2>1 DEF Uses
    <2> QED
      BY <2>1, <2>2, ExistsKept
  <1> QED
    BY <1>1, <1>2 DEF AliasesExist, UsesExist

(***************************************************************************)
(* No operation, type or attribute that was registered, in a call that     *)
(* succeeded or in one that failed half way, holds a dynamic type or       *)
(* attribute that does not exist.                                          *)
(***************************************************************************)
THEOREM UsesNeverDangle == Spec => []NoDanglingUse
  <1>1. Init => TypeOK /\ AliasesExist /\ UsesExist
    BY TypeInit, UseInit
  <1>2. TypeOK /\ AliasesExist /\ UsesExist /\ [Next]_vars
           => (TypeOK /\ AliasesExist /\ UsesExist)'
    BY TypeNext, UseNext
  <1>3. UsesExist => NoDanglingUse
    BY DEF UsesExist, Exists, NoDanglingUse
  <1> QED
    BY <1>1, <1>2, <1>3, PTL DEF Spec

-----------------------------------------------------------------------------
(***************************************************************************)
(* Opaque uses.  A use is new only in the dialect being registered, which  *)
(* had none when its namespace was created; no namespace is created while  *)
(* that dialect is current.                                                *)
(***************************************************************************)
Fresh == \A d \in Dialects \ registered : UsesOf(d) = {}

OpaqueStale(u) == IsOpaque(u[2]) /\ u[2][2] \in registered => StaleAlias(u[1], u[2])

CurOpaque == cur # NoDialect => \A u \in UsesOf(cur) : OpaqueStale(u)

OpaqueInv == Phases /\ Fresh /\ CurOpaque

LEMMA OpaqueInit == Init => Fresh /\ CurOpaque
  BY DEF Init, ContextInit, Empty, Fresh, UsesOf, CurOpaque

(* The second parse gives an opaque value of a registered namespace only   *)
(* for the name of an alias.                                               *)
LEMMA TracedOpaque ==
    ASSUME TypeOK, NEW u \in Uses, Traced(u[1], u[2])
    PROVE  OpaqueStale(u)
  <1> SUFFICES ASSUME IsOpaque(u[2]), u[2][2] \in registered
               PROVE  StaleAlias(u[1], u[2])
    BY DEF OpaqueStale
  <1>1. PICK r \in References :
           Parses(u[1], r, registered) /\ u[2] = Parsed(u[1], r, registered)
    BY DEF Traced
  <1>2. r \notin Builtins
    BY <1>1 DEF Parsed, IsOpaque
  <1>3. r[1] \in registered
    BY <1>1, <1>2 DEF Parsed, Opaque
  <1>4. r[2] \in DOMAIN aliases[u[1]][r[1]] /\ u[2] = aliases[u[1]][r[1]][r[2]]
    BY <1>1, <1>2, <1>3 DEF Parsed, Dynamic, IsOpaque
  <1> QED
    BY <1>3, <1>4 DEF StaleAlias

(* Aliases are never unregistered.                                         *)
LEMMA StaleKept ==
    ASSUME TypeOK, [Next]_vars, NEW k \in Kinds, NEW v, StaleAlias(k, v)
    PROVE  StaleAlias(k, v)'
  <1>1. PICK d \in registered : \E n \in DOMAIN aliases[k][d] : aliases[k][d][n] = v
    BY DEF StaleAlias
  <1>2. PICK n \in DOMAIN aliases[k][d] : aliases[k][d][n] = v
    BY <1>1
  <1>3. d \in Dialects /\ n \in Names
    BY DEF TypeOK, ContextTypeOK, IsTableByKind, IsTable, IsPartial
  <1>4. n \in DOMAIN aliases'[k][d] /\ aliases'[k][d][n] = v
    BY <1>2, <1>3, NameKept
  <1>5. d \in registered'
    BY NextSteps DEF OpStep, ObjectStep, AliasStep, DriverStep
  <1> QED
    BY <1>4, <1>5 DEF StaleAlias

LEMMA OpaqueNext ==
    TypeOK /\ OpaqueInv /\ Phases' /\ [Next]_vars => OpaqueInv'
  <1> SUFFICES ASSUME TypeOK, OpaqueInv, Phases', [Next]_vars
               PROVE  Fresh' /\ CurOpaque'
    BY DEF OpaqueInv
  <1>1. registered \subseteq registered'
    BY NextSteps DEF OpStep, ObjectStep, AliasStep, DriverStep
  <1>2. cur # NoDialect => cur \in registered
    BY DEF OpaqueInv, Phases
  <1>3. ASSUME NEW d \in Dialects \ registered'
        PROVE  UsesOf(d)' = {}
    <2>1. d \notin registered /\ UsesOf(d) = {}
      BY <1>1 DEF OpaqueInv, Fresh
    <2>2. d # cur
      BY <1>2, <2>1, NoDialectAssumption
    <2> QED
      BY <2>1, <2>2, UsesGrowth
  <1>4. ASSUME cur' # NoDialect, NEW u \in UsesOf(cur)'
        PROVE  OpaqueStale(u)'
    <2>1. cur' \in Dialects
      BY <1>4, TypeNext DEF TypeOK
    <2>2. PICK d \in Dialects : d = cur'
      BY <2>1
    <2>3. u \in UsesOf(d)'
      BY <1>4, <2>2 DEF UsesOf
    <2>4. /\ cur = d
          /\ registered' = registered
      <3>1. CASE cur' = cur /\ registered' = registered
        BY <2>2, <3>1
      <3>2. CASE d \notin registered
        <4>1. UsesOf(d) = {} /\ d # cur
          BY <1>2, <3>2, NoDialectAssumption DEF OpaqueInv, Fresh
        <4> QED
          BY <2>3, <4>1, UsesGrowth
      <3> QED
        BY <1>4, <2>2, <3>1, <3>2, NextSteps
           DEF OpStep, ObjectStep, AliasStep, DriverStep, driverVars, Fail
    <2>5. u \in Uses /\ OpaqueStale(u)
      <3>1. CASE u \in UsesOf(d)
        BY <1>4, <2>2, <2>4, <3>1, UsesOfType DEF OpaqueInv, CurOpaque
      <3>2. CASE u \in Uses /\ Traced(u[1], u[2])
        BY <3>2, TracedOpaque
      <3> QED
        BY <2>3, <3>1, <3>2, UsesGrowth
    <2>6. u[1] \in Kinds
      BY <2>5 DEF Uses
    <2>7. PICK k \in Kinds, v \in {u[2]} : k = u[1] /\ v = u[2]
      BY <2>6
    <2>8. StaleAlias(k, v) => StaleAlias(k, v)'
      BY StaleKept
    <2> QED
      BY <2>4, <2>5, <2>7, <2>8 DEF OpaqueStale, StaleAlias
  <1> QED
    BY <1>3, <1>4 DEF Fresh, CurOpaque

(***************************************************************************)
(* While a dialect is being registered, its objects hold an opaque type or *)
(* attribute of a registered namespace only where they named an alias that *)
(* was bound to it, for any module and any history of earlier calls.       *)
(***************************************************************************)
THEOREM OpaqueUsesAreAliases == Spec => []OpaqueOnlyByAlias
  <1>1. Init => TypeOK /\ SettledInv /\ Fresh /\ CurOpaque
    BY TypeInit, SettledInit, OpaqueInit
  <1>2. TypeOK /\ SettledInv /\ Fresh /\ CurOpaque /\ [Next]_vars
           => (TypeOK /\ SettledInv /\ Fresh /\ CurOpaque)'
    BY TypeNext, SettledNext, OpaqueNext DEF OpaqueInv, SettledInv
  <1>3. CurOpaque => OpaqueOnlyByAlias
    BY DEF CurOpaque, OpaqueStale, OpaqueOnlyByAlias
  <1> QED
    BY <1>1, <1>2, <1>3, PTL DEF Spec

-----------------------------------------------------------------------------
(***************************************************************************)
(* The pool of TypeIDs.  A step that takes an ID either adds one live      *)
(* object or, when a trait rejects the operation, abandons the dialect; a  *)
(* dialect is abandoned once.                                              *)
(***************************************************************************)
PoolInv == IsFiniteSet(Live) /\ IsFiniteSet(Abandoned) /\ PoolAccounted

LEMMA PoolInit == Init => PoolInv
  <1> SUFFICES ASSUME Init PROVE PoolInv
    OBVIOUS
  <1>1. Live = {}
    BY DEF Init, ContextInit, Empty, Live, Objects
  <1>2. Abandoned = {}
    BY DEF Init, ContextInit, Abandoned
  <1>3. nextID = 0
    BY DEF Init, ContextInit
  <1> QED
    BY <1>1, <1>2, <1>3, FS_EmptySet DEF PoolInv, PoolAccounted

LEMMA PoolKept ==
    ASSUME TypeOK, PoolInv, Live' = Live, nextID' = nextID,
           Abandoned' = Abandoned \/ Abandoned' = Abandoned \cup {cur}
    PROVE  PoolInv'
  <1>1. /\ IsFiniteSet(Abandoned')
        /\ Cardinality(Abandoned) <= Cardinality(Abandoned')
        /\ Cardinality(Abandoned) \in Nat /\ Cardinality(Abandoned') \in Nat
    <2>1. IsFiniteSet(Abandoned) /\ Cardinality(Abandoned) \in Nat
      BY FS_CardinalityType DEF PoolInv
    <2>2. CASE Abandoned' = Abandoned
      BY <2>1, <2>2
    <2>3. CASE Abandoned' = Abandoned \cup {cur}
      <3>1. /\ IsFiniteSet(Abandoned')
            /\ Cardinality(Abandoned') \in {Cardinality(Abandoned), Cardinality(Abandoned) + 1}
        BY <2>1, <2>3, FS_AddElement
      <3> QED
        BY <2>1, <3>1
    <2> QED
      BY <2>2, <2>3
  <1>2. Cardinality(Live) \in Nat /\ nextID \in Nat
    BY FS_CardinalityType DEF PoolInv, TypeOK, ContextTypeOK
  <1> QED
    BY <1>1, <1>2 DEF PoolInv, PoolAccounted

LEMMA PoolTaken ==
    ASSUME TypeOK, PoolInv, nextID' = nextID + 1, Abandoned' = Abandoned,
           NEW x, x \notin Live, Live' = Live \cup {x}
    PROVE  PoolInv'
  <1>1. IsFiniteSet(Live') /\ Cardinality(Live') = Cardinality(Live) + 1
    BY FS_AddElement DEF PoolInv
  <1>2. /\ Cardinality(Live) \in Nat /\ nextID \in Nat
        /\ Cardinality(Abandoned) \in Nat
    BY FS_CardinalityType DEF PoolInv, TypeOK, ContextTypeOK
  <1> QED
    BY <1>1, <1>2 DEF PoolInv, PoolAccounted

LEMMA PoolWasted ==
    ASSUME TypeOK, PoolInv, nextID' = nextID + 1, Live' = Live,
           cur \notin Abandoned, Abandoned' = Abandoned \cup {cur}
    PROVE  PoolInv'
  <1>1. IsFiniteSet(Abandoned') /\ Cardinality(Abandoned') = Cardinality(Abandoned) + 1
    BY FS_AddElement DEF PoolInv
  <1>2. /\ Cardinality(Live) \in Nat /\ nextID \in Nat
        /\ Cardinality(Abandoned) \in Nat
    BY FS_CardinalityType DEF PoolInv, TypeOK, ContextTypeOK
  <1> QED
    BY <1>1, <1>2 DEF PoolInv, PoolAccounted

LEMMA FailAbandons ==
    ASSUME TypeOK, Phases, cur # NoDialect, NEW d, Fail(d), UNCHANGED registered
    PROVE  cur \notin Abandoned /\ Abandoned' = Abandoned \cup {cur}
  BY NoDialectAssumption DEF Fail, Abandoned, Phases, TypeOK, ContextTypeOK

LEMMA AbortPool ==
    ASSUME TypeOK, PoolInv, NEW c, Abort(c)
    PROVE  PoolInv'
  <1>1. Live' = Live /\ nextID' = nextID /\ Abandoned' = Abandoned
    BY DEF Abort, ctxVars, tables, Live, Objects, Abandoned
  <1> QED
    BY <1>1, PoolKept

LEMMA UnparsedPool ==
    ASSUME TypeOK, Phases, PoolInv, cur # NoDialect, NEW k, NEW r, Unparsed(k, r)
    PROVE  PoolInv'
  <1>1. Live' = Live /\ nextID' = nextID
    BY DEF Unparsed, ctxVars, tables, Live, Objects
  <1>2. Abandoned' = Abandoned \cup {cur}
    BY FailAbandons DEF Unparsed, ctxVars
  <1> QED
    BY <1>1, <1>2, PoolKept

LEMMA RegisterOpPool ==
    ASSUME TypeOK, Phases, OpLookupTotal, PoolInv,
           NEW n \in Names, NEW k \in Kinds, NEW r \in References,
           NEW outcome \in OpOutcomes, NEW hasDefault \in BOOLEAN,
           RegisterOp(n, k, r, outcome, hasDefault)
    PROVE  PoolInv'
  <1>1. cur \in Dialects /\ cur # NoDialect
    BY ChildType, NoDialectAssumption DEF RegisterOp
  <1>2. CASE Unparsed(k, r)
    BY <1>1, <1>2, UnparsedPool
  <1>3. CASE Abort("pool") \/ Abort("format")
    BY <1>3, AbortPool
  <1>4. CASE AllocateID /\ Fail("trait") /\ UNCHANGED <<registered, tables>>
    <2>1. Live' = Live /\ nextID' = nextID + 1
      BY <1>4 DEF AllocateID, tables, Live, Objects
    <2> QED
      BY <1>1, <1>4, <2>1, FailAbandons, PoolWasted
  <1>5. ASSUME NEW op, AllocateID, FinalizeOp(cur, n, op), UNCHANGED <<registered, driverVars>>
        PROVE  PoolInv'
    <2>1. <<cur, n>> \notin absOps
      BY <1>1 DEF RegisterOp, Child, Declared, OpLookupTotal
    <2>2. <<"op", <<cur, n>>>> \notin Live
      BY <2>1 DEF Live
    <2>3. Live' = Live \cup {<<"op", <<cur, n>>>>}
      BY <1>5 DEF FinalizeOp, Live, Objects
    <2>4. Abandoned' = Abandoned /\ nextID' = nextID + 1
      BY <1>5 DEF Abandoned, driverVars, AllocateID
    <2> QED
      BY <2>2, <2>3, <2>4, PoolTaken
  <1> QED
    BY <1>2, <1>3, <1>4, <1>5 DEF RegisterOp

LEMMA RegisterObjectPool ==
    ASSUME TypeOK, Phases, PoolInv,
           NEW kind \in Kinds, NEW n \in Names,
           NEW k \in Kinds, NEW r \in References, NEW badFormat \in BOOLEAN,
           RegisterObject(kind, n, k, r, badFormat)
    PROVE  PoolInv'
  <1>1. cur \in Dialects /\ cur # NoDialect
    BY ChildType, NoDialectAssumption DEF RegisterObject
  <1>2. CASE Unparsed(k, r)
    BY <1>1, <1>2, UnparsedPool
  <1>3. CASE Abort("pool") \/ Abort("format")
    BY <1>3, AbortPool
  <1>4. ASSUME NEW use, AllocateID, CreateDynamicObject(kind, cur, n, use),
               UNCHANGED <<registered, driverVars>>
        PROVE  PoolInv'
    <2>1. n \notin DOMAIN dynObjs[kind][cur]
      BY DEF RegisterObject, Child, Declared
    <2>2. <<"object", <<kind, cur, n>>>> \notin Live
      BY <2>1 DEF Live, Objects
    <2>3. /\ DOMAIN dynObjs'[kind][cur] = DOMAIN dynObjs[kind][cur] \cup {n}
          /\ \A k2 \in Kinds, d2 \in Dialects :
                k2 # kind \/ d2 # cur => dynObjs'[k2][d2] = dynObjs[k2][d2]
      <3>1. dynObjs' = [dynObjs EXCEPT ![kind][cur] = Put(dynObjs[kind][cur], n, use)]
        BY <1>4 DEF CreateDynamicObject
      <3>2. dynObjs'[kind][cur] = Put(dynObjs[kind][cur], n, use)
        BY <1>1, <3>1 DEF TypeOK, ContextTypeOK, IsTableByKind, IsTable
      <3>3. \A k2 \in Kinds, d2 \in Dialects :
                k2 # kind \/ d2 # cur => dynObjs'[k2][d2] = dynObjs[k2][d2]
        BY <1>1, <3>1 DEF TypeOK, ContextTypeOK, IsTableByKind, IsTable
      <3> QED
        BY <3>2, <3>3 DEF Put
    <2>4. Objects' = Objects \cup {<<kind, cur, n>>}
      BY <1>1, <2>3 DEF Objects
    <2>5. Live' = Live \cup {<<"object", <<kind, cur, n>>>>}
      BY <1>4, <2>4 DEF CreateDynamicObject, Live
    <2>6. Abandoned' = Abandoned /\ nextID' = nextID + 1
      BY <1>4 DEF Abandoned, driverVars, AllocateID
    <2> QED
      BY <2>2, <2>5, <2>6, PoolTaken
  <1> QED
    BY <1>2, <1>3, <1>4 DEF RegisterObject

LEMMA RegisterAliasPool ==
    ASSUME TypeOK, Phases, PoolInv,
           NEW k \in Kinds, NEW n \in Names, NEW r \in References,
           RegisterAlias(k, n, r)
    PROVE  PoolInv'
  <1>1. cur # NoDialect
    BY DEF RegisterAlias, Child
  <1>2. CASE Unparsed(k, r)
    BY <1>1, <1>2, UnparsedPool
  <1>3. CASE /\ PutAlias(k, cur, n, Reparsed(k, r))
             /\ UNCHANGED <<nextID, registered>>
             /\ UNCHANGED driverVars \/ Fail("aliasExists")
    <2>1. Live' = Live /\ nextID' = nextID
      BY <1>3 DEF PutAlias, Live, Objects
    <2>2. Abandoned' = Abandoned \/ Abandoned' = Abandoned \cup {cur}
      BY <1>1, <1>3, FailAbandons DEF driverVars, Abandoned
    <2> QED
      BY <2>1, <2>2, PoolKept
  <1> QED
    BY <1>2, <1>3 DEF RegisterAlias

LEMMA CreateDialectPool ==
    ASSUME TypeOK, PoolInv, NEW d \in Dialects, CreateDialect(d)
    PROVE  PoolInv'
  <1>1. CASE Abort("pool") \/ Abort("namespace")
    BY <1>1, AbortPool
  <1>2. CASE /\ d \notin registered
             /\ cur = NoDialect
             /\ AllocateID
             /\ registered' = registered \cup {d}
             /\ cur' = d
             /\ UNCHANGED <<tables, exposed>>
    <2>1. <<"dialect", d>> \notin Live
      BY <1>2 DEF Live
    <2>2. Live' = Live \cup {<<"dialect", d>>}
      BY <1>2 DEF Live, Objects, tables
    <2>3. Abandoned' = Abandoned
      BY <1>2, NoDialectAssumption DEF Abandoned, TypeOK, ContextTypeOK
    <2> QED
      BY <1>2, <2>1, <2>2, <2>3, PoolTaken DEF AllocateID
  <1> QED
    BY <1>1, <1>2 DEF CreateDialect

LEMMA PoolNext ==
    TypeOK /\ Phases /\ OpLookupTotal /\ PoolInv /\ [Next]_vars => PoolInv'
  <1> SUFFICES ASSUME TypeOK, Phases, OpLookupTotal, PoolInv, [Next]_vars PROVE PoolInv'
    OBVIOUS
  <1>1. CASE StartCall \/ EndCall \/ Terminated \/ UNCHANGED vars
    <2>1. Live' = Live /\ nextID' = nextID /\ Abandoned' = Abandoned
      BY <1>1 DEF StartCall, EndCall, Terminated, vars, ctxVars, tables, driverVars,
                  Live, Objects, Abandoned
    <2> QED
      BY <2>1, PoolKept
  <1>2. CASE Expose
    <2>1. CASE Abort("expose")
      BY <2>1, AbortPool
    <2>2. CASE exposed' = exposed \cup {cur} /\ cur' = NoDialect /\ UNCHANGED ctxVars
      <3>1. Live' = Live /\ nextID' = nextID
        BY <2>2 DEF ctxVars, tables, Live, Objects
      <3>2. Abandoned' = Abandoned
        BY <2>2, NoDialectAssumption DEF ctxVars, Abandoned, TypeOK, ContextTypeOK
      <3> QED
        BY <3>1, <3>2, PoolKept
    <2> QED
      BY <1>2, <2>1, <2>2 DEF Expose
  <1>3. ASSUME NEW d \in Dialects, CreateDialect(d) PROVE PoolInv'
    BY <1>3, CreateDialectPool
  <1>4. ASSUME NEW n \in Names, NEW k \in Kinds, NEW r \in References,
               NEW outcome \in OpOutcomes, NEW hasDefault \in BOOLEAN,
               RegisterOp(n, k, r, outcome, hasDefault)
        PROVE  PoolInv'
    BY <1>4, RegisterOpPool
  <1>5. ASSUME NEW n \in Names, NEW k \in Kinds, NEW r \in References,
               NEW kind \in Kinds, NEW badFormat \in BOOLEAN,
               RegisterObject(kind, n, k, r, badFormat)
        PROVE  PoolInv'
    BY <1>5, RegisterObjectPool
  <1>6. ASSUME NEW n \in Names, NEW k \in Kinds, NEW r \in References,
               RegisterAlias(k, n, r)
        PROVE  PoolInv'
    BY <1>6, RegisterAliasPool
  <1> QED
    BY <1>1, <1>2, <1>3, <1>4, <1>5, <1>6 DEF Next

(***************************************************************************)
(* FixedTypeIDAllocator hands out one ID per dialect, operation, type and  *)
(* attribute that exists, and loses at most one per dialect whose          *)
(* registration failed, for any size of the pool.                          *)
(***************************************************************************)
THEOREM PoolIsAccounted == Spec => []PoolAccounted
  <1>1. Init => TypeOK /\ SettledInv /\ OpLookupTotal /\ PoolInv
    BY TypeInit, SettledInit, OpLookupInit, PoolInit
  <1>2. TypeOK /\ SettledInv /\ OpLookupTotal /\ PoolInv /\ [Next]_vars
           => (TypeOK /\ SettledInv /\ OpLookupTotal /\ PoolInv)'
    BY TypeNext, SettledNext, OpLookupNext, PoolNext DEF SettledInv
  <1>3. PoolInv => PoolAccounted
    BY DEF PoolInv
  <1> QED
    BY <1>1, <1>2, <1>3, PTL DEF Spec

(***************************************************************************)
(* DialectGen implements NamespaceRegistry, for every value of the         *)
(* constants: each step of registration is a step of the registry or       *)
(* leaves all that the registry shows as it is.                            *)
(***************************************************************************)

(***************************************************************************)
(* The names of the children of a dialect, by what they declare.  A name   *)
(* declares one thing, and a namespace that is not registered has none.    *)
(***************************************************************************)
Sorts == Kinds \cup {"op"}

ChildrenOf(o, d) ==
    IF o = "op" THEN DOMAIN dynOps[d] ELSE DOMAIN dynObjs[o][d] \cup DOMAIN aliases[o][d]

OneSort ==
    \A d \in Dialects : \A o1, o2 \in Sorts :
        ChildrenOf(o1, d) \cap ChildrenOf(o2, d) # {} => o1 = o2

Childless == \A d \in Dialects \ registered : \A o \in Sorts : ChildrenOf(o, d) = {}

RefInv == Phases /\ OneSort /\ Childless

ChildrenDeclared ==
    \A d \in Dialects : Declared(d) = UNION {ChildrenOf(o, d) : o \in Sorts}

LEMMA DeclaredChildren == ChildrenDeclared
  <1> SUFFICES ASSUME NEW d \in Dialects
               PROVE  Declared(d) = UNION {ChildrenOf(o, d) : o \in Sorts}
    BY DEF ChildrenDeclared
  <1>1. ASSUME NEW n \in Declared(d) PROVE \E o \in Sorts : n \in ChildrenOf(o, d)
    <2>1. CASE n \in DOMAIN dynOps[d]
      BY <2>1 DEF ChildrenOf, Sorts
    <2>2. CASE n \notin DOMAIN dynOps[d]
      <3>1. PICK k \in Kinds : n \in DOMAIN dynObjs[k][d] \cup DOMAIN aliases[k][d]
        BY <2>2 DEF Declared
      <3> QED
        BY <3>1, KindsAssumption DEF ChildrenOf, Sorts
    <2> QED
      BY <2>1, <2>2
  <1>2. ASSUME NEW o \in Sorts, NEW n \in ChildrenOf(o, d) PROVE n \in Declared(d)
    BY DEF ChildrenOf, Sorts, Declared
  <1> QED
    BY <1>1, <1>2

LEMMA ChildNames ==
    ASSUME TypeOK, NEW d \in Dialects
    PROVE  Declared(d) \subseteq Names
  <1>1. DOMAIN dynOps[d] \subseteq Names
    BY DEF TypeOK, ContextTypeOK, IsTable, IsPartial
  <1>2. \A k \in Kinds : DOMAIN dynObjs[k][d] \subseteq Names /\ DOMAIN aliases[k][d] \subseteq Names
    BY DEF TypeOK, ContextTypeOK, IsTableByKind, IsTable, IsPartial
  <1> QED
    BY <1>1, <1>2 DEF Declared

(* A step that registers a child gives the current dialect one new name,   *)
(* of one sort.                                                            *)
NewChild(o, n) ==
    \A o2 \in Sorts, d \in Dialects :
        ChildrenOf(o2, d)' = IF o2 = o /\ d = cur THEN ChildrenOf(o2, d) \cup {n}
                             ELSE ChildrenOf(o2, d)

LEMMA OpChild ==
    ASSUME TypeOK, cur \in Dialects, NEW n, NEW op, FinalizeOp(cur, n, op)
    PROVE  NewChild("op", n)
  <1>1. dynObjs' = dynObjs /\ aliases' = aliases
    BY DEF FinalizeOp
  <1>2. dynOps' = [dynOps EXCEPT ![cur] = Put(dynOps[cur], n, op)]
    BY DEF FinalizeOp
  <1>3. \A d \in Dialects :
           DOMAIN dynOps'[d] = IF d = cur THEN DOMAIN dynOps[d] \cup {n} ELSE DOMAIN dynOps[d]
    BY <1>2 DEF Put, TypeOK, ContextTypeOK, IsTable
  <1> QED
    BY <1>1, <1>3 DEF NewChild, ChildrenOf

LEMMA ObjectChild ==
    ASSUME TypeOK, cur \in Dialects, NEW k \in Kinds, NEW n, NEW use,
           CreateDynamicObject(k, cur, n, use)
    PROVE  NewChild(k, n)
  <1>1. dynOps' = dynOps /\ aliases' = aliases
    BY DEF CreateDynamicObject
  <1>2. dynObjs' = [dynObjs EXCEPT ![k][cur] = Put(dynObjs[k][cur], n, use)]
    BY DEF CreateDynamicObject
  <1>3. \A k2 \in Kinds, d \in Dialects :
           DOMAIN dynObjs'[k2][d] = IF k2 = k /\ d = cur THEN DOMAIN dynObjs[k2][d] \cup {n}
                                    ELSE DOMAIN dynObjs[k2][d]
    BY <1>2 DEF Put, TypeOK, ContextTypeOK, IsTableByKind, IsTable
  <1> QED
    BY <1>1, <1>3, KindsAssumption DEF NewChild, ChildrenOf, Sorts

LEMMA AliasChild ==
    ASSUME TypeOK, cur \in Dialects, NEW k \in Kinds, NEW n, NEW v, PutAlias(k, cur, n, v)
    PROVE  NewChild(k, n)
  <1>1. dynOps' = dynOps /\ dynObjs' = dynObjs
    BY DEF PutAlias
  <1>2. aliases' = [aliases EXCEPT ![k][cur] = Put(aliases[k][cur], n, v)]
    BY DEF PutAlias
  <1>3. \A k2 \in Kinds, d \in Dialects :
           DOMAIN aliases'[k2][d] = IF k2 = k /\ d = cur THEN DOMAIN aliases[k2][d] \cup {n}
                                    ELSE DOMAIN aliases[k2][d]
    BY <1>2 DEF Put, TypeOK, ContextTypeOK, IsTableByKind, IsTable
  <1> QED
    BY <1>1, <1>3, KindsAssumption DEF NewChild, ChildrenOf, Sorts

LEMMA ChildStep ==
    ASSUME TypeOK, OpStep \/ ObjectStep \/ AliasStep
    PROVE  /\ cur \in Dialects /\ cur # NoDialect /\ Alive /\ crash' = crash
           /\ UNCHANGED <<registered, exposed>>
           /\ \E n \in Names \ Declared(cur), o \in Sorts : NewChild(o, n)
  <1>1. CASE OpStep
    <2>1. PICK n \in Names, op \in OpRecords :
             Child(n) /\ FinalizeOp(cur, n, op) /\ UNCHANGED <<registered, driverVars>>
      BY <1>1 DEF OpStep
    <2>2. cur \in Dialects
      BY <2>1, ChildType
    <2>3. NewChild("op", n)
      BY <2>1, <2>2, OpChild
    <2> QED
      BY <2>1, <2>2, <2>3 DEF Child, driverVars, Sorts
  <1>2. CASE ObjectStep
    <2>1. PICK k \in Kinds, n \in Names, use \in Uses :
             /\ Child(n) /\ CreateDynamicObject(k, cur, n, use)
             /\ UNCHANGED <<registered, driverVars>>
      BY <1>2 DEF ObjectStep
    <2>2. cur \in Dialects
      BY <2>1, ChildType
    <2>3. NewChild(k, n)
      BY <2>1, <2>2, ObjectChild
    <2> QED
      BY <2>1, <2>2, <2>3 DEF Child, driverVars, Sorts
  <1>3. CASE AliasStep
    <2>1. PICK k \in Kinds, n \in Names, v \in Values :
             /\ Child(n) /\ PutAlias(k, cur, n, v) /\ UNCHANGED registered
             /\ UNCHANGED driverVars \/ Fail("aliasExists")
      BY <1>3 DEF AliasStep
    <2>2. cur \in Dialects
      BY <2>1, ChildType
    <2>3. NewChild(k, n)
      BY <2>1, <2>2, AliasChild
    <2>4. UNCHANGED <<exposed, crash>>
      BY <2>1 DEF driverVars, Fail
    <2> QED
      BY <2>1, <2>2, <2>3, <2>4 DEF Child, Sorts
  <1> QED
    BY <1>1, <1>2, <1>3

LEMMA DriverChildren ==
    ASSUME DriverStep
    PROVE  \A o \in Sorts, d \in Dialects : ChildrenOf(o, d)' = ChildrenOf(o, d)
  BY DEF DriverStep, tables, ChildrenOf

-----------------------------------------------------------------------------
(***************************************************************************)
(* The invariant.                                                          *)
(***************************************************************************)
LEMMA RefInit == Init => RefInv
  <1> SUFFICES ASSUME Init PROVE RefInv
    OBVIOUS
  <1>1. \A d \in Dialects, o \in Sorts : ChildrenOf(o, d) = {}
    BY KindsAssumption DEF Init, ContextInit, Empty, ChildrenOf, Sorts
  <1>2. Phases
    BY DEF Init, ContextInit, Phases
  <1> QED
    BY <1>1, <1>2 DEF RefInv, OneSort, Childless

LEMMA RefNext == TypeOK /\ RefInv /\ Phases' /\ [Next]_vars => RefInv'
  <1> SUFFICES ASSUME TypeOK, RefInv, Phases', [Next]_vars
               PROVE  OneSort' /\ Childless'
    BY DEF RefInv
  <1>1. CASE OpStep \/ ObjectStep \/ AliasStep
    <2>1. cur \in Dialects /\ cur # NoDialect /\ registered' = registered
      BY <1>1, ChildStep
    <2>2. PICK n \in Names \ Declared(cur), o \in Sorts : NewChild(o, n)
      BY <1>1, ChildStep
    <2>3. \A o2 \in Sorts : n \notin ChildrenOf(o2, cur)
      BY <2>1, <2>2, DeclaredChildren DEF ChildrenDeclared
    <2>4. OneSort'
      BY <2>1, <2>2, <2>3 DEF RefInv, OneSort, NewChild
    <2>5. cur \in registered
      BY <2>1 DEF RefInv, Phases
    <2>6. Childless'
      BY <2>1, <2>2, <2>5 DEF RefInv, Childless, NewChild
    <2> QED
      BY <2>4, <2>6
  <1>2. CASE DriverStep
    <2>1. registered \subseteq registered'
      BY <1>2 DEF DriverStep
    <2> QED
      BY <1>2, <2>1, DriverChildren DEF RefInv, OneSort, Childless
  <1> QED
    BY <1>1, <1>2, NextSteps

-----------------------------------------------------------------------------
(***************************************************************************)
(* The meaning of a child: it is one of the registry's, and is kept.       *)
(***************************************************************************)
KindsFound ==
    \A d \in Dialects, k \in Kinds : \A n \in ChildrenOf(k, d) :
        n \notin DOMAIN dynOps[d] /\ KindOf(d, n) = k

MeaningsTyped ==
    \A d \in Dialects : \A n \in Declared(d) : MeaningOf(d, n) \in SymbolMeanings

LEMMA KindOfChild == RefInv => KindsFound
  <1> SUFFICES ASSUME RefInv, NEW d \in Dialects, NEW k \in Kinds, NEW n \in ChildrenOf(k, d)
               PROVE  n \notin DOMAIN dynOps[d] /\ KindOf(d, n) = k
    BY DEF KindsFound
  <1>1. \A o \in Sorts : n \in ChildrenOf(o, d) => o = k
    BY DEF RefInv, OneSort, Sorts
  <1>2. n \notin DOMAIN dynOps[d]
    BY <1>1, KindsAssumption DEF ChildrenOf, Sorts
  <1>3. \A k2 \in Kinds : n \in DOMAIN dynObjs[k2][d] \cup DOMAIN aliases[k2][d] <=> k2 = k
    BY <1>1, KindsAssumption DEF ChildrenOf, Sorts
  <1> QED
    BY <1>2, <1>3 DEF KindOf

LEMMA ChildDenotes ==
    ASSUME TypeOK, RefInv, NEW d \in Dialects, NEW k \in Kinds, NEW n \in ChildrenOf(k, d)
    PROVE  <<d, n>> \in References /\ Denotes(k, <<d, n>>)
  <1>1. n \in DOMAIN aliases[k][d] \cup DOMAIN dynObjs[k][d]
    BY KindsAssumption DEF ChildrenOf
  <1>2. n \in Names
    BY <1>1 DEF TypeOK, ContextTypeOK, IsTableByKind, IsTable, IsPartial
  <1>3. d \in registered
    BY DEF RefInv, Childless, Sorts
  <1> QED
    BY <1>1, <1>2, <1>3 DEF Denotes, Parses, References

LEMMA MeaningType == TypeOK /\ RefInv => MeaningsTyped
  <1> SUFFICES ASSUME TypeOK, RefInv, NEW d \in Dialects, NEW n \in Declared(d)
               PROVE  MeaningOf(d, n) \in SymbolMeanings
    BY DEF MeaningsTyped
  <1>1. CASE n \in DOMAIN dynOps[d]
    BY <1>1 DEF MeaningOf, SymbolMeanings
  <1>2. CASE n \notin DOMAIN dynOps[d]
    <2>1. PICK k \in Kinds : n \in ChildrenOf(k, d)
      BY <1>2, KindsAssumption DEF Declared, ChildrenOf
    <2>2. KindOf(d, n) = k
      BY <2>1, KindOfChild DEF KindsFound
    <2>3. Parsed(k, <<d, n>>, registered) \in Values
      BY <2>1, ChildDenotes, ParsedType DEF Denotes
    <2> QED
      BY <1>2, <2>2, <2>3 DEF MeaningOf, SymbolMeanings
  <1> QED
    BY <1>1, <1>2

LEMMA MeaningOfKept ==
    ASSUME TypeOK, RefInv, RefInv', [Next]_vars,
           NEW d \in Dialects, NEW n \in Declared(d)
    PROVE  n \in Declared(d)' /\ MeaningOf(d, n)' = MeaningOf(d, n)
  <1>1. \A o \in Sorts : ChildrenOf(o, d) \subseteq ChildrenOf(o, d)'
    BY NextSteps, ChildStep, DriverChildren DEF NewChild
  <1>2. CASE n \in DOMAIN dynOps[d]
    <2>1. n \in DOMAIN dynOps'[d]
      BY <1>1, <1>2 DEF ChildrenOf, Sorts
    <2> QED
      BY <1>2, <2>1 DEF MeaningOf, Declared
  <1>3. CASE n \notin DOMAIN dynOps[d]
    <2>1. PICK k \in Kinds : n \in ChildrenOf(k, d)
      BY <1>3, KindsAssumption DEF Declared, ChildrenOf
    <2>2. n \in ChildrenOf(k, d)'
      BY <1>1, <2>1 DEF Sorts
    <2>3. KindOf(d, n) = k
      BY <2>1, KindOfChild DEF KindsFound
    <2>4. KindsFound'
      BY KindOfChild, PTL
    <2>5. n \notin DOMAIN dynOps'[d] /\ KindOf(d, n)' = k
      BY <2>2, <2>4 DEF KindsFound
    <2>6. Parsed(k, <<d, n>>, registered)' = Parsed(k, <<d, n>>, registered)
      BY <2>1, ChildDenotes, MeaningStep DEF MeaningKept
    <2>7. n \in Declared(d)'
      BY <2>2, KindsAssumption DEF Declared, ChildrenOf
    <2> QED
      BY <1>3, <2>3, <2>5, <2>6, <2>7 DEF MeaningOf
  <1> QED
    BY <1>2, <1>3

-----------------------------------------------------------------------------
(***************************************************************************)
(* What the registry shows of a state, and what a step does to it.         *)
(***************************************************************************)
StatusRead ==
    /\ DOMAIN Status = Dialects
    /\ \A d \in Dialects :
        /\ d \notin registered => Status[d] = "absent"
        /\ d = cur => Status[d] = "open"
        /\ d \in exposed => Status[d] = "sealed"
        /\ d \in registered \ exposed /\ d # cur => Status[d] = "abandoned"

LEMMA StatusOf == Phases => StatusRead
  <1> SUFFICES ASSUME Phases, NEW d \in Dialects
               PROVE  /\ d \notin registered => Status[d] = "absent"
                      /\ d = cur => Status[d] = "open"
                      /\ d \in exposed => Status[d] = "sealed"
                      /\ d \in registered \ exposed /\ d # cur => Status[d] = "abandoned"
    BY DEF Status, StatusRead
  <1>1. d = cur => d \in registered \ exposed
    BY NoDialectAssumption DEF Phases
  <1>2. d \in exposed => d \in registered
    BY DEF Phases
  <1> QED
    BY <1>1, <1>2 DEF Status

LEMMA StatusKept ==
    ASSUME UNCHANGED <<registered, cur, exposed>>
    PROVE  Status' = Status
  BY DEF Status

(* A dialect that is no longer current is sealed if it was exposed, and    *)
(* abandoned otherwise.                                                    *)
LEMMA StatusClosed ==
    ASSUME Phases, Phases', NEW c \in Dialects, c = cur, cur' = NoDialect,
           UNCHANGED registered,
           exposed' = exposed \/ exposed' = exposed \cup {c}
    PROVE  Status' = [Status EXCEPT ![c] = IF c \in exposed' THEN "sealed" ELSE "abandoned"]
  <1>1. StatusRead /\ StatusRead'
    BY StatusOf, PTL
  <1>2. c \in registered
    BY NoDialectAssumption DEF Phases
  <1>3. Status'[c] = IF c \in exposed' THEN "sealed" ELSE "abandoned"
    BY <1>1, <1>2, NoDialectAssumption DEF StatusRead
  <1>4. ASSUME NEW d \in Dialects \ {c} PROVE Status'[d] = Status[d]
    BY <1>1, NoDialectAssumption DEF StatusRead
  <1> QED
    BY <1>3, <1>4 DEF Status

LEMMA StatusOpened ==
    ASSUME Phases, Phases', NEW c \in Dialects \ registered, cur = NoDialect, cur' = c,
           registered' = registered \cup {c}, exposed' = exposed
    PROVE  Status' = [Status EXCEPT ![c] = "open"]
  <1>1. StatusRead /\ StatusRead'
    BY StatusOf, PTL
  <1>2. Status'[c] = "open"
    BY <1>1 DEF StatusRead
  <1>3. ASSUME NEW d \in Dialects \ {c} PROVE Status'[d] = Status[d]
    BY <1>1, NoDialectAssumption DEF StatusRead
  <1> QED
    BY <1>2, <1>3 DEF Status

LEMMA MeansKept ==
    ASSUME TypeOK, RefInv, RefInv', [Next]_vars, DriverStep
    PROVE  Means' = Means
  <1>1. \A d \in Dialects : Declared(d)' = Declared(d)
    BY DEF DriverStep, tables, Declared
  <1>2. \A d \in Dialects : \A n \in Declared(d) : MeaningOf(d, n)' = MeaningOf(d, n)
    BY MeaningOfKept
  <1> QED
    BY <1>1, <1>2 DEF Means

(* A new child is one new symbol of the current namespace.                 *)
LEMMA MeansDefined ==
    ASSUME TypeOK, TypeOK', RefInv, RefInv', [Next]_vars,
           NEW c \in Dialects, c = cur, OpStep \/ ObjectStep \/ AliasStep
    PROVE  \E n \in Names \ DOMAIN Means[c], m \in SymbolMeanings :
              Means' = [Means EXCEPT ![c] = Registry!Define(Means[c], n, m)]
  <1>a. ChildrenDeclared /\ ChildrenDeclared' /\ MeaningsTyped'
    BY DeclaredChildren, MeaningType, PTL
  <1>1. PICK n \in Names \ Declared(c), o \in Sorts : NewChild(o, n)
    BY ChildStep
  <1>2. PICK m : m = MeaningOf(c, n)'
    OBVIOUS
  <1>3. \A d \in Dialects :
           Declared(d)' = IF d = c THEN Declared(d) \cup {n} ELSE Declared(d)
    <2> SUFFICES ASSUME NEW d \in Dialects
                 PROVE  Declared(d)' = IF d = c THEN Declared(d) \cup {n} ELSE Declared(d)
      OBVIOUS
    <2>1. Declared(d)' = UNION {ChildrenOf(s, d)' : s \in Sorts}
      BY <1>a DEF ChildrenDeclared
    <2>2. Declared(d) = UNION {ChildrenOf(s, d) : s \in Sorts}
      BY <1>a DEF ChildrenDeclared
    <2>3. CASE d # c
      BY <1>1, <2>1, <2>2, <2>3 DEF NewChild
    <2>4. CASE d = c
      <3>1. \A s \in Sorts : ChildrenOf(s, d)' =
                IF s = o THEN ChildrenOf(s, d) \cup {n} ELSE ChildrenOf(s, d)
        BY <1>1, <2>4 DEF NewChild
      <3> QED
        BY <2>1, <2>2, <2>4, <3>1
    <2> QED
      BY <2>3, <2>4
  <1>4. m \in SymbolMeanings
    BY <1>2, <1>3, <1>a DEF MeaningsTyped
  <1>5. \A d \in Dialects : \A x \in Declared(d) : MeaningOf(d, x)' = MeaningOf(d, x)
    BY MeaningOfKept
  <1>6. Means' = [d \in Dialects |-> [x \in Declared(d)' |-> MeaningOf(d, x)']]
    BY DEF Means
  <1>7. \A d \in Dialects \ {c} : Means'[d] = Means[d]
    BY <1>3, <1>5, <1>6 DEF Means
  <1>8. Means'[c] = Registry!Define(Means[c], n, m)
    <2>1. DOMAIN Means[c] = Declared(c) /\ Declared(c)' = Declared(c) \cup {n}
      BY <1>3 DEF Means
    <2>2. Means'[c] = [x \in Declared(c) \cup {n} |-> MeaningOf(c, x)']
      BY <1>6, <2>1
    <2>3. \A x \in Declared(c) : x # n /\ MeaningOf(c, x)' = Means[c][x]
      BY <1>1, <1>5 DEF Means
    <2> QED
      BY <1>2, <2>1, <2>2, <2>3 DEF Registry!Define
  <1>9. Means' = [Means EXCEPT ![c] = Registry!Define(Means[c], n, m)]
    BY <1>6, <1>7, <1>8 DEF Means
  <1>10. n \in Names \ DOMAIN Means[c]
    BY <1>1 DEF Means
  <1> QED
    BY <1>4, <1>9, <1>10

-----------------------------------------------------------------------------
(***************************************************************************)
(* The simulation.                                                         *)
(***************************************************************************)
LEMMA RegistryInit == Init => Registry!Init
  <1> SUFFICES ASSUME Init PROVE Registry!Init
    OBVIOUS
  <1>1. Status = [d \in Dialects |-> "absent"]
    <2>1. StatusRead
      BY RefInit, StatusOf DEF RefInv
    <2>2. \A d \in Dialects : Status[d] = "absent"
      BY <2>1 DEF StatusRead, Init, ContextInit
    <2> QED
      BY <2>2 DEF Status
  <1>2. \A d \in Dialects : Declared(d) = {}
    BY DEF Init, ContextInit, Empty, Declared
  <1>3. Means = [d \in Dialects |-> [n \in {} |-> n]]
    BY <1>2 DEF Means
  <1> QED
    BY <1>1, <1>3 DEF Init, Registry!Init

LEMMA RegistryNext ==
    TypeOK /\ TypeOK' /\ RefInv /\ RefInv' /\ [Next]_vars => [Registry!Next]_(Registry!vars)
  <1> SUFFICES ASSUME TypeOK, TypeOK', RefInv, RefInv', [Next]_vars
               PROVE  Registry!Next \/ UNCHANGED Registry!vars
    OBVIOUS
  <1>p. Phases /\ Phases'
    BY DEF RefInv
  <1>1. StatusRead /\ StatusRead'
    BY <1>p, StatusOf, PTL
  <1>2. cur \notin exposed
    BY <1>p DEF Phases
  <1>3. CASE OpStep \/ ObjectStep \/ AliasStep
    <2>1. /\ cur \in Dialects /\ Alive /\ crash' = crash
          /\ UNCHANGED <<registered, exposed>>
      BY <1>3, ChildStep
    <2>2. PICK c \in Dialects : c = cur
      BY <2>1
    <2>3. PICK n \in Names \ DOMAIN Means[c], m \in SymbolMeanings :
             Means' = [Means EXCEPT ![c] = Registry!Define(Means[c], n, m)]
      BY <1>3, <2>2, MeansDefined
    <2>4. Status[c] = "open"
      BY <1>1, <2>2 DEF StatusRead
    <2>5. cur' = cur \/ cur' = NoDialect
      BY <1>3 DEF OpStep, ObjectStep, AliasStep, driverVars, Fail
    <2>6. CASE cur' = cur
      <3>1. Status' = Status
        BY <2>1, <2>6, StatusKept
      <3>2. Registry!AddSymbol(c, n, m)
        BY <2>1, <2>3, <2>4, <3>1 DEF Registry!AddSymbol, Alive
      <3> QED
        BY <2>2, <2>3, <3>2 DEF Registry!Next
    <2>7. CASE cur' = NoDialect
      <3>1. Status' = [Status EXCEPT ![c] = "abandoned"]
        BY <1>p, <1>2, <2>1, <2>2, <2>7, StatusClosed
      <3>2. Registry!Abandon(c)
        BY <2>1, <2>3, <2>4, <3>1 DEF Registry!Abandon, Alive
      <3> QED
        BY <2>2, <3>2 DEF Registry!Next
    <2> QED
      BY <2>5, <2>6, <2>7
  <1>4. CASE DriverStep
    <2>1. Means' = Means
      BY <1>4, MeansKept
    <2>2. CASE UNCHANGED <<registered, cur, exposed>>
      <3>1. Status' = Status
        BY <2>2, StatusKept
      <3>2. CASE UNCHANGED crash
        BY <2>1, <3>1, <3>2 DEF Registry!vars
      <3>3. CASE Alive /\ crash' # "none"
        BY <2>1, <3>1, <3>3 DEF Alive, Registry!End, Registry!Next
      <3> QED
        BY <1>4, <2>2, <3>2, <3>3, <1>p, NoDialectAssumption DEF DriverStep
    <2>3. CASE /\ Alive /\ cur # NoDialect
               /\ cur' = NoDialect /\ UNCHANGED <<registered, exposed, crash>>
      <3>1. PICK c \in Dialects : c = cur
        BY <2>3 DEF TypeOK
      <3>2. Status[c] = "open" /\ Status' = [Status EXCEPT ![c] = "abandoned"]
        BY <1>p, <1>1, <1>2, <2>3, <3>1, StatusClosed DEF StatusRead
      <3>3. Registry!Abandon(c)
        BY <2>1, <2>3, <3>2 DEF Registry!Abandon, Alive
      <3> QED
        BY <3>3 DEF Registry!Next
    <2>4. CASE /\ Alive /\ cur = NoDialect
               /\ \E d \in Dialects \ registered :
                     registered' = registered \cup {d} /\ cur' = d /\ UNCHANGED <<exposed, crash>>
      <3>1. PICK c \in Dialects \ registered :
               registered' = registered \cup {c} /\ cur' = c /\ UNCHANGED <<exposed, crash>>
        BY <2>4
      <3>2. Status[c] = "absent" /\ Status' = [Status EXCEPT ![c] = "open"]
        BY <1>p, <1>1, <2>4, <3>1, StatusOpened DEF StatusRead
      <3>3. \A e \in Dialects : Status[e] # "open"
        BY <1>1, <2>4, NoDialectAssumption DEF StatusRead
      <3>4. Registry!Open(c)
        BY <2>1, <2>4, <3>1, <3>2, <3>3 DEF Registry!Open, Alive
      <3> QED
        BY <3>4 DEF Registry!Next
    <2>5. CASE /\ Alive /\ cur \in Dialects
               /\ exposed' = exposed \cup {cur} /\ cur' = NoDialect
               /\ UNCHANGED <<registered, crash>>
      <3>1. PICK c \in Dialects : c = cur
        BY <2>5
      <3>2. Status[c] = "open" /\ Status' = [Status EXCEPT ![c] = "sealed"]
        BY <1>p, <1>1, <2>5, <3>1, StatusClosed DEF StatusRead
      <3>3. Registry!Seal(c)
        BY <2>1, <2>5, <3>2 DEF Registry!Seal, Alive
      <3> QED
        BY <3>3 DEF Registry!Next
    <2> QED
      BY <1>4, <2>2, <2>3, <2>4, <2>5 DEF DriverStep
  <1> QED
    BY <1>3, <1>4, NextSteps

(***************************************************************************)
(* Registration implements the life cycle of a namespace: whatever a call  *)
(* does, a later program sees namespaces that were opened once, whose      *)
(* symbols keep their meaning and that never change after they closed.     *)
(***************************************************************************)
THEOREM ImplementsNamespaceRegistry == Spec => ImplementsRegistry
  <1>1. Init => TypeOK /\ SettledInv /\ RefInv
    BY TypeInit, SettledInit, RefInit
  <1>2. TypeOK /\ SettledInv /\ RefInv /\ [Next]_vars
            => (TypeOK /\ SettledInv /\ RefInv)'
    BY TypeNext, SettledNext, RefNext DEF SettledInv
  <1>3. Init => Registry!Init
    BY RegistryInit
  <1>4. TypeOK /\ TypeOK' /\ RefInv /\ RefInv' /\ [Next]_vars
            => [Registry!Next]_(Registry!vars)
    BY RegistryNext
  <1> QED
    BY <1>1, <1>2, <1>3, <1>4, PTL DEF Spec, ImplementsRegistry, Registry!Spec
=============================================================================
