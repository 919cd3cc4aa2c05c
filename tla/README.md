# A TLA+ model of the Declarative MLIR Compiler

DMC lets a user describe an MLIR dialect in MLIR itself (`dmc.Dialect` with
`Op`, `Type`, `Attr` and `Alias` children). The description is verified,
registered with the `MLIRContext` as a *dynamic* dialect, given a generated
Python parser and printer, and exposed as a Python module. Programs of that
dialect are then parsed, verified, printed and rewritten through the dynamic
operations. `lua/` and `oec/` are two compilers built this way.

This directory models that path from end to end: how dialects get into the
context, what the traits made from a declaration accept, which assembly formats
are accepted and whether their text reads back, what a Python program may rely
on when it builds, changes and reads operations, and what the pattern drivers
make of functions written in Python. Section 2 maps the modules to the code,
section 3 the runs, section 4 the proofs, section 5 what the model found,
section 6 what is not there.

## 1. Inventory

Paths are relative to `src/`.

| Component | State it keeps | Operations | What makes it correct | Modules |
|---|---|---|---|---|
| Dynamic context and dialects (`lib/Dynamic/Dynamic{Context,Dialect,DialectImpl}.cpp`, `TypeIDAllocator.cpp`) | per dialect `dynOps`, `dynTys`, `dynAttrs`, `typeAliases`, `attrAliases` and their metadata; one `dialectSymbols` map per context; the process-wide pool of 2048 TypeIDs | create a dialect, register an operation, type, attribute or alias, look up by name and by value | tables written one after the other agree, also after a failure; no name changes its meaning | `DynamicContext` |
| Registration (`lib/Spec/DialectGen.cpp`, `OpReparsing.cpp`, `lib/Python/ExternalModule.cpp`) | the current dialect and the scope of the call, on the stack | `registerAllDialects`, `registerDialect`, `registerOp/Type/Attr/Alias`, the second parse of types and attributes | a dialect is complete when it is exposed; a failed one leaves nothing that misleads later programs | `DialectGen`, `NamespaceRegistry` |
| Exposure (`lib/Embed/Expose.cpp`, `InMemoryDef.cpp`) | Python modules and classes in the interpreter | `exposeDialect`, constructors and getters, destructors that execute definitions | every module imports only what exists; what a constructor was given, the getters return | `DialectGen`, `ExposedOperation` |
| Traits (`lib/Traits/*.cpp`, `include/dmc/Traits/*.h`) | the trait registry; the list of traits of each operation | look up and construct a trait, `verifyOp`, `getGroup` | a trait never reads past an operation, whatever ran before it | `ValueGroups`, `OpVerification` |
| Verification of operations (`lib/Dynamic/DynamicOperation.cpp`, `SpecTypeImplementation.cpp`, `SpecRegion.cpp`, `SpecSuccessor.cpp`) | none | `verifyOpTraits`, the constraint checks | it accepts what the declaration describes | `OpVerification` |
| Constraint language (`SpecTypes.cpp`, `SpecAttrs.cpp`, `lib/Embed/Constraints.cpp`) | interned constraints; Python functions by number | `verify` of each constraint | each constraint means what its name says | `ConstraintLanguage` |
| Assembly format of operations (`OpFormatGen.cpp`, `FormatUtils.*`, `lib/Python/ExposeOpAsm.cpp`) | the format parser's sets of what was seen; the text written | parse a format, generate parser and printer, run them | the generated parser reads what the generated printer writes | `FormatUtils`, `OpFormat`, `OpAssembly` |
| Types, attributes and their formats (`TypeFormatGen.cpp`, `DynamicType.cpp`, `DynamicAttribute.cpp`, `ExposeDialectAsm.cpp`) | the parameters of a type | build, print, parse | as above | `TypeFormat` |
| Operations in Python (`lib/Python/OpAsm.cpp`, `ExposeOps.cpp`) | wrappers that point to operations | build, change, verify, read by name | a read gives what the declaration says of the name | `ExposedOperation` |
| Builder and patterns (`lib/Python/ExposeBuilder.cpp`) | the one builder, the patterns of a pass, the worklist or log of the driver | create, replace, erase, move the insertion point; `applyOptPatterns`, `applyPartialConversion`, `applyFullConversion`, `lowerToLLVM` | no driver reads an erased operation; the result of a pass is true | `Rewriting` |
| Spec dialect (`lib/Spec/SpecOps.cpp`, `SpecDialect.cpp`, `Parsing.cpp`, ...) | the module of declarations | parse, print, verify | what is printed parses back; what verifies can be registered | part, in `OpVerification` |
| Lua compiler and runtime (`lua/`), stencil client (`oec/`) | scopes of variables; 16-slot tables | resolve, rewrite, lower; table access, arithmetic | Lua's scoping and arithmetic | the patterns' shapes, in `MCRewriting` |
| Tools, module writer (`tools/`, `lib/IO/`), bindings of MLIR's own classes | none | one pass each | | |

The components call each other in one thread. `registerDialect` calls the
dialect, which writes to the context and to MLIR; MLIR's parser calls back into
`DynamicDialect::parseType/parseAttribute` while a second parse is under way,
and into a generated Python function for each custom form; MLIR's verifier
calls the traits, and these Python constraints; a pattern driver calls Python
functions, which call the driver's own builder back and change operations
behind it; destructors call the Python interpreter. What is hard is therefore
not concurrency but *partial failure* (several tables written in sequence with
nothing undone), *ordering* (two parses of the same text at different times; a
list of traits of which each relies on earlier ones; formats that bind names in
any order), *re-entrance and staleness* (operations that a worklist, a wrapper
or the builder still names), *long call sequences* (a Python program may catch
a failure and go on in the same context) and *unsigned arithmetic*.
`PROJECT.json` lists every such hazard at its line.

## 2. Modules

| Module | Models |
|---|---|
| `DynamicContext` | the stores: `DynamicDialect::Impl`, `DynamicContext::Impl`, the TypeID pool, the namespaces and `AbstractOperation`s of MLIR; parsing of references and look-up by value |
| `DialectGen` | EXTENDS it with the registration calls: one action per kind of child, every failure and abort, `StartCall`/`EndCall` for the entry points |
| `NamespaceRegistry` | abstract specification: a namespace is absent, open, sealed or abandoned, and a symbol keeps its meaning |
| `DialectGenRefinement` | the mapping from `DialectGen` to `NamespaceRegistry` |
| `ValueGroups` | pure operators: the group arithmetic of `SpecTraits.cpp`, with the width of `unsigned` as a constant |
| `ConstraintLanguage` | pure operators: what each form of constraint accepts, beside what it says |
| `OpVerification` | EXTENDS both with the life of a declaration: `OperationOp::verify`, the trait list of `registerOp`, `verifyOpTraits` on one operation after the other |
| `ExposedOperation` | EXTENDS it with the Python class of a declaration: operations built, met, changed, verified and read by name in any order |
| `FormatUtils` | the tokens of a format and the helpers that both format parsers share |
| `OpFormat` | EXTENDS it with `FormatParser` of `OpFormatGen.cpp`: one action per element and directive, and the final checks |
| `OpAssembly` | EXTENDS it with the generated printer and parser, run on an operation |
| `TypeFormat` | the same for types and attributes, in one module, with the generic form |
| `Rewriting` | patterns under the greedy driver, under dialect conversion and under the lowering pass |
| `DialectGenProofs` | theorems of `DialectGen` and of its refinement |
| `OpVerificationProofs`, `ExposedOperationProofs`, `OpFormatProofs`, `TypeFormatProofs` | theorems of the module in their name |
| `RewritingProofs`, `RewritingSafetyProofs`, `RewritingOrderProofs` | theorems of `Rewriting`: what a driver achieves and returns, what its functions may break, and the order of definitions and uses |
| `MC*` | values for the constants |

Operators whose comment says "Fault" are not part of a specification: each is
a plausible slip in the operator after it, kept to show that a property can
fail.

**Registration (`DialectGen`).** Tables that exist once for types and
once for attributes are indexed by `Kinds`. A reference (`!d.n`, `#d.n`, a
builtin) is parsed twice, as in the code: with the module, when only the
dialects of earlier calls are known, and again by `reparse`, on the text that
MLIR prints for the first result. An unknown namespace yields an opaque value,
an unknown name of a known namespace an error. `RegisterAlias` keeps the three
insertions of `registerTypeAlias` and leaves the first ones in place when a
later one fails. Aborts (`report_fatal_error`, an assertion, an exception
leaving a destructor) set `crash` and end the process.

**Verification (`OpVerification`).** `decl` is the declaration, `traits`
the list in `DynamicOperation`, `stage` how far the declaration and then the
current operation have come. `RunTrait` is one turn of the loop in
`verifyOpTraits`. A verdict is `"ok"`, `"invalid"`, or `"undefined"` where the code
fails an assertion, divides by zero or reads past the values; with assertions
off the last is undefined behaviour, so the model ends there. A user trait has
parameters of two kinds, checked against the signature that the registry keeps
of its constructor. A constraint is known by the set of *sorts* (types, kinds
of region) that it accepts; `AnyOf`, `AllOf` and `Variadic` compute theirs as
their `verify` methods do, and carry what they say in a field of its own.
Attribute constraints and the traits that count nothing give a free choice of
verdict. A segment attribute is modelled by its value; `{}` is a missing one.
Counts are cut to `UintMod` where the code cuts them to `unsigned`.

**Formats (`OpFormat`, `OpAssembly`).** The tokens of a format are given; the
lexing of its characters is left out. `rest` is what the lexer has left,
`elements` and `group` what was built, `seen` the sets of `FormatParser` and
`OperationFormat`. `PrintOperation` runs the generated printer as a whole,
`ParseOperation` the generated parser; the text between them is a sequence of
tokens in which `glue` stands between two words that were printed without a
space, since `shouldEmitSpace` and `lastWasPunctuation` are kept while the
printer is *generated*. The parser binds lists (operands, their types,
attributes, regions) and resolves types as the generated code does; a binding
that does not exist raises. The text of an attribute or a type is taken as a
whole that ends where it ends: only `TypeFormat` models names that go on.

**Types and attributes (`TypeFormat`).** `BuildType` and `BuildAttribute` check
parameters against constraints, `PrintType`/`PrintAttribute` write lexemes
(without spaces, as the generated code does, so that neighbouring words merge,
and the bare name of a dialect's own type with what may continue it),
`ParseType`/`ParseAttribute` read them. Integers have a type, and
`parseDimensionList` reads 64-bit ones.

**Operations in Python (`ExposedOperation`).** `use` says what the program has:
nothing, a class, or an operation. `Construct` is the generated constructor,
`Meet` an operation of a parsed module, in the custom form (`Filled` adds default
values) or the generic one; `ChangeOperands`, `ChangeAttribute` and `Insert`
are the bindings that write through; `VerifyHeld`, `RunHeldTrait`, `Raise` and
`Return` are `verify`, with the real verdicts of attributes and of `HasParent`
instead of a free choice; `Read` is a getter, `getEffects`,
`getWriteEffectingValues` or `getLoopBody`. `checked` remembers that the
operation verified and was not changed since.

**Patterns (`Rewriting`).** The Python function of a pattern is a *script*: a
test on the operation that defines its operand, calls, an answer. An operation
is replaced by what was created last or by the operand of the root, an argument
of the block included. One call is
one step. Operations are addresses, handed out again after an erasure. The
drivers are MLIR's and marked external: the greedy driver with its worklist
(last in, first out; told of what is created, replaced and erased through the
builder) and its limit on iterations; the conversion with its log, recursive
legalisation and rollback, which replaces and erases only at the end. What goes
past the builder (`Block.append`, `Operation.erase`'s unlinking, `Block.split`)
is heard by neither. The greedy driver places the builder once per operation,
a conversion before each pattern. `lowerToLLVM` is a partial conversion whose result the
pass manager verifies (`Accepted`); MLIR's own patterns, which it puts first, are
left out, and its verifier is taken for the order of definitions.

## 3. Runs

| Run | Checks | Bounds |
|---|---|---|
| `registry` | type invariant; tables agree (`OpLookupTotal`); owners of aliased values (`AliasValueOwned`, `ExposedOwnsAliases`); import order (`ScopeImportable`); TypeIDs (`PoolAccounted`); references (`NoDanglingUse`, `OpaqueOnlyByAlias`); `MeaningStable` | 2 dialects, 2 names, types and attributes, 1 builtin, pool of 5 |
| `registry_refines` | `DialectGen` implements `NamespaceRegistry`; what is opened is closed | as above, types only |
| `op_verification` | type invariant; no assertion fails (`NeverUndefined`); groups share out the values (`GroupsTileValues`); the traits accept exactly what is declared (`VerdictExact`) | up to 3 operands, or 2 regions or successors, or 1 result, or a mixed declaration, or constraints nested in constraints; up to 4 values; segment lists of up to 3 sizes 0..2; `UintMod` = 8 |
| `op_assembly` | type invariant of a format (`FormatOK`); each variable is bound once (`BoundOnce`) and everything needed is (`EverythingPrinted`); unambiguous formats read back (`ClearFormatsReadBack`); no text is read as another operation (`NothingMisread`) | 16 declarations (attributes, operands with each size specifier, results, regions, successors), every format of up to 3 or 4 chunks over each, 6 formats of the stencil, lua and py dialects |
| `type_format` | type invariant; `ClearTypesReadBack`; `NothingMisread` | types and attributes of up to 2 parameters, every format of up to 4 chunks, the generic form; integers of 3 and 2 bits, negative ones, arrays, types, strings |
| `exposed_operation` | type invariant; constructor and getters are inverse (`FreshReadsBack`); what verification vouches for (`CheckedReadsMeet`); what ends the process (`AbortsExplained`); `DefaultsFilled` | up to 3 operands or 2 results, with each size specifier, 10 lists of attributes, regions with and without a variadic one, effects, loops, parents; up to 3 values |
| `rewriting` | type invariant; `NoFault`; `SettledWhenConverged`; `DefsFirst`; `ConvertedIsLegal`; `FailureRestores`; `Returns` (liveness) | 4 programs of up to 3 operations, 10 addresses, 5 blocks, 3 iterations; every function of 2 calls out of 11, of 3 out of 8, and 18 shapes of the clients, alone and in pairs; 3 longer ones |
| `reparse_leaves_opaque`, `alias_metadata_shadowed`, `specifier_without_variadic`, `counts_not_checked_first`, `operand_gate` | one statement of the repository each, violated by the code (section 5) | as the run they belong to |

*Why these bounds are enough.* Two dialects are what a forward reference, a
stolen alias value and a second call on a failed dialect need; a third would
only repeat one of the two roles. Two names give an alias and its target, or
two aliases of one value. The pool of 5 runs out before everything can be
registered. Types and attributes never share a table, so two kinds show that
they do not interfere; the refinement tells kinds apart only in what a symbol
means and uses one. Dialects, names and kinds are symmetric in the safety run;
the liveness run uses no symmetry.

For verification, three operands are the
fewest in which two variadic groups surround or follow a fixed one, four values
are the fewest that give two groups of unequal size besides, and with
`UintMod` = 8 the unsigned difference wraps to 5, 6 and 7, among them a multiple
of 2 and one of 3, so that `checkVariadicValues` is fooled as it is with
2^32 - 1. `AtLeastN<UintMod + 1>` shows the cut of an argument. A program does
not change while it is verified, so operations are taken from `Instances`, and
verified one after the other.

The two format parsers and printers look at most two elements back or ahead
(the last punctuation, the token after an attribute, the next element of a
group), and groups do not nest: three chunks, of which a group holds up to four
elements, put every pair of elements next to each other inside, outside and
across the border of a group. `attr-dict` is appended where the chunks do not
vary it. Values are told apart by identity only.

For operations in Python, what a getter does depends on one list and one
grouping at a time, so a declaration is about one question. The calls of a
program come in any order and number.

For patterns, a stale read needs an operation that is erased and another that
still names it, and a reused address one creation more; a chain of three
operations and a fork give an operation with one, two and no users. `Falling`
functions lower the rank of what they rewrite, so 3 iterations reach a
fixpoint; with others the greedy driver stops at its limit, as in MLIR at 10.
A pass that would need an 11th operation or a 6th block is cut off there (phase
`"cut"`, the action `Exhausted`); `Returns` does not count that as an end, so
the passes it speaks of have room enough.

*Fairness.* Two properties need it. `RegistryCloses`: `WF_vars(Next)`, since
registration is a single thread in a loop over a finite list of children, with
no wait, so as long as the process lives it takes its next step. `Returns`:
`WF_vars(Next)` again, for a driver is one loop in one thread and a script is a
finite list of calls. Which step is taken (success, failure, abort, the answer
of a function) is left open in both. The other specifications are loops over
finite lists driven by a program that may stop, and state no liveness.

*Stopping.* Where the process ends, a declaration is rejected or a text has
been read, the specifications have a `Terminated` step or its like, so deadlock
is checked in every run.

*What the properties assume.* Several hold only for declarations, formats or
functions of a certain form, and each such condition was checked to be needed
by weakening it. `NeverUndefined` and `AbortsExplained`: the user lowers no
generated minimum and sizes something (`MinimumKept`, `SpecifierUsed`).
`VerdictExact`: a rejection by a conjunction of constraints proves nothing
(section 5), nor one by a count or an opaque trait that the user listed.
`ClearFormatsReadBack` and `ClearTypesReadBack`: one token tells where an element
ends, and only what the bindings support is used. `NoFault` (`Disciplined`),
`SettledWhenConverged` (`Honest`), `DefsFirst` (`InPlace`), `ConvertedIsLegal`
(`HeardOf`), `FailureRestores` (nothing `Unheard`): what a pattern function has
to keep to, which nothing in the code enforces; these operators are the
contract of the Python interface, and section 5 names clients that break it.
So these five do not catch what a function does outside of its contract: the
functions that do it are in the runs, but the property of that name says nothing
of them. The hazards in `PROJECT.json` list only properties that speak of them,
with a note on what stays open.

*Mutants.* A fault of the code, put into a mapped definition, breaks each
property. Those of `Rewriting` are slips in the binding, not in MLIR: a method
bound to the wrong function of MLIR (`X_Erase`, `X_Unlink`, `X_PointFor`), an
operation inserted without the driver (`X_Create`), a result that is not looked
at (`X_Converged`, `X_Surrender`). The fault for `Returns` (`X_Untried`) is
that a pattern is applied within itself: only MLIR could commit it, but no
slip of the binding that keeps a driver from ending was found.

## 4. Proofs

All theorems hold for every value of the constants that satisfies the named
assumptions:

- `PoolSizeAssumption`, `KindsAssumption`, `NoDialectAssumption`,
  `UintModAssumption`: the pool and the width of `unsigned` are numbers, and two
  names are not confused;
- `DeclarationsAssumption`: declarations and operations are of the right form
  and shorter than 2^32 (`UintMod`), an operation has at most one segment
  attribute per side, and every constraint is `Faithful`: it accepts what it
  says, or less when it has a conjunction in it. The last is no restriction:
  `ConstraintsAreFaithful` proves it of every constructor of the language;
- `ExposureAssumption`: the generated constructor is called with one list per
  name, of one value for a fixed name, and fewer than 2^32 values together;
- `FormatsAssumption`, `TypeFormatsAssumption`: formats are lists of tokens;
- `RewritingAssumption`: the operations that a driver is given are well placed
  (each live one in one block of the region, which lists no block twice, the
  freed ones without operand, the blocks outside the region empty), and a pass is
  a list of patterns and a conversion target;
- `ProgramsVerified`: what is read in and verified defines its values before it
  uses them.

`DialectGenProofs`:

- `TypeCorrect`: `TypeOK` is inductive; one step per action, with lemmas on
  `Put` and on parsing.
- `OpLookupCorrect`: inductive as it stands, since `FinalizeOp` alone writes
  the three tables.
- `AliasOwnership`: `AliasValueOwned` is not inductive. A second alias of a value
  inside a dialect finds metadata and no free owner, so the invariant adds
  that every value with metadata has an owner, and that an owner has metadata.
- `ExposedOwnership`: a dialect that is being registered can own less than its
  aliases only after a failure, which ends the call; the invariant says that of
  the current dialect and that a failed dialect is never exposed.
- `MeaningNeverChanges`: an action property. A name can be hidden by an alias,
  but children of a dialect have distinct names, so none that denotes something
  is.
- `ScopeAlwaysImportable`: the dialects of a call, but for the current one, are
  exposed, so every script that the next Python import evaluates can name them.
- `UsesNeverDangle`: the references an object holds exist; since they may go through
  an alias, the invariant adds that what an alias stands for exists.
- `OpaqueUsesAreAliases`: an operation that names an opaque value of a
  registered dialect took it from an alias. The invariant says that a fresh
  namespace has no uses, and that no namespace is created while a dialect is
  being registered.
- `PoolIsAccounted`: the IDs taken are the objects that are live and the dialects
  that were abandoned, counted as finite sets: each call takes one ID for one
  new object or one newly abandoned dialect.
- `ImplementsNamespaceRegistry`: the initial states of `DialectGen` are initial
  states of `NamespaceRegistry` and every step is a step of the registry or a
  stutter. The invariant says that a name of a dialect has one sort and that a
  namespace that is not registered has no children.

With these, every property of the run `registry` holds for all constants, and
of `registry_refines` only the liveness stays with TLC.

`OpVerificationProofs`:

- `TypeCorrect`: the counts fit their unsigned field, whatever integer the user
  gave.
- `ConstraintsNeverOverrun`: no trait fails an assertion, divides by zero or
  reads past the values, as long as the declaration lowers no minimum and sizes
  something. The remainder test needs at least the fixed values, and the
  constraints need what the remainder test or the sizes have checked, so the
  invariant is about the *list* of traits: what is declared is in it, nothing
  else is, the traits that index come last, a generated count is the one of the
  declaration, and a minimum is not below it.
- `GroupsShareValues`: when an operation has verified, its groups share out
  the values in order, a fixed name denotes one value, and each value meets its
  constraint. Without segment sizes the core is arithmetic: the groups follow
  one another (`FirstSteps`, `GroupsInOrder`), and when the remainder test
  passed they hold either exactly the values or `UintMod` more (`SegmentTotal`);
  in the second case some group leaves the operands (`GroupsCover`), which the
  type constraints notice. With segment sizes the offsets are sums over the list
  of sizes. Sums and cuts of lists are reasoned about by a least counterexample
  among the natural numbers (`Least`, from well-foundedness), since
  induction over lists is not available (see below).
- `TraitsDecide`: what verified matches the declaration, and what was rejected does
  not, up to traits that count nothing, counts that the user lists, and
  conjunctions. For the second half the invariant (`VInv`) records that the
  trait at which the verification stopped gave the verdict, and that all
  before it accepted.

`ExposedOperationProofs` rests on these, for it EXTENDS the same states:

- `HandleTyped`, `ConstructedReadsBack`, `VerifiedReadsMeet`, `AbortsHaveCause`,
  `CustomFormFillsDefaults`: all properties of the run `exposed_operation`. The
  invariant `XInv` says that the last answer is what the getter would give again
  (`Current`), that an operation that is `checked` is accepted by all its
  traits and attributes, and that the values of a constructed one are the spliced
  arguments. That splicing and the offsets of the getters are inverse
  is `FlattenSeq` against sums of lengths, again by a least counterexample.

`OpFormatProofs`, for the parser of formats and for `OpAssembly`, whose further
steps leave the format alone:

- `FormatCorrect`, `EveryVariableBoundOnce`, `AcceptedPrintsEverything`. The
  parser never looks back at the format: it checks its sets of what was seen. The
  invariant `FormatInv` ties the two together: a variable is at some position,
  outside or in a group, exactly when `seen` has it, and at one only.

`TypeFormatProofs`, the same for the parameters of types and attributes:

- `TypeFormatCorrect`: what the parser has bound is what its elements bind, each
  parameter by one of them, although it never looks at them; and a value that
  `getChecked` lets through, or that a text was read back as, has parameters
  that meet their constraints.
- `EveryParameterOnce`: what is printed by a format is printed whole, each
  parameter once. The invariant adds that a format was accepted only when every
  parameter was bound (`AllBound`).

`RewritingProofs`:

- `ConversionsLegalize`: a dialect conversion that returns true leaves nothing
  illegal, although it stops at the first pattern that works, undoes patterns
  that do not, and takes up what a pattern created on its own. `ConversionInv`:
  frames nest, their marks in the log grow, and for each frame, *if everything
  since its mark were undone*, every operation may stay, was replaced before the
  mark, or is in the queue of a frame below.

- `FailedConversionsRestore`: `RestoreInv` says that taking away what the log
  created gives the original operations back, at every step, because a
  conversion replaces and erases only at the end, and the builder stays in the
  region, also when a function restores a place it saved.
- `ConvergedIsSettled`: `GreedyInv` says that as long as nothing changed in an
  iteration and the running function changes nothing, every live operation is in
  the worklist, is being matched, or was tried in vain with every pattern; an
  iteration that changes nothing empties the worklist, so all were.

`RewritingSafetyProofs`, where the operations themselves are followed:

- `OperationsStayPlaced`: every call leaves every live operation at one place of
  one block. `Placed` counts the operations of the flattened region; the proof
  works with a list without repetitions for each block, and shows that inserting,
  removing, splitting and taking back keep that.
- `DisciplinedNeverFault`: disciplined functions make nothing read an erased
  operation. The invariant relates the call that is running to the drivers'
  lists. In the greedy driver everything in the worklist is live, and the
  insertion point, once the root is gone, is not used before it is set again. In
  a conversion the frames cut the log into layers: what a frame has still to do
  was created in the layer above its mark, what is replaced stays
  in its block until the end, and what is undone is used by nothing below.
- `RewritingTyped`: every step of the driver, the end of a conversion included.
  There each use follows the replacements (`Final`), a recursion that could go
  round. It does not: operations can be ranked so that each has a higher rank than
  what it uses, one that a pattern creates gets a rank between the operand of its root and
  the root, so what replaces a root is of a lower rank than it. A function that unlinks its root in a conversion breaks
  this; but then the driver reads what was freed before it could follow a cycle
  (`Harmed`), so the type invariant needs no condition on the functions.

`RewritingOrderProofs`, where the order of the operations is followed:

- `OperandsStayDefined`: while functions insert next to their roots and never go
  back, every operand is defined before it is used, at every step. A conversion
  replaces only at its end, so it is not enough that operands come first: what
  *replaces* them must come first as well, and what replaces that. The invariant
  (`OrderInv`) gives each operation a set of operations that are all before it,
  contains its operand and is closed under the replacements in the log (`Tidy`).
  Of the function that is running it says (`Fits`) that what the root needs and
  what was created is before the insertion point, and that nothing between the
  root and the point needs the root; until the point was set after the root it is
  not after it, and until it was set next to the root it is in the block the root
  was in, or in an earlier one, which matters once that block was split. Each
  clause of `InPlace` is used. At the end of a conversion, `Final` stays within the
  set of the operation, again by a least counterexample. For `lowerToLLVM` the
  verifier that its pass manager runs is what counts, whatever the functions did.

With these, every invariant of the run `rewriting` holds for all constants.

What stays with TLC. *Liveness*, `RegistryCloses` and `Returns`: fairness and
ENABLED are out of the prover's reach. *Round trips*, `ClearFormatsReadBack`
and `NothingMisread` of `OpAssembly` and their like of `TypeFormat`: what a
generated parser makes of a text is a recursive function over elements and tokens at once, and
the least-counterexample argument would need a description of its state after each
element for every form of element. The prover knows of `SelectSeq` nothing but its name, so
`Rewriting` defines `Only`, the elements of a list that are in a set, as a function.

## 5. What the model found

Five statements of the repository that the code does not keep, each with its
run and its quotation under "findings" in `PROJECT.json`:

- dynamic types stay opaque when their dialect comes later in the module;
- the metadata of an alias of a dynamic type is never found;
- a size specifier without variadic values is not harmless;
- the counts are not always checked before the constraints;
- an optional group that starts with an operand is printed and never parsed
  (the format of `py.ret`).

The rest are facts that the modelling brought up and that a reader of the
properties should know. They are in the model as the code has them.

*Registration.* The diagnostic of an alias whose value is taken blames the
name. Names of symbols are joined with `__op__` and the like for the Python
functions; that two could coincide is not modelled.

*Constraints.* `AllOfType::verify` (`SpecTypes.cpp:183-192`, "Match all the
TypeConstrants in the list", `SpecTypes.h:68`) falls into its comparison for a
constraint that was met, so a conjunction of type constraints accepts nothing;
`AllOfAttr` is right, and it is the one the dialects use. A trait that is not
registered is skipped, `SameType` of the repository's own first example
(`README.md:56`) among them. A default value is
never checked against its own constraint. A `DefaultAttr` is filled in by the custom parser
only: the generic form without it does not verify, and exposing such an
operation throws (compare `SpecAttrs.h:312-313`).

*Formats of operations.* `lua.ret` and `lua.function_def_capture` without
operands print a type list that their parsers refuse. `SameTypeOperands`
resolves by name, so a result with the name of an operand silently gets its
type. A group of `stencil.load` or `stencil.apply` loses or nulls `$ub`.
`SizedOperandSegments` without `operands` in the format raises
(`result.addAttribute` is not bound), and so do successors, and
`type(operands)` without operands (`parser.getNameLoc`), which the checks of the
format accept. Whether a space is due is decided while the printer is
generated, also by groups that are then not printed. A region without blocks
after `attr-dict` is read as an empty dictionary; regions are added in the order
of the format.

*Formats of types.* Nothing separates two elements: the name of the type runs
into a parameter that starts with a word, words merge, an integer merges with
the dimensions after it. Keyword literals raise (`parseKeyword` is not bound).
No dimensions are printed as a lone `x`, which is refused, so a `stencil.field`
of empty shape does not read back. Dimensions of other widths come back as
64-bit ones, and two lists of dimensions as one. A string or attribute followed
by `:` is taken to have a type. A dialect's own type or attribute without
parameters goes on with the word, number, `<` or `->` after it. Of two parameters with one name only the first
can be in a format. No binding builds an attribute.

*Operations in Python.* A constructor writes no segment sizes; with one size for
all groups, unequal lists are grouped anew and verify. Its first positional
argument is `theOp`. A null attribute is accepted for a required one and
dropped. The getters of successors and of variadic regions raise. A misspelled
name of a memory effect throws through whichever pass asks. `HasParent` ends the
process on a detached operation, `LoopLike` when it names a variadic region that
is empty. Arguments with equal names give a syntax error out of a destructor.

*Patterns.* `elideLoad` and `raiseStencilAssert` (`oec/stencil.py`) erase or
replace their root and answer `None`, `assignTableSet` (`lua/luac.py`) answers
`False`: the next pattern for that root may read a freed operation, and the
driver may report that it converged over a change. `copyInto` appends what the
driver does not hear of. The clients ignore whether the driver converged. All
`Builder()`s are one object. A failed `lowerToLLVM` may leave the module
converted, where the other conversions restore it. `applyCSE` without its
optional callback takes `None` for one (`if (callback)`, `ExposeBuilder.cpp:194`)
and raises.

## 6. Assumptions, what is not modelled, and the plan

*Modelled from their use* (marked external in the map): MLIR's parser and
printer primitives, the lexing of its text, its IR, its greedy driver and its
dialect conversion. A builder's type is taken to be exactly the instance's; a
read through a misaligned attribute is abstracted to "raises" or "undefined".
Scripts stand for Python functions: no state survives from one call of a
function to the next. Benefits of patterns, `generatedOps`, folding and the
simplification of regions are left out of the drivers. What a Python program
still holds of an operation that was erased is not modelled: every use is
undefined, and nothing guards any.

*Left out for good.* Bindings that only forward to MLIR, string building, the
ANTLR grammar, the tools and the module writer, build files, vendored code.

*Not modelled yet.*

1. `SpecSyntax`: `OperationOp::print` against `OperationOp::parse` (traits are
   printed before the successors and parsed after them); the text of the
   constraints, and of the traits.
2. The storage uniquers of dynamic types and of constraints.
3. `LuaScopes`: `ScopedMap` and `AllocVisitor` against Lua's scoping; the table
   and `ipow` of the runtime as operators.
4. `lookupOp` returning null for an operation that only `allowUnknownOperations`
   lets through.

## 7. Running

```
tlc -config MCDialectGen.cfg MCDialectGen.tla
tlc -config MCDialectGenRefinement.cfg MCDialectGenRefinement.tla
tlc -config MCOpVerification.cfg MCOpVerification.tla
tlc -config MCOpAssembly.cfg MCOpAssembly.tla
tlc -config MCTypeFormat.cfg MCTypeFormat.tla
tlc -config MCExposedOperation.cfg MCExposedOperation.tla
tlc -config MCRewriting.cfg MCRewriting.tla
tlapm DialectGenProofs.tla
tlapm OpVerificationProofs.tla
tlapm ExposedOperationProofs.tla
tlapm OpFormatProofs.tla
tlapm TypeFormatProofs.tla
tlapm RewritingProofs.tla
tlapm RewritingSafetyProofs.tla
tlapm RewritingOrderProofs.tla
```

The five `expect violation` runs use `MCAllResolved.cfg` and
`MCAliasMetadataFound.cfg` with `MCDialectGen`, `MCSpecifierHarmless.cfg` and
`MCCountsCheckedFirst.cfg` with `MCOpVerification`, and
`MCOperandsGateGroups.cfg` with `MCOpAssembly`.
