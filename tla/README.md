# A formal model of solcore-rs

solcore-rs is the compiler of the Solcore language: an incremental front end built on
salsa, a specializer and two back ends for the EVM, a language server that runs
natively (tower-lsp) and in a browser worker (wasm), and a web playground that
compiles, deploys, calls and tests contracts in the page.

This project models the parts of it that are hard to get right and hard to test: the
state that must stay current while files, editors and pages move on, and the
algorithms whose answers must not depend on the order in which they do their work.
TLC checks every model on small instances, most of them beside a declarative
reference for the same question; TLAPS proves, for every value of the constants,
what matters most about the analysis host, the two halves of the language server (its
documents and its concurrent handlers) and the specializer's driver (section 4).

## 1. Inventory

| Component (source) | State | Operations | Modules |
|---|---|---|---|
| Analysis host, workspace (`crates/vfs`) | files, tombstones, module registry, external roots, two salsa snapshots, entry | file batches, set/remove file, set entry, module loading, fork, queries | `AnalysisHost`, `VirtualTree` |
| Module paths (`nameres`: `paths.rs`, `graph.rs`, `util.rs`) | none | path to key and back, candidates of an import, workspace prefix | `AnalysisHost` |
| Document state (`lsp/src/state.rs`) | documents, open set, URI and virtual path maps, roots, detached namespaces, entry | open, change, close, disk event, folder change, scan | `WorldState` |
| Native handlers (`lsp/src/native.rs`) | the world and the mutex `document_updates` | one task per notification, suspended at locks, disk reads and sends | `LspBackend` |
| Browser handlers (`lsp/src/wasm.rs`) | the world | one message at a time | actions of `WorldState` |
| Playground execution (`store/executionSlice.ts`, `compiler/`, `useTestDiscovery.ts`) | results, calls, watches, tests found; promises; worker queue | compile, test, run, call, simulate, watch, reset, late answers | `PlaygroundExecution` |
| Calls and tests in the worker (`wasm/src/lib.rs`, `sandbox.rs`, `test_execution.rs`) | the kept deployment, the last compilation | deploy, call, simulate, watch, tests, `main` | `SandboxWorker` |
| Playground language client (`playground/src/languageServer/`) | editor models, pending requests, worker | sync both ways, attach, rename, timeout, failure | `LanguageClient` |
| Lexer and parser (`crates/parser`) | position, reports, bodies | ordered choice, recovery, lowering of bodies | `Parser` |
| Module graph (`nameres`: `graph.rs`, `scc.rs`, `instances.rs`) | the stack of the component search | reach, components, visible instances | `ModuleGraph` |
| Import and export resolution (`nameres/src/interface.rs`, `env.rs`) | interfaces of a cycle in progress | one module's interface at a time | `ExportInterfaces` |
| Names in bodies, references, rename (`hir/src/nameres`, `lsp/src/references*`) | scopes of a walk | resolve, complete, collect, rename | `BodyResolver`, `Rename` |
| Unification table, obligations (`hir-ty/src/infer/table.rs`, `obligations.rs`) | bindings, union; deferred goals | unify, roll back; rounds, defaulting | `Unification`, `InferTable`, `Obligations` |
| Type inference of bodies (`hir-ty/src/infer`) | expectations, stacks of results, closures | one node of the body at a time | `BodyInference` |
| Compile-time check (`infer/comptime.rs`) | binding table, latent parameters | classify, report, defer | `ComptimeCheck` |
| Trait solver (`hir-ty/src/solver`) | tables, consumers, budget | subgoal, answer, collapse, two passes | `TypeMatch`, `TraitSolver`, `OpenGoals` |
| Instance soundness (`solver/soundness.rs`) | instances seen | overlap, coverage, Patterson, methods, derives | `InstanceSoundness` |
| Data types (`alias.rs`, `derived_*.rs`, `layout_finiteness.rs`) | expansion budget, layout stack | expand, derive, lay out | `DataTypes` |
| Contract entries and ABI (`prepare.rs`, `contract/dispatch.rs`) | overlay | surface, wrap, dispatch, selectors | `ContractDispatch` |
| Specializer (`specialize/src/specialize`) | work list, instances, limits | enqueue, build, derive, fail | `Specializer` |
| Compile-time evaluator (`specialize/src/evaluate`) | values, fuel, clones | evaluate, residualise, inline, splice | `Evaluator` |
| Match compilation (`hull/src/emit/match_compile.rs`) | matrix | split, default, bind | `DecisionTrees`, `MatchCompile` |
| Hull, Yul, Sonatina (`hull`, `yul`, `sonatina`) | names, slots, blocks | emit, check, lower | `HullEmit`, `YulLower`, `SonatinaLower`, `Backends` |
| Formatter, HIR syntax, command line, other LSP features, interface, tests, editors | none that outlives a call | | not modelled |

How they interact. An edit reaches the server as a notification. Its handler updates
`WorldState`, which tells `Workspace` about files and the entry; `Workspace` batches
changes into `AnalysisHost`, refreshes the snapshots and loads the modules the entry
reaches. Salsa queries then read those snapshots: parsing, module graph, interfaces,
names, types, the solver. `specialize`, `hull` and the back ends turn a checked module
into code. The playground runs the same compiler in a second worker: its store posts
requests, and answers arrive later, in order, perhaps after the source, the backend or
the deployment changed.

What is hard, and what makes each part correct (`PROJECT.json` lists the 40 hazards at
the line where they bite, with the properties about each):

* *Incremental is from scratch.* Snapshots are refreshed only when flags gathered over
  a batch say so; every answer must still be the answer for the present tree.
* *Identity.* A file deleted and created again keeps its `SourceFile`.
* *Layouts of documents.* Folders come and go under open documents; two documents never
  share a path, and no scan replaces a buffer.
* *Suspended handlers.* Between two awaits another notification runs; edits must not be
  lost or reordered and diagnostics never go back.
* *Late answers.* Nothing a worker answers is shown as true of something else.
* *Order of work.* The module a cycle is entered by, the table served next, the column
  tested first, the round an obligation wakes in: none of them decides the result.
* *Stale knowledge in a pass.* What an evaluator, a walk or a table remembers must be
  dropped when a call, a branch, a scope or a rollback makes it wrong.
* *Limits.* Fuel, nesting, instantiation and node budgets stop what grows and are
  blamed for nothing else.

## 2. Modules

```
AnalysisHost         <- MCAnalysisHost                  AnalysisHostProofs
   |  refines
VirtualTree
WorldState           <- MCWorldState                    WorldStateProofs
LspBackend           (its own MC module)                LspBackendProofs
Specializer          (its own MC module)                SpecializerProofs
LanguageClient       (its own MC module)                LanguageClientProofs
PlaygroundExecution  <- MCPlayground                    PlaygroundExecutionProofs
SandboxWorker        <- MCPlayground
ModuleGraph          <- MCNameResolution                ModuleGraphProofs
ExportInterfaces, BodyResolver <- Rename                         <- MCNameResolution
TypeMatch <- OpenGoals;  TraitSolver                             <- MCTraits
Unification <- InferTable, Obligations, BodyInference;
ComptimeCheck, InstanceSoundness, DataTypes (both over TypeMatch)<- MCTyping
ContractDispatch; DecisionTrees <- MatchCompile; Evaluator;
DecisionTrees <- HullEmit <- YulLower, SonatinaLower <- Backends <- MCLowering
Parser               <- MCParser
```

*Benches.* `MCNameResolution`, `MCTraits`, `MCTyping`, `MCLowering` and `MCPlayground`
put the passes of one layer beside one another: the initial state chooses the `part`,
the component of that part takes its steps, and the variables of the others stay idle.
`MCNameResolution` extends `ModuleGraph` itself, so that its constants are the theorems'.
A property of a bench is the conjunction of what the component promises, each conjunct
a definition of the component with its own comment; nothing is shared between parts but
finished values, so nothing is lost by not interleaving them.

**AnalysisHost** has the host's maps as variables. `SetVirtualFileDeferred` and
`RemoveVirtualFileDeferred` are the two mutations with their bookkeeping,
`FinishFileChanges` refreshes what the accumulated flags ask for. A batch is
`BeginFileChanges`, any number of `ApplySet`/`ApplyRemove`, and `EndFileChanges`;
loading is one `VisitModule`/`SkipModule` per key, so its order is arbitrary.
`QueryView` is what a query can observe. Salsa is external: a query is a function of the
inputs it reads. **VirtualTree** is the promise: there is a tree of texts, an entry and a
set of known roots, and a settled workspace answers for exactly that tree.
The first part of `AnalysisHost` is the pure algebra of `nameres` both are about. A path is
a record of library, stem and extension; a `.txt` twin of a `.sol` file maps to the same
key, as in `module_key_for_path`; resolution tries candidates in the code's order.

**WorldState** is a record with the fields of the Rust struct and one operator per
method; the actions are the notification handlers of both transports with all the calls
they make. `Extended` is what `HashMap::extend`, or a loop of inserts, does to a map;
`PathsAssumption` names what the code takes for granted about a client's files (section
6). Texts are opaque; whether a text declares `pragma solcore;` and whether a
scan lists it are sets of texts.

**LspBackend** is the concurrency of `native.rs`: the bounded set of handlers in flight,
the fair `document_updates` mutex, the world's mutex (held across synchronous code only,
so never visible), the disk read outside it, the channel to the client and every point
of suspension. Diagnostics of a document stand for the texts of all.

**PlaygroundExecution** is the store, the client with its promises, the queues, the
worker with its loading and its deployment, over abstract workspaces. **SandboxWorker**
is that worker from inside: compilations, manual calls with the cache of the last
compilation, tests against temporary deployments, watched calls. Its EVM is one number
and a nonce per account; encoding is reduced to matching counts of arguments; ABI and
test comments are facts of a source.

**LanguageClient** has the files of the store, a Monaco model for each and the documents
of the server. The listeners of the store are operators on a page, so a listener that
changes the store again is a nested application within one step, as it is within one
JavaScript turn; the order in which a loop visits files is a constant's choice (`Orders`).
The worker loads, fails, crashes or hangs; a rename edits models when
its answer arrives.

**Parser**: tokens are strings with adjacent `<` and `>` distinguished;
every parser function is a rule, recovery included, run by a machine with ordered
choice. The reference is the same grammar as a set of derivations, without order,
greed, lookahead or recovery. Lambda bodies are parsed when the enclosing body is
lowered, which is where nesting and the `unchecked` flag are counted.

**ModuleGraph** is the collection of modules, Tarjan's components and the import closure
of instances, over any graph that gives each module the sequences its imports and exports
name; **ExportInterfaces** the fixed point of public interfaces, entered from any
module; **BodyResolver** the walk that resolves a body; **Rename** occurrences, refusals,
the edit and the comparison of meanings. Tokens are stable identities, so no span
arithmetic is modelled.

**Unification**, **InferTable**, **Obligations**: the table with rollback, occurs check,
tuples as products and comptime wrappers; deferred obligations with their snapshots.
**BodyInference** is the walk over statements, expressions and patterns with what is
expected of each; its reference is a set-valued typing over a finite universe.
**ComptimeCheck** classifies values by a walk, which asks for the parts of a tuple, a
constructor or a slice only until one is run-time; its reference follows paths.
**TypeMatch**, **TraitSolver**, **OpenGoals**: clause heads; ground goals with the choice
among dictionaries; goals with variables with the traffic between tables.
**InstanceSoundness** and **DataTypes** check instances and data declarations; their
references enumerate closed types and unfold layouts.

**ContractDispatch** prepares entries and patches selectors; method names are sequences
of letters since markers are searched in generated names. **DecisionTrees** and
**MatchCompile** compile matrices. **Evaluator** evaluates a module at compile time; the
reference execution is external. **HullEmit** with its checker, **YulLower** and
**SonatinaLower** translate functions, and **Backends** runs the program, the Yul code and
the graph of blocks side by side. **Specializer** is the driver's work list.

## 3. Runs

Eleven runs, one per layer, and a twelfth that shows a comment of the code violated; each
takes well under five minutes with two workers. Numbers of graphs, programs, modules, bodies, contracts and texts are those of initial states.

| Run (module) | What it asks | Bounds |
|---|---|---|
| `analysis_host` (`MCAnalysisHost`) | `SnapshotsCurrent`: a query between operations reads the present registry and files. `FilesAreExact`: registered modules are live files, live files and tombstones are disjoint. `IdentityIsStable`: a path keeps its `SourceFile`. `ImplementsVirtualTree`: refinement | 5 paths, 2 texts, 1 external library, batches of 2, 2 generations |
| `world_state` (`MCWorldState`) | `WorldIsConsistent`: the maps are inverse, the compiler has the documents' texts, the entry is an open document, documents lie where the roots put them. `BuffersAreTheClients`. `PathsAreStable`: only a folder change moves a document, and no path passes from one document to another | 3 files in nested folders and `/main`, an untitled document, 2 texts |
| `lsp_backend` (`LspBackend`) | `HandlersAreConsistent`: types, and did_open acts on what is still true. `ServerHasBuffers`, `ShownIsCurrent`: what is left when all is quiet. `DiagnosticsNeverGoBack`. `ServerSettles` | 2 documents, 2 texts, 3 messages, 3 handlers, channel of 1 |
| `playground` (`MCPlayground`) | `PageIsTruthful`: contract, call history, results, tests and watches are true of worker and files. `TestsLeaveManualSession`. `DeploymentIsHonest`: the deployment is what the reported transactions left, cached or not. `PlaygroundSettles` | page: 2 sources, 2 contracts, 3 gestures, history 2, 1 watch; worker: 7 sources, 44 requests, 4 served |
| `language_client` (`LanguageClient`) | `MirrorsAgree`: models, server documents and markers mirror the store. `RenameKeepsEdits`. `ClientSettles` | 2 paths, 3 texts (one with mixed line endings), 2 examples, 2 gestures |
| `names` (`MCNameResolution`) | `GraphIsExact`: modules, components and visible instances. `NamesAreExact`: interfaces are what the declarations mean; a rename keeps every meaning and can be undone, an offered one is possible. `NamesSettle`: the interfaces of every program, whatever its cycles and however ambiguous, reach a fixed point; searches and walks end | 3,179 graphs over 3 and 4 modules, 4,900 programs of interfaces; of the larger ones those whose edges into `a` come only from `b`; rename workspaces of one and two modules, 26 texts |
| `traits` (`MCTraits`) | `DictionariesAreTheBest`: proofs, and the preferred ones, in any order of the work. `AnswersAreExact`: goals with variables get exactly the provable answers. `CyclesEnd` | 5,760 ground programs: a base goal and at most 3 clauses; 2,892 programs of open goals: at most 3 of 14 clauses with a fact among them, at most 2 beside assumptions, 6 goals, proof depth 5, fuel 60 |
| `specializer` (`Specializer`) | `DriverIsConsistent`: maps, queue and counters agree, nothing twice. `OutputIsExact`: without diagnostics exactly what is needed is emitted; fuel is blamed only where it runs out. `Terminates` | 4 definitions, at most 2 calls each, limits of 3 |
| `typing` (`MCTyping`) | `TableIsSolved`, `ObligationsAreAnswered`, `InferenceIsExact`, `ComptimeIsExact`, `InstancesAreSound`, `DataTypesAreExact`: each pass accepts, reports and records exactly what its reference says | 2 equations over 3 variables; 4,478 bodies; 7,315 comptime modules; 5,703 instance programs; 390 data modules |
| `lowering` (`MCLowering`) | `CallsReachTheirMethods`, `MatchesMeanTheirRows`, `EvaluationKeepsMeaning`, `ExecutablesAgree`: entries, trees, residual module and both executables mean what the program means | 526 contracts (with two methods at most a payable fallback); 6,543 matrices over a pair, a sum and words; 5,120 modules, two pieces per body; 289 programs, each on several storages |
| `parser` (`MCParser`) | `TreesAreWellFormed`: trees own what was read, bind as the levels say and stay within the limits; what is broken leaves a report where it is; a whole body is lost only at a `}` whose `{` was passed over in broken text, a whole file only at a declaration that begins with its keyword and does not parse. `ReportsAreExact`: a file is reported exactly when the grammar does not derive it | 9,847 texts; nesting 4, expression nesting 3 |
| `parser_recovery` (`MCParser`) | `InvalidSpansBecomeErrorItems`, what `parse/mod.rs:55` says of every file. Violated: section 6, `parse/items.rs:1141` | as `parser` |

Every property is stated in the comment above it, and for each that holds `PROJECT.json`
names a mutant, a plausible bug in one mapped definition, that TLC shows to break it.

*Why the bounds are enough to be interesting.* Host: the five paths hold a shadowing pair
(`/std/s.sol`, `/main/std/s.sol`), a twin that shares a key, an import cycle and an
external module whose root becomes known late; two generations let a file die and come
back; two changes per batch let flags meet. World: nested folders change a document's
innermost root, `/main` is both a virtual path and a real folder, the rank of URIs decides
the next entry. Backend: three notifications are the fewest at which one holds the mutex,
one waits and one is not dispatched; with a channel of one place a handler with two
publications waits in the middle. Playground: three gestures are an operation, one that
overtakes it and one that looks; four requests let a deployment be made, kept, replaced
and lost. Client: two gestures are a rename and the change that overtakes it, and an
example that replaces a plain text by one the editor normalises is the nested listener.
Names: three modules close a cycle and leave one to look at it, four make a component
inside a graph. Traits: two clauses make a cycle and the third is an alternative to it.
Typing and lowering: each menu holds every form of the pass once, and pairs of pieces are
the fewest in which one leaves something behind for the next. Parser: two tokens fill
every two-place construct wrongly and rightly, and deep texts cross each limit by one.
Counters that are bounds of the check are constants of the modules (`MaxMessages`,
`MaxGestures`, `MaxGenerations`, `MaxRequests`, ...); limits of the code that a run makes
smaller are `MaxWatches` (16), `HistoryLimit` (20), `Fuel` and `NodeBudget` (16384), the
nesting limits (128 and 32), the specializer's limits.

*Fairness.* `lsp_backend` assumes weak fairness of receiving, dispatching, taking the
mutex and each handler: tokio runs every ready task, its mutex is first come first
served, and the client reads its end of the connection. `playground` assumes it of the
browser delivering messages, the worker serving its queue, the discovery timer and React
running effects. `language_client` assumes it of the worker serving its queue, of
delivery and of timers; that the worker's code loads is not assumed. `specializer`,
`names` and `traits` are sequential loops that always take their next step (`names`
assumes it for every program, those with ambiguous interfaces included). The client
and the user are never assumed to act, and single passes end, so the runs do not check
deadlock: the liveness properties ask what must not stop.

## 4. What is proved

Seven components are proved about; each theorem is the property of a run, for every value
of the constants. All proofs are checked by tlapm to the last leaf; the assumptions are
named in the modules that declare the constants and evaluated by TLC on the runs.

| Component | Theorems (properties) |
|---|---|
| `AnalysisHost` | `TypeCorrect`, `QueriesReadCurrentSnapshots` (`SnapshotsCurrent`), `FilesStayExact` (`FilesAreExact`), `StableIdentity` (`IdentityIsStable`), `Refinement` (`ImplementsVirtualTree`) |
| `LspBackend` | `HandlersStayConsistent` (`HandlersAreConsistent`), `BuffersArrive` (`ServerHasBuffers`), `ShownStaysCurrent` (`ShownIsCurrent`), `DiagnosticsKeepOrder` (`DiagnosticsNeverGoBack`) |
| `Specializer` | `DriverStaysConsistent` (`DriverIsConsistent`), `OutputStaysExact` (`OutputIsExact`) |
| `WorldState` | `WorldStaysConsistent` (`WorldIsConsistent`), `BuffersStayTheClients` (`BuffersAreTheClients`), `PathsStayStable` (`PathsAreStable`) |
| `PlaygroundExecution` | `PageStaysTruthful` (`PageIsTruthful`), `TestsStayApart` (`TestsLeaveManualSession`) |
| `LanguageClient` | `MirrorsStay` (`MirrorsAgree`), `RenamesFit` (`RenameKeepsEdits`) |
| `ModuleGraph` | `GraphStaysExact` (`GraphIsExact`), from `EveryModuleIsCollected`, `ComponentsAreClasses`, `InstancesAlongImports` |

### The analysis host

`AnalysisHostProofs` proves, for every set of paths, contents and library names, every
import relation and all bounds:

* `TypeCorrect`, `QueriesReadCurrentSnapshots` (`SnapshotsCurrent`), `FilesStayExact`
  (`FilesAreExact`) and the action property `StableIdentity` (`IdentityIsStable`);
* `Refinement`: `AnalysisHost` implements `VirtualTree`, that is, incremental analysis
  after any history of batches, entry changes, host edits and forks is analysis of the
  present tree from scratch.

Assumptions, all on constants and all evaluated by TLC on the runs: a path's parts are
what the code can produce (`PathsAssumption`), no external library is called `main` or `std`
(`ExtNamesAssumption`), the bounds are natural numbers and a file can be created at
least once (`BoundsAssumption`), and the markers for "no content", "no file" and "no
path" are not contents, files or paths.

*The invariant.* `SnapshotsCurrent` speaks of the moments when a query can run; inside a
batch the snapshots are stale by design. `IndInv` says how stale they may be: the
registry snapshot is the registry, or a batch or a load is under way whose flag will
refresh it, and likewise for the file set (`FileSnapshotInv`, `FsSnapshotInv`).
`MapsInv` relates files, tombstones, generations, contents and the registry: at most
one `SourceFile` is ever made for a path, it is live or a tombstone and never both,
exactly the live ones have a text, and a registered key holds the live file of its own
path, below a known root.

*The refinement.* A load is a worklist, so its result is a reachability claim.
`LoadInv` says that every entry key is visited or pending, that whatever a visited
module imports is visited or pending, that pending keys are registered when their file
exists, and that pending keys are reachable. `VirtualTree` defines the
reachable modules as the least set closed under imports, so the end of the load needs
no induction: the visited set is closed and contains the entries, hence contains the
least such set, and it is contained in it because only reachable keys become pending.

### The native handlers

`LspBackendProofs`, for any documents and texts, any number of notifications and of
handlers in flight and any size of the channel to the client. Assumptions: the bounds are
positive (`BackendBounds`), there are finitely many documents (`DocsAssumption`) and the
marker for "nothing" is no text and no number (`NoneAssumption`).

What a client and a server agree on is only true when all is quiet, so the invariant says
what is on the way. `QueueInv`: the fair mutex makes one queue of all notifications, the
applied ones, then the holder, the waiting handlers and the inbox, numbered without gaps.
`TaskInv`: only the holder is past its first stage, so what it read before an await is
still true after it (`InferenceIsFresh`). `BufferInv`: the edits of a document that are
not applied yet continue what the server has and lead to the client's buffer. `ShownInv`:
the last publication of a document on its way, or else what is shown, is computed from the
server's present texts. `OrderInv`: publications are on their way in the order of updates.
With queue, batch and channel empty, `BufferInv` and `ShownInv` are `ServerHasBuffers` and
`ShownIsCurrent`.

### The specializer's driver

`SpecializerProofs`, for any finite set of definitions, any program over them and any
limits (`DefsAssumption`, `LimitsAssumption`, `ProgramsAssumption`: what a definition, a
contract and an entry are, and that a generic body calls nothing).

`Needed` is defined by iterating the calls of what is not too large. `LeastMember`,
`Counting` and `Recursion` give what that needs of the naturals: a least element of a set
(from the library's well-foundedness of `<`), the pigeonhole argument and the existence of
recursively defined functions, all stated about sets and functions, so that no theorem
with an operator parameter is instantiated. With them, the levels of `Needed` grow until
they stop, there are at most as many as small instances, and so `Needed` is the least set
closed under calls. The driver's invariant: what has a name is in every closed set
(`ReachInv`); queue, registries and functions have each instance once (`NamesInv`); the
stack is a chain of derived bodies over at most one queued one, each waiting for the one
above (`StackInv`); fuel is blamed only if the program has more instances than allowed
(`FuelInv`); and without diagnostics every named instance is made, queued or under way and
everything made has names for its calls (`CleanInv`). At the end the functions made are a
closed set inside every closed set, hence `Needed`.

### The document state

`WorldStateProofs`, for any documents, folders and texts and every sequence of
notifications of either transport. The assumptions say what a URI, a folder and a text are
(`UrisAssumption`, `FoldersAssumption`, `TextsAssumption`, `NoneAssumption`), that URIs are
ordered (`RankAssumption`), and that a client's files do not clash (`PathsAssumption`):
one URI for a file, no URI that is also a folder, no file of a root that would get the
virtual path of another file under `/main`. The code has no check of it. Without it two
documents can be given one virtual path and the property is false (section 6); everything
else about folders, nested, added and removed in any order, is covered.

That two documents never share a path is not inductive: nothing in the maps says where a
document may be put next. The invariant `Good` adds `InPlace`: a file is where the present
roots put it, or where some earlier root detached it while it was open, and any other
document has a number that was already used. `Apart` shows that places described this way
are never shared, whatever the present and earlier roots. The operations are then proved
one by one, for any good world: one document placed (`AddFacts`), all real documents taken
out and placed again (`ReplaceFacts`), a listing loaded (`LoadFacts`); handlers compose
them. Two of the intermediate worlds inside a handler are not good, and the lemmas say how
far: a document just closed may still be detached until it is dropped (the second
parameter of `Good`), and between a change of the roots and the choice of a new entry
there is no entry to speak of (`Settled`).

### The playground's page and worker

`PlaygroundExecutionProofs`, for any workspaces, contracts, facts about them, limits and
number of gestures, and any delay of requests and answers. The assumption
(`FactsAssumption`): the default example is a workspace, `Facts` says of each workspace what
the compiler finds, at least one call is kept in the list, and `None` is none of the values
it stands in for.

`PageIsTruthful` speaks of the page and the worker while nothing compiles, and both are
apart by what is on the way. `Inv` follows it there. `IdsInv` and `ClassInv`: identifiers
grow along promises, queue and answers, and of each class at most the newest promise is
pending, so a request has one promise or none. `AskedInv`: a promise still awaited has the
key of the page (`Awaited`, `Keyed`), whatever was edited since; and while the answer to a
manual run is on its way, the deployment it names is the worker's. `CallInv` is the part
that makes aborted calls harmless: the worker still serves a call nobody awaits and may
deploy or commit for it, but then its key has a sum of epoch and version that the page has
left for good, so no later call continues on what it did. `LiveInv` and `HistInv`: the
page's contract is the worker's and its committed calls are those of the list, but for the
one in the awaited answer (`InFlight`, `Uncounted`); `WatchInv` and `ReadInv` say it of the
values read for watches, `RecordInv` of the list, `DiscoveryInv` of what the discovery
effect found. Inv is shown for each gesture, each step of the worker and each answer;
`TruthFollows` gives the property when nothing compiles, since then nothing is awaited.
`TestsStayApart` needs of `Inv` that an awaited manual run never ran tests (`Answered`).

### The playground's language client

`LanguageClientProofs`, for any paths, texts, line endings, examples, orders of enumeration
and number of gestures. Assumptions: making line endings uniform is idempotent and a new
file's text is uniform (`TextsAssumption`), an enumeration has every path of a set once
(`OrdersAssumption`), examples are workspaces and the bound is a number
(`ExamplesAssumption`), and `None` is none of the values it stands in for
(`NoneAssumption`).

A turn of the page is a nest of listeners inside loops over all files. `PageStep` is what
any listener may do: files neither appear nor go, a model stays the same object and its
version grows whenever its text changes, other models are made under numbers never used
before, and what is sent takes the server from the sync's previous files to the new ones.
It is transitive, so the loops, which are recursive functions, are page steps by induction
on the file they have come to (`Counting` and `Recursion`, as for the specializer). That
files and models agree at the end of a loop needs more: a listener run for one file may
change the text of a file, so `EnsureStep` says that a file once done stays done.

Neither property is inductive. `MirrorsAgree` says what the server will have, while a
rename is answered for what it has when the request's turn comes, and markers are those of
the server's documents only when nothing is on its way. `Inv` follows every message.
`ServerInv`: what is queued for a living worker opens what the server lacks there, changes
or closes what it has, and leads to the sync's previous files (`Tells`; `TellsConcat`
composes a turn's messages with those queued). `PageInv`: with the host those are the
store's files, and the models are theirs. `MarkersInv`: the last diagnostics queued for a
file, or else its markers, are of the server's documents. `RenameInv`: a model still at the
version a rename noted has the text that the server has where the request stands in its
queue, or had when it answered. `RequestInv` and `WorkerInv` say which messages there can
be. Every turn of the page is covered by one lemma (`TurnKeepsInv`); the steps of the
worker, answers, failures and detaching have one each.

### The module graph

`ModuleGraphProofs` shows that the three passes over the graph compute what they are for,
for every set of modules and every graph (`GraphsAssumption`; finiteness is not assumed,
as what has been visited is finite at every step). Reachability is stated without paths:
`From(m, edges)` is the least set closed under the edges that has `m`, so the proof needs
no induction over their length (`FromFacts`).

`ReachInv` and `InstancesInv` are worklist invariants: what a collected module refers to
is collected or still to be followed, so at the end the collected set is closed, and
nothing enters it that is not reached. The component search needs `SearchInv`:

* `OrderInv`: stack and active calls are in the order of their indexes, the calls are on the
  stack, and every module with an index is on the stack or in one component.
* `StackInv`: an active call reaches everything above it on the stack, and everything on the
  stack reaches an active call below it.
* `FrontierInv`: all references of an entered module are entered or left to its call, and
  finished components refer to finished ones only.
* `LinkInv`: a low link is the index of a module reached on the stack, and the edges followed
  from the modules between one active call and the next lead no lower than the link of the
  first.

When a call leaves with its link equal to its index, `StackInv` makes everything from it up
mutually reachable; `LinkInv` and `FrontierInv` say that no edge leaves those modules except
to finished components, so that they with all of the latter are closed, and nothing else can
be in the class or be reached from it. When the link is lower, it names a module below that
the call reaches, which is what `StackInv` needs of the modules it leaves on the stack. An
edge to a finished component must not lower the link: `FollowEdgeAnywhere` is that mistake,
and TLC finds `GraphIsExact` violated by it.

### What stays with TLC

* Liveness: `ServerSettles`, `PlaygroundSettles`, `ClientSettles`, `NamesSettle`,
  `CyclesEnd`, `Terminates` (fairness and ENABLED are out of tlapm's reach).
* The passes whose modules reach RECURSIVE operators, for which tlapm has no SMT backend:
  parser, rename, traits, typing, lowering. Their properties compare the pass
  with a reference that is itself recursive over programs.
* `ExportInterfaces`: that a cycle's interfaces end as the meaning of the declarations, which
  the reference gives by rounds, an induction over data.
* `SandboxWorker`: what a deployment is after several transactions, reported and compared
  with a run from nothing, is again an induction over the transactions.

## 5. What the models leave out

*Host and editors.*

* `AnalysisHost`: `..` and empty segments; a document lying directly in the root of the
  file system; text of paths other than their segments; salsa's memoisation; parsing (the imports of a text are a constant
  relation); the generation bound ends histories, not the code.
* `WorldState`: byte ranges of an incremental edit (only its result matters); `fork`,
  which copies; iteration order of hash maps where the code does not depend on it;
  folders that one notification both adds and removes; two spellings of one URI
  (section 6).
* `LspBackend`: requests, which read under the world's mutex and change nothing;
  namespaces and roots, which are `WorldState`'s (but for whether a root is configured);
  cancellation.
* `PlaygroundExecution`: the EVM, ABI encoding, compilation itself, labels, tabs, drafts,
  timings, the cache of compiled artifacts (a function of its key), path normalisation
  and local storage. `SandboxWorker`: 16 watches in the code, 2 in the run.
* `LanguageClient`: document versions (the server ignores them), read-only providers,
  code actions (whose version guard is Monaco's), detaching on a hot reload, and which
  file is the entry.

*Front end.*

* `Parser`: the texts are those of menus (27 x 27 bodies of two tokens, 14 x 14 x 14
  returned expressions, operator pairs, 33 x 33 statement pairs, 14 x 14 x 14 types, deep
  nests, files of at most two items after the pragma). Left out: wording and spans
  (a report is placed at the furthest failing token), comments, fingerprints, spellings,
  lowering of types and names, `case comptime {...}`, array suffixes at the nesting limit.
* `Rename`: tokens are identities; left out are the parser's contexts of identifiers,
  constructors left to inference, named constructor selectors, exported module aliases
  and re-export items, and modules that do not parse.
* `OpenGoals`: at most 3 of 14 clauses, 6 goals, with and without assumptions; the
  reference is ground, over the base types and boxes of them; first-in first-out (every
  order is in `TraitSolver`); error and unknown types and equality predicates are left out.
* `InstanceSoundness`: a menu of 37 instances, at most 2 of them local; closed types up to
  one double box. The code never compares two imported instances, and its Patterson
  measure compares open types only, so `ConditionsShrink` speaks of conditions that repeat
  no variable more often than the head. Equality predicates and alias contents are abstract.
* `DataTypes`: mutual recursion reaches layout only through an alias; `NodeBudget` is 40
  (16384 in the code).
* `BodyInference`: classes `Int`, `Add`, `Eq` over `word`, `uint256`, `bool`; escaping
  let-bound lambdas are outside `TypeableIsAccepted`, and `ErrorsDoNotCascade` is about
  reports at a leaf whose hole leaves a typeable body. Left out: comptime, aliases,
  strings, places in storage and memory, struct fields, arrays, proxies, slices, inline
  assembly, inference of signatures.
* `ComptimeCheck`: types are reduced to two flags; the reference follows paths with at
  most two turns of a loop; exactness is claimed for bodies whose branches and loops assign
  nothing, without early return and compound assignment; calls are deferred. `tuple` stands
for tuples and constructors with a leading dot. Exactness is about the parts the walk asks
for: what is written behind a run-time part of a tuple, a constructor or a slice is not
looked at by the code, and the reference (`Looked`) asks for no report there (section 6).

*Middle and back end.*

* `ContractDispatch`: `Keccak4` is a parameter with one forced collision; `std.dispatch`
  and ABI attributes are external; recursive, hidden and hand-represented data,
  hand-written ABI evidence and JSON are left out.
* `DecisionTrees`: a constructor is the index it has in its type. The code finds it by
  name, `{type}_{constructor}` first and then the first with that suffix
  (`match_compile.rs:1292`); names that are suffixes of one another are left out.
* `Evaluator`: its programs are those the lowering makes (branch and loop bodies inside
  blocks, fields by name, comptime lets and parameters of spliced calls never assigned).
  The reference execution is external and bounded by `RunBound`. Closures, staged
  patterns, memory, tuples and erasure of integers are left out.
* `Backends`: string literals and reverts with text, storage layout, closure dispatch,
  comptime parameters, objects and contracts, memory. Names are counters; nested
  injections and the Hull types that no source produces are left out; hoisting of leaking
  lets and assignment to product parts are translated but no program reaches them.
* The crates marked `not_modelled` in `PROJECT.json`, for the reason given there.

## 6. Observations

Modelling met places where the code does not do what one of its comments, tests or
diagnostics says. One is shown by a run of its own (`parser_recovery`). Elsewhere the menus
and guards of the runs leave such places out, or the property is stated for what the code
does, where they would break it; they are recorded here for whoever changes that code.

* `state.rs:414` — an open document detached by the removal of its folder should be placed
  again when "their root is added again" (149-151). If the same root was meanwhile
  inferred, adding it is seen as no change and the document stays detached.
* `native.rs:164` — closing a workspace file whose disk text lacks the pragma keeps it in
  the workspace; the watched-file handler (249) and the scan drop such a file.
* `state.rs:190` — two percent-encodings of one path are two documents with one virtual
  path; a scan overwrites the analysed text of the open one, against the test at 1230.
* `state.rs:438` and `636` — two more ways to one virtual path. A file that happens to lie
  in a folder `/main` on disk and belongs to no root keeps its own path as virtual path
  (`uri_to_vfs_path`), and a file below the only root `/p` is given `/main/<rel>`
  (`workspace_relative_vfs_path`): `/main/a.sol` and `/p/a.sol` share a path. And a document
  directly in the root of the file system makes that root a folder, below which every
  `/main` file lies; inferring it (`419`) gives the known ones another place without moving
  them. With such files `WorldIsConsistent` fails, so `PathsAssumption` of `WorldState`
  excludes them, and the run and the proofs are about clients without them.
* `executionSlice.ts:237` — a watch added while tests run discards the read that follows a
  call, and nothing reads the watches again. No control of the page adds watches.
* `workspaceEdit.js:15` — a model disposed and made again starts at version 1, so edits
  computed for an unedited model are applied to its successor.
* `references.rs:301` — a type named before a constructor in a pattern is no occurrence
  (2345), so its rename is always refused, and still offered.
* `rename_semantics.rs:290` — the comparison of meanings skips export lists: a private
  type renamed to an exported function's name is exported with it.
* `obligations.rs:303` — defaulting runs before the last attempts, so an obligation tried
  last can pin a variable of one that was just reported as beyond improvement.
* `obligations.rs:458` — an open integer obligation settled at its last turn can end with
  neither evidence nor a report, against 140.
* `sonatina/src/lower.rs:2719` — `(a, b) = (b, a)` passes the checkers; this back end has
  no such assignment, the other copies the slots one after another.
* `evaluate/core.rs:1942` — the write summary of a call drops the names a local of the
  caller has, and leaving the scope restores the value saved for the field:
  `s = 1; { let s = x; bump(1); } return s;` folds `s` to 1 although `bump` wrote it.
* `infer/diagnostics.rs:2010` — mutually recursive data declarations are found only through
  direct references; a cycle through an alias is met when the layout is emitted.
* `infer/comptime.rs:365` — the branches of an `if` share one table of bindings, so what one
  branch assigns holds in the next and a compile-time `let` there is reported.
* `infer/comptime.rs:403` — `from_all` returns at the first run-time part, and tuples,
  constructors and slices (432) hand it their parts on demand: in `(p, need(p))` the
  run-time argument of `need` is not reported, a lambda in a later part is not checked, and
  a call there leaves no obligation. Operators, conditionals and arrays classify every part.
* `infer/comptime.rs:1224` — `let n = 1; fwd(n)` is reported although passing `n` to the
  compile-time parameter directly is accepted.
* `infer/comptime.rs:1305` — the obligation of a closure is looked up in the arena of the
  function around it; `get` (`arena.rs:87`) panics on a foreign index.
* `infer/expr.rs:517` — a conditional with a literal and a `uint256` is reported as not
  numeric, while `stmt.rs:163` counts it as numeric.
* `parse/items.rs:1141` — recovery stops at the keyword of a declaration, so one that begins
  well and then fails, such as `function f {}` or the run's `import x }`, ends the pass: the
  file yields no items at all, the good ones before it included, where `parse/mod.rs:55` says
  that invalid top-level spans are represented as `ParsedTopItem::Error`. The run
  `parser_recovery` is this finding; `LossHasItsCause`, a part of `TreesAreWellFormed`, says
  that files are lost for no other reason, and `NothingIsSilent` that they are reported.
* `parse/expr_pat.rs:206` — `let x = lam { return x; };` ends the statements at the lambda's
  brace and the whole body is dropped, against `stmt.rs:162`. `LossHasItsCause`
  says that bodies are lost for no other reason than such a brace.

## 7. Plan

1. *Proofs*: that `ExportInterfaces` lets no private constructor out. It reaches no
   RECURSIVE operator, but selects from sequences by predicates (`SelectSeq`), which take
   an operator as parameter and are opaque to the provers; its selections would have to be
   written over sets of positions first.
2. *Models*: whole-program menus for the evaluator's closures and staged patterns;
   signature inference; storage layout in the back ends.
