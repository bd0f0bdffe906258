------------------------ MODULE PlaygroundExecution ------------------------
(***************************************************************************)
(* Compiling, running and watching in the browser playground: the store    *)
(* slice that starts operations, the client that matches answers with      *)
(* promises, the worker that serves requests one after another, the        *)
(* deployed contract it keeps between calls, and the delayed discovery of   *)
(* tests.  Requests and answers travel in order but are delayed at will;    *)
(* gestures of the user fall anywhere between them.                         *)
(*                                                                         *)
(* A workspace (files and entry) is one abstract source; Facts says what    *)
(* the compiler finds in it.  A watch is named by its contract.  Left out:  *)
(* tabs, labels, drafts, timings and the text of outputs.                   *)
(***************************************************************************)
EXTENDS Integers, Sequences, FiniteSets, SequencesExt

CONSTANTS
  Sources,        \* workspaces the user can have
  InitialSource,  \* the default example
  Contracts,      \* names of contracts
  Facts,          \* source -> [tests, main, ok : BOOLEAN, contracts]
  HistoryLimit,   \* calls kept in the Calls list (20)
  WatchLimit,     \* calls that can be watched (16)
  MaxGestures,    \* bound: gestures of the user in a behaviour
  None

\* What identifies a deployment, a contract on the page, the deployed one, a call.
Keys == [source : Sources, epoch : Nat, backend : {"solc", "sonatina"}]
Deployments == [id : Nat, contract : Contracts]
Sessions == [id : Nat, contract : Contracts, key : Keys, calls : Nat]
ManualCalls == [contract : Contracts, simulate : BOOLEAN]

ASSUME FactsAssumption ==
  /\ InitialSource \in Sources
  /\ Facts \in [Sources -> [tests : BOOLEAN, main : BOOLEAN, ok : BOOLEAN,
                            contracts : SUBSET Contracts]]
  /\ HistoryLimit \in Nat \ {0} /\ WatchLimit \in Nat /\ MaxGestures \in Nat
  /\ None \notin Sources \cup Contracts \cup Nat
  /\ None \notin Deployments /\ None \notin Sessions /\ None \notin ManualCalls

VARIABLES
  store,           \* the zustand store
  compileRun,      \* token of the newest operation
  watchRun,        \* token of the newest read of the watches
  nextId,          \* CompileClient.nextId
  latestId,        \* CompileClient.latestId
  pending,         \* CompileClient.pending, with what awaits each promise
  pendingWatches,  \* CompileClient.pendingWatches, likewise
  queue,           \* messages the worker has not served
  replies,         \* answers the page has not handled
  runtime,         \* what the worker has loaded
  session,         \* SESSION: the deployed contract
  nextSandbox,     \* NEXT_ID
  effect,          \* the discovery effect of the last render
  gestures         \* gestures so far, for the bound

client == <<nextId, latestId, pending, pendingWatches, queue>>
worker == <<runtime, session, nextSandbox>>
vars == <<store, compileRun, watchRun, client, replies, worker, effect, gestures>>

Backends == {"solc", "sonatina"}

\* The store with a workspace and a freshExecutionState.
FreshStore(source, backend, version, epoch) ==
  [source |-> source, backend |-> backend, workspaceVersion |-> version,
   sandboxEpoch |-> epoch,
   testCases |-> FALSE, contracts |-> {}, hasMain |-> FALSE, discoveryVersion |-> None,
   sandbox |-> None, sandboxVersion |-> None, sandboxAction |-> None,
   manualResult |-> None, recentActions |-> <<>>, actionSequence |-> 0,
   testRun |-> None,
   watches |-> {}, watchValues |-> <<>>, watchVersion |-> None, watchEpoch |-> None,
   watchAction |-> None, watchLoading |-> FALSE,
   compiling |-> FALSE, result |-> None, lastCompiledVersion |-> None]

Init ==
  /\ store = FreshStore(InitialSource, "solc", 0, 0)
  /\ compileRun = 0 /\ watchRun = 0
  /\ nextId = 1 /\ latestId = 0 /\ pending = {} /\ pendingWatches = {}
  /\ queue = <<>> /\ replies = <<>>
  /\ runtime = [wasm |-> "unloaded", solc |-> FALSE]
  /\ session = None /\ nextSandbox = 1
  /\ effect = [version |-> None, source |-> None, compiling |-> FALSE, armed |-> FALSE]
  /\ gestures = 0

-----------------------------------------------------------------------------
(* The client. *)

\* What identifies a deployment: the files, the epochs and the backend.
SandboxKey(s) ==
  [source |-> s.source, epoch |-> s.sandboxEpoch + s.workspaceVersion, backend |-> s.backend]

SameClass(p, kind) == (p.kind = "discover") = (kind = "discover")

Message(id, kind, key, test, call, watches) ==
  [id |-> id, kind |-> kind, key |-> key, test |-> test, call |-> call, watches |-> watches]

\* What awaits the promise of an operation, and that of a discovery.
Operation(id, kind, run, version, testing, call) ==
  [id |-> id, kind |-> kind, run |-> run, version |-> version, call |-> call,
   testing |-> testing, manual |-> kind = "run" /\ ~testing, active |-> FALSE]
Discoverer(id, version) ==
  [id |-> id, kind |-> "discover", run |-> 0, version |-> version, call |-> None,
   testing |-> FALSE, manual |-> FALSE, active |-> TRUE]

\* CompileClient.request: a newer request of its class aborts the pending one,
\* and an aborted operation ends without a word.
Request(message, waiting) ==
  /\ nextId' = nextId + 1
  /\ latestId' = IF message.kind = "discover" THEN latestId ELSE nextId
  /\ pending' = {p \in pending : ~SameClass(p, message.kind)} \cup {waiting}
  /\ queue' = Append(queue, message)

\* refreshWatches, called when the store holds s.
RefreshWatches(s) ==
  LET watches == {w \in s.watches : s.sandbox # None /\ w = s.sandbox.contract}
  IN  /\ watchRun' = watchRun + 1
      /\ IF s.compiling \/ s.sandbox = None \/ s.sandboxVersion # s.workspaceVersion \/ watches = {}
         THEN /\ store' = [s EXCEPT !.watchLoading = FALSE]
              /\ UNCHANGED <<nextId, pendingWatches, queue>>
         ELSE /\ store' = [s EXCEPT !.watchLoading = TRUE]
              /\ nextId' = nextId + 1
              /\ pendingWatches' = {[id |-> nextId, run |-> watchRun + 1, watches |-> watches,
                                     version |-> s.workspaceVersion, epoch |-> s.sandboxEpoch,
                                     sandbox |-> s.sandbox, action |-> s.sandboxAction]}
              /\ queue' = Append(queue, Message(nextId, "watch", SandboxKey(s), FALSE, None, watches))

-----------------------------------------------------------------------------
(* Gestures of the user. *)

Gesture == /\ gestures < MaxGestures
           /\ gestures' = gestures + 1
           /\ UNCHANGED <<replies, worker, effect>>

\* Every button that starts or resets something is disabled while compiling.
ControlsEnabled == ~store.compiling

\* executeWorkspace: kind is "compile" or "run"; test: a test was selected; call:
\* the manual call or None.  A run that is not a test belongs to the manual session.
ExecuteWorkspace(kind, test, call) ==
  LET testing == kind = "run" /\ call = None /\ (test \/ store.testCases)
      manual == kind = "run" /\ ~testing
  IN  /\ compileRun' = compileRun + 1
      /\ watchRun' = IF manual THEN watchRun + 1 ELSE watchRun
      /\ store' = [store EXCEPT !.compiling = TRUE,
                     !.watchLoading = IF manual THEN FALSE ELSE @,
                     !.manualResult = IF manual THEN None ELSE @,
                     !.testRun = IF testing THEN None ELSE @]
      /\ Request(Message(nextId, kind, SandboxKey(store), test, call, {}),
                 Operation(nextId, kind, compileRun + 1, store.workspaceVersion, testing, call))
      /\ UNCHANGED pendingWatches

\* The compile button; once compiled it opens the bytecode instead.
CompileNow ==
  /\ Gesture /\ ControlsEnabled
  /\ ~ (store.lastCompiledVersion = store.workspaceVersion
          /\ store.result # None /\ store.result.success)
  /\ ExecuteWorkspace("compile", FALSE, None)

\* All tests, or one of the listed ones.
RunTests(one) ==
  /\ Gesture /\ ControlsEnabled
  /\ store.testCases
  /\ ExecuteWorkspace("run", one, None)

Discovered == store.discoveryVersion = store.workspaceVersion

\* Mutant: the Run button does not wait for discovery.
MainOffered == store.hasMain /\ ~store.testCases /\ store.contracts = {}

\* The Run button of a program without tests or callable contracts.
MainEnabled == Discovered /\ store.hasMain /\ ~store.testCases /\ store.contracts = {}

RunMain ==
  /\ Gesture /\ ControlsEnabled
  /\ MainEnabled
  /\ ExecuteWorkspace("run", FALSE, None)

RunCall(contract, simulate) ==
  /\ Gesture /\ ControlsEnabled
  /\ contract \in store.contracts
  /\ ExecuteWorkspace("run", FALSE, [contract |-> contract, simulate |-> simulate])

\* resetSandbox as a change of the store s.
SandboxReset(s) ==
  [s EXCEPT !.sandbox = None, !.sandboxVersion = None, !.sandboxEpoch = @ + 1,
            !.sandboxAction = None, !.watchAction = None, !.manualResult = None,
            !.actionSequence = 0, !.recentActions = <<>>,
            !.watchValues = <<>>, !.watchVersion = None, !.watchEpoch = None,
            !.watchLoading = FALSE]

ResetSandbox ==
  /\ Gesture /\ ControlsEnabled
  /\ store.sandbox # None
  /\ watchRun' = watchRun + 1
  /\ store' = SandboxReset(store)
  /\ UNCHANGED <<compileRun, client>>

\* Mutant: the operation is abandoned but the page still says it compiles.
SetBackendWhileCompiling(backend) ==
  /\ Gesture
  /\ store.backend # backend
  /\ compileRun' = compileRun + 1
  /\ watchRun' = watchRun + 1
  /\ store' = [SandboxReset(store) EXCEPT
                 !.backend = backend, !.result = None, !.lastCompiledVersion = None,
                 !.testRun = None]
  /\ UNCHANGED client

SetBackend(backend) ==
  /\ Gesture
  /\ store.backend # backend
  /\ compileRun' = compileRun + 1
  /\ watchRun' = watchRun + 1
  /\ store' = [SandboxReset(store) EXCEPT
                 !.backend = backend, !.result = None, !.lastCompiledVersion = None,
                 !.compiling = FALSE, !.testRun = None]
  /\ UNCHANGED client

\* Setting the content of a file, creating, renaming or deleting one, choosing
\* the entry; a rename to the same name leaves the source as it is.
Edit(source) ==
  /\ Gesture
  /\ store' = [store EXCEPT !.source = source, !.workspaceVersion = @ + 1]
  /\ UNCHANGED <<compileRun, watchRun, client>>

\* Loading an example and resetting the workspace.
ReplaceExample(source) ==
  /\ Gesture
  /\ compileRun' = compileRun + 1
  /\ store' = FreshStore(source, store.backend, store.workspaceVersion + 1, store.sandboxEpoch + 1)
  /\ UNCHANGED <<watchRun, client>>

AddWatch(watch) ==
  /\ Gesture
  /\ Cardinality(store.watches) < WatchLimit /\ watch \notin store.watches
  /\ RefreshWatches([store EXCEPT !.watches = @ \cup {watch}])
  /\ UNCHANGED <<compileRun, latestId, pending>>

RemoveWatch(watch) ==
  /\ Gesture
  /\ watch \in store.watches
  /\ store' = [store EXCEPT !.watches = @ \ {watch}]
  /\ UNCHANGED <<compileRun, watchRun, client>>

-----------------------------------------------------------------------------
(* Discovery of tests: an effect of each render that differs from the last    *)
(* one in the workspace or in compiling, with a delay of 500 ms.              *)

\* The effect is cleaned up and, unless the page compiles, armed again.
DiscoveryEffect ==
  /\ <<effect.version, effect.compiling>> # <<store.workspaceVersion, store.compiling>>
  /\ effect' = [version |-> store.workspaceVersion, source |-> store.source,
                compiling |-> store.compiling, armed |-> ~store.compiling]
  /\ pending' = {IF p.kind = "discover" THEN [p EXCEPT !.active = FALSE] ELSE p : p \in pending}
  /\ UNCHANGED <<store, compileRun, watchRun, nextId, latestId, pendingWatches, queue,
                 replies, worker, gestures>>

\* What a discovery stores, if its effect is still the current one.
Discovery(s, p, tests, contracts, main) ==
  IF p.active /\ p.version = s.workspaceVersion
  THEN [s EXCEPT !.testCases = tests, !.contracts = contracts, !.hasMain = main,
                 !.discoveryVersion = p.version]
  ELSE s

DiscoveryTimer ==
  /\ effect.armed
  /\ effect' = [effect EXCEPT !.armed = FALSE]
  /\ Request(Message(nextId, "discover", [source |-> effect.source, epoch |-> 0, backend |-> "solc"],
                     FALSE, None, {}),
             Discoverer(nextId, effect.version))
  /\ store' = LET superseded == {p \in pending : p.kind = "discover" /\ p.active}
              IN  IF superseded = {} THEN store
                  ELSE Discovery(store, CHOOSE p \in superseded : TRUE, FALSE, {}, FALSE)
  /\ UNCHANGED <<compileRun, watchRun, pendingWatches, replies, worker, gestures>>

-----------------------------------------------------------------------------
(* The worker.  It serves one request after another; a request waits for the  *)
(* compiler, loaded once for good or ill, and for solc, whose failed load is  *)
(* tried again by the next request.                                           *)

NeedsSolc(request) == request.kind \in {"compile", "run"} /\ request.key.backend = "solc"

Info(deployed, key) ==
  IF deployed # None /\ deployed.key = key
  THEN [id |-> deployed.id, contract |-> deployed.contract] ELSE None

Reply(answer) == replies' = Append(replies, answer)

ResultOf(request, deployed, committed) ==
  LET facts == Facts[request.key.source]
  IN  [id |-> request.id, kind |-> "result", key |-> request.key, success |-> facts.ok,
       tests |-> facts.tests, contracts |-> facts.contracts, main |-> facts.main,
       ranTests |-> request.kind = "run" /\ request.call = None /\ facts.ok
                      /\ (request.test \/ facts.tests),
       sandbox |-> IF request.kind = "run" THEN Info(deployed, request.key) ELSE None,
       committed |-> committed]

\* A compilation, a discovery, a run of the tests or of main: each deploys what
\* it needs in an instance of its own.
Compile(request) ==
  /\ request.kind # "watch" /\ request.call = None
  /\ Reply(ResultOf(request, session, FALSE))
  /\ UNCHANGED <<session, nextSandbox>>

NeedsDeployment(request) ==
  ~ (session # None /\ session.key = request.key /\ session.contract = request.call.contract)

\* A manual call.  Its arguments decide how it ends: rejected before anything is
\* touched, undeployed, reverted or succeeded.
Call(request) ==
  /\ request.kind = "run" /\ request.call # None
  /\ LET callable == Facts[request.key.source].ok
                       /\ request.call.contract \in Facts[request.key.source].contracts
         target == IF NeedsDeployment(request)
                   THEN [id |-> nextSandbox, contract |-> request.call.contract,
                         key |-> request.key, calls |-> 0]
                   ELSE session
     IN  \/ /\ UNCHANGED <<session, nextSandbox>>                     \* rejected
            /\ Reply(ResultOf(request, session, FALSE))
         \/ /\ callable /\ NeedsDeployment(request)                   \* undeployed
            /\ session' = None /\ nextSandbox' = nextSandbox + 1
            /\ Reply(ResultOf(request, None, FALSE))
         \/ \E succeeded \in BOOLEAN :
            LET commits == succeeded /\ ~request.call.simulate
            IN  /\ callable
                /\ session' = [target EXCEPT !.calls = @ + IF commits THEN 1 ELSE 0]
                /\ nextSandbox' = IF NeedsDeployment(request) THEN nextSandbox + 1 ELSE nextSandbox
                /\ Reply(ResultOf(request, target, commits))

\* Reading the watches commits nothing; None stands for an error.
Watch(request) ==
  /\ request.kind = "watch"
  /\ Reply([id |-> request.id, kind |-> "watch-result",
       values |-> [w \in request.watches |->
         IF session # None /\ session.key = request.key /\ session.contract = w
         THEN session.calls ELSE None]])
  /\ UNCHANGED <<session, nextSandbox>>

\* What can be loaded once the request has waited for it.
Loads(request) ==
  {l \in [wasm : IF runtime.wasm = "unloaded" THEN {"ready", "failed"} ELSE {runtime.wasm},
          solc : BOOLEAN] :
     l.solc # runtime.solc => l.solc /\ l.wasm = "ready" /\ NeedsSolc(request)}

Serve ==
  /\ queue # <<>> /\ runtime.wasm # "dead"
  /\ runtime' \in Loads(Head(queue))
  /\ IF runtime'.wasm = "failed" \/ (NeedsSolc(Head(queue)) /\ ~runtime'.solc)
     THEN Reply([id |-> Head(queue).id, kind |-> "error"]) /\ UNCHANGED <<session, nextSandbox>>
     ELSE Compile(Head(queue)) \/ Call(Head(queue)) \/ Watch(Head(queue))
  /\ queue' = Tail(queue)
  /\ UNCHANGED <<store, compileRun, watchRun, nextId, latestId, pending, pendingWatches,
                 effect, gestures>>

-----------------------------------------------------------------------------
(* The page handles an answer; what awaited it continues at once.             *)

\* The Calls list with one more action, the oldest dropped at the limit.
Recorded(s, action) ==
  LET all == Append(s.recentActions, action)
  IN  IF Len(all) > HistoryLimit THEN Tail(all) ELSE all

\* What the outcome r of p changes of the manual session.
ManualShown(s, p, r) ==
  [s EXCEPT !.sandbox = r.sandbox, !.sandboxVersion = p.version,
     !.manualResult = IF p.call # None THEN p.version ELSE @,
     !.actionSequence = @ + 1,
     !.sandboxAction = IF r.sandbox = None THEN None ELSE s.actionSequence + 1,
     !.recentActions = Recorded(s, [version |-> p.version, committed |-> r.committed,
                         sandbox |-> IF r.sandbox = None THEN None ELSE r.sandbox.id])]

\* The outcome r of the operation p.
Settled(s, p, r) ==
  LET current == p.version = s.workspaceVersion
      shown == [s EXCEPT !.compiling = FALSE, !.lastCompiledVersion = p.version,
                  !.result = [key |-> r.key, success |-> r.success],
                  !.testCases = IF current THEN r.tests ELSE @,
                  !.contracts = IF current THEN r.contracts ELSE @,
                  !.hasMain = IF current THEN r.main ELSE @,
                  !.discoveryVersion = IF current THEN p.version ELSE @,
                  !.testRun = IF p.testing THEN p.version ELSE @]
  IN  IF p.manual THEN ManualShown(shown, p, r) ELSE shown

\* The failure of the operation p: an error of the client takes the result's place.
Failed(s, p) ==
  LET shown == [s EXCEPT !.compiling = FALSE, !.lastCompiledVersion = p.version,
                  !.result = [key |-> None, success |-> FALSE],
                  !.testRun = IF p.testing THEN p.version ELSE @]
  IN  IF p.manual
      THEN [shown EXCEPT !.actionSequence = @ + 1,
              !.recentActions = Recorded(s, [version |-> p.version, committed |-> FALSE,
                                             sandbox |-> None])]
      ELSE shown

\* Mutant: the answer to an abandoned operation counts.
AnyRun(p) == p.id = latestId

\* Whether the operation p is the newest one.
IsNewest(p) == p.run = compileRun

\* Whether what p read still describes the contract on the page.
StillCurrent(s, p) ==
  /\ p.run = watchRun
  /\ p.version = s.workspaceVersion /\ p.epoch = s.sandboxEpoch
  /\ s.sandbox # None /\ p.sandbox.id = s.sandbox.id

\* The watches of p are read as values; an error (keep = FALSE) moves no action.
WatchesRead(s, p, values, keep) ==
  LET done == [s EXCEPT !.watchLoading = IF p.run = watchRun THEN FALSE ELSE @]
  IN  IF StillCurrent(s, p)
      THEN [done EXCEPT !.watchValues = values, !.watchVersion = p.version,
              !.watchEpoch = p.epoch, !.watchAction = IF keep THEN p.action ELSE @]
      ELSE done

HandleWatch(p, r) ==
  /\ pendingWatches' = pendingWatches \ {p}
  /\ store' = IF r.kind = "watch-result"
              THEN WatchesRead(store, p, [w \in p.watches \cap store.watches |-> r.values[w]], TRUE)
              ELSE WatchesRead(store, p, [w \in p.watches |-> None], FALSE)
  /\ UNCHANGED <<watchRun, nextId, pending, queue>>

HandleDiscovery(p, r) ==
  /\ store' = IF r.kind = "result" THEN Discovery(store, p, r.tests, r.contracts, r.main)
              ELSE Discovery(store, p, FALSE, {}, FALSE)
  /\ UNCHANGED <<watchRun, nextId, pendingWatches, queue>>

HandleOperation(p, r) ==
  IF p.id = latestId /\ IsNewest(p)
  THEN IF r.kind = "result"
       THEN IF p.manual
            THEN RefreshWatches(Settled(store, p, r))
            ELSE store' = Settled(store, p, r) /\ UNCHANGED <<watchRun, nextId, pendingWatches, queue>>
       ELSE store' = Failed(store, p) /\ UNCHANGED <<watchRun, nextId, pendingWatches, queue>>
  ELSE UNCHANGED <<store, watchRun, nextId, pendingWatches, queue>>

\* CompileClient.handleMessage; an answer nobody awaits is dropped.
HandleMessage ==
  /\ replies # <<>>
  /\ replies' = Tail(replies)
  /\ UNCHANGED <<compileRun, latestId, worker, effect, gestures>>
  /\ LET r == Head(replies)
     IN  \/ \E p \in pendingWatches : p.id = r.id /\ HandleWatch(p, r)
         \/ \E p \in pending :
              /\ p.id = r.id
              /\ pending' = pending \ {p}
              /\ IF p.kind = "discover" THEN HandleDiscovery(p, r) ELSE HandleOperation(p, r)
         \/ /\ \A p \in pendingWatches \cup pending : p.id # r.id
            /\ UNCHANGED <<store, watchRun, nextId, pending, pendingWatches, queue>>

\* CompileClient.handleWorkerError: the worker's script cannot be loaded.  What
\* is pending fails; what is sent later is never served.
HandleWorkerError ==
  /\ runtime.wasm = "unloaded"
  /\ runtime' = [runtime EXCEPT !.wasm = "dead"]
  /\ pending' = {} /\ pendingWatches' = {}
  /\ LET operations == {p \in pending : p.kind # "discover" /\ IsNewest(p)}
         discoveries == {p \in pending : p.kind = "discover"}
         s == IF operations = {} THEN store
              ELSE Failed(store, CHOOSE p \in operations : TRUE)
     IN  store' = IF discoveries = {} THEN s
                  ELSE Discovery(s, CHOOSE p \in discoveries : TRUE, FALSE, {}, FALSE)
  /\ UNCHANGED <<compileRun, watchRun, nextId, latestId, queue, replies, session, nextSandbox,
                 effect, gestures>>

-----------------------------------------------------------------------------
UserGesture ==
  \/ CompileNow \/ RunMain \/ ResetSandbox
  \/ \E one \in BOOLEAN : RunTests(one)
  \/ \E contract \in Contracts, simulate \in BOOLEAN : RunCall(contract, simulate)
  \/ \E backend \in Backends : SetBackend(backend)
  \/ \E source \in Sources : Edit(source) \/ ReplaceExample(source)
  \/ \E watch \in Contracts : AddWatch(watch) \/ RemoveWatch(watch)

Machine == DiscoveryEffect \/ DiscoveryTimer \/ Serve \/ HandleMessage

Next == UserGesture \/ Machine \/ HandleWorkerError

\* The browser runs effects, timers and message handlers; the user may rest.
FairSpec ==
  /\ Init /\ [][Next]_vars
  /\ WF_vars(DiscoveryEffect) /\ WF_vars(DiscoveryTimer)
  /\ WF_vars(Serve) /\ WF_vars(HandleMessage)

-----------------------------------------------------------------------------
(* Everything the page and the worker keep has the shape the code gives it;    *)
(* each class of request has at most one promise pending, an operation's is    *)
(* the latest, and no more calls or watches are kept than the limits allow.    *)
TypeOK ==
  /\ store.source \in Sources /\ store.backend \in Backends
  /\ {store.workspaceVersion, store.sandboxEpoch, store.actionSequence} \subseteq Nat
  /\ {store.compiling, store.watchLoading, store.testCases, store.hasMain} \subseteq BOOLEAN
  /\ {store.discoveryVersion, store.sandboxVersion, store.lastCompiledVersion, store.watchVersion}
       \subseteq (0 .. store.workspaceVersion) \cup {None}
  /\ Len(store.recentActions) <= HistoryLimit
  /\ store.watches \subseteq Contracts /\ Cardinality(store.watches) <= WatchLimit
  /\ DOMAIN store.watchValues \subseteq Contracts
  /\ Cardinality(pendingWatches) <= 1
  /\ \A p, q \in pending : SameClass(p, q.kind) => p = q
  /\ \A p \in pending : p.kind # "discover" => p.id = latestId
  /\ session # None => session.id < nextSandbox

Ready == /\ store.sandbox # None /\ store.sandboxVersion = store.workspaceVersion
         /\ ~store.compiling

(* CallControls says "<contract> is ready. Each call continues from here." for  *)
(* a sandbox of the present version.  That is true: the worker still holds that *)
(* deployment and the next call's key selects it, whatever was edited, reset,   *)
(* switched, superseded or failed on the way.                                   *)
ReadyIsLive ==
  Ready => /\ session # None
           /\ Info(session, SandboxKey(store)) = store.sandbox

(* "Each click calls this function once. Changes are kept until you reset the   *)
(* contract": the committed calls of the contract on the page are exactly those *)
(* of the Calls list, as long as the list has dropped none.                     *)
HistoryIsTheSession ==
  Ready /\ Len(store.recentActions) < HistoryLimit =>
    session.calls = Cardinality({i \in DOMAIN store.recentActions :
      store.recentActions[i].sandbox = store.sandbox.id /\ store.recentActions[i].committed})

(* The panes show a result when its version is the workspace's: it then comes   *)
(* from the present files and the chosen backend, however late it arrived.      *)
ShownResultIsCurrent ==
  store.result # None /\ store.lastCompiledVersion = store.workspaceVersion
    => \/ store.result.key = None
       \/ <<store.result.key.source, store.result.key.backend>> = <<store.source, store.backend>>

(* "A source change starts a new deployment on the next call": no two calls in  *)
(* the list made at different versions of the source used one deployment, even  *)
(* when an edit was undone.                                                     *)
OneDeploymentPerVersion ==
  \A i, j \in DOMAIN store.recentActions :
    LET a == store.recentActions[i]
        b == store.recentActions[j]
    IN  a.sandbox # None /\ a.sandbox = b.sandbox => a.version = b.version

(* What the page takes for the tests, contracts and main of the present version *)
(* is what the compiler finds in the present files, unless the compiler cannot  *)
(* be loaded at all.                                                            *)
DiscoveredIsCurrent ==
  Discovered /\ runtime.wasm \notin {"failed", "dead"} =>
    LET facts == Facts[store.source]
    IN  <<store.testCases, store.contracts, store.hasMain>> = <<facts.tests, facts.contracts, facts.main>>

(* A value shown for a watch, marked as read at the present version, epoch and  *)
(* action, is what the contract on the page returns now.                        *)
WatchValuesAreCurrent ==
  /\ Ready
  /\ store.watchVersion = store.workspaceVersion /\ store.watchEpoch = store.sandboxEpoch
  /\ store.watchAction = store.sandboxAction
  => \A w \in DOMAIN store.watchValues :
       store.watchValues[w] \in {None, session.calls}

(* What the page says of its contract, calls, results, tests and watches is    *)
(* true of the worker and of the present files.                                *)
PageIsTruthful ==
  /\ TypeOK
  /\ ReadyIsLive /\ HistoryIsTheSession /\ OneDeploymentPerVersion
  /\ ShownResultIsCurrent /\ DiscoveredIsCurrent /\ WatchValuesAreCurrent

ManualSession(s) == <<s.sandbox, s.sandboxVersion, s.sandboxAction, s.recentActions,
                      s.manualResult, s.watchValues>>

(* "Running tests never replaces or changes the contract in Try calls": an      *)
(* answer of a worker that ran tests leaves the manual session of the page as   *)
(* it was.                                                                      *)
TestsLeaveManualSession ==
  [][replies # <<>> /\ replies' = Tail(replies)
       /\ Head(replies).kind = "result" /\ Head(replies).ranTests
     => ManualSession(store') = ManualSession(store)]_vars

(* Once the user rests the page comes to rest: nothing compiles or loads and    *)
(* the present version is discovered, unless the worker could not be started.   *)
PageSettles ==
  <>[](\/ runtime.wasm = "dead"
       \/ ~store.compiling /\ ~store.watchLoading /\ Discovered)
=============================================================================
