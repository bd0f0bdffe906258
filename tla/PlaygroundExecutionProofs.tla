-------------------- MODULE PlaygroundExecutionProofs --------------------
(***************************************************************************)
(* Proofs about PlaygroundExecution: that what the page says of its        *)
(* contract, calls, results, tests and watches is true of the worker and   *)
(* of the present files, and that answers that ran tests leave the manual  *)
(* session alone.                                                          *)
(*                                                                         *)
(* PageIsTruthful says nothing while the page compiles, which is when the  *)
(* worker changes; and requests, answers and promises are in it nowhere.   *)
(* Inv says what they carry.  Identifiers grow from the promises to the    *)
(* queue and the answers (IdsInv), each promise knows what it asked        *)
(* (AskedInv: an operation's key is the page's as long as the page still   *)
(* waits for it, and an answer's deployment is the worker's until the page *)
(* has it), and a call in the queue either is the one the page waits for   *)
(* or has a key that no later state of the page can have again (CallInv:   *)
(* epoch plus version only grow).  So the worker's contract and the page's *)
(* agree, and its calls are those of the list, unless the awaited answer   *)
(* is on its way (InFlight); then its call is the one not yet counted      *)
(* (HistInv).                                                              *)
(***************************************************************************)
EXTENDS PlaygroundExecution, FiniteSetTheorems, TLAPS

-----------------------------------------------------------------------------
(* Types. *)

Actions == [version : Nat, committed : BOOLEAN, sandbox : Nat \cup {None}]
Versions(s) == (0 .. s.workspaceVersion) \cup {None}

Messages == [id : Nat, kind : {"compile", "run", "discover", "watch"}, key : Keys,
             test : BOOLEAN, call : ManualCalls \cup {None}, watches : SUBSET Contracts]
Operations == [id : Nat, kind : {"compile", "run", "discover"}, run : Nat, version : Nat,
               call : ManualCalls \cup {None}, testing : BOOLEAN, manual : BOOLEAN,
               active : BOOLEAN]
Reads == [id : Nat, run : Nat, watches : SUBSET Contracts, version : Nat, epoch : Nat,
          sandbox : Deployments, action : Nat]

Errors == [id : Nat, kind : {"error"}]
Results == {r \in [id : Nat, kind : {"result"}, key : Keys, success : BOOLEAN,
                   tests : BOOLEAN, contracts : SUBSET Contracts, main : BOOLEAN,
                   ranTests : BOOLEAN, sandbox : Deployments \cup {None}, committed : BOOLEAN] :
              /\ r.tests = Facts[r.key.source].tests
              /\ r.contracts = Facts[r.key.source].contracts
              /\ r.main = Facts[r.key.source].main}
Readings == [id : Nat, kind : {"watch-result"}, values : UNION {[W -> Nat \cup {None}] : W \in SUBSET Contracts}]
Answers == Errors \cup Results \cup Readings

IsStore(s) ==
  s = [source |-> s.source, backend |-> s.backend, workspaceVersion |-> s.workspaceVersion,
       sandboxEpoch |-> s.sandboxEpoch, testCases |-> s.testCases, contracts |-> s.contracts,
       hasMain |-> s.hasMain, discoveryVersion |-> s.discoveryVersion,
       sandbox |-> s.sandbox, sandboxVersion |-> s.sandboxVersion,
       sandboxAction |-> s.sandboxAction, manualResult |-> s.manualResult,
       recentActions |-> s.recentActions, actionSequence |-> s.actionSequence,
       testRun |-> s.testRun, watches |-> s.watches, watchValues |-> s.watchValues,
       watchVersion |-> s.watchVersion, watchEpoch |-> s.watchEpoch,
       watchAction |-> s.watchAction, watchLoading |-> s.watchLoading,
       compiling |-> s.compiling, result |-> s.result,
       lastCompiledVersion |-> s.lastCompiledVersion]

StoreTyped(s) ==
  /\ IsStore(s)
  /\ s.source \in Sources /\ s.backend \in Backends
  /\ s.workspaceVersion \in Nat /\ s.sandboxEpoch \in Nat /\ s.actionSequence \in Nat
  /\ s.compiling \in BOOLEAN /\ s.watchLoading \in BOOLEAN
  /\ s.testCases \in BOOLEAN /\ s.hasMain \in BOOLEAN /\ s.contracts \in SUBSET Contracts
  /\ s.discoveryVersion \in Versions(s) /\ s.sandboxVersion \in Versions(s)
  /\ s.lastCompiledVersion \in Versions(s) /\ s.watchVersion \in Versions(s)
  /\ s.sandbox \in Deployments \cup {None}
  /\ s.sandbox # None => s.sandboxAction \in 0 .. s.actionSequence
  /\ s.watchAction \in (0 .. s.actionSequence) \cup {None}
  /\ s.recentActions \in Seq(Actions) /\ Len(s.recentActions) <= HistoryLimit
  /\ s.watches \in SUBSET Contracts
  /\ IsFiniteSet(s.watches) /\ Cardinality(s.watches) <= WatchLimit
  /\ DOMAIN s.watchValues \subseteq Contracts

TypeInv ==
  /\ StoreTyped(store)
  /\ compileRun \in Nat /\ watchRun \in Nat
  /\ nextId \in Nat \ {0} /\ latestId \in Nat
  /\ pending \in SUBSET Operations /\ pendingWatches \in SUBSET Reads
  /\ queue \in Seq(Messages) /\ replies \in Seq(Answers)
  /\ runtime \in [wasm : {"unloaded", "ready", "failed", "dead"}, solc : BOOLEAN]
  /\ session \in Sessions \cup {None} /\ nextSandbox \in Nat
  /\ session # None => session.id < nextSandbox
  /\ effect \in [version : Nat \cup {None}, source : Sources \cup {None},
                 compiling : BOOLEAN, armed : BOOLEAN]
  /\ effect.version \in Versions(store)
  /\ effect.armed => effect.version # None
  /\ effect.version # None => effect.source \in Sources

-----------------------------------------------------------------------------
(* The inductive invariant. *)

\* Identifiers grow along the way from the page to the worker and back.
IdsInv ==
  /\ latestId < nextId
  /\ \A i \in DOMAIN queue : queue[i].id < nextId
  /\ \A i \in DOMAIN replies : replies[i].id < nextId
  /\ \A i, j \in DOMAIN queue : i < j => queue[i].id < queue[j].id
  /\ \A i, j \in DOMAIN replies : i < j => replies[i].id < replies[j].id
  /\ \A i \in DOMAIN replies, j \in DOMAIN queue : replies[i].id < queue[j].id
  /\ \A i \in DOMAIN queue : queue[i].kind \in {"compile", "run"} => queue[i].id <= latestId
  /\ \A p \in pending : p.id < nextId
  /\ \A q \in pendingWatches : q.id < nextId

\* At most one promise of each class is awaited.
ClassInv ==
  /\ \A p \in pending : p.kind # "discover" <=> p.id = latestId
  /\ \A p, q \in pending : SameClass(p, q.kind) => p = q
  /\ \A p, q \in pendingWatches : p = q
  /\ \A p \in pending, q \in pendingWatches : p.id # q.id

\* The operation p is one the page still waits for.
Awaited(p) == p.kind # "discover" /\ p.run = compileRun

AwaitInv ==
  /\ \A p \in pending : p.run <= compileRun /\ p.version <= store.workspaceVersion
  /\ \A p \in pending : Awaited(p) => store.compiling
  /\ \A q \in pendingWatches : q.run <= watchRun /\ q.version <= store.workspaceVersion
  /\ \A p \in pending, q \in pendingWatches : Awaited(p) /\ p.manual => q.run # watchRun
  /\ \A q \in pendingWatches : q.epoch <= store.sandboxEpoch
  /\ \A q \in pendingWatches : q.epoch = store.sandboxEpoch => q.action <= store.actionSequence

\* What p was asked about, by its key.
Keyed(p, key) ==
  /\ Awaited(p) => /\ key.epoch = store.sandboxEpoch + p.version
                   /\ p.version = store.workspaceVersion => key = SandboxKey(store)
  /\ p.kind = "discover" /\ p.version = store.workspaceVersion => key.source = store.source

Asked(p, m) ==
  /\ p.kind = m.kind /\ p.call = m.call
  /\ m.test => p.testing
  /\ p.manual => p.kind = "run" /\ ~p.testing
  /\ m.call # None => p.manual
  /\ p.manual /\ m.call = None =>
       ~Facts[m.key.source].tests \/ runtime.wasm \in {"failed", "dead"}
  /\ Keyed(p, m.key)

Answered(p, r) ==
  /\ r.kind \in {"result", "error"}
  /\ r.kind = "error" /\ p.kind = "discover" => runtime.wasm = "failed"
  /\ r.kind = "result" => Keyed(p, r.key) /\ (p.manual => ~r.ranTests)
  /\ r.kind = "result" /\ Awaited(p) /\ p.manual =>
       /\ r.sandbox = Info(session, r.key)
       /\ r.committed => session # None /\ session.key = r.key

AskedInv ==
  /\ \A i \in DOMAIN queue : \A p \in pending : p.id = queue[i].id => Asked(p, queue[i])
  /\ \A i \in DOMAIN replies : \A p \in pending : p.id = replies[i].id => Answered(p, replies[i])

\* Nothing happens before the compiler is loaded.
WasmInv ==
  runtime.wasm # "ready" =>
    /\ session = None /\ store.sandbox = None
    /\ \A i \in DOMAIN replies : replies[i].kind = "error"

Sum(s) == s.sandboxEpoch + s.workspaceVersion

\* A call on its way is the one the page waits for, or its key is out of date.
CallInv ==
  /\ session # None => session.key.epoch <= Sum(store)
  /\ \A i \in DOMAIN queue : queue[i].call # None =>
       /\ queue[i].kind = "run" /\ queue[i].key.epoch <= Sum(store)
       /\ \/ runtime.wasm = "dead" \/ queue[i].key.epoch < Sum(store)
          \/ \E p \in pending : p.id = queue[i].id /\ Awaited(p)
       /\ store.sandbox # None => \E p \in pending : p.id = queue[i].id /\ Awaited(p)

\* The i-th answer is that of the manual run the page waits for.
IsFlight(i) == /\ replies[i].kind = "result"
               /\ \E p \in pending : p.id = replies[i].id /\ Awaited(p) /\ p.manual
InFlight == \E i \in DOMAIN replies : IsFlight(i)
Uncounted == \E i \in DOMAIN replies : IsFlight(i) /\ replies[i].committed

LiveInv ==
  InFlight \/ (store.sandbox # None /\ store.sandboxVersion = store.workspaceVersion =>
                 session # None /\ Info(session, SandboxKey(store)) = store.sandbox)

Count(actions, id) ==
  Cardinality({i \in DOMAIN actions : actions[i].sandbox = id /\ actions[i].committed})

HistInv ==
  session # None /\ session.key = SandboxKey(store) /\ Len(store.recentActions) < HistoryLimit =>
    session.calls = Count(store.recentActions, session.id) + (IF Uncounted THEN 1 ELSE 0)

\* What the list says of deployments.
RecordInv ==
  /\ \A i \in DOMAIN store.recentActions :
       LET a == store.recentActions[i]
       IN  a.sandbox # None =>
             /\ a.sandbox < nextSandbox
             /\ session # None /\ a.sandbox = session.id =>
                  session.key.epoch = store.sandboxEpoch + a.version
  /\ OneDeploymentPerVersion

WatchInv ==
  \/ InFlight
  \/ store.sandbox # None /\ store.sandboxVersion = store.workspaceVersion
     /\ store.watchVersion = store.workspaceVersion /\ store.watchEpoch = store.sandboxEpoch
     /\ store.watchAction = store.sandboxAction
     => \A w \in DOMAIN store.watchValues : store.watchValues[w] \in {None, session.calls}

ReadInv ==
  /\ \A i \in DOMAIN queue : \A q \in pendingWatches :
       q.id = queue[i].id => queue[i].kind = "watch" /\ queue[i].watches = q.watches
  /\ \A i \in DOMAIN replies : \A q \in pendingWatches :
       q.id = replies[i].id =>
         /\ replies[i].kind \in {"watch-result", "error"}
         /\ replies[i].kind = "watch-result" =>
              /\ DOMAIN replies[i].values = q.watches
              /\ StillCurrent(store, q) =>
                   \A w \in q.watches : replies[i].values[w] \in {None, session.calls}

DiscoveryInv ==
  /\ effect.version = store.workspaceVersion => effect.source = store.source
  /\ effect.armed => \A p \in pending : p.kind = "discover" => ~p.active
  /\ DiscoveredIsCurrent

Inv ==
  /\ TypeInv /\ IdsInv /\ ClassInv /\ AwaitInv /\ AskedInv /\ WasmInv /\ CallInv
  /\ LiveInv /\ HistInv /\ RecordInv /\ WatchInv /\ ReadInv /\ DiscoveryInv
  /\ ShownResultIsCurrent

-----------------------------------------------------------------------------
(* Sequences and sets. *)

\* A sequence with one more element.
LEMMA AppendFacts ==
  ASSUME NEW S, NEW q \in Seq(S), NEW e \in S
  PROVE  /\ Append(q, e) \in Seq(S)
         /\ Len(Append(q, e)) = Len(q) + 1 /\ Len(q) \in Nat
         /\ DOMAIN Append(q, e) = DOMAIN q \cup {Len(q) + 1}
         /\ DOMAIN q \subseteq Nat /\ \A i \in DOMAIN q : i < Len(q) + 1
         /\ \A i \in DOMAIN q : Append(q, e)[i] = q[i]
         /\ Append(q, e)[Len(q) + 1] = e
  OBVIOUS

\* A sequence without its first element.
LEMMA TailFacts ==
  ASSUME NEW S, NEW q \in Seq(S), q # <<>>
  PROVE  /\ Tail(q) \in Seq(S) /\ Len(Tail(q)) = Len(q) - 1 /\ Len(q) \in Nat
         /\ DOMAIN Tail(q) = 1 .. Len(q) - 1 /\ DOMAIN q = 1 .. Len(q)
         /\ 1 \in DOMAIN q /\ Head(q) = q[1] /\ q[1] \in S
         /\ \A i \in DOMAIN Tail(q) : i + 1 \in DOMAIN q /\ Tail(q)[i] = q[i + 1]
  OBVIOUS

\* The members of a tail are members.
LEMMA ElementFacts ==
  ASSUME NEW S, NEW q \in Seq(S), NEW i \in DOMAIN q
  PROVE  q[i] \in S /\ i \in Nat /\ i >= 1 /\ i <= Len(q) /\ Len(q) \in Nat
  OBVIOUS

\* The limit of a list of calls: one more, or none below the limit.
LEMMA RecordedFacts ==
  ASSUME NEW s, NEW a \in Actions, s.recentActions \in Seq(Actions),
         Len(s.recentActions) <= HistoryLimit
  PROVE  /\ Recorded(s, a) \in Seq(Actions) /\ Len(Recorded(s, a)) <= HistoryLimit
         /\ \A i \in DOMAIN Recorded(s, a) :
              Recorded(s, a)[i] = a \/ \E j \in DOMAIN s.recentActions : Recorded(s, a)[i] = s.recentActions[j]
         /\ Len(Recorded(s, a)) < HistoryLimit =>
              Recorded(s, a) = Append(s.recentActions, a) /\ Len(s.recentActions) < HistoryLimit
<1> DEFINE q == s.recentActions
           all == Append(q, a)
<1>1. /\ all \in Seq(Actions) /\ Len(all) = Len(q) + 1 /\ Len(q) \in Nat
      /\ DOMAIN all = DOMAIN q \cup {Len(q) + 1}
      /\ \A i \in DOMAIN q : all[i] = q[i]
      /\ all[Len(q) + 1] = a
  BY AppendFacts
<1>2. Recorded(s, a) = IF Len(all) > HistoryLimit THEN Tail(all) ELSE all
  BY DEF Recorded
<1>3. HistoryLimit \in Nat /\ HistoryLimit >= 1
  BY FactsAssumption
<1>4. Len(q) <= HistoryLimit
  OBVIOUS
<1> HIDE DEF all
<1>5. CASE Len(all) > HistoryLimit
  <2>1. all # <<>>
    BY <1>1
  <2>2. /\ Tail(all) \in Seq(Actions) /\ Len(Tail(all)) = Len(all) - 1
        /\ \A i \in DOMAIN Tail(all) : i + 1 \in DOMAIN all /\ Tail(all)[i] = all[i + 1]
    BY <1>1, <2>1, TailFacts
  <2>3. Len(Tail(all)) = HistoryLimit
    BY <2>2, <1>1, <1>3, <1>4, <1>5
  <2>4. \A i \in DOMAIN Tail(all) : Tail(all)[i] = a \/ \E j \in DOMAIN q : Tail(all)[i] = q[j]
    BY <2>2, <1>1
  <2>5. Recorded(s, a) = Tail(all)
    BY <1>2, <1>5
  <2>6. Len(Tail(all)) <= HistoryLimit /\ ~(Len(Tail(all)) < HistoryLimit)
    BY <2>3, <1>3
  <2> QED
    BY <2>2, <2>4, <2>5, <2>6
<1>6. CASE ~(Len(all) > HistoryLimit)
  <2>1. Recorded(s, a) = all /\ Len(all) <= HistoryLimit
    BY <1>2, <1>3, <1>1, <1>6
  <2>2. \A i \in DOMAIN all : all[i] = a \/ \E j \in DOMAIN q : all[i] = q[j]
    BY <1>1
  <2>3. Len(q) < HistoryLimit
    BY <2>1, <1>1, <1>3
  <2> QED
    BY <1>1, <2>1, <2>2, <2>3 DEF all
<1> QED
  BY <1>5, <1>6

\* A count of calls is a number.
LEMMA CountType ==
  ASSUME NEW q \in Seq(Actions), NEW id
  PROVE  Count(q, id) \in Nat
<1> DEFINE C == {i \in DOMAIN q : q[i].sandbox = id /\ q[i].committed}
<1>1. C \subseteq 1 .. Len(q) /\ Len(q) \in Nat
  OBVIOUS
<1>2. IsFiniteSet(C)
  BY <1>1, FS_Interval, FS_Subset
<1> QED
  BY <1>2, FS_CardinalityType DEF Count

\* A call more is counted if it is a committed one of that deployment.
LEMMA CountAppend ==
  ASSUME NEW q \in Seq(Actions), NEW a \in Actions, NEW id
  PROVE  Count(Append(q, a), id) =
           Count(q, id) + (IF a.sandbox = id /\ a.committed THEN 1 ELSE 0)
<1> DEFINE all == Append(q, a)
           C(s) == {i \in DOMAIN s : s[i].sandbox = id /\ s[i].committed}
           n == Len(q) + 1
<1>1. /\ Len(q) \in Nat /\ DOMAIN all = DOMAIN q \cup {n} /\ DOMAIN q = 1 .. Len(q)
      /\ \A i \in DOMAIN q : all[i] = q[i]
      /\ all[n] = a
  BY AppendFacts
<1> HIDE DEF all
<1>2. C(q) \subseteq 1 .. Len(q) /\ n \notin C(q)
  BY <1>1
<1>3. IsFiniteSet(C(q))
  <2>1. IsFiniteSet(1 .. Len(q))
    BY <1>1, FS_Interval
  <2> HIDE DEF C
  <2> QED
    BY <1>2, <2>1, FS_Subset
<1>4. CASE a.sandbox = id /\ a.committed
  <2>1. C(all) = C(q) \cup {n}
    BY <1>1, <1>4
  <2> HIDE DEF C, n
  <2>2. Cardinality(C(q) \cup {n}) = Cardinality(C(q)) + 1
    BY <1>2, <1>3, FS_AddElement
  <2> QED
    BY <2>1, <2>2, <1>4 DEF Count, C, all
<1>5. CASE ~(a.sandbox = id /\ a.committed)
  <2>1. C(all) = C(q)
    BY <1>1, <1>5
  <2>2. Cardinality(C(q)) \in Nat
    BY <1>3, FS_CardinalityType
  <2> HIDE DEF n, C
  <2>3. Count(all, id) = Cardinality(C(all)) /\ Count(q, id) = Cardinality(C(q))
    BY DEF Count, C
  <2>4. Count(all, id) = Count(q, id) + 0
    BY <2>1, <2>2, <2>3
  <2> QED
    BY <2>4, <1>5 DEF all
<1> QED
  BY <1>4, <1>5

\* No call is counted for a deployment that the list does not have.
LEMMA CountNone ==
  ASSUME NEW q \in Seq(Actions), NEW id, \A i \in DOMAIN q : q[i].sandbox # id
  PROVE  Count(q, id) = 0
<1>1. {i \in DOMAIN q : q[i].sandbox = id /\ q[i].committed} = {}
  OBVIOUS
<1> QED
  BY <1>1, FS_EmptySet DEF Count

-----------------------------------------------------------------------------
(* What the operations of the page change of its store.  Each is an update of  *)
(* some fields; IsX says what the result has of them and of the others.        *)

SameWorkspace(s, m) ==
  /\ m.source = s.source /\ m.backend = s.backend
  /\ m.workspaceVersion = s.workspaceVersion /\ m.sandboxEpoch = s.sandboxEpoch
SameFound(s, m) ==
  /\ m.testCases = s.testCases /\ m.contracts = s.contracts /\ m.hasMain = s.hasMain
  /\ m.discoveryVersion = s.discoveryVersion
SameManual(s, m) ==
  /\ m.sandbox = s.sandbox /\ m.sandboxVersion = s.sandboxVersion
  /\ m.sandboxAction = s.sandboxAction /\ m.recentActions = s.recentActions
  /\ m.actionSequence = s.actionSequence
SameReads(s, m) ==
  /\ m.watchValues = s.watchValues /\ m.watchVersion = s.watchVersion
  /\ m.watchEpoch = s.watchEpoch /\ m.watchAction = s.watchAction
SameResult(s, m) ==
  m.result = s.result /\ m.lastCompiledVersion = s.lastCompiledVersion

\* An operation begins.
Begun(s, loading, shown, tested) == [s EXCEPT !.compiling = TRUE, !.watchLoading = loading,
  !.manualResult = shown, !.testRun = tested]
IsBegun(s, m, loading, shown, tested) ==
  /\ IsStore(m) /\ m.compiling = TRUE /\ m.watchLoading = loading /\ m.manualResult = shown
  /\ m.testRun = tested /\ SameWorkspace(s, m) /\ SameFound(s, m) /\ SameManual(s, m)
  /\ SameReads(s, m) /\ SameResult(s, m) /\ m.watches = s.watches

\* The fields then.
LEMMA BegunFields ==
  ASSUME NEW s, IsStore(s), NEW loading, NEW shown, NEW tested, NEW m, m = Begun(s, loading, shown, tested)
  PROVE  IsBegun(s, m, loading, shown, tested)
  BY DEF Begun, IsBegun, IsStore, SameWorkspace, SameFound, SameManual, SameReads, SameResult

\* The manual session is reset.
Cleared(s, epoch) == [s EXCEPT !.sandbox = None, !.sandboxVersion = None, !.sandboxEpoch =
  epoch, !.sandboxAction = None, !.watchAction = None, !.manualResult = None,
  !.actionSequence = 0, !.recentActions = <<>>, !.watchValues = <<>>, !.watchVersion = None,
  !.watchEpoch = None, !.watchLoading = FALSE]
IsCleared(s, m, epoch) ==
  /\ IsStore(m) /\ m.sandbox = None /\ m.sandboxVersion = None /\ m.sandboxEpoch = epoch
  /\ m.sandboxAction = None /\ m.watchAction = None /\ m.manualResult = None
  /\ m.actionSequence = 0 /\ m.recentActions = <<>> /\ m.watchValues = <<>>
  /\ m.watchVersion = None /\ m.watchEpoch = None /\ m.watchLoading = FALSE
  /\ m.source = s.source /\ m.backend = s.backend /\ m.workspaceVersion = s.workspaceVersion
  /\ SameFound(s, m) /\ SameResult(s, m) /\ m.watches = s.watches
  /\ m.compiling = s.compiling /\ m.testRun = s.testRun

\* The fields then.
LEMMA ClearedFields ==
  ASSUME NEW s, IsStore(s), NEW epoch, NEW m, m = Cleared(s, epoch)
  PROVE  IsCleared(s, m, epoch)
  BY DEF Cleared, IsCleared, IsStore, SameWorkspace, SameFound, SameManual, SameReads, SameResult

\* Another backend is chosen.
Switched(s, backend) == [s EXCEPT !.backend = backend, !.result = None,
  !.lastCompiledVersion = None, !.compiling = FALSE, !.testRun = None]
IsSwitched(s, m, backend) ==
  /\ IsStore(m) /\ m.backend = backend /\ m.result = None /\ m.lastCompiledVersion = None
  /\ m.compiling = FALSE /\ m.testRun = None /\ m.source = s.source
  /\ m.workspaceVersion = s.workspaceVersion /\ m.sandboxEpoch = s.sandboxEpoch
  /\ SameFound(s, m) /\ SameManual(s, m) /\ SameReads(s, m) /\ m.watches = s.watches
  /\ m.watchLoading = s.watchLoading /\ m.manualResult = s.manualResult

\* The fields then.
LEMMA SwitchedFields ==
  ASSUME NEW s, IsStore(s), NEW backend, NEW m, m = Switched(s, backend)
  PROVE  IsSwitched(s, m, backend)
  BY DEF Switched, IsSwitched, IsStore, SameWorkspace, SameFound, SameManual, SameReads, SameResult

\* The workspace changes.
Edited(s, source, version) == [s EXCEPT !.source = source, !.workspaceVersion = version]
IsEdited(s, m, source, version) ==
  /\ IsStore(m) /\ m.source = source /\ m.workspaceVersion = version /\ m.backend = s.backend
  /\ m.sandboxEpoch = s.sandboxEpoch /\ SameFound(s, m) /\ SameManual(s, m)
  /\ SameReads(s, m) /\ SameResult(s, m) /\ m.watches = s.watches
  /\ m.watchLoading = s.watchLoading /\ m.compiling = s.compiling
  /\ m.manualResult = s.manualResult /\ m.testRun = s.testRun

\* The fields then.
LEMMA EditedFields ==
  ASSUME NEW s, IsStore(s), NEW source, NEW version, NEW m, m = Edited(s, source, version)
  PROVE  IsEdited(s, m, source, version)
  BY DEF Edited, IsEdited, IsStore, SameWorkspace, SameFound, SameManual, SameReads, SameResult

\* Other calls are watched.
Watched(s, watches) == [s EXCEPT !.watches = watches]
IsWatched(s, m, watches) ==
  /\ IsStore(m) /\ m.watches = watches /\ SameWorkspace(s, m) /\ SameFound(s, m)
  /\ SameManual(s, m) /\ SameReads(s, m) /\ SameResult(s, m)
  /\ m.watchLoading = s.watchLoading /\ m.compiling = s.compiling
  /\ m.manualResult = s.manualResult /\ m.testRun = s.testRun

\* The fields then.
LEMMA WatchedFields ==
  ASSUME NEW s, IsStore(s), NEW watches, NEW m, m = Watched(s, watches)
  PROVE  IsWatched(s, m, watches)
  BY DEF Watched, IsWatched, IsStore, SameWorkspace, SameFound, SameManual, SameReads, SameResult

\* The watches are read, or no longer.
Loading(s, loading) == [s EXCEPT !.watchLoading = loading]
IsLoading(s, m, loading) ==
  /\ IsStore(m) /\ m.watchLoading = loading /\ SameWorkspace(s, m) /\ SameFound(s, m)
  /\ SameManual(s, m) /\ SameReads(s, m) /\ SameResult(s, m) /\ m.watches = s.watches
  /\ m.compiling = s.compiling /\ m.manualResult = s.manualResult /\ m.testRun = s.testRun

\* The fields then.
LEMMA LoadingFields ==
  ASSUME NEW s, IsStore(s), NEW loading, NEW m, m = Loading(s, loading)
  PROVE  IsLoading(s, m, loading)
  BY DEF Loading, IsLoading, IsStore, SameWorkspace, SameFound, SameManual, SameReads, SameResult

\* Tests, contracts and main are found.
Found(s, tests, contracts, main, found) == [s EXCEPT !.testCases = tests, !.contracts =
  contracts, !.hasMain = main, !.discoveryVersion = found]
IsFound(s, m, tests, contracts, main, found) ==
  /\ IsStore(m) /\ m.testCases = tests /\ m.contracts = contracts /\ m.hasMain = main
  /\ m.discoveryVersion = found /\ SameWorkspace(s, m) /\ SameManual(s, m) /\ SameReads(s, m)
  /\ SameResult(s, m) /\ m.watches = s.watches /\ m.watchLoading = s.watchLoading
  /\ m.compiling = s.compiling /\ m.manualResult = s.manualResult /\ m.testRun = s.testRun

\* The fields then.
LEMMA FoundFields ==
  ASSUME NEW s, IsStore(s), NEW tests, NEW contracts, NEW main, NEW found, NEW m, m = Found(s, tests, contracts, main, found)
  PROVE  IsFound(s, m, tests, contracts, main, found)
  BY DEF Found, IsFound, IsStore, SameWorkspace, SameFound, SameManual, SameReads, SameResult

\* An operation ends with a result.
Compiled(s, version, result, tests, contracts, main, found, tested) == [s EXCEPT !.compiling
  = FALSE, !.lastCompiledVersion = version, !.result = result, !.testCases = tests,
  !.contracts = contracts, !.hasMain = main, !.discoveryVersion = found, !.testRun = tested]
IsCompiled(s, m, version, result, tests, contracts, main, found, tested) ==
  /\ IsStore(m) /\ m.compiling = FALSE /\ m.lastCompiledVersion = version
  /\ m.result = result /\ m.testCases = tests /\ m.contracts = contracts /\ m.hasMain = main
  /\ m.discoveryVersion = found /\ m.testRun = tested /\ SameWorkspace(s, m)
  /\ SameManual(s, m) /\ SameReads(s, m) /\ m.watches = s.watches
  /\ m.watchLoading = s.watchLoading /\ m.manualResult = s.manualResult

\* The fields then.
LEMMA CompiledFields ==
  ASSUME NEW s, IsStore(s), NEW version, NEW result, NEW tests, NEW contracts, NEW main, NEW found, NEW tested, NEW m, m = Compiled(s, version, result, tests, contracts, main, found, tested)
  PROVE  IsCompiled(s, m, version, result, tests, contracts, main, found, tested)
  BY DEF Compiled, IsCompiled, IsStore, SameWorkspace, SameFound, SameManual, SameReads, SameResult

\* A manual run ends.
Deployed(s, sandbox, of, shown, sequence, action, actions) == [s EXCEPT !.sandbox = sandbox,
  !.sandboxVersion = of, !.manualResult = shown, !.actionSequence = sequence,
  !.sandboxAction = action, !.recentActions = actions]
IsDeployed(s, m, sandbox, of, shown, sequence, action, actions) ==
  /\ IsStore(m) /\ m.sandbox = sandbox /\ m.sandboxVersion = of /\ m.manualResult = shown
  /\ m.actionSequence = sequence /\ m.sandboxAction = action /\ m.recentActions = actions
  /\ SameWorkspace(s, m) /\ SameFound(s, m) /\ SameReads(s, m) /\ SameResult(s, m)
  /\ m.watches = s.watches /\ m.watchLoading = s.watchLoading /\ m.compiling = s.compiling
  /\ m.testRun = s.testRun

\* The fields then.
LEMMA DeployedFields ==
  ASSUME NEW s, IsStore(s), NEW sandbox, NEW of, NEW shown, NEW sequence, NEW action, NEW actions, NEW m, m = Deployed(s, sandbox, of, shown, sequence, action, actions)
  PROVE  IsDeployed(s, m, sandbox, of, shown, sequence, action, actions)
  BY DEF Deployed, IsDeployed, IsStore, SameWorkspace, SameFound, SameManual, SameReads, SameResult

\* An operation fails.
Broken(s, version, result, tested) == [s EXCEPT !.compiling = FALSE, !.lastCompiledVersion =
  version, !.result = result, !.testRun = tested]
IsBroken(s, m, version, result, tested) ==
  /\ IsStore(m) /\ m.compiling = FALSE /\ m.lastCompiledVersion = version
  /\ m.result = result /\ m.testRun = tested /\ SameWorkspace(s, m) /\ SameFound(s, m)
  /\ SameManual(s, m) /\ SameReads(s, m) /\ m.watches = s.watches
  /\ m.watchLoading = s.watchLoading /\ m.manualResult = s.manualResult

\* The fields then.
LEMMA BrokenFields ==
  ASSUME NEW s, IsStore(s), NEW version, NEW result, NEW tested, NEW m, m = Broken(s, version, result, tested)
  PROVE  IsBroken(s, m, version, result, tested)
  BY DEF Broken, IsBroken, IsStore, SameWorkspace, SameFound, SameManual, SameReads, SameResult

\* A failed run is listed.
Logged(s, sequence, actions) == [s EXCEPT !.actionSequence = sequence, !.recentActions =
  actions]
IsLogged(s, m, sequence, actions) ==
  /\ IsStore(m) /\ m.actionSequence = sequence /\ m.recentActions = actions
  /\ SameWorkspace(s, m) /\ SameFound(s, m) /\ m.sandbox = s.sandbox
  /\ m.sandboxVersion = s.sandboxVersion /\ m.sandboxAction = s.sandboxAction
  /\ SameReads(s, m) /\ SameResult(s, m) /\ m.watches = s.watches
  /\ m.watchLoading = s.watchLoading /\ m.compiling = s.compiling
  /\ m.manualResult = s.manualResult /\ m.testRun = s.testRun

\* The fields then.
LEMMA LoggedFields ==
  ASSUME NEW s, IsStore(s), NEW sequence, NEW actions, NEW m, m = Logged(s, sequence, actions)
  PROVE  IsLogged(s, m, sequence, actions)
  BY DEF Logged, IsLogged, IsStore, SameWorkspace, SameFound, SameManual, SameReads, SameResult

\* The watches have been read.
Noted(s, values, version, epoch, action) == [s EXCEPT !.watchValues = values, !.watchVersion
  = version, !.watchEpoch = epoch, !.watchAction = action]
IsNoted(s, m, values, version, epoch, action) ==
  /\ IsStore(m) /\ m.watchValues = values /\ m.watchVersion = version /\ m.watchEpoch = epoch
  /\ m.watchAction = action /\ SameWorkspace(s, m) /\ SameFound(s, m) /\ SameManual(s, m)
  /\ SameResult(s, m) /\ m.watches = s.watches /\ m.watchLoading = s.watchLoading
  /\ m.compiling = s.compiling /\ m.manualResult = s.manualResult /\ m.testRun = s.testRun

\* The fields then.
LEMMA NotedFields ==
  ASSUME NEW s, IsStore(s), NEW values, NEW version, NEW epoch, NEW action, NEW m, m = Noted(s, values, version, epoch, action)
  PROVE  IsNoted(s, m, values, version, epoch, action)
  BY DEF Noted, IsNoted, IsStore, SameWorkspace, SameFound, SameManual, SameReads, SameResult

-----------------------------------------------------------------------------
(* The answers change the store. *)

\* What becomes of the tests, contracts and main found in the workspace.
FoundBy(s, m, version, tests, contracts, main) ==
  IF version = s.workspaceVersion
  THEN /\ m.testCases = tests /\ m.contracts = contracts /\ m.hasMain = main
       /\ m.discoveryVersion = version
  ELSE SameFound(s, m)

\* A discovery counts if its effect is the current one.
LEMMA DiscoveryFields ==
  ASSUME NEW s, IsStore(s), NEW p, NEW tests, NEW contracts, NEW main,
         NEW m, m = Discovery(s, p, tests, contracts, main)
  PROVE  /\ IsStore(m) /\ SameWorkspace(s, m) /\ SameManual(s, m) /\ SameReads(s, m)
         /\ SameResult(s, m) /\ m.watches = s.watches /\ m.watchLoading = s.watchLoading
         /\ m.compiling = s.compiling /\ m.manualResult = s.manualResult
         /\ p.active => FoundBy(s, m, p.version, tests, contracts, main)
         /\ ~p.active => SameFound(s, m)
<1>1. CASE p.active /\ p.version = s.workspaceVersion
  <2>1. m = Found(s, tests, contracts, main, p.version)
    BY <1>1, Zenon DEF Discovery, Found
  <2>2. IsFound(s, m, tests, contracts, main, p.version)
    BY <2>1, FoundFields
  <2> QED
    BY <2>2, <1>1 DEF IsFound, FoundBy
<1>2. CASE ~(p.active /\ p.version = s.workspaceVersion)
  <2>1. m = s
    BY <1>2, Zenon DEF Discovery
  <2> QED
    BY <2>1, <1>2 DEF FoundBy, SameWorkspace, SameManual, SameReads, SameResult, SameFound
<1> QED
  BY <1>1, <1>2

\* What an operation leaves alone and what it always changes.
Ended(s, m, version) ==
  /\ IsStore(m) /\ SameWorkspace(s, m) /\ SameReads(s, m)
  /\ m.watches = s.watches /\ m.compiling = FALSE /\ m.lastCompiledVersion = version

Act(p, r) == [version |-> p.version, committed |-> r.committed,
              sandbox |-> IF r.sandbox = None THEN None ELSE r.sandbox.id]

\* The result of an operation that is no manual run.
LEMMA SettledFields ==
  ASSUME NEW s, IsStore(s), NEW p, NEW r, ~p.manual, NEW m, m = Settled(s, p, r)
  PROVE  /\ Ended(s, m, p.version) /\ m.watchLoading = s.watchLoading
         /\ SameManual(s, m) /\ m.manualResult = s.manualResult
         /\ FoundBy(s, m, p.version, r.tests, r.contracts, r.main)
         /\ m.result = [key |-> r.key, success |-> r.success]
<1> DEFINE cur == p.version = s.workspaceVersion
           a == [key |-> r.key, success |-> r.success]
           b == IF cur THEN r.tests ELSE s.testCases
           c == IF cur THEN r.contracts ELSE s.contracts
           d == IF cur THEN r.main ELSE s.hasMain
           e == IF cur THEN p.version ELSE s.discoveryVersion
           f == IF p.testing THEN p.version ELSE s.testRun
<1>1. m = Compiled(s, p.version, a, b, c, d, e, f)
  BY Zenon DEF Settled, Compiled
<1> HIDE DEF a, b, c, d, e, f
<1>2. IsCompiled(s, m, p.version, a, b, c, d, e, f)
  BY <1>1, CompiledFields
<1> QED
  BY <1>2 DEF IsCompiled, Ended, FoundBy, SameFound, a, b, c, d, e

\* The result of a manual run.
IsManual(s, m, p, r) ==
  /\ Ended(s, m, p.version) /\ m.watchLoading = s.watchLoading
  /\ m.sandbox = r.sandbox /\ m.sandboxVersion = p.version
  /\ m.sandboxAction = (IF r.sandbox = None THEN None ELSE s.actionSequence + 1)
  /\ m.actionSequence = s.actionSequence + 1
  /\ m.recentActions = Recorded(s, Act(p, r))
  /\ FoundBy(s, m, p.version, r.tests, r.contracts, r.main)
  /\ m.result = [key |-> r.key, success |-> r.success]

\* The fields after the result of a manual run.
LEMMA ManualFields ==
  ASSUME NEW s, IsStore(s), NEW p, NEW r, p.manual, NEW m, m = Settled(s, p, r)
  PROVE  IsManual(s, m, p, r)
<1> DEFINE cur == p.version = s.workspaceVersion
           a == [key |-> r.key, success |-> r.success]
           b == IF cur THEN r.tests ELSE s.testCases
           c == IF cur THEN r.contracts ELSE s.contracts
           d == IF cur THEN r.main ELSE s.hasMain
           e == IF cur THEN p.version ELSE s.discoveryVersion
           f == IF p.testing THEN p.version ELSE s.testRun
           t == Compiled(s, p.version, a, b, c, d, e, f)
           x == IF p.call # None THEN p.version ELSE t.manualResult
           y == IF r.sandbox = None THEN None ELSE t.actionSequence + 1
           z == Recorded(t, Act(p, r))
           n == t.actionSequence + 1
<1>1. Settled(s, p, r) = ManualShown(t, p, r)
  BY Zenon DEF Settled, Compiled
<1>2. IsCompiled(s, t, p.version, a, b, c, d, e, f)
  <2> HIDE DEF a, b, c, d, e, f
  <2> QED
    BY CompiledFields
<1>3. ManualShown(t, p, r) = Deployed(t, r.sandbox, p.version, x, n, y, z)
  <2> HIDE DEF t
  <2> QED
    BY Zenon DEF ManualShown, Deployed, Act
<1> HIDE DEF t
<1>4. IsStore(t) /\ Recorded(t, Act(p, r)) = Recorded(s, Act(p, r))
  BY <1>2 DEF IsCompiled, SameManual, Recorded
<1> HIDE DEF x, y, z, n
<1>5. IsDeployed(t, m, r.sandbox, p.version, x, n, y, z)
  BY <1>1, <1>3, <1>4, DeployedFields
<1>6. /\ y = (IF r.sandbox = None THEN None ELSE s.actionSequence + 1)
      /\ n = s.actionSequence + 1 /\ z = Recorded(s, Act(p, r))
  BY <1>2, <1>4 DEF IsCompiled, SameManual, y, n, z
<1> HIDE DEF a, b, c, d, e, f
<1>7. /\ Ended(s, m, p.version) /\ m.watchLoading = s.watchLoading
      /\ m.sandbox = r.sandbox /\ m.sandboxVersion = p.version
      /\ m.sandboxAction = y /\ m.actionSequence = n /\ m.recentActions = z
      /\ m.testCases = b /\ m.contracts = c /\ m.hasMain = d /\ m.discoveryVersion = e
      /\ m.result = a
  BY <1>2, <1>5 DEF IsCompiled, IsDeployed, Ended, SameWorkspace, SameReads, SameFound, SameResult
<1> QED
  BY <1>6, <1>7 DEF FoundBy, SameFound, IsManual, a, b, c, d, e

FailedCall(p) == [version |-> p.version, committed |-> FALSE, sandbox |-> None]

\* The failure of an operation.
IsFailed(s, m, p) ==
  /\ Ended(s, m, p.version) /\ m.watchLoading = s.watchLoading
  /\ m.sandbox = s.sandbox /\ m.sandboxVersion = s.sandboxVersion
  /\ m.sandboxAction = s.sandboxAction /\ SameFound(s, m)
  /\ m.result = [key |-> None, success |-> FALSE]
  /\ ~p.manual => SameManual(s, m)
  /\ p.manual => /\ m.actionSequence = s.actionSequence + 1
                 /\ m.recentActions = Recorded(s, FailedCall(p))

\* The fields after a failure.
LEMMA FailedFields ==
  ASSUME NEW s, IsStore(s), NEW p, NEW m, m = Failed(s, p)
  PROVE  IsFailed(s, m, p)
<1> DEFINE a == [key |-> None, success |-> FALSE]
           f == IF p.testing THEN p.version ELSE s.testRun
           t == Broken(s, p.version, a, f)
           z == Recorded(s, FailedCall(p))
           n == t.actionSequence + 1
<1>1. Failed(s, p) = IF p.manual THEN Logged(t, n, z) ELSE t
  BY Zenon DEF Failed, Broken, Logged, FailedCall
<1>2. IsBroken(s, t, p.version, a, f)
  <2> HIDE DEF a, f
  <2> QED
    BY BrokenFields
<1> HIDE DEF t, z
<1>3. IsStore(t) /\ n = s.actionSequence + 1
  BY <1>2 DEF IsBroken, SameManual
<1> HIDE DEF n
<1>4. CASE p.manual
  <2>1. IsLogged(t, m, n, z)
    BY <1>1, <1>3, <1>4, LoggedFields
  <2> HIDE DEF a, f
  <2>2. m.result = a
    BY <1>2, <2>1 DEF IsBroken, IsLogged, SameResult
  <2>3. /\ Ended(s, m, p.version) /\ m.watchLoading = s.watchLoading
        /\ m.sandbox = s.sandbox /\ m.sandboxVersion = s.sandboxVersion
        /\ m.sandboxAction = s.sandboxAction /\ SameFound(s, m)
        /\ m.actionSequence = n /\ m.recentActions = z
    BY <1>2, <2>1 DEF IsBroken, IsLogged, Ended, SameWorkspace, SameReads, SameFound, SameManual, SameResult
  <2> QED
    BY <1>3, <1>4, <2>2, <2>3 DEF a, z, IsFailed
<1>5. CASE ~p.manual
  <2>1. m = t
    BY <1>1, <1>5
  <2> QED
    BY <1>2, <1>5, <2>1 DEF IsBroken, Ended, SameManual, IsFailed
<1> QED
  BY <1>4, <1>5

Stopped(s, p) == Loading(s, IF p.run = watchRun THEN FALSE ELSE s.watchLoading)
ReadBy(s, p, values, action) ==
  IF StillCurrent(s, p) THEN Noted(Stopped(s, p), values, p.version, p.epoch, action)
  ELSE Stopped(s, p)

\* The fields once a reading is no longer under way.
LEMMA StoppedFields ==
  ASSUME NEW s, IsStore(s), NEW p
  PROVE  IsLoading(s, Stopped(s, p), IF p.run = watchRun THEN FALSE ELSE s.watchLoading)
  BY LoadingFields DEF Stopped

\* Its fields, when p is current and when it is not.
IsRead(s, m, p, values, action) ==
  /\ IsStore(m) /\ SameWorkspace(s, m) /\ SameFound(s, m) /\ SameManual(s, m)
  /\ SameResult(s, m) /\ m.watches = s.watches /\ m.compiling = s.compiling
  /\ m.watchLoading = (IF p.run = watchRun THEN FALSE ELSE s.watchLoading)
  /\ ~StillCurrent(s, p) => SameReads(s, m)
  /\ StillCurrent(s, p) =>
       /\ m.watchValues = values /\ m.watchVersion = p.version /\ m.watchAction = action

\* The watches have been read.
LEMMA ReadFields ==
  ASSUME NEW s, IsStore(s), NEW p, NEW values, NEW action, NEW m, m = ReadBy(s, p, values, action)
  PROVE  IsRead(s, m, p, values, action)
<1> DEFINE l == IF p.run = watchRun THEN FALSE ELSE s.watchLoading
           t == Stopped(s, p)
<1>2. IsLoading(s, t, l)
  BY StoppedFields
<1> HIDE DEF t, l
<1>3. IsStore(t)
  BY <1>2 DEF IsLoading
<1>4. CASE StillCurrent(s, p)
  <2>1. m = Noted(t, values, p.version, p.epoch, action)
    BY <1>4, Zenon DEF ReadBy, t
  <2>2. IsNoted(t, m, values, p.version, p.epoch, action)
    BY <1>3, <2>1, NotedFields
  <2>3. m.watchLoading = l
    BY <1>2, <2>2 DEF IsLoading, IsNoted
  <2> QED
    BY <1>2, <1>4, <2>2, <2>3 DEF IsLoading, IsNoted, SameWorkspace, SameReads, SameFound, SameManual, SameResult, IsRead, l
<1>5. CASE ~StillCurrent(s, p)
  <2>1. m = t
    BY <1>5, Zenon DEF ReadBy, t
  <2> QED
    BY <1>2, <1>5, <2>1 DEF IsLoading, SameReads, IsRead, l
<1> QED
  BY <1>4, <1>5

-----------------------------------------------------------------------------
(* What is typed by its place. *)

\* A request of the queue.
LEMMA QueueTypes ==
  ASSUME TypeInv, NEW i \in DOMAIN queue
  PROVE  /\ queue[i] \in Messages /\ queue[i].id \in Nat /\ queue[i].key \in Keys
         /\ queue[i].kind \in {"compile", "run", "discover", "watch"}
         /\ queue[i].test \in BOOLEAN /\ queue[i].call \in ManualCalls \cup {None}
         /\ queue[i].watches \in SUBSET Contracts
         /\ queue[i].key.source \in Sources /\ queue[i].key.epoch \in Nat
         /\ i \in Nat
<1>1. queue[i] \in Messages /\ i \in Nat
  BY ElementFacts, Zenon DEF TypeInv
<1> QED
  BY <1>1 DEF Messages, Keys

\* An answer on its way.
LEMMA ReplyTypes ==
  ASSUME TypeInv, NEW i \in DOMAIN replies
  PROVE  /\ replies[i] \in Answers /\ replies[i].id \in Nat /\ i \in Nat
         /\ replies[i].kind \in {"error", "result", "watch-result"}
         /\ replies[i].kind = "result" =>
              /\ replies[i] \in Results /\ replies[i].key \in Keys
              /\ replies[i].key.source \in Sources /\ replies[i].key.epoch \in Nat
         /\ replies[i].kind = "watch-result" => replies[i] \in Readings
<1>1. replies[i] \in Answers /\ i \in Nat
  BY ElementFacts, Zenon DEF TypeInv
<1> QED
  BY <1>1 DEF Answers, Errors, Results, Readings, Keys

\* What awaits an answer.
LEMMA PendingTypes ==
  ASSUME TypeInv
  PROVE  /\ \A p \in pending : /\ p \in Operations /\ p.id \in Nat /\ p.run \in Nat /\ p.version \in Nat
                               /\ p.kind \in {"compile", "run", "discover"}
                               /\ p.testing \in BOOLEAN /\ p.manual \in BOOLEAN /\ p.active \in BOOLEAN
         /\ \A q \in pendingWatches : /\ q \in Reads /\ q.id \in Nat /\ q.run \in Nat
                                      /\ q.version \in Nat /\ q.epoch \in Nat /\ q.action \in Nat
                                      /\ q.watches \in SUBSET Contracts
                                      /\ q.sandbox \in Deployments
  BY DEF TypeInv, Operations, Reads

\* The deployed contract.
LEMMA SessionTypes ==
  ASSUME TypeInv, session # None
  PROVE  /\ session \in Sessions /\ session.id \in Nat /\ session.id < nextSandbox
         /\ session.contract \in Contracts /\ session.key \in Keys /\ session.calls \in Nat
         /\ session.key.epoch \in Nat
  BY DEF TypeInv, Sessions, Keys

\* The store and the numbers of the page.
LEMMA PageTypes ==
  ASSUME TypeInv
  PROVE  /\ IsStore(store) /\ StoreTyped(store) /\ store.source \in Sources /\ store.backend \in Backends
         /\ store.workspaceVersion \in Nat /\ store.sandboxEpoch \in Nat /\ store.actionSequence \in Nat
         /\ store.compiling \in BOOLEAN /\ Sum(store) \in Nat
         /\ SandboxKey(store) \in Keys /\ SandboxKey(store).epoch = Sum(store)
         /\ SandboxKey(store).source = store.source /\ SandboxKey(store).backend = store.backend
         /\ compileRun \in Nat /\ watchRun \in Nat /\ nextId \in Nat /\ latestId \in Nat
         /\ None \notin Nat /\ None \notin Sources /\ None \notin Contracts
<1>1. StoreTyped(store) /\ compileRun \in Nat /\ watchRun \in Nat /\ nextId \in Nat /\ latestId \in Nat
  BY DEF TypeInv
<1>2. /\ store.source \in Sources /\ store.backend \in Backends /\ IsStore(store)
      /\ store.workspaceVersion \in Nat /\ store.sandboxEpoch \in Nat /\ store.actionSequence \in Nat
      /\ store.compiling \in BOOLEAN
  BY <1>1, Zenon DEF StoreTyped
<1> QED
  BY <1>1, <1>2, FactsAssumption DEF Sum, SandboxKey, Keys, Backends

-----------------------------------------------------------------------------
(* Gestures that only touch the store. *)

\* Nobody waits any more for what was asked, and the manual session is empty.
LEMMA ForgetStep ==
  ASSUME Inv, UNCHANGED <<client, replies, worker, effect>>,
         StoreTyped(store'), compileRun' \in Nat, watchRun' \in Nat,
         compileRun' >= compileRun, watchRun' >= watchRun,
         \A p \in pending : p.kind # "discover" => p.run # compileRun',
         store'.sandbox = None, store'.recentActions = <<>>,
         store'.workspaceVersion >= store.workspaceVersion,
         store'.sandboxEpoch = store.sandboxEpoch + 1,
         store'.workspaceVersion = store.workspaceVersion => store'.source = store.source,
         DiscoveredIsCurrent', ShownResultIsCurrent'
  PROVE  Inv'
<1>0. /\ store.workspaceVersion \in Nat /\ store'.workspaceVersion \in Nat
      /\ store.sandboxEpoch \in Nat /\ store'.sandboxEpoch \in Nat
      /\ UNCHANGED <<nextId, latestId, pending, pendingWatches, queue, replies, runtime, session,
                     nextSandbox, effect>>
      /\ Sum(store) \in Nat /\ Sum(store') \in Nat /\ Sum(store) < Sum(store')
  <2>1. store'.workspaceVersion \in Nat
    BY Zenon DEF StoreTyped
  <2>2. UNCHANGED <<nextId, latestId, pending, pendingWatches, queue, replies, runtime, session,
                    nextSandbox, effect>>
    BY DEF client, worker
  <2>3. store.workspaceVersion \in Nat /\ store.sandboxEpoch \in Nat
    BY PageTypes DEF Inv
  <2> QED
    BY <2>1, <2>2, <2>3 DEF Sum
<1>1. \A p \in pending : ~Awaited(p)'
  BY <1>0 DEF Awaited
<1>2. effect.version \in Versions(store) /\ effect.version \in Versions(store')
  BY <1>0 DEF Inv, TypeInv, Versions
<1>3. TypeInv'
  BY <1>0, <1>2, Zenon DEF Inv, TypeInv
<1>4. IdsInv'
  BY <1>0, Zenon DEF Inv, IdsInv
<1>5. ClassInv'
  BY <1>0, Zenon DEF Inv, ClassInv
<1>6. AwaitInv'
  <2>1. compileRun \in Nat /\ watchRun \in Nat
    BY DEF Inv, TypeInv
  <2> QED
    BY <1>0, <1>1, <2>1, PendingTypes DEF Inv, AwaitInv
<1>7. \A p \in pending, key \in Keys : Keyed(p, key) => Keyed(p, key)'
  <2>1. \A p \in pending : p.version \in Nat /\ p.version <= store.workspaceVersion
    BY PendingTypes DEF Inv, AwaitInv
  <2> QED
    BY <1>0, <1>1, <2>1 DEF Keyed
<1>8. AskedInv'
  <2>1. \A i \in DOMAIN queue : queue[i].key \in Keys
    BY QueueTypes DEF Inv
  <2>2. \A i \in DOMAIN replies : replies[i].kind = "result" => replies[i].key \in Keys
    BY ReplyTypes DEF Inv
  <2> QED
    BY <1>0, <1>1, <1>7, <2>1, <2>2 DEF Inv, AskedInv, Asked, Answered
<1>9. WasmInv'
  BY <1>0 DEF Inv, WasmInv
<1>10. CallInv'
  <2>1. \A i \in DOMAIN queue : queue[i].key.epoch \in Nat
    BY QueueTypes DEF Inv
  <2>2. session # None => session.key.epoch \in Nat
    BY SessionTypes DEF Inv
  <2> QED
    BY <1>0, <2>1, <2>2 DEF Inv, CallInv
<1>11. LiveInv'
  BY DEF LiveInv
<1>12. HistInv'
  <2>1. session # None => session.key.epoch \in Nat /\ session.key.epoch <= Sum(store)
    BY SessionTypes DEF Inv, CallInv
  <2>2. SandboxKey(store').epoch = Sum(store')
    BY DEF SandboxKey, Sum
  <2> QED
    BY <1>0, <2>1, <2>2 DEF HistInv
<1>13. RecordInv'
  BY DEF RecordInv, OneDeploymentPerVersion
<1>14. WatchInv'
  BY DEF WatchInv
<1>15. ReadInv'
  BY <1>0 DEF Inv, ReadInv, StillCurrent
<1>16. DiscoveryInv'
  <2>1. None \notin Nat
    BY FactsAssumption
  <2> QED
    BY <1>0, <1>2, <2>1 DEF Inv, DiscoveryInv, Versions
<1> QED
  BY <1>3, <1>4, <1>5, <1>6, <1>8, <1>9, <1>10, <1>11, <1>12, <1>13, <1>14, <1>15, <1>16 DEF Inv

\* A store of the same version with typed parts.
LEMMA ClearedTyped ==
  ASSUME NEW s, StoreTyped(s), NEW epoch \in Nat, NEW m, IsCleared(s, m, epoch)
  PROVE  StoreTyped(m)
<1>1. Versions(m) = Versions(s) /\ None \in Versions(m)
  BY DEF IsCleared, Versions
<1>2. <<>> \in Seq(Actions) /\ Len(<<>>) <= HistoryLimit /\ DOMAIN <<>> = {} /\ 0 \in Nat
  BY FactsAssumption
<1> QED
  BY <1>1, <1>2 DEF StoreTyped, IsCleared, SameFound, SameResult

\* The same with another backend.
LEMMA SwitchedTyped ==
  ASSUME NEW s, StoreTyped(s), NEW backend \in Backends, NEW m, IsSwitched(s, m, backend)
  PROVE  StoreTyped(m)
<1>1. Versions(m) = Versions(s) /\ None \in Versions(m)
  BY DEF IsSwitched, Versions
<1> QED
  BY <1>1 DEF StoreTyped, IsSwitched, SameFound, SameManual, SameReads

\* The same of a new version.
LEMMA EditedTyped ==
  ASSUME NEW s, StoreTyped(s), NEW source \in Sources, NEW m, IsEdited(s, m, source, s.workspaceVersion + 1)
  PROVE  StoreTyped(m)
<1>1. Versions(s) \subseteq Versions(m) /\ m.workspaceVersion \in Nat
  BY DEF IsEdited, Versions, StoreTyped
<1> QED
  BY <1>1 DEF StoreTyped, IsEdited, SameFound, SameManual, SameReads, SameResult

\* The same with other watches.
LEMMA WatchedTyped ==
  ASSUME NEW s, StoreTyped(s), NEW watches \in SUBSET Contracts, IsFiniteSet(watches),
         Cardinality(watches) <= WatchLimit, NEW m, IsWatched(s, m, watches)
  PROVE  StoreTyped(m)
<1>1. Versions(m) = Versions(s)
  BY DEF IsWatched, SameWorkspace, Versions
<1> QED
  BY <1>1 DEF StoreTyped, IsWatched, SameWorkspace, SameFound, SameManual, SameReads, SameResult

IsFresh(m, source, backend, version, epoch) ==
  /\ IsStore(m) /\ m.source = source /\ m.backend = backend /\ m.workspaceVersion = version
  /\ m.sandboxEpoch = epoch /\ m.testCases = FALSE /\ m.contracts = {} /\ m.hasMain = FALSE
  /\ m.discoveryVersion = None /\ m.sandbox = None /\ m.sandboxVersion = None
  /\ m.recentActions = <<>> /\ m.actionSequence = 0 /\ m.watches = {} /\ m.watchValues = <<>>
  /\ m.watchVersion = None /\ m.watchAction = None /\ m.watchLoading = FALSE
  /\ m.compiling = FALSE /\ m.result = None /\ m.lastCompiledVersion = None

\* The fields of a store without an execution.
LEMMA FreshFields ==
  ASSUME NEW source, NEW backend, NEW version, NEW epoch,
         NEW m, m = FreshStore(source, backend, version, epoch)
  PROVE  IsFresh(m, source, backend, version, epoch)
<1>1. IsStore(m)
  BY DEF FreshStore, IsStore
<1> QED
  BY <1>1 DEF FreshStore, IsFresh

\* The same without an execution.
LEMMA FreshTyped ==
  ASSUME NEW source \in Sources, NEW backend \in Backends, NEW version \in Nat, NEW epoch \in Nat,
         NEW m, IsFresh(m, source, backend, version, epoch)
  PROVE  StoreTyped(m)
<1>1. None \in Versions(m)
  BY DEF Versions
<1>2. m.recentActions \in Seq(Actions) /\ Len(m.recentActions) <= HistoryLimit
  BY FactsAssumption DEF IsFresh
<1>3. DOMAIN m.watchValues \subseteq Contracts
  BY DEF IsFresh
<1>4. IsFiniteSet(m.watches) /\ Cardinality(m.watches) <= WatchLimit /\ m.watches \in SUBSET Contracts
  BY FS_EmptySet, FactsAssumption DEF IsFresh
<1>5. m.sandbox \in Deployments \cup {None} /\ m.watchAction \in (0 .. m.actionSequence) \cup {None}
  BY DEF IsFresh
<1>6. /\ IsStore(m) /\ m.source \in Sources /\ m.backend \in Backends
      /\ m.workspaceVersion \in Nat /\ m.sandboxEpoch \in Nat /\ m.actionSequence \in Nat
      /\ m.contracts \in SUBSET Contracts
  BY DEF IsFresh
<1>8. /\ m.compiling \in BOOLEAN /\ m.watchLoading \in BOOLEAN
      /\ m.testCases \in BOOLEAN /\ m.hasMain \in BOOLEAN
  BY Zenon DEF IsFresh
<1>7. /\ m.discoveryVersion \in Versions(m) /\ m.sandboxVersion \in Versions(m)
      /\ m.lastCompiledVersion \in Versions(m) /\ m.watchVersion \in Versions(m)
      /\ m.sandbox = None
  BY <1>1 DEF IsFresh
<1> QED
  BY <1>2, <1>3, <1>4, <1>5, <1>6, <1>7, <1>8, Zenon DEF StoreTyped

\* An idle page waits for no operation.
LEMMA IdleFacts ==
  ASSUME Inv, ~store.compiling
  PROVE  \A p \in pending : ~Awaited(p)
  BY DEF Inv, AwaitInv

\* A new number of operation is nobody's.
LEMMA NextRunFacts ==
  ASSUME Inv
  PROVE  \A p \in pending : p.run # compileRun + 1
<1>1. \A p \in pending : p.run \in Nat /\ p.run <= compileRun
  BY PendingTypes DEF Inv, AwaitInv
<1> QED
  BY <1>1, PageTypes DEF Inv

\* The reset button.
LEMMA ResetSandboxStep ==
  ASSUME Inv, ResetSandbox
  PROVE  Inv'
<1>1. UNCHANGED <<client, replies, worker, effect>> /\ compileRun' = compileRun /\ watchRun' = watchRun + 1
  BY DEF ResetSandbox, Gesture
<1>2. store' = Cleared(store, store.sandboxEpoch + 1)
  BY Zenon DEF ResetSandbox, SandboxReset, Cleared
<1>3. IsCleared(store, store', store.sandboxEpoch + 1)
  BY <1>2, ClearedFields, PageTypes DEF Inv
<1>4. StoreTyped(store')
  BY <1>3, ClearedTyped, PageTypes DEF Inv
<1>5. \A p \in pending : p.kind # "discover" => p.run # compileRun'
  BY <1>1, IdleFacts DEF Awaited, ResetSandbox, ControlsEnabled
<1>6. DiscoveredIsCurrent'
  BY <1>1, <1>3 DEF Inv, DiscoveryInv, DiscoveredIsCurrent, Discovered, IsCleared, SameFound, worker
<1>7. ShownResultIsCurrent'
  BY <1>3 DEF Inv, ShownResultIsCurrent, IsCleared, SameResult
<1>8. /\ store'.sandbox = None /\ store'.recentActions = <<>>
      /\ store'.workspaceVersion = store.workspaceVersion
      /\ store'.sandboxEpoch = store.sandboxEpoch + 1 /\ store'.source = store.source
  BY <1>3 DEF IsCleared
<1> QED
  BY <1>1, <1>4, <1>5, <1>6, <1>7, <1>8, PageTypes, ForgetStep DEF Inv

\* The choice of a backend.
LEMMA SetBackendStep ==
  ASSUME Inv, NEW backend \in Backends, SetBackend(backend)
  PROVE  Inv'
<1> DEFINE s == Cleared(store, store.sandboxEpoch + 1)
<1>1. UNCHANGED <<client, replies, worker, effect>> /\ compileRun' = compileRun + 1 /\ watchRun' = watchRun + 1
  BY DEF SetBackend, Gesture
<1>2. store' = Switched(s, backend)
  BY Zenon DEF SetBackend, SandboxReset, Cleared, Switched
<1>3. IsCleared(store, s, store.sandboxEpoch + 1)
  BY ClearedFields, PageTypes DEF Inv
<1> HIDE DEF s
<1>4. StoreTyped(s) /\ IsStore(s)
  <2>1. StoreTyped(s)
    BY <1>3, ClearedTyped, PageTypes DEF Inv
  <2> QED
    BY <2>1, Zenon DEF StoreTyped
<1>5. IsSwitched(s, store', backend)
  BY <1>2, <1>4, SwitchedFields
<1>6. StoreTyped(store')
  BY <1>4, <1>5, SwitchedTyped
<1>7. \A p \in pending : p.kind # "discover" => p.run # compileRun'
  BY <1>1, NextRunFacts
<1>8. DiscoveredIsCurrent'
  BY <1>1, <1>3, <1>5 DEF Inv, DiscoveryInv, DiscoveredIsCurrent, Discovered, IsCleared, IsSwitched, SameFound, worker
<1>9. ShownResultIsCurrent'
  BY <1>5 DEF ShownResultIsCurrent, IsSwitched
<1>10. /\ store'.sandbox = None /\ store'.recentActions = <<>>
       /\ store'.workspaceVersion = store.workspaceVersion
       /\ store'.sandboxEpoch = store.sandboxEpoch + 1 /\ store'.source = store.source
  BY <1>3, <1>5 DEF IsCleared, IsSwitched, SameManual
<1> QED
  BY <1>1, <1>6, <1>7, <1>8, <1>9, <1>10, PageTypes, ForgetStep DEF Inv

\* Another example, or a workspace reset.
LEMMA ReplaceExampleStep ==
  ASSUME Inv, NEW source \in Sources, ReplaceExample(source)
  PROVE  Inv'
<1>1. UNCHANGED <<client, replies, worker, effect>> /\ compileRun' = compileRun + 1 /\ watchRun' = watchRun
  BY DEF ReplaceExample, Gesture
<1>2. store' = FreshStore(source, store.backend, store.workspaceVersion + 1, store.sandboxEpoch + 1)
  BY Zenon DEF ReplaceExample
<1>3. IsFresh(store', source, store.backend, store.workspaceVersion + 1, store.sandboxEpoch + 1)
  BY <1>2, FreshFields
<1>7. /\ store.workspaceVersion + 1 \in Nat /\ store.sandboxEpoch + 1 \in Nat
      /\ store.backend \in Backends /\ store.workspaceVersion \in Nat /\ None \notin Nat
  BY PageTypes DEF Inv
<1>8. StoreTyped(store')
  BY <1>3, <1>7, FreshTyped
<1>4. \A p \in pending : p.kind # "discover" => p.run # compileRun'
  BY <1>1, NextRunFacts
<1>5. DiscoveredIsCurrent'
  BY <1>3, <1>7 DEF DiscoveredIsCurrent, Discovered, IsFresh
<1>6. ShownResultIsCurrent'
  BY <1>3 DEF ShownResultIsCurrent, IsFresh
<1>9. /\ store'.sandbox = None /\ store'.recentActions = <<>>
      /\ store'.workspaceVersion = store.workspaceVersion + 1
      /\ store'.sandboxEpoch = store.sandboxEpoch + 1
  BY <1>3 DEF IsFresh
<1> QED
  BY <1>1, <1>4, <1>5, <1>6, <1>7, <1>8, <1>9, PageTypes, ForgetStep DEF Inv

\* The awaited answers, while nothing about them changes.
LEMMA SameFlights ==
  ASSUME pending' = pending, replies' = replies, compileRun' = compileRun
  PROVE  InFlight' = InFlight /\ Uncounted' = Uncounted
  BY DEF InFlight, Uncounted, IsFlight, Awaited

\* A new source: what was asked of the old one stays awaited and comes too late.
LEMMA EditStep ==
  ASSUME Inv, NEW source \in Sources, Edit(source)
  PROVE  Inv'
<1>0. /\ UNCHANGED <<nextId, latestId, pending, pendingWatches, queue, replies, runtime, session,
                     nextSandbox, effect>>
      /\ compileRun' = compileRun /\ watchRun' = watchRun
  BY DEF Edit, Gesture, client, worker
<1>1. store' = Edited(store, source, store.workspaceVersion + 1)
  BY Zenon DEF Edit, Edited
<1>2. IsEdited(store, store', source, store.workspaceVersion + 1)
  BY <1>1, EditedFields, PageTypes DEF Inv
<1>3. StoreTyped(store')
  BY <1>2, EditedTyped, PageTypes DEF Inv
<1>4. /\ store.workspaceVersion \in Nat /\ store.sandboxEpoch \in Nat /\ None \notin Nat
      /\ store'.workspaceVersion = store.workspaceVersion + 1
      /\ store'.sandboxEpoch = store.sandboxEpoch /\ store'.compiling = store.compiling
      /\ store'.source = source /\ store'.backend = store.backend
      /\ store'.actionSequence = store.actionSequence
      /\ store'.sandbox = store.sandbox /\ store'.sandboxVersion = store.sandboxVersion
      /\ store'.recentActions = store.recentActions
      /\ Sum(store) \in Nat /\ Sum(store') = Sum(store) + 1
  <2>1. /\ store.workspaceVersion \in Nat /\ store.sandboxEpoch \in Nat /\ None \notin Nat
        /\ Sum(store) \in Nat
    BY PageTypes DEF Inv
  <2>2. /\ store'.workspaceVersion = store.workspaceVersion + 1
        /\ store'.sandboxEpoch = store.sandboxEpoch /\ store'.compiling = store.compiling
        /\ store'.source = source /\ store'.backend = store.backend
        /\ store'.actionSequence = store.actionSequence
        /\ store'.sandbox = store.sandbox /\ store'.sandboxVersion = store.sandboxVersion
        /\ store'.recentActions = store.recentActions
    BY <1>2 DEF IsEdited, SameManual
  <2>3. Sum(store') = Sum(store) + 1
    BY <2>1, <2>2 DEF Sum
  <2> QED
    BY <2>1, <2>2, <2>3
<1>5. /\ store.sandboxVersion \in Versions(store) /\ store.lastCompiledVersion \in Versions(store)
      /\ store.discoveryVersion \in Versions(store) /\ effect.version \in Versions(store)
  BY Zenon DEF Inv, TypeInv, StoreTyped
<1>6. \A v \in Versions(store) : v # store'.workspaceVersion /\ v \in Versions(store')
  BY <1>4 DEF Versions
<1>7. TypeInv'
  <2>1. effect.version \in Versions(store')
    BY <1>5, <1>6
  <2> QED
    BY <1>0, <1>3, <2>1, Zenon DEF Inv, TypeInv
<1>8. IdsInv'
  BY <1>0, Zenon DEF Inv, IdsInv
<1>9. ClassInv'
  BY <1>0, Zenon DEF Inv, ClassInv
<1>10. \A p \in pending : Awaited(p)' = Awaited(p)
  BY <1>0 DEF Awaited
<1>11. AwaitInv'
  BY <1>0, <1>4, <1>10, PendingTypes DEF Inv, AwaitInv
<1>12. \A p \in pending, key \in Keys : Keyed(p, key) => Keyed(p, key)'
  <2>1. \A p \in pending : p.version \in Nat /\ p.version <= store.workspaceVersion
    BY PendingTypes DEF Inv, AwaitInv
  <2> QED
    BY <1>4, <1>10, <2>1 DEF Keyed
<1>13. AskedInv'
  <2>1. \A i \in DOMAIN queue : queue[i].key \in Keys
    BY QueueTypes DEF Inv
  <2>2. \A i \in DOMAIN replies : replies[i].kind = "result" => replies[i].key \in Keys
    BY ReplyTypes DEF Inv
  <2> QED
    BY <1>0, <1>10, <1>12, <2>1, <2>2 DEF Inv, AskedInv, Asked, Answered
<1>14. WasmInv'
  BY <1>0, <1>4 DEF Inv, WasmInv
<1>15. CallInv'
  <2>1. \A i \in DOMAIN queue : queue[i].key.epoch \in Nat
    BY QueueTypes DEF Inv
  <2>2. session # None => session.key.epoch \in Nat
    BY SessionTypes DEF Inv
  <2> QED
    BY <1>0, <1>4, <1>10, <2>1, <2>2 DEF Inv, CallInv
<1>16. LiveInv'
  BY <1>4, <1>5, <1>6 DEF LiveInv
<1>17. HistInv'
  <2>1. session # None => session.key.epoch \in Nat /\ session.key.epoch <= Sum(store)
    BY SessionTypes DEF Inv, CallInv
  <2>2. SandboxKey(store').epoch = Sum(store')
    BY DEF SandboxKey, Sum
  <2> QED
    BY <1>0, <1>4, <2>1, <2>2 DEF HistInv
<1>18. RecordInv'
  BY <1>0, <1>4 DEF Inv, RecordInv, OneDeploymentPerVersion
<1>19. WatchInv'
  BY <1>4, <1>5, <1>6 DEF WatchInv
<1>20. ReadInv'
  <2>1. \A q \in pendingWatches : q.version # store'.workspaceVersion
    BY <1>4, PendingTypes DEF Inv, AwaitInv
  <2> QED
    BY <1>0, <2>1 DEF Inv, ReadInv, StillCurrent
<1>21. DiscoveryInv'
  <2>1. store'.discoveryVersion = store.discoveryVersion
    BY <1>2 DEF IsEdited, SameFound
  <2>2. DiscoveredIsCurrent'
    BY <1>5, <1>6, <2>1 DEF DiscoveredIsCurrent, Discovered
  <2> QED
    BY <1>0, <1>5, <1>6, <2>2 DEF Inv, DiscoveryInv
<1>22. ShownResultIsCurrent'
  <2>1. store'.lastCompiledVersion = store.lastCompiledVersion
    BY <1>2 DEF IsEdited, SameResult
  <2> QED
    BY <1>5, <1>6, <2>1 DEF ShownResultIsCurrent
<1> QED
  BY <1>7, <1>8, <1>9, <1>11, <1>13, <1>14, <1>15, <1>16, <1>17, <1>18, <1>19, <1>20, <1>21, <1>22 DEF Inv

-----------------------------------------------------------------------------
(* Steps of the page that may take an answer and may ask for a reading of the  *)
(* watches, in the same workspace.                                             *)

\* The watches q are asked for, or nothing is asked.
AsksWatches(m, q) ==
  /\ m \in Messages /\ m.id = nextId /\ m.kind = "watch" /\ m.call = None
  /\ q \in Reads /\ q.id = nextId /\ q.run = watchRun' /\ q.watches = m.watches
  /\ q.version = store'.workspaceVersion /\ q.epoch = store'.sandboxEpoch
  /\ q.action <= store'.actionSequence
  /\ pendingWatches' = {q} /\ queue' = Append(queue, m) /\ nextId' = nextId + 1
  /\ ~store'.compiling
AsksNothing ==
  nextId' = nextId /\ pendingWatches' \subseteq pendingWatches /\ queue' = queue

\* No answer is taken, or the first one, with all that awaited it.
TakesAnswer ==
  \/ replies' = replies /\ pending' = pending
  \/ /\ replies # <<>> /\ replies' = Tail(replies) /\ pending' \subseteq pending
     /\ \A p \in pending \ pending' : p.id = replies[1].id

PageMoves ==
  /\ UNCHANGED <<compileRun, latestId, runtime, session, nextSandbox, effect>>
  /\ TakesAnswer
  /\ AsksNothing \/ \E m, q : AsksWatches(m, q)
  /\ watchRun' \in {watchRun, watchRun + 1}
  /\ watchRun' = watchRun => store'.sandbox = store.sandbox /\ AsksNothing
  /\ SameWorkspace(store, store') /\ store'.actionSequence >= store.actionSequence
  /\ \A p \in pending' : Awaited(p) => store'.compiling
  /\ store'.sandbox # None /\ store.sandbox = None =>
       session # None /\ \A i \in DOMAIN queue : queue[i].call = None

\* What of the answers is left.
LEMMA AnswersLeft ==
  ASSUME Inv, PageMoves
  PROVE  /\ replies' \in Seq(Answers) /\ pending' \subseteq pending
         /\ \A i \in DOMAIN replies' : \E j \in DOMAIN replies :
              replies'[i] = replies[j] /\ (j = i \/ j = i + 1)
         /\ \A i, k \in DOMAIN replies' : i < k => replies'[i].id < replies'[k].id
         /\ \A p \in pending, i \in DOMAIN queue : p.id = queue[i].id => p \in pending'
<1>1. replies \in Seq(Answers)
  BY DEF Inv, TypeInv
<1>2. CASE replies' = replies /\ pending' = pending
  BY <1>1, <1>2 DEF Inv, IdsInv
<1>3. CASE /\ replies # <<>> /\ replies' = Tail(replies) /\ pending' \subseteq pending
           /\ \A p \in pending \ pending' : p.id = replies[1].id
  <2>1. /\ replies' \in Seq(Answers) /\ 1 \in DOMAIN replies
        /\ DOMAIN replies' = 1 .. Len(replies) - 1 /\ Len(replies) \in Nat
        /\ \A i \in DOMAIN replies' : i + 1 \in DOMAIN replies /\ replies'[i] = replies[i + 1]
    BY <1>1, <1>3, TailFacts
  <2>2. \A i, k \in DOMAIN replies' : i < k => replies'[i].id < replies'[k].id
    BY <2>1 DEF Inv, IdsInv
  <2>3. \A i \in DOMAIN queue : replies[1].id < queue[i].id
    BY <2>1 DEF Inv, IdsInv
  <2>4. \A p \in pending, i \in DOMAIN queue : p.id = queue[i].id => p \in pending'
    <3>1. replies[1].id \in Nat /\ \A i \in DOMAIN queue : queue[i].id \in Nat
      BY <2>1, ReplyTypes, QueueTypes DEF Inv
    <3> QED
      BY <1>3, <2>3, <3>1
  <2> QED
    BY <1>3, <2>1, <2>2, <2>4
<1> QED
  BY <1>2, <1>3 DEF PageMoves, TakesAnswer

\* What is in the queue then.
LEMMA AskedThen ==
  ASSUME Inv, PageMoves
  PROVE  /\ queue' \in Seq(Messages) /\ nextId' \in Nat /\ nextId' >= nextId
         /\ \A i \in DOMAIN queue' :
              \/ i \in DOMAIN queue /\ queue'[i] = queue[i]
              \/ /\ queue'[i].id = nextId /\ queue'[i].kind = "watch" /\ queue'[i].call = None
                 /\ nextId < nextId'
                 /\ \A k \in DOMAIN queue : k < i
                 /\ \A q \in pendingWatches' : q.watches = queue'[i].watches
         /\ \A i, k \in DOMAIN queue' : i < k => queue'[i].id < queue'[k].id
<1>1. queue \in Seq(Messages) /\ nextId \in Nat
  BY DEF Inv, TypeInv
<1>2. CASE AsksNothing
  BY <1>1, <1>2 DEF AsksNothing, Inv, IdsInv
<1>3. ASSUME NEW m, NEW q, AsksWatches(m, q)
      PROVE  /\ queue' \in Seq(Messages) /\ nextId' \in Nat /\ nextId' >= nextId
             /\ \A i \in DOMAIN queue' :
                  \/ i \in DOMAIN queue /\ queue'[i] = queue[i]
                  \/ /\ queue'[i].id = nextId /\ queue'[i].kind = "watch" /\ queue'[i].call = None
                     /\ nextId < nextId'
                     /\ \A k \in DOMAIN queue : k < i
                     /\ \A w \in pendingWatches' : w.watches = queue'[i].watches
             /\ \A i, k \in DOMAIN queue' : i < k => queue'[i].id < queue'[k].id
  <2>1. /\ m \in Messages /\ m.id = nextId /\ m.kind = "watch" /\ m.call = None
        /\ queue' = Append(queue, m) /\ nextId' = nextId + 1
        /\ pendingWatches' = {q} /\ q.watches = m.watches
    BY <1>3 DEF AsksWatches
  <2>2. /\ queue' \in Seq(Messages) /\ DOMAIN queue' = DOMAIN queue \cup {Len(queue) + 1}
        /\ Len(queue) \in Nat /\ DOMAIN queue \subseteq Nat
        /\ \A i \in DOMAIN queue : i < Len(queue) + 1 /\ queue'[i] = queue[i]
        /\ queue'[Len(queue) + 1] = m
    BY <1>1, <2>1, AppendFacts
  <2>3. \A i, k \in DOMAIN queue : i < k => queue[i].id < queue[k].id
    BY DEF Inv, IdsInv
  <2>4. \A i \in DOMAIN queue : queue[i].id < nextId
    BY DEF Inv, IdsInv
  <2>5. \A i, k \in DOMAIN queue' : i < k => queue'[i].id < queue'[k].id
    BY <2>1, <2>2, <2>3, <2>4
  <2> QED
    BY <1>1, <2>1, <2>2, <2>5
<1> QED
  BY <1>2, <1>3 DEF PageMoves

\* What waits for the watches then.
LEMMA ReadsThen ==
  ASSUME Inv, PageMoves, StoreTyped(store')
  PROVE  /\ pendingWatches' \in SUBSET Reads
         /\ \A q \in pendingWatches' :
              /\ q.id < nextId' /\ q.run <= watchRun' /\ q.version <= store'.workspaceVersion
              /\ q.epoch <= store'.sandboxEpoch
              /\ q.epoch = store'.sandboxEpoch => q.action <= store'.actionSequence
              /\ \/ q \in pendingWatches /\ (watchRun' # watchRun => q.run # watchRun')
                 \/ q.id = nextId /\ ~store'.compiling
         /\ \A q, w \in pendingWatches' : q = w
<1>1. /\ nextId \in Nat /\ watchRun \in Nat /\ pendingWatches \in SUBSET Reads
      /\ store.workspaceVersion \in Nat /\ store.sandboxEpoch \in Nat /\ store.actionSequence \in Nat
  BY PageTypes DEF Inv, TypeInv
<1>2. /\ store'.workspaceVersion = store.workspaceVersion /\ store'.sandboxEpoch = store.sandboxEpoch
      /\ store'.actionSequence >= store.actionSequence
      /\ watchRun' \in {watchRun, watchRun + 1}
  BY DEF PageMoves, SameWorkspace
<1>3. store'.actionSequence \in Nat
  BY Zenon DEF StoreTyped
<1>4. CASE AsksNothing
  <2>1. \A q \in pendingWatches : /\ q.id < nextId /\ q.run <= watchRun
                                  /\ q.version <= store.workspaceVersion
                                  /\ q.epoch <= store.sandboxEpoch
                                  /\ q.epoch = store.sandboxEpoch => q.action <= store.actionSequence
    BY DEF Inv, IdsInv, AwaitInv
  <2>2. \A q, w \in pendingWatches : q = w
    BY DEF Inv, ClassInv
  <2>3. nextId' = nextId /\ pendingWatches' \subseteq pendingWatches
    BY <1>4 DEF AsksNothing
  <2>4. \A q \in pendingWatches : q.id \in Nat /\ q.run \in Nat /\ q.action \in Nat
    BY PendingTypes DEF Inv
  <2> QED
    BY <1>1, <1>2, <1>3, <2>1, <2>2, <2>3, <2>4
<1>5. ASSUME NEW m, NEW q, AsksWatches(m, q)
      PROVE  /\ pendingWatches' = {q} /\ q \in Reads
             /\ q.id < nextId' /\ q.run <= watchRun' /\ q.version <= store'.workspaceVersion
             /\ q.epoch <= store'.sandboxEpoch
             /\ q.epoch = store'.sandboxEpoch => q.action <= store'.actionSequence
             /\ q.id = nextId /\ ~store'.compiling
  BY <1>1, <1>2, <1>5 DEF AsksWatches
<1> QED
  BY <1>4, <1>5 DEF PageMoves

\* What is left to show of such a step is what it does to the store.
LEMMA PageStep ==
  ASSUME Inv, PageMoves, StoreTyped(store'), store'.sandbox # None => runtime.wasm = "ready",
         LiveInv', HistInv', RecordInv', WatchInv', DiscoveredIsCurrent', ShownResultIsCurrent'
  PROVE  Inv'
<1>0. /\ compileRun' = compileRun /\ latestId' = latestId /\ runtime' = runtime
      /\ session' = session /\ nextSandbox' = nextSandbox /\ effect' = effect
      /\ watchRun' \in {watchRun, watchRun + 1}
      /\ store'.source = store.source /\ store'.backend = store.backend
      /\ store'.workspaceVersion = store.workspaceVersion
      /\ store'.sandboxEpoch = store.sandboxEpoch
      /\ SandboxKey(store') = SandboxKey(store) /\ Sum(store') = Sum(store)
  BY DEF PageMoves, SameWorkspace, SandboxKey, Sum
<1>1. /\ replies' \in Seq(Answers) /\ pending' \subseteq pending
      /\ \A i \in DOMAIN replies' : \E j \in DOMAIN replies :
           replies'[i] = replies[j] /\ (j = i \/ j = i + 1)
      /\ \A i, k \in DOMAIN replies' : i < k => replies'[i].id < replies'[k].id
      /\ \A p \in pending, i \in DOMAIN queue : p.id = queue[i].id => p \in pending'
  BY AnswersLeft
<1>2. /\ queue' \in Seq(Messages) /\ nextId' \in Nat /\ nextId' >= nextId
      /\ \A i \in DOMAIN queue' :
           \/ i \in DOMAIN queue /\ queue'[i] = queue[i]
           \/ /\ queue'[i].id = nextId /\ queue'[i].kind = "watch" /\ queue'[i].call = None
              /\ nextId < nextId'
              /\ \A k \in DOMAIN queue : k < i
              /\ \A q \in pendingWatches' : q.watches = queue'[i].watches
      /\ \A i, k \in DOMAIN queue' : i < k => queue'[i].id < queue'[k].id
  BY AskedThen
<1>3. /\ pendingWatches' \in SUBSET Reads
      /\ \A q \in pendingWatches' :
           /\ q.id < nextId' /\ q.run <= watchRun' /\ q.version <= store'.workspaceVersion
           /\ q.epoch <= store'.sandboxEpoch
           /\ q.epoch = store'.sandboxEpoch => q.action <= store'.actionSequence
           /\ \/ q \in pendingWatches /\ (watchRun' # watchRun => q.run # watchRun')
              \/ q.id = nextId /\ ~store'.compiling
      /\ \A q, w \in pendingWatches' : q = w
  BY ReadsThen
<1>4. /\ nextId \in Nat \ {0} /\ latestId \in Nat /\ compileRun \in Nat /\ watchRun \in Nat
      /\ pending \in SUBSET Operations
      /\ runtime \in [wasm : {"unloaded", "ready", "failed", "dead"}, solc : BOOLEAN]
  BY DEF Inv, TypeInv
<1>5. \A p \in pending : p.id \in Nat /\ p.id < nextId
  BY PendingTypes DEF Inv, IdsInv
<1>6. \A p \in pending : Awaited(p)' = Awaited(p)
  BY <1>0 DEF Awaited
<1>7. TypeInv'
  <2>1. effect.version \in Versions(store')
    BY <1>0 DEF Inv, TypeInv, Versions
  <2>2. nextId' \in Nat \ {0} /\ watchRun' \in Nat /\ pending' \in SUBSET Operations
    BY <1>0, <1>1, <1>2, <1>4
  <2> QED
    BY <1>0, <1>1, <1>2, <1>3, <2>1, <2>2, Zenon DEF Inv, TypeInv
<1>8. IdsInv'
  <2>1. \A i \in DOMAIN replies : replies[i].id \in Nat /\ replies[i].id < nextId
    BY ReplyTypes DEF Inv, IdsInv
  <2>2. \A i \in DOMAIN queue : queue[i].id \in Nat /\ queue[i].id < nextId
    BY QueueTypes DEF Inv, IdsInv
  <2>3. \A i \in DOMAIN replies' : replies'[i].id < nextId'
    BY <1>1, <1>2, <1>4, <2>1
  <2>4. \A i \in DOMAIN queue' : queue'[i].id < nextId'
    BY <1>2, <1>4, <2>2
  <2>5. \A i \in DOMAIN replies', j \in DOMAIN queue' : replies'[i].id < queue'[j].id
    BY <1>1, <1>2, <1>4, <2>1 DEF Inv, IdsInv
  <2>6. \A i \in DOMAIN queue' : queue'[i].kind \in {"compile", "run"} => queue'[i].id <= latestId
    BY <1>2 DEF Inv, IdsInv
  <2>7. latestId < nextId' /\ \A p \in pending' : p.id < nextId'
    BY <1>1, <1>2, <1>4, <1>5 DEF Inv, IdsInv
  <2>8. \A q \in pendingWatches' : q.id < nextId'
    BY <1>3
  <2> QED
    BY <1>0, <1>1, <1>2, <2>3, <2>4, <2>5, <2>6, <2>7, <2>8, Zenon DEF IdsInv
<1>9. ClassInv'
  <2>1. \A p \in pending', q \in pendingWatches' : p.id # q.id
    BY <1>1, <1>3, <1>4, <1>5 DEF Inv, ClassInv
  <2> QED
    BY <1>0, <1>1, <1>3, <2>1 DEF Inv, ClassInv
<1>10. AwaitInv'
  <2>1. \A p \in pending' : p.run <= compileRun' /\ p.version <= store'.workspaceVersion
    BY <1>0, <1>1 DEF Inv, AwaitInv
  <2>2. \A p \in pending' : Awaited(p)' => store'.compiling
    BY <1>1, <1>6 DEF PageMoves
  <2>3. \A p \in pending', q \in pendingWatches' : Awaited(p)' /\ p.manual => q.run # watchRun'
    BY <1>0, <1>1, <1>3, <1>6, <2>2 DEF Inv, AwaitInv
  <2> QED
    BY <1>3, <2>1, <2>2, <2>3, Zenon DEF AwaitInv
<1>11. \A p \in pending : \A key : Keyed(p, key)' = Keyed(p, key)
  BY <1>0, <1>6 DEF Keyed
<1>12. AskedInv'
  <2>1. \A i \in DOMAIN queue', p \in pending' :
          p.id = queue'[i].id => i \in DOMAIN queue /\ queue'[i] = queue[i]
    BY <1>1, <1>2, <1>4, <1>5
  <2>2. \A m, p : p \in pending /\ Asked(p, m) => Asked(p, m)'
    BY <1>0, <1>11 DEF Asked
  <2>3. \A i \in DOMAIN replies : \A p \in pending : p.id = replies[i].id => Answered(p, replies[i])
    BY DEF Inv, AskedInv
  <2>4. \A i \in DOMAIN queue : \A p \in pending : p.id = queue[i].id => Asked(p, queue[i])
    BY DEF Inv, AskedInv
  <2>5. \A r, p : p \in pending /\ Answered(p, r) => Answered(p, r)'
    BY <1>0, <1>6, <1>11 DEF Answered
  <2>6. (\A i \in DOMAIN queue : \A p \in pending : p.id = queue[i].id => Asked(p, queue[i]))'
    BY <1>1, <2>1, <2>2, <2>4
  <2>7. (\A i \in DOMAIN replies : \A p \in pending : p.id = replies[i].id => Answered(p, replies[i]))'
    BY <1>1, <2>3, <2>5
  <2> QED
    BY <2>6, <2>7, Zenon DEF AskedInv
<1>13. WasmInv'
  BY <1>0, <1>1 DEF Inv, WasmInv
<1>14. CallInv'
  <2>1. \A i \in DOMAIN queue' : queue'[i].call # None => i \in DOMAIN queue /\ queue'[i] = queue[i]
    BY <1>2
  <2>2. \A i \in DOMAIN queue :
          (\E p \in pending : p.id = queue[i].id /\ Awaited(p)) =>
             \E p \in pending' : p.id = queue[i].id /\ Awaited(p)'
    BY <1>1, <1>6
  <2>3. store'.sandbox # None => store.sandbox # None \/ \A i \in DOMAIN queue : queue[i].call = None
    BY DEF PageMoves
  <2> QED
    BY <1>0, <2>1, <2>2, <2>3 DEF Inv, CallInv
<1>15. ReadInv'
  <2>1. \A i \in DOMAIN queue', q \in pendingWatches' :
          q.id = queue'[i].id => queue'[i].kind = "watch" /\ queue'[i].watches = q.watches
    <3>1. \A i \in DOMAIN queue : queue[i].id \in Nat /\ queue[i].id < nextId
      BY QueueTypes DEF Inv, IdsInv
    <3> QED
      BY <1>2, <1>3, <1>4, <3>1 DEF Inv, ReadInv
  <2>2. \A i \in DOMAIN replies : replies[i].id \in Nat /\ replies[i].id < nextId
    BY ReplyTypes DEF Inv, IdsInv
  <2>3. \A q \in pendingWatches' :
          \/ q \in pendingWatches /\ (StillCurrent(store, q)' => StillCurrent(store, q))
          \/ q.id = nextId
    BY <1>0, <1>3 DEF PageMoves, StillCurrent
  <2>4. \A j \in DOMAIN replies, q \in pendingWatches' :
          q.id = replies[j].id =>
            /\ replies[j].kind \in {"watch-result", "error"}
            /\ replies[j].kind = "watch-result" =>
                 /\ DOMAIN replies[j].values = q.watches
                 /\ StillCurrent(store, q)' =>
                      \A w \in q.watches : replies[j].values[w] \in {None, session.calls}
    BY <1>4, <2>2, <2>3 DEF Inv, ReadInv
  <2> QED
    BY <1>0, <1>1, <2>1, <2>4 DEF ReadInv
<1>16. DiscoveryInv'
  BY <1>0, <1>1 DEF Inv, DiscoveryInv
<1> QED
  BY <1>7, <1>8, <1>9, <1>10, <1>12, <1>13, <1>14, <1>15, <1>16 DEF Inv

\* A step that leaves the manual session and what is awaited of it as they are.
LEMMA QuietManual ==
  ASSUME Inv, SameWorkspace(store, store'), SameManual(store, store'), SameReads(store, store'),
         session' = session, nextSandbox' = nextSandbox,
         InFlight' = InFlight, Uncounted' = Uncounted
  PROVE  LiveInv' /\ HistInv' /\ RecordInv' /\ WatchInv'
<1>1. /\ SandboxKey(store') = SandboxKey(store)
      /\ store'.workspaceVersion = store.workspaceVersion /\ store'.sandboxEpoch = store.sandboxEpoch
  BY DEF SameWorkspace, SandboxKey
<1>2. LiveInv'
  BY <1>1 DEF Inv, LiveInv, SameManual
<1>3. HistInv'
  BY <1>1 DEF Inv, HistInv, SameManual
<1>4. RecordInv'
  BY <1>1 DEF Inv, RecordInv, OneDeploymentPerVersion, SameManual
<1>5. WatchInv'
  BY <1>1 DEF Inv, WatchInv, SameManual, SameReads
<1> QED
  BY <1>2, <1>3, <1>4, <1>5

\* What was found of the present workspace stays so.
LEMMA QuietFound ==
  ASSUME Inv, SameWorkspace(store, store'), SameFound(store, store'), runtime' = runtime
  PROVE  DiscoveredIsCurrent'
  BY DEF Inv, DiscoveryInv, DiscoveredIsCurrent, Discovered, SameWorkspace, SameFound

\* The result shown stays that of the present files.
LEMMA QuietResult ==
  ASSUME Inv, SameWorkspace(store, store'), SameResult(store, store')
  PROVE  ShownResultIsCurrent'
  BY DEF Inv, ShownResultIsCurrent, SameWorkspace, SameResult

\* What refreshWatches does to the page whose store is s.
LEMMA RefreshFacts ==
  ASSUME Inv, NEW s, StoreTyped(s), RefreshWatches(s)
  PROVE  /\ watchRun' = watchRun + 1
         /\ \E l \in BOOLEAN : IsLoading(s, store', l)
         /\ AsksNothing \/ \E m, q : AsksWatches(m, q)
         /\ StoreTyped(store')
<1> DEFINE watches == {w \in s.watches : s.sandbox # None /\ w = s.sandbox.contract}
           key == SandboxKey(s)
           m == Message(nextId, "watch", key, FALSE, None, watches)
           q == [id |-> nextId, run |-> watchRun + 1, watches |-> watches,
                 version |-> s.workspaceVersion, epoch |-> s.sandboxEpoch,
                 sandbox |-> s.sandbox, action |-> s.sandboxAction]
           idle == s.compiling \/ s.sandbox = None \/ s.sandboxVersion # s.workspaceVersion \/ watches = {}
<1>1. IsStore(s) /\ watchRun \in Nat /\ nextId \in Nat
  BY PageTypes, Zenon DEF Inv, StoreTyped
<1>2. /\ watchRun' = watchRun + 1
      /\ IF idle
         THEN store' = Loading(s, FALSE) /\ UNCHANGED <<nextId, pendingWatches, queue>>
         ELSE /\ store' = Loading(s, TRUE) /\ nextId' = nextId + 1
              /\ pendingWatches' = {q} /\ queue' = Append(queue, m)
  BY Zenon DEF RefreshWatches, Loading
<1>3. watches \in SUBSET Contracts /\ key \in Keys
  BY DEF StoreTyped, SandboxKey, Keys, Backends
<1> HIDE DEF watches, key
<1>4. \A l \in BOOLEAN : store' = Loading(s, l) => IsLoading(s, store', l)
  BY <1>1, LoadingFields
<1>5. \A l \in BOOLEAN : IsLoading(s, store', l) => StoreTyped(store')
  <2>1. SUFFICES ASSUME NEW l \in BOOLEAN, IsLoading(s, store', l)
                 PROVE  StoreTyped(store')
    OBVIOUS
  <2>2. Versions(store') = Versions(s)
    BY <2>1 DEF Versions, IsLoading, SameWorkspace
  <2> QED
    BY <2>1, <2>2 DEF StoreTyped, IsLoading, SameWorkspace, SameFound, SameManual, SameReads, SameResult
<1>6. CASE idle
  BY <1>2, <1>4, <1>5, <1>6 DEF AsksNothing
<1>7. CASE ~idle
  <2>1. IsLoading(s, store', TRUE) /\ StoreTyped(store')
    BY <1>2, <1>4, <1>5, <1>7
  <2>2. /\ m \in Messages /\ m.id = nextId /\ m.kind = "watch" /\ m.call = None /\ m.watches = watches
    BY <1>1, <1>3 DEF Message, Messages
  <2>3. /\ s.sandbox \in Deployments /\ s.sandboxAction \in Nat /\ s.sandboxAction <= s.actionSequence
        /\ s.workspaceVersion \in Nat /\ s.sandboxEpoch \in Nat /\ ~s.compiling
    BY <1>7 DEF StoreTyped
  <2>4. q \in Reads /\ q.id = nextId /\ q.run = watchRun + 1 /\ q.watches = watches
        /\ q.version = s.workspaceVersion /\ q.epoch = s.sandboxEpoch /\ q.action = s.sandboxAction
    BY <1>1, <1>3, <2>3 DEF Reads
  <2>5. /\ store'.workspaceVersion = s.workspaceVersion /\ store'.sandboxEpoch = s.sandboxEpoch
        /\ store'.actionSequence = s.actionSequence /\ store'.compiling = s.compiling
    BY <2>1 DEF IsLoading, SameWorkspace, SameManual
  <2> HIDE DEF m, q
  <2>6. AsksWatches(m, q)
    BY <1>2, <1>7, <2>2, <2>3, <2>4, <2>5 DEF AsksWatches
  <2> QED
    BY <1>2, <2>1, <2>6
<1> QED
  BY <1>6, <1>7

\* A watch is removed.
LEMMA RemoveWatchStep ==
  ASSUME Inv, NEW watch \in Contracts, RemoveWatch(watch)
  PROVE  Inv'
<1> DEFINE watches == store.watches \ {watch}
<1>1. /\ UNCHANGED <<nextId, latestId, pending, pendingWatches, queue, replies, runtime, session,
                     nextSandbox, effect, compileRun, watchRun>>
  BY DEF RemoveWatch, Gesture, client, worker
<1>2. store' = Watched(store, watches)
  BY Zenon DEF RemoveWatch, Watched
<1>3. watches \in SUBSET Contracts /\ IsFiniteSet(watches) /\ Cardinality(watches) <= WatchLimit
  <2>1. store.watches \in SUBSET Contracts /\ IsFiniteSet(store.watches)
        /\ Cardinality(store.watches) <= WatchLimit
    BY Zenon DEF Inv, TypeInv, StoreTyped
  <2>2. IsFiniteSet(watches) /\ Cardinality(watches) <= Cardinality(store.watches)
    BY <2>1, FS_Subset
  <2>3. Cardinality(watches) \in Nat /\ Cardinality(store.watches) \in Nat
    BY <2>1, <2>2, FS_CardinalityType
  <2> QED
    BY <2>1, <2>2, <2>3, FactsAssumption
<1> HIDE DEF watches
<1>4. IsWatched(store, store', watches)
  BY <1>2, WatchedFields, PageTypes DEF Inv
<1>5. StoreTyped(store')
  BY <1>3, <1>4, WatchedTyped, PageTypes DEF Inv
<1>6. /\ SameWorkspace(store, store') /\ SameManual(store, store') /\ SameReads(store, store')
      /\ SameFound(store, store') /\ SameResult(store, store') /\ store'.compiling = store.compiling
  BY <1>4 DEF IsWatched
<1>7. /\ LiveInv' /\ HistInv' /\ RecordInv' /\ WatchInv'
      /\ DiscoveredIsCurrent' /\ ShownResultIsCurrent'
  BY <1>1, <1>6, SameFlights, QuietManual, QuietFound, QuietResult
<1>8. PageMoves
  <2>1. store'.actionSequence >= store.actionSequence
    BY <1>6, PageTypes DEF Inv, SameManual
  <2> QED
    BY <1>1, <1>6, <2>1 DEF PageMoves, TakesAnswer, AsksNothing, SameManual, Inv, AwaitInv
<1>9. store'.sandbox # None => runtime.wasm = "ready"
  BY <1>6 DEF Inv, WasmInv, SameManual
<1> QED
  BY <1>5, <1>7, <1>8, <1>9, PageStep

\* A watch is added, and the watches are read again.
LEMMA AddWatchStep ==
  ASSUME Inv, NEW watch \in Contracts, AddWatch(watch)
  PROVE  Inv'
<1> DEFINE watches == store.watches \cup {watch}
           s == Watched(store, watches)
<1>1. /\ UNCHANGED <<latestId, pending, replies, runtime, session, nextSandbox, effect, compileRun>>
  BY DEF AddWatch, Gesture, worker
<1>2. RefreshWatches(s)
  BY Zenon DEF AddWatch, Watched
<1>3. watches \in SUBSET Contracts /\ IsFiniteSet(watches) /\ Cardinality(watches) <= WatchLimit
  <2>1. store.watches \in SUBSET Contracts /\ IsFiniteSet(store.watches)
        /\ Cardinality(store.watches) < WatchLimit /\ watch \notin store.watches
    BY Zenon DEF Inv, TypeInv, StoreTyped, AddWatch
  <2>2. IsFiniteSet(watches) /\ Cardinality(watches) = Cardinality(store.watches) + 1
    BY <2>1, FS_AddElement
  <2>3. Cardinality(store.watches) \in Nat
    BY <2>1, FS_CardinalityType
  <2> QED
    BY <2>1, <2>2, <2>3, FactsAssumption
<1> HIDE DEF watches
<1>4. IsWatched(store, s, watches)
  BY WatchedFields, PageTypes DEF Inv
<1> HIDE DEF s
<1>5. StoreTyped(s)
  BY <1>3, <1>4, WatchedTyped, PageTypes DEF Inv
<1>6. /\ watchRun' = watchRun + 1
      /\ \E l \in BOOLEAN : IsLoading(s, store', l)
      /\ AsksNothing \/ \E m, q : AsksWatches(m, q)
      /\ StoreTyped(store')
  BY <1>2, <1>5, RefreshFacts
<1>7. /\ SameWorkspace(store, store') /\ SameManual(store, store') /\ SameReads(store, store')
      /\ SameFound(store, store') /\ SameResult(store, store') /\ store'.compiling = store.compiling
  BY <1>4, <1>6 DEF IsWatched, IsLoading, SameWorkspace, SameManual, SameReads, SameFound, SameResult
<1>8. /\ LiveInv' /\ HistInv' /\ RecordInv' /\ WatchInv'
      /\ DiscoveredIsCurrent' /\ ShownResultIsCurrent'
  BY <1>1, <1>7, SameFlights, QuietManual, QuietFound, QuietResult
<1>9. PageMoves
  <2>1. store'.actionSequence >= store.actionSequence /\ watchRun' # watchRun
    BY <1>6, <1>7, PageTypes DEF Inv, SameManual
  <2> QED
    BY <1>1, <1>6, <1>7, <2>1 DEF PageMoves, TakesAnswer, SameManual, Inv, AwaitInv
<1>10. store'.sandbox # None => runtime.wasm = "ready"
  BY <1>7 DEF Inv, WasmInv, SameManual
<1> QED
  BY <1>6, <1>8, <1>9, <1>10, PageStep

-----------------------------------------------------------------------------
(* The page handles the first answer. *)

\* The first answer is no manual run's: the others are as they were.
LEMMA OtherAnswer ==
  ASSUME Inv, replies # <<>>, replies' = Tail(replies), pending' \subseteq pending,
         \A p \in pending \ pending' : p.id = replies[1].id,
         compileRun' = compileRun, ~IsFlight(1)
  PROVE  InFlight' = InFlight /\ Uncounted' = Uncounted
<1>1. /\ 1 \in DOMAIN replies /\ Len(replies) \in Nat /\ DOMAIN replies = 1 .. Len(replies)
      /\ DOMAIN replies' = 1 .. Len(replies) - 1
      /\ \A i \in DOMAIN replies' : i + 1 \in DOMAIN replies /\ replies'[i] = replies[i + 1]
  BY TailFacts DEF Inv, TypeInv
<1>2. \A i \in DOMAIN replies' : replies[i + 1].id # replies[1].id
  <2>1. \A i \in DOMAIN replies : replies[i].id \in Nat
    BY ReplyTypes DEF Inv
  <2>2. \A i \in DOMAIN replies' : replies[1].id < replies[i + 1].id
    BY <1>1 DEF Inv, IdsInv
  <2> QED
    BY <1>1, <2>1, <2>2
<1>3. \A p : Awaited(p)' = Awaited(p)
  BY DEF Awaited
<1>4. \A i \in DOMAIN replies' : IsFlight(i)' = IsFlight(i + 1)
  BY <1>1, <1>2, <1>3 DEF IsFlight
<1>5. \A i \in DOMAIN replies : IsFlight(i) => i - 1 \in DOMAIN replies' /\ i = (i - 1) + 1
  BY <1>1
<1>6. (\E i \in DOMAIN replies' : IsFlight(i)') = (\E i \in DOMAIN replies : IsFlight(i))
  BY <1>1, <1>4, <1>5
<1>7. (\E i \in DOMAIN replies' : IsFlight(i)' /\ replies'[i].committed) =
        (\E i \in DOMAIN replies : IsFlight(i) /\ replies[i].committed)
  BY <1>1, <1>4, <1>5
<1> QED
  BY <1>6, <1>7 DEF InFlight, Uncounted

\* No two operations are pending.
LEMMA OnlyOperation ==
  ASSUME Inv, NEW p \in pending, p.kind # "discover", NEW q \in pending,
         q.kind # "discover" \/ q.id = p.id
  PROVE  q = p
<1>1. q.kind # "discover"
  BY DEF Inv, ClassInv
<1> QED
  BY <1>1 DEF Inv, ClassInv, SameClass

\* The answer of the manual run the page waits for.
LEMMA FlightAnswered ==
  ASSUME Inv, replies # <<>>, replies' = Tail(replies), NEW p \in pending,
         p.id = replies[1].id, replies[1].kind = "result", Awaited(p), p.manual,
         pending' = pending \ {p}, compileRun' = compileRun
  PROVE  /\ ~InFlight' /\ ~Uncounted'
         /\ Uncounted <=> replies[1].committed
<1>1. 1 \in DOMAIN replies /\ \A i \in DOMAIN replies : i \in Nat /\ i >= 1
  BY TailFacts DEF Inv, TypeInv
<1>2. \A q \in pending' : ~Awaited(q)'
  BY OnlyOperation DEF Awaited
<1>3. ~InFlight' /\ ~Uncounted'
  BY <1>2 DEF InFlight, Uncounted, IsFlight
<1>4. IsFlight(1)
  BY DEF IsFlight
<1>5. \A i \in DOMAIN replies : IsFlight(i) => i = 1
  <2>1. \A i \in DOMAIN replies : IsFlight(i) => replies[i].id = replies[1].id
    BY OnlyOperation DEF IsFlight, Awaited
  <2>2. \A i \in DOMAIN replies : replies[i].id \in Nat
    BY ReplyTypes DEF Inv
  <2>3. \A i, j \in DOMAIN replies : i < j => replies[i].id < replies[j].id
    BY DEF Inv, IdsInv
  <2> QED
    BY <1>1, <2>1, <2>2, <2>3
<1> QED
  BY <1>1, <1>3, <1>4, <1>5 DEF Uncounted

\* What the page does with an answer, apart from its store.
LEMMA TakesFirst ==
  ASSUME Inv, HandleMessage
  PROVE  /\ replies # <<>> /\ replies' = Tail(replies) /\ Head(replies) = replies[1]
         /\ 1 \in DOMAIN replies
         /\ UNCHANGED <<compileRun, latestId, runtime, session, nextSandbox, effect>>
<1>1. replies # <<>> /\ replies' = Tail(replies)
  BY DEF HandleMessage
<1>2. UNCHANGED <<compileRun, latestId, runtime, session, nextSandbox, effect>>
  BY DEF HandleMessage, worker
<1> QED
  BY <1>1, <1>2, TailFacts DEF Inv, TypeInv

\* A reading of the watches.
LEMMA HandleWatchStep ==
  ASSUME Inv, HandleMessage, NEW p \in pendingWatches, p.id = Head(replies).id,
         HandleWatch(p, Head(replies))
  PROVE  Inv'
<1> DEFINE r == replies[1]
           kept == [w \in p.watches \cap store.watches |-> r.values[w]]
           failed == [w \in p.watches |-> None]
           values == IF r.kind = "watch-result" THEN kept ELSE failed
           action == IF r.kind = "watch-result" THEN p.action ELSE Stopped(store, p).watchAction
<1>1. /\ replies # <<>> /\ replies' = Tail(replies) /\ Head(replies) = r /\ 1 \in DOMAIN replies
      /\ UNCHANGED <<compileRun, latestId, runtime, session, nextSandbox, effect>>
  BY TakesFirst
<1>2. /\ pendingWatches' = pendingWatches \ {p}
      /\ watchRun' = watchRun /\ nextId' = nextId /\ pending' = pending /\ queue' = queue
  BY DEF HandleWatch
<1>3. store' = ReadBy(store, p, values, action)
  <2>1. CASE r.kind = "watch-result"
    <3>1. store' = WatchesRead(store, p, kept, TRUE)
      BY <1>1, <2>1, Zenon DEF HandleWatch
    <3>2. store' = ReadBy(store, p, kept, p.action)
      BY <3>1, Zenon DEF WatchesRead, ReadBy, Noted, Loading, Stopped
    <3> QED
      BY <2>1, <3>2
  <2>2. CASE r.kind # "watch-result"
    <3>1. store' = WatchesRead(store, p, failed, FALSE)
      BY <1>1, <2>2, Zenon DEF HandleWatch
    <3>2. store' = ReadBy(store, p, failed, Stopped(store, p).watchAction)
      BY <3>1, Zenon DEF WatchesRead, ReadBy, Noted, Loading, Stopped
    <3> QED
      BY <2>2, <3>2
  <2> QED
    BY <2>1, <2>2
<1>4. /\ p.watches \in SUBSET Contracts /\ p.action \in Nat /\ p.epoch \in Nat /\ p.version \in Nat
      /\ p.version <= store.workspaceVersion
      /\ p.epoch = store.sandboxEpoch => p.action <= store.actionSequence
      /\ p.id = r.id
  BY <1>1, PendingTypes DEF Inv, AwaitInv
<1>5. DOMAIN values \subseteq p.watches
  OBVIOUS
<1>6. StillCurrent(store, p) => \A w \in DOMAIN values : values[w] \in {None, session.calls}
  BY <1>1, <1>4 DEF Inv, ReadInv
<1>15. action \in {p.action, store.watchAction}
  BY StoppedFields, PageTypes DEF Inv, IsLoading, SameReads
<1> HIDE DEF values, action
<1>7. /\ SameWorkspace(store, store') /\ SameFound(store, store') /\ SameManual(store, store')
      /\ SameResult(store, store') /\ store'.watches = store.watches
      /\ store'.compiling = store.compiling /\ IsStore(store')
      /\ store'.watchLoading = (IF p.run = watchRun THEN FALSE ELSE store.watchLoading)
      /\ ~StillCurrent(store, p) => SameReads(store, store')
      /\ StillCurrent(store, p) =>
           /\ store'.watchValues = values /\ store'.watchVersion = p.version
           /\ store'.watchAction \in {p.action, store.watchAction}
  <2>1. IsStore(store)
    BY PageTypes DEF Inv
  <2>2. IsRead(store, store', p, values, action)
    BY <1>3, <2>1, ReadFields
  <2> QED
    BY <1>15, <2>2 DEF IsRead
<1>8. StoreTyped(store')
  <2>1. Versions(store') = Versions(store)
    BY <1>7 DEF Versions, SameWorkspace
  <2>2. StoreTyped(store) /\ p.version \in Versions(store)
    BY <1>4, PageTypes DEF Inv, Versions
  <2>3. StillCurrent(store, p) => p.epoch = store.sandboxEpoch
    BY DEF StillCurrent
  <2>4. store'.watchLoading \in BOOLEAN
    BY <1>7, <2>2, Zenon DEF StoreTyped
  <2>5. store'.watchVersion \in Versions(store') /\ DOMAIN store'.watchValues \subseteq Contracts
    BY <1>4, <1>5, <1>7, <2>1, <2>2 DEF StoreTyped, SameReads
  <2>6. store'.watchAction \in (0 .. store'.actionSequence) \cup {None}
    BY <1>4, <1>7, <2>2, <2>3 DEF StoreTyped, SameReads, SameManual
  <2> QED
    BY <1>7, <2>1, <2>2, <2>4, <2>5, <2>6 DEF StoreTyped, SameWorkspace, SameFound, SameManual, SameResult
<1>9. InFlight' = InFlight /\ Uncounted' = Uncounted
  <2>1. ~IsFlight(1)
    BY <1>4 DEF IsFlight, Inv, ClassInv
  <2> QED
    BY <1>1, <1>2, <2>1, OtherAnswer
<1>10. LiveInv' /\ HistInv' /\ RecordInv'
  <2>1. /\ SandboxKey(store') = SandboxKey(store)
        /\ store'.workspaceVersion = store.workspaceVersion /\ store'.sandboxEpoch = store.sandboxEpoch
    BY <1>7 DEF SameWorkspace, SandboxKey
  <2> QED
    BY <1>1, <1>7, <1>9, <2>1 DEF Inv, LiveInv, HistInv, RecordInv, OneDeploymentPerVersion, SameManual
<1>11. WatchInv'
  <2>1. CASE StillCurrent(store, p)
    BY <1>1, <1>6, <1>7, <2>1 DEF WatchInv
  <2>2. CASE ~StillCurrent(store, p)
    BY <1>1, <1>7, <1>9, <2>2 DEF Inv, WatchInv, SameWorkspace, SameManual, SameReads
  <2> QED
    BY <2>1, <2>2
<1>12. DiscoveredIsCurrent' /\ ShownResultIsCurrent'
  BY <1>1, <1>7, QuietFound, QuietResult
<1>13. PageMoves
  <2>1. store'.actionSequence >= store.actionSequence /\ store'.sandbox = store.sandbox
    BY <1>7, PageTypes DEF Inv, SameManual
  <2> QED
    BY <1>1, <1>2, <1>7, <2>1 DEF PageMoves, TakesAnswer, AsksNothing, Inv, AwaitInv
<1>14. store'.sandbox # None => runtime.wasm = "ready"
  BY <1>7 DEF Inv, WasmInv, SameManual
<1> QED
  BY <1>8, <1>10, <1>11, <1>12, <1>13, <1>14, PageStep

\* A store with what a discovery found has its types.
LEMMA DiscoveryTyped ==
  ASSUME NEW s, StoreTyped(s), NEW p, NEW tests \in BOOLEAN, NEW contracts \in SUBSET Contracts,
         NEW main \in BOOLEAN, NEW m, m = Discovery(s, p, tests, contracts, main)
  PROVE  StoreTyped(m)
<1>1. IsStore(s) /\ s.workspaceVersion \in Nat
  BY Zenon DEF StoreTyped
<1>2. /\ IsStore(m) /\ SameWorkspace(s, m) /\ SameManual(s, m)
      /\ SameReads(s, m) /\ SameResult(s, m) /\ m.watches = s.watches
      /\ m.watchLoading = s.watchLoading /\ m.compiling = s.compiling
      /\ p.active => FoundBy(s, m, p.version, tests, contracts, main)
      /\ ~p.active => SameFound(s, m)
  BY <1>1, DiscoveryFields
<1>3. Versions(m) = Versions(s) /\ s.workspaceVersion \in Versions(s)
  BY <1>1, <1>2 DEF Versions, SameWorkspace
<1>4. /\ m.testCases \in BOOLEAN /\ m.hasMain \in BOOLEAN
      /\ m.contracts \in SUBSET Contracts /\ m.discoveryVersion \in Versions(m)
  <2>1. CASE SameFound(s, m)
    BY <1>3, <2>1 DEF StoreTyped, SameFound
  <2>2. CASE ~SameFound(s, m)
    BY <1>2, <1>3, <2>2 DEF FoundBy
  <2> QED
    BY <2>1, <2>2
<1> QED
  BY <1>2, <1>3, <1>4 DEF StoreTyped, SameWorkspace, SameManual, SameReads, SameResult

\* A discovery found something, or the compiler could not be loaded.
LEMMA HandleDiscoveryStep ==
  ASSUME Inv, HandleMessage, NEW p \in pending, p.id = Head(replies).id, p.kind = "discover",
         pending' = pending \ {p}, HandleDiscovery(p, Head(replies))
  PROVE  Inv'
<1> DEFINE r == replies[1]
           tests == IF r.kind = "result" THEN r.tests ELSE FALSE
           contracts == IF r.kind = "result" THEN r.contracts ELSE {}
           main == IF r.kind = "result" THEN r.main ELSE FALSE
<1>1. /\ replies # <<>> /\ replies' = Tail(replies) /\ Head(replies) = r /\ 1 \in DOMAIN replies
      /\ UNCHANGED <<compileRun, latestId, runtime, session, nextSandbox, effect>>
  BY TakesFirst
<1>2. watchRun' = watchRun /\ nextId' = nextId /\ pendingWatches' = pendingWatches /\ queue' = queue
  BY DEF HandleDiscovery
<1>3. store' = Discovery(store, p, tests, contracts, main)
  BY <1>1, Zenon DEF HandleDiscovery
<1>4. Answered(p, r)
  BY <1>1 DEF Inv, AskedInv
<1>5. tests \in BOOLEAN /\ main \in BOOLEAN /\ contracts \in SUBSET Contracts
  <2>1. r.kind = "result" => r \in Results
    BY <1>1, ReplyTypes DEF Inv
  <2> QED
    BY <2>1 DEF Results
<1>6. p.version = store.workspaceVersion /\ runtime.wasm # "failed" =>
        LET facts == Facts[store.source]
        IN  tests = facts.tests /\ contracts = facts.contracts /\ main = facts.main
  <2>1. r.kind = "result" => r \in Results
    BY <1>1, ReplyTypes DEF Inv
  <2> QED
    BY <1>4, <2>1 DEF Answered, Keyed, Results
<1> HIDE DEF tests, contracts, main
<1>7. /\ IsStore(store') /\ SameWorkspace(store, store') /\ SameManual(store, store')
      /\ SameReads(store, store') /\ SameResult(store, store') /\ store'.watches = store.watches
      /\ store'.watchLoading = store.watchLoading /\ store'.compiling = store.compiling
      /\ p.active => FoundBy(store, store', p.version, tests, contracts, main)
      /\ ~p.active => SameFound(store, store')
  <2>1. IsStore(store)
    BY PageTypes DEF Inv
  <2> QED
    BY <1>3, <2>1, DiscoveryFields
<1>8. \/ SameFound(store, store')
      \/ /\ p.version = store.workspaceVersion /\ store'.discoveryVersion = p.version
         /\ store'.testCases = tests /\ store'.contracts = contracts /\ store'.hasMain = main
  BY <1>7 DEF FoundBy
<1>9. StoreTyped(store')
  BY <1>3, <1>5, PageTypes, DiscoveryTyped DEF Inv
<1>10. InFlight' = InFlight /\ Uncounted' = Uncounted
  <2>1. \A q \in pending : q.id = p.id => q.kind = "discover"
    BY DEF Inv, ClassInv
  <2>2. ~IsFlight(1)
    BY <1>1, <2>1 DEF IsFlight, Awaited
  <2>3. \A q \in pending \ pending' : q.id = replies[1].id
    BY <1>1
  <2> QED
    BY <1>1, <2>2, <2>3, OtherAnswer
<1>11. LiveInv' /\ HistInv' /\ RecordInv' /\ WatchInv' /\ ShownResultIsCurrent'
  BY <1>1, <1>7, <1>10, QuietManual, QuietResult
<1>12. DiscoveredIsCurrent'
  <2>1. CASE SameFound(store, store')
    BY <1>1, <1>7, <2>1, QuietFound
  <2>2. CASE /\ p.version = store.workspaceVersion /\ store'.discoveryVersion = p.version
             /\ store'.testCases = tests /\ store'.contracts = contracts /\ store'.hasMain = main
    BY <1>1, <1>6, <1>7, <2>2 DEF DiscoveredIsCurrent, SameWorkspace
  <2> QED
    BY <1>8, <2>1, <2>2
<1>13. PageMoves
  <2>1. store'.actionSequence >= store.actionSequence /\ store'.sandbox = store.sandbox
    BY <1>7, PageTypes DEF Inv, SameManual
  <2> QED
    BY <1>1, <1>2, <1>7, <2>1 DEF PageMoves, TakesAnswer, AsksNothing, Inv, AwaitInv
<1>14. store'.sandbox # None => runtime.wasm = "ready"
  BY <1>7 DEF Inv, WasmInv, SameManual
<1> QED
  BY <1>9, <1>11, <1>12, <1>13, <1>14, PageStep

\* An answer that changes nothing: nobody awaits it, or what it answers was abandoned.
LEMMA DroppedStep ==
  ASSUME Inv, HandleMessage,
         UNCHANGED <<store, watchRun, nextId, pendingWatches, queue>>,
         \/ pending' = pending /\ \A p \in pending : p.id # Head(replies).id
         \/ \E p \in pending : /\ pending' = pending \ {p} /\ p.id = Head(replies).id
                               /\ p.kind # "discover" /\ p.run # compileRun
  PROVE  Inv'
<1>1. /\ replies # <<>> /\ replies' = Tail(replies) /\ Head(replies) = replies[1] /\ 1 \in DOMAIN replies
      /\ UNCHANGED <<compileRun, latestId, runtime, session, nextSandbox, effect>>
  BY TakesFirst
<1>2. /\ pending' \subseteq pending /\ \A p \in pending \ pending' : p.id = replies[1].id
  BY <1>1
<1>3. ~IsFlight(1)
  <2>1. CASE \A p \in pending : p.id # Head(replies).id
    BY <1>1, <2>1 DEF IsFlight
  <2>2. ASSUME NEW p \in pending, p.id = Head(replies).id, p.kind # "discover", p.run # compileRun
        PROVE  ~IsFlight(1)
    BY <1>1, <2>2, OnlyOperation DEF IsFlight, Awaited
  <2> QED
    BY <2>1, <2>2
<1>4. InFlight' = InFlight /\ Uncounted' = Uncounted
  BY <1>1, <1>2, <1>3, OtherAnswer
<1>5. /\ SameWorkspace(store, store') /\ SameManual(store, store') /\ SameReads(store, store')
      /\ SameFound(store, store') /\ SameResult(store, store') /\ store' = store
  BY DEF SameWorkspace, SameManual, SameReads, SameFound, SameResult
<1>6. /\ LiveInv' /\ HistInv' /\ RecordInv' /\ WatchInv' /\ DiscoveredIsCurrent'
      /\ ShownResultIsCurrent'
  BY <1>1, <1>4, <1>5, QuietManual, QuietFound, QuietResult
<1>7. PageMoves
  <2>1. store'.actionSequence >= store.actionSequence
    BY PageTypes DEF Inv
  <2>2. TakesAnswer /\ AsksNothing
    BY <1>1, <1>2 DEF TakesAnswer, AsksNothing
  <2> QED
    BY <1>1, <1>2, <1>5, <2>1, <2>2 DEF PageMoves, Inv, AwaitInv
<1>8. StoreTyped(store') /\ (store'.sandbox # None => runtime.wasm = "ready")
  BY PageTypes DEF Inv, WasmInv
<1> QED
  BY <1>6, <1>7, <1>8, PageStep

-----------------------------------------------------------------------------
(* An answer to the operation the page waits for. *)

\* The parts of a store in which an operation ended.
LEMMA EndedTyped ==
  ASSUME Inv, NEW s, NEW p \in pending, IsStore(s), Ended(store, s, p.version),
         s.watchLoading = store.watchLoading,
         s.testCases \in BOOLEAN, s.hasMain \in BOOLEAN, s.contracts \in SUBSET Contracts,
         s.discoveryVersion \in Versions(store), s.sandboxVersion \in Versions(store),
         s.sandbox \in Deployments \cup {None},
         s.actionSequence \in {store.actionSequence, store.actionSequence + 1},
         s.sandbox # None => s.sandboxAction \in 0 .. s.actionSequence,
         s.recentActions \in Seq(Actions), Len(s.recentActions) <= HistoryLimit
  PROVE  StoreTyped(s)
<1>1. StoreTyped(store)
  BY PageTypes DEF Inv
<1>2. /\ store.workspaceVersion \in Nat /\ p.version \in Nat /\ p.version <= store.workspaceVersion
      /\ store.actionSequence \in Nat
  BY PageTypes, PendingTypes DEF Inv, AwaitInv
<1>3. Versions(s) = Versions(store) /\ p.version \in Versions(s)
  BY <1>2 DEF Ended, SameWorkspace, Versions
<1>4. /\ store.watchAction \in (0 .. store.actionSequence) \cup {None}
      /\ s.watchAction = store.watchAction
  BY <1>1 DEF StoreTyped, Ended, SameReads
<1>5. s.actionSequence \in Nat /\ s.watchAction \in (0 .. s.actionSequence) \cup {None}
  BY <1>2, <1>4
<1>6. s.lastCompiledVersion \in Versions(s) /\ s.watchVersion \in Versions(s)
      /\ DOMAIN s.watchValues \subseteq Contracts
  BY <1>1, <1>3 DEF StoreTyped, Ended, SameReads
<1>7. s.compiling \in BOOLEAN /\ s.watchLoading \in BOOLEAN
  <2>1. s.compiling = FALSE
    BY DEF Ended
  <2> QED
    BY <1>1, <2>1 DEF StoreTyped
<1>8. /\ s.source \in Sources /\ s.backend \in Backends
      /\ s.workspaceVersion \in Nat /\ s.sandboxEpoch \in Nat
      /\ s.watches \in SUBSET Contracts
      /\ IsFiniteSet(s.watches) /\ Cardinality(s.watches) <= WatchLimit
  BY <1>1 DEF StoreTyped, Ended, SameWorkspace
<1>9. s.discoveryVersion \in Versions(s) /\ s.sandboxVersion \in Versions(s)
  BY <1>3
<1> QED
  BY <1>5, <1>6, <1>7, <1>8, <1>9 DEF StoreTyped

\* What a result says of the workspace fits the types.
LEMMA FoundTyped ==
  ASSUME Inv, NEW s, NEW p \in pending, NEW r \in Results,
         FoundBy(store, s, p.version, r.tests, r.contracts, r.main)
  PROVE  /\ s.testCases \in BOOLEAN /\ s.hasMain \in BOOLEAN /\ s.contracts \in SUBSET Contracts
         /\ s.discoveryVersion \in Versions(store)
<1>1. StoreTyped(store) /\ store.workspaceVersion \in Versions(store)
  BY PageTypes DEF Inv, Versions
<1>2. r.tests \in BOOLEAN /\ r.main \in BOOLEAN /\ r.contracts \in SUBSET Contracts
  BY DEF Results
<1> QED
  BY <1>1, <1>2 DEF FoundBy, SameFound, StoreTyped

\* It is what the compiler finds in the present files.
LEMMA ResultIsCurrent ==
  ASSUME Inv, NEW p \in pending, NEW r \in Results, Awaited(p), Keyed(p, r.key),
         SameWorkspace(store, store'), runtime' = runtime,
         FoundBy(store, store', p.version, r.tests, r.contracts, r.main),
         store'.lastCompiledVersion = p.version,
         store'.result = [key |-> r.key, success |-> r.success]
  PROVE  DiscoveredIsCurrent' /\ ShownResultIsCurrent'
<1>1. p.version = store.workspaceVersion =>
        /\ r.key = SandboxKey(store) /\ r.key.source = store.source /\ r.key.backend = store.backend
  BY PageTypes DEF Inv, Keyed
<1>2. DiscoveredIsCurrent'
  <2>1. CASE p.version = store.workspaceVersion
    <3>1. /\ r.tests = Facts[store.source].tests /\ r.contracts = Facts[store.source].contracts
          /\ r.main = Facts[store.source].main
      BY <1>1, <2>1 DEF Results
    <3> QED
      BY <2>1, <3>1 DEF FoundBy, DiscoveredIsCurrent, SameWorkspace
  <2>2. CASE p.version # store.workspaceVersion
    <3>1. SameFound(store, store')
      BY <2>2 DEF FoundBy
    <3> QED
      BY <3>1, QuietFound
  <2> QED
    BY <2>1, <2>2
<1>3. ShownResultIsCurrent'
  <2>1. store'.result.key = r.key
    OBVIOUS
  <2> QED
    BY <1>1, <2>1 DEF ShownResultIsCurrent, SameWorkspace
<1> QED
  BY <1>2, <1>3

\* Once answered, the operation leaves nobody waiting.
LEMMA NobodyWaits ==
  ASSUME Inv, NEW p \in pending, Awaited(p)
  PROVE  \A q \in pending \ {p} : ~Awaited(q)
  BY OnlyOperation DEF Awaited

\* The result of an operation that is no manual run.
LEMMA SettledStep ==
  ASSUME Inv, HandleMessage, NEW p \in pending, p.id = Head(replies).id, Awaited(p), ~p.manual,
         pending' = pending \ {p}, Head(replies).kind = "result",
         store' = Settled(store, p, Head(replies)),
         UNCHANGED <<watchRun, nextId, pendingWatches, queue>>
  PROVE  Inv'
<1> DEFINE r == replies[1]
<1>1. /\ replies # <<>> /\ replies' = Tail(replies) /\ Head(replies) = r /\ 1 \in DOMAIN replies
      /\ UNCHANGED <<compileRun, latestId, runtime, session, nextSandbox, effect>>
  BY TakesFirst
<1>2. r \in Results
  BY <1>1, ReplyTypes DEF Inv
<1>3. Keyed(p, r.key)
  BY <1>1 DEF Inv, AskedInv, Answered
<1>4. store' = Settled(store, p, r)
  BY <1>1
<1> HIDE DEF r
<1>5. /\ Ended(store, store', p.version) /\ store'.watchLoading = store.watchLoading
      /\ SameManual(store, store')
      /\ FoundBy(store, store', p.version, r.tests, r.contracts, r.main)
      /\ store'.result = [key |-> r.key, success |-> r.success]
  <2>1. IsStore(store)
    BY PageTypes DEF Inv
  <2> QED
    BY <1>4, <2>1, SettledFields
<1>6. /\ IsStore(store') /\ SameWorkspace(store, store') /\ SameReads(store, store')
      /\ store'.lastCompiledVersion = p.version
  BY <1>5 DEF Ended
<1>7. StoreTyped(store')
  <2>1. /\ store'.testCases \in BOOLEAN /\ store'.hasMain \in BOOLEAN
        /\ store'.contracts \in SUBSET Contracts /\ store'.discoveryVersion \in Versions(store)
    BY <1>2, <1>5, FoundTyped
  <2>2. /\ store'.sandboxVersion \in Versions(store) /\ store'.sandbox \in Deployments \cup {None}
        /\ store'.actionSequence = store.actionSequence
        /\ store'.sandbox # None => store'.sandboxAction \in 0 .. store'.actionSequence
        /\ store'.recentActions \in Seq(Actions) /\ Len(store'.recentActions) <= HistoryLimit
    BY <1>5 DEF SameManual, Inv, TypeInv, StoreTyped
  <2> QED
    BY <1>5, <1>6, <2>1, <2>2, EndedTyped
<1>8. InFlight' = InFlight /\ Uncounted' = Uncounted
  <2>1. ~IsFlight(1)
    BY <1>1, OnlyOperation DEF IsFlight, Awaited, r
  <2>2. \A q \in pending \ pending' : q.id = replies[1].id
    BY <1>1 DEF r
  <2> QED
    BY <1>1, <2>1, <2>2, OtherAnswer
<1>9. LiveInv' /\ HistInv' /\ RecordInv' /\ WatchInv'
  BY <1>1, <1>5, <1>6, <1>8, QuietManual
<1>10. DiscoveredIsCurrent' /\ ShownResultIsCurrent'
  BY <1>1, <1>2, <1>3, <1>5, <1>6, ResultIsCurrent
<1>11. PageMoves
  <2>1. store'.actionSequence >= store.actionSequence /\ store'.sandbox = store.sandbox
    BY <1>5, PageTypes DEF Inv, SameManual
  <2>2. TakesAnswer /\ AsksNothing
    BY <1>1 DEF TakesAnswer, AsksNothing, r
  <2> QED
    BY <1>1, <1>6, <2>1, <2>2, NobodyWaits DEF PageMoves
<1>12. store'.sandbox # None => runtime.wasm = "ready"
  BY <1>5 DEF Inv, WasmInv, SameManual
<1> QED
  BY <1>7, <1>9, <1>10, <1>11, <1>12, PageStep

\* A call that failed is listed and counts for no deployment.
LEMMA FailureListed ==
  ASSUME Inv, NEW a \in Actions, a.sandbox = None, ~a.committed,
         SameWorkspace(store, store'), store'.recentActions = Recorded(store, a),
         session' = session, nextSandbox' = nextSandbox, Uncounted' = Uncounted
  PROVE  HistInv' /\ RecordInv'
<1>1. store.recentActions \in Seq(Actions) /\ Len(store.recentActions) <= HistoryLimit
  BY DEF Inv, TypeInv, StoreTyped
<1> DEFINE list == store'.recentActions
<1>2. /\ \A i \in DOMAIN list : list[i] = a \/ \E j \in DOMAIN store.recentActions : list[i] = store.recentActions[j]
      /\ Len(list) < HistoryLimit =>
           list = Append(store.recentActions, a) /\ Len(store.recentActions) < HistoryLimit
  BY <1>1, RecordedFacts
<1>3. store'.sandboxEpoch = store.sandboxEpoch /\ SandboxKey(store') = SandboxKey(store)
  BY DEF SameWorkspace, SandboxKey
<1>4. RecordInv'
  <2>1. \A i \in DOMAIN list : list[i].sandbox # None =>
          \E j \in DOMAIN store.recentActions : list[i] = store.recentActions[j]
    BY <1>2
  <2> HIDE DEF list
  <2>2. \A i \in DOMAIN list : list[i].sandbox # None =>
          /\ list[i].sandbox < nextSandbox
          /\ session # None /\ list[i].sandbox = session.id =>
               session.key.epoch = store.sandboxEpoch + list[i].version
    BY <2>1 DEF Inv, RecordInv
  <2>3. \A i, j \in DOMAIN list :
          list[i].sandbox # None /\ list[i].sandbox = list[j].sandbox => list[i].version = list[j].version
    BY <2>1 DEF Inv, RecordInv, OneDeploymentPerVersion
  <2> QED
    BY <1>3, <2>2, <2>3 DEF RecordInv, OneDeploymentPerVersion, list
<1>5. HistInv'
  <2>1. Len(list) < HistoryLimit => \A id : Count(list, id) = Count(store.recentActions, id)
    <3>1. \A id : Count(Append(store.recentActions, a), id) = Count(store.recentActions, id) + 0
      BY <1>1, CountAppend
    <3>2. \A id : Count(store.recentActions, id) \in Nat
      BY <1>1, CountType
    <3> HIDE DEF list
    <3>3. ASSUME Len(list) < HistoryLimit, NEW id
          PROVE  Count(list, id) = Count(store.recentActions, id)
      <4>1. list = Append(store.recentActions, a)
        BY <1>2, <3>3
      <4> QED
        BY <3>1, <3>2, <4>1
    <3> QED
      BY <3>3
  <2> QED
    BY <1>2, <1>3, <2>1 DEF Inv, HistInv
<1> QED
  BY <1>4, <1>5

\* A store in which the operation p failed has its types.
LEMMA FailedTyped ==
  ASSUME Inv, NEW p \in pending, NEW m, m = Failed(store, p)
  PROVE  /\ StoreTyped(m)
         /\ m.actionSequence \in {store.actionSequence, store.actionSequence + 1}
<1> DEFINE a == FailedCall(p)
<1>1. a \in Actions
  BY PendingTypes DEF Inv, Actions, FailedCall
<1>2. StoreTyped(store) /\ IsStore(store)
  BY PageTypes DEF Inv
<1>3. IsFailed(store, m, p)
  BY <1>2, FailedFields
<1>4. /\ Ended(store, m, p.version) /\ m.watchLoading = store.watchLoading
      /\ m.sandbox = store.sandbox /\ m.sandboxVersion = store.sandboxVersion
      /\ m.sandboxAction = store.sandboxAction /\ SameFound(store, m)
      /\ ~p.manual => SameManual(store, m)
      /\ p.manual => /\ m.actionSequence = store.actionSequence + 1
                     /\ m.recentActions = Recorded(store, a)
  BY <1>3 DEF IsFailed
<1> HIDE DEF a
<1>5. IsStore(m)
  BY <1>4 DEF Ended
<1>6. /\ m.actionSequence \in {store.actionSequence, store.actionSequence + 1}
      /\ m.recentActions \in Seq(Actions) /\ Len(m.recentActions) <= HistoryLimit
  <2>1. store.recentActions \in Seq(Actions) /\ Len(store.recentActions) <= HistoryLimit
    BY <1>2 DEF StoreTyped
  <2>2. Recorded(store, a) \in Seq(Actions) /\ Len(Recorded(store, a)) <= HistoryLimit
    BY <1>1, <2>1, RecordedFacts
  <2> QED
    BY <1>4, <2>1, <2>2 DEF SameManual
<1>7. /\ m.testCases \in BOOLEAN /\ m.hasMain \in BOOLEAN
      /\ m.contracts \in SUBSET Contracts /\ m.discoveryVersion \in Versions(store)
  BY <1>2, <1>4 DEF SameFound, StoreTyped
<1>8. /\ m.sandboxVersion \in Versions(store) /\ m.sandbox \in Deployments \cup {None}
  BY <1>2, <1>4 DEF StoreTyped
<1>9. m.sandbox # None => m.sandboxAction \in 0 .. m.actionSequence
  BY <1>2, <1>4, <1>6 DEF StoreTyped
<1> QED
  BY <1>4, <1>5, <1>6, <1>7, <1>8, <1>9, EndedTyped

\* The failure of an operation.
LEMMA FailedStep ==
  ASSUME Inv, HandleMessage, NEW p \in pending, p.id = Head(replies).id, Awaited(p),
         pending' = pending \ {p}, Head(replies).kind # "result",
         store' = Failed(store, p),
         UNCHANGED <<watchRun, nextId, pendingWatches, queue>>
  PROVE  Inv'
<1>1. /\ replies # <<>> /\ replies' = Tail(replies) /\ Head(replies) = replies[1] /\ 1 \in DOMAIN replies
      /\ UNCHANGED <<compileRun, latestId, runtime, session, nextSandbox, effect>>
  BY TakesFirst
<1> DEFINE a == FailedCall(p)
<1>2. a \in Actions /\ a.sandbox = None /\ ~a.committed
  BY PendingTypes DEF Inv, Actions, FailedCall
<1>3. /\ Ended(store, store', p.version) /\ store'.watchLoading = store.watchLoading
      /\ store'.sandbox = store.sandbox /\ store'.sandboxVersion = store.sandboxVersion
      /\ store'.sandboxAction = store.sandboxAction /\ SameFound(store, store')
      /\ store'.result = [key |-> None, success |-> FALSE]
      /\ ~p.manual => SameManual(store, store')
      /\ p.manual => /\ store'.actionSequence = store.actionSequence + 1
                     /\ store'.recentActions = Recorded(store, a)
  <2>1. IsStore(store)
    BY PageTypes DEF Inv
  <2>2. IsFailed(store, store', p)
    BY <2>1, FailedFields
  <2> QED
    BY <2>2 DEF IsFailed
<1> HIDE DEF a
<1>4. /\ IsStore(store') /\ SameWorkspace(store, store') /\ SameReads(store, store')
  BY <1>3 DEF Ended
<1>5. store'.actionSequence \in {store.actionSequence, store.actionSequence + 1}
  BY FailedTyped
<1>7. StoreTyped(store')
  BY FailedTyped
<1>8. InFlight' = InFlight /\ Uncounted' = Uncounted
  <2>1. ~IsFlight(1)
    BY <1>1 DEF IsFlight
  <2>2. \A q \in pending \ pending' : q.id = replies[1].id
    BY <1>1
  <2> QED
    BY <1>1, <2>1, <2>2, OtherAnswer
<1>9. LiveInv' /\ HistInv' /\ RecordInv' /\ WatchInv'
  <2>1. CASE ~p.manual
    BY <1>1, <1>3, <1>4, <1>8, <2>1, QuietManual
  <2>2. CASE p.manual
    <3>1. HistInv' /\ RecordInv'
      BY <1>1, <1>2, <1>3, <1>4, <1>8, <2>2, FailureListed
    <3>2. SandboxKey(store') = SandboxKey(store)
      BY <1>4 DEF SameWorkspace, SandboxKey
    <3>3. LiveInv'
      BY <1>1, <1>3, <1>4, <1>8, <3>2 DEF Inv, LiveInv, SameWorkspace
    <3>4. WatchInv'
      BY <1>1, <1>3, <1>4, <1>8 DEF Inv, WatchInv, SameWorkspace, SameReads
    <3> QED
      BY <3>1, <3>3, <3>4
  <2> QED
    BY <2>1, <2>2
<1>10. DiscoveredIsCurrent'
  BY <1>1, <1>3, <1>4, QuietFound
<1>11. ShownResultIsCurrent'
  BY <1>3 DEF ShownResultIsCurrent
<1>12. PageMoves
  <2>1. store'.actionSequence >= store.actionSequence
    BY <1>5, PageTypes DEF Inv
  <2>2. TakesAnswer /\ AsksNothing
    BY <1>1 DEF TakesAnswer, AsksNothing
  <2> QED
    BY <1>1, <1>3, <1>4, <2>1, <2>2, NobodyWaits DEF PageMoves
<1>13. store'.sandbox # None => runtime.wasm = "ready"
  BY <1>3 DEF Inv, WasmInv
<1> QED
  BY <1>7, <1>9, <1>10, <1>11, <1>12, <1>13, PageStep

\* The list of calls with the call of an answer, which changed the session.
LEMMA CallListed ==
  ASSUME Inv, NEW p \in pending, NEW r \in Results, Awaited(p), Keyed(p, r.key),
         r.sandbox = Info(session, r.key),
         r.committed => session # None /\ session.key = r.key,
         Uncounted <=> r.committed, ~Uncounted',
         SameWorkspace(store, store'), store'.recentActions = Recorded(store, Act(p, r)),
         session' = session, nextSandbox' = nextSandbox
  PROVE  HistInv' /\ RecordInv'
<1> DEFINE a == Act(p, r)
           list == store'.recentActions
<1>1. store.recentActions \in Seq(Actions) /\ Len(store.recentActions) <= HistoryLimit
  BY DEF Inv, TypeInv, StoreTyped
<1>2. r.sandbox # None => /\ session # None /\ session.key = r.key
                          /\ r.sandbox = [id |-> session.id, contract |-> session.contract]
  BY DEF Info
<1>3. session # None => session.id \in Nat /\ session.id < nextSandbox /\ session.calls \in Nat
  BY SessionTypes DEF Inv
<1>4. /\ a.version = p.version /\ a.committed = r.committed
      /\ a.sandbox = IF r.sandbox = None THEN None ELSE session.id
  BY <1>2 DEF Act
<1>5. a \in Actions
  <2>1. p.version \in Nat /\ r.committed \in BOOLEAN
    BY PendingTypes DEF Inv, Results
  <2>2. (IF r.sandbox = None THEN None ELSE r.sandbox.id) \in Nat \cup {None}
    BY <1>2, <1>3
  <2> QED
    BY <2>1, <2>2 DEF Act, Actions
<1> HIDE DEF a
<1>6. /\ \A i \in DOMAIN list : list[i] = a \/ \E j \in DOMAIN store.recentActions : list[i] = store.recentActions[j]
      /\ Len(list) < HistoryLimit =>
           list = Append(store.recentActions, a) /\ Len(store.recentActions) < HistoryLimit
  BY <1>1, <1>5, RecordedFacts DEF a
<1>7. /\ store'.sandboxEpoch = store.sandboxEpoch /\ SandboxKey(store') = SandboxKey(store)
  BY DEF SameWorkspace, SandboxKey
<1> HIDE DEF list
<1>8. a.sandbox # None => /\ session # None /\ a.sandbox = session.id
                          /\ session.key.epoch = store.sandboxEpoch + a.version
  BY <1>2, <1>4 DEF Keyed
<1>9. RecordInv'
  <2>1. \A i \in DOMAIN store.recentActions : store.recentActions[i].sandbox # None =>
          /\ store.recentActions[i].sandbox < nextSandbox
          /\ session # None /\ store.recentActions[i].sandbox = session.id =>
               session.key.epoch = store.sandboxEpoch + store.recentActions[i].version
    BY DEF Inv, RecordInv
  <2>2. \A i \in DOMAIN list : list[i].sandbox # None =>
          /\ list[i].sandbox < nextSandbox
          /\ session # None /\ list[i].sandbox = session.id =>
               session.key.epoch = store.sandboxEpoch + list[i].version
    BY <1>3, <1>6, <1>8, <2>1
  <2>3. \A i \in DOMAIN list : list[i].version \in Nat
    <3>1. a.version \in Nat
      BY <1>5 DEF Actions
    <3>2. \A j \in DOMAIN store.recentActions : store.recentActions[j].version \in Nat
      <4>1. \A j \in DOMAIN store.recentActions : store.recentActions[j] \in Actions
        BY <1>1
      <4> QED
        BY <4>1 DEF Actions
    <3> QED
      BY <1>6, <3>1, <3>2
  <2>4. \A i, j \in DOMAIN list :
          list[i].sandbox # None /\ list[i].sandbox = list[j].sandbox => list[i].version = list[j].version
    <3>1. ASSUME NEW i \in DOMAIN list, NEW j \in DOMAIN list, list[i].sandbox # None,
                 list[i].sandbox = list[j].sandbox
          PROVE  list[i].version = list[j].version
      <4>1. CASE list[i] = a \/ list[j] = a
        <5>1. /\ session.key.epoch = store.sandboxEpoch + list[i].version
              /\ session.key.epoch = store.sandboxEpoch + list[j].version
          BY <1>8, <2>2, <3>1, <4>1
        <5>2. store.sandboxEpoch \in Nat
          BY PageTypes DEF Inv
        <5> QED
          BY <2>3, <5>1, <5>2
      <4>2. CASE list[i] # a /\ list[j] # a
        BY <1>6, <3>1, <4>2 DEF Inv, RecordInv, OneDeploymentPerVersion
      <4> QED
        BY <4>1, <4>2
    <3> QED
      BY <3>1
  <2> QED
    BY <1>7, <2>2, <2>4 DEF RecordInv, OneDeploymentPerVersion, list
<1>10. HistInv'
  <2>1. SUFFICES ASSUME session # None, session.key = SandboxKey(store), Len(list) < HistoryLimit
                 PROVE  session.calls = Count(list, session.id) + 0
    BY <1>7 DEF HistInv, list
  <2>2. /\ list = Append(store.recentActions, a) /\ Len(store.recentActions) < HistoryLimit
    BY <1>6, <2>1
  <2>3. session.calls = Count(store.recentActions, session.id) + (IF Uncounted THEN 1 ELSE 0)
    BY <2>1, <2>2 DEF Inv, HistInv
  <2>4. Count(list, session.id) =
          Count(store.recentActions, session.id) + (IF a.sandbox = session.id /\ a.committed THEN 1 ELSE 0)
    BY <1>1, <1>5, <2>2, CountAppend
  <2>5. Uncounted <=> a.sandbox = session.id /\ a.committed
    <3>1. r.committed => r.sandbox = [id |-> session.id, contract |-> session.contract]
      BY DEF Info
    <3>2. session # None => [id |-> session.id, contract |-> session.contract] \in Deployments
      BY SessionTypes DEF Inv, Deployments
    <3>3. r.committed => r.sandbox # None
      BY <3>1, <3>2, FactsAssumption
    <3> QED
      BY <1>4, <3>3
  <2>6. Count(store.recentActions, session.id) \in Nat
    BY <1>1, CountType
  <2> QED
    BY <2>3, <2>4, <2>5, <2>6
<1> QED
  BY <1>9, <1>10

\* The result of a manual run: it is listed, shown, and the watches are read again.
LEMMA ManualStep ==
  ASSUME Inv, HandleMessage, NEW p \in pending, p.id = Head(replies).id, p.id = latestId,
         Awaited(p), p.manual, pending' = pending \ {p}, Head(replies).kind = "result",
         RefreshWatches(Settled(store, p, Head(replies)))
  PROVE  Inv'
<1> DEFINE r == replies[1]
           s == Settled(store, p, r)
           a == Act(p, r)
<1>1. /\ replies # <<>> /\ replies' = Tail(replies) /\ Head(replies) = r /\ 1 \in DOMAIN replies
      /\ UNCHANGED <<compileRun, latestId, runtime, session, nextSandbox, effect>>
  BY TakesFirst
<1>2. r \in Results
  BY <1>1, ReplyTypes DEF Inv
<1>3. /\ Keyed(p, r.key) /\ r.sandbox = Info(session, r.key)
      /\ r.committed => session # None /\ session.key = r.key
  BY <1>1 DEF Inv, AskedInv, Answered
<1>4. ~InFlight' /\ ~Uncounted' /\ (Uncounted <=> r.committed)
  BY <1>1, FlightAnswered
<1>5. RefreshWatches(s)
  BY <1>1
<1> HIDE DEF r
<1>6. IsManual(store, s, p, r)
  <2>1. IsStore(store)
    BY PageTypes DEF Inv
  <2> QED
    BY <2>1, ManualFields
<1> HIDE DEF s, a
<1>7. StoreTyped(store) /\ store.actionSequence \in Nat /\ store.workspaceVersion \in Nat
  BY PageTypes DEF Inv
<1>8. r.sandbox # None => /\ session # None /\ session.key = r.key
                          /\ r.sandbox = [id |-> session.id, contract |-> session.contract]
  BY <1>3 DEF Info
<1>9. p.version \in Nat /\ p.version <= store.workspaceVersion
  BY PendingTypes DEF Inv, AwaitInv
<1>10. a \in Actions
  <2>1. p.version \in Nat /\ r.committed \in BOOLEAN /\ r.sandbox \in Deployments \cup {None}
    BY <1>2, <1>9 DEF Results
  <2>2. (IF r.sandbox = None THEN None ELSE r.sandbox.id) \in Nat \cup {None}
    BY <2>1 DEF Deployments
  <2> QED
    BY <2>1, <2>2 DEF Act, Actions, a
<1>11. StoreTyped(s)
  <2>1. /\ s.testCases \in BOOLEAN /\ s.hasMain \in BOOLEAN /\ s.contracts \in SUBSET Contracts
        /\ s.discoveryVersion \in Versions(store)
    BY <1>2, <1>6, FoundTyped DEF IsManual
  <2>2. s.sandboxVersion \in Versions(store) /\ s.sandbox \in Deployments \cup {None}
    BY <1>2, <1>6, <1>7, <1>9 DEF IsManual, Results, Versions
  <2>3. store.recentActions \in Seq(Actions) /\ Len(store.recentActions) <= HistoryLimit
    BY <1>7 DEF StoreTyped
  <2>4. s.recentActions \in Seq(Actions) /\ Len(s.recentActions) <= HistoryLimit
    BY <1>6, <1>10, <2>3, RecordedFacts DEF IsManual, a
  <2>5. /\ s.actionSequence \in {store.actionSequence, store.actionSequence + 1}
        /\ s.sandbox # None => s.sandboxAction \in 0 .. s.actionSequence
    BY <1>6, <1>7 DEF IsManual
  <2>6. Ended(store, s, p.version) /\ s.watchLoading = store.watchLoading
    BY <1>6 DEF IsManual
  <2>7. IsStore(s)
    BY <2>6 DEF Ended
  <2> QED
    BY <2>1, <2>2, <2>4, <2>5, <2>6, <2>7, EndedTyped
<1>12. /\ watchRun' = watchRun + 1
       /\ \E l \in BOOLEAN : IsLoading(s, store', l)
       /\ AsksNothing \/ \E m, q : AsksWatches(m, q)
       /\ StoreTyped(store')
  BY <1>5, <1>11, RefreshFacts
<1>13. /\ SameWorkspace(s, store') /\ SameFound(s, store') /\ SameManual(s, store')
       /\ SameReads(s, store') /\ SameResult(s, store') /\ store'.compiling = s.compiling
  BY <1>12 DEF IsLoading
<1>14. /\ SameWorkspace(store, store') /\ SameReads(store, store')
       /\ store'.lastCompiledVersion = p.version
       /\ store'.result = [key |-> r.key, success |-> r.success]
       /\ store'.sandbox = r.sandbox /\ store'.sandboxVersion = p.version
       /\ store'.sandboxAction = (IF r.sandbox = None THEN None ELSE store.actionSequence + 1)
       /\ store'.actionSequence = store.actionSequence + 1
       /\ store'.recentActions = Recorded(store, a)
  BY <1>6, <1>13 DEF IsManual, Ended, SameWorkspace, SameReads, SameResult, SameManual, a
<1>15. FoundBy(store, store', p.version, r.tests, r.contracts, r.main)
  BY <1>6, <1>13 DEF IsManual, FoundBy, SameFound
<1>16. HistInv' /\ RecordInv'
  BY <1>1, <1>2, <1>3, <1>4, <1>14, CallListed DEF a
<1>17. LiveInv'
  <2>1. store'.workspaceVersion = store.workspaceVersion /\ SandboxKey(store') = SandboxKey(store)
    BY <1>14 DEF SameWorkspace, SandboxKey
  <2>2. p.version = store.workspaceVersion => r.key = SandboxKey(store)
    BY <1>3 DEF Keyed
  <2>3. CASE r.sandbox # None /\ p.version = store.workspaceVersion
    BY <1>1, <1>3, <1>8, <1>14, <2>1, <2>2, <2>3 DEF LiveInv
  <2>4. CASE r.sandbox = None \/ p.version # store.workspaceVersion
    BY <1>14, <2>1, <2>4 DEF LiveInv
  <2> QED
    BY <2>3, <2>4
<1>18. WatchInv'
  <2>1. store.watchAction \in (0 .. store.actionSequence) \cup {None}
    BY <1>7 DEF StoreTyped
  <2>2. None \notin Nat
    BY FactsAssumption
  <2>3. store'.sandbox # None => store'.watchAction # store'.sandboxAction
    BY <1>7, <1>14, <2>1, <2>2 DEF SameReads
  <2> QED
    BY <2>3 DEF WatchInv
<1>19. DiscoveredIsCurrent' /\ ShownResultIsCurrent'
  BY <1>1, <1>2, <1>3, <1>14, <1>15, ResultIsCurrent
<1>20. \A i \in DOMAIN queue : queue[i].call = None
  <2>1. \A i \in DOMAIN queue : queue[i].call # None => queue[i].id <= latestId
    BY DEF Inv, IdsInv, CallInv
  <2>2. \A i \in DOMAIN queue : latestId < queue[i].id
    BY <1>1 DEF Inv, IdsInv
  <2>3. latestId \in Nat /\ \A i \in DOMAIN queue : queue[i].id \in Nat
    BY PageTypes, QueueTypes DEF Inv
  <2> QED
    BY <2>1, <2>2, <2>3
<1>21. PageMoves
  <2>1. TakesAnswer
    BY <1>1 DEF TakesAnswer, r
  <2>2. store'.actionSequence >= store.actionSequence /\ watchRun' # watchRun
    BY <1>7, <1>12, <1>14, PageTypes DEF Inv
  <2> QED
    BY <1>1, <1>8, <1>12, <1>14, <1>20, <2>1, <2>2, NobodyWaits DEF PageMoves
<1>22. store'.sandbox # None => runtime.wasm = "ready"
  BY <1>8, <1>14 DEF Inv, WasmInv
<1> QED
  BY <1>12, <1>16, <1>17, <1>18, <1>19, <1>21, <1>22, PageStep

\* The page handles an answer, whatever it answers.
LEMMA HandleMessageStep ==
  ASSUME Inv, HandleMessage
  PROVE  Inv'
<1> DEFINE r == Head(replies)
<1>1. CASE \E p \in pendingWatches : p.id = r.id /\ HandleWatch(p, r)
  BY <1>1, HandleWatchStep
<1>2. ASSUME NEW p \in pending, p.id = r.id, pending' = pending \ {p},
             IF p.kind = "discover" THEN HandleDiscovery(p, r) ELSE HandleOperation(p, r)
      PROVE  Inv'
  <2>1. CASE p.kind = "discover"
    BY <1>2, <2>1, HandleDiscoveryStep
  <2>2. CASE p.kind # "discover" /\ p.id = latestId /\ IsNewest(p)
    <3>1. HandleOperation(p, r) /\ Awaited(p)
      BY <1>2, <2>2 DEF Awaited, IsNewest
    <3>2. CASE r.kind = "result" /\ p.manual
      <4>1. RefreshWatches(Settled(store, p, r))
        BY <2>2, <3>1, <3>2, Zenon DEF HandleOperation
      <4> QED
        BY <1>2, <2>2, <3>1, <3>2, <4>1, ManualStep
    <3>3. CASE r.kind = "result" /\ ~p.manual
      <4>1. store' = Settled(store, p, r) /\ UNCHANGED <<watchRun, nextId, pendingWatches, queue>>
        BY <2>2, <3>1, <3>3, Zenon DEF HandleOperation
      <4> QED
        BY <1>2, <3>1, <3>3, <4>1, SettledStep
    <3>4. CASE r.kind # "result"
      <4>1. store' = Failed(store, p) /\ UNCHANGED <<watchRun, nextId, pendingWatches, queue>>
        BY <2>2, <3>1, <3>4, Zenon DEF HandleOperation
      <4> QED
        BY <1>2, <3>1, <3>4, <4>1, FailedStep
    <3> QED
      BY <3>2, <3>3, <3>4
  <2>3. CASE p.kind # "discover" /\ ~(p.id = latestId /\ IsNewest(p))
    <3>1. UNCHANGED <<store, watchRun, nextId, pendingWatches, queue>>
      BY <1>2, <2>3, Zenon DEF HandleOperation
    <3>2. p.run # compileRun
      BY <2>3 DEF Inv, ClassInv, IsNewest
    <3> QED
      BY <1>2, <2>3, <3>1, <3>2, DroppedStep
  <2> QED
    BY <2>1, <2>2, <2>3
<1>3. CASE /\ \A p \in pendingWatches \cup pending : p.id # r.id
           /\ UNCHANGED <<store, watchRun, nextId, pending, pendingWatches, queue>>
  BY <1>3, DroppedStep
<1>4. \/ \E p \in pendingWatches : p.id = r.id /\ HandleWatch(p, r)
      \/ \E p \in pending :
           /\ p.id = r.id
           /\ pending' = pending \ {p}
           /\ IF p.kind = "discover" THEN HandleDiscovery(p, r) ELSE HandleOperation(p, r)
      \/ /\ \A p \in pendingWatches \cup pending : p.id # r.id
         /\ UNCHANGED <<store, watchRun, nextId, pending, pendingWatches, queue>>
  BY Zenon DEF HandleMessage
<1> QED
  BY <1>1, <1>2, <1>3, <1>4

-----------------------------------------------------------------------------
(* The page asks the worker. *)

\* The client sends m, awaited by o.
Sends(m, o) ==
  /\ m \in Messages /\ m.id = nextId /\ m.kind # "watch"
  /\ o \in Operations /\ o.id = nextId /\ o.kind = m.kind
  /\ nextId' = nextId + 1
  /\ latestId' = IF m.kind = "discover" THEN latestId ELSE nextId
  /\ pending' = {p \in pending : ~SameClass(p, m.kind)} \cup {o}
  /\ queue' = Append(queue, m)
  /\ UNCHANGED <<replies, runtime, session, nextSandbox, pendingWatches>>

\* Where the message and its promise are then.
LEMMA SentFacts ==
  ASSUME Inv, NEW m, NEW o, Sends(m, o)
  PROVE  /\ queue' \in Seq(Messages) /\ pending' \in SUBSET Operations /\ nextId' \in Nat \ {0}
         /\ latestId' \in Nat /\ o \in pending'
         /\ \A i \in DOMAIN queue' :
              \/ i \in DOMAIN queue /\ queue'[i] = queue[i] /\ queue[i].id < nextId
              \/ queue'[i] = m /\ \A k \in DOMAIN queue : k < i
         /\ \A i, k \in DOMAIN queue' : i < k => queue'[i].id < queue'[k].id
         /\ \A p \in pending' :
              \/ p = o
              \/ /\ p \in pending /\ p.id < nextId
                 /\ (p.kind = "discover") # (m.kind = "discover")
         /\ \A p \in pending : (p.kind = "discover") # (m.kind = "discover") => p \in pending'
<1>1. queue \in Seq(Messages) /\ nextId \in Nat /\ latestId \in Nat /\ pending \in SUBSET Operations
  BY PageTypes DEF Inv, TypeInv
<1>2. /\ queue' \in Seq(Messages) /\ DOMAIN queue' = DOMAIN queue \cup {Len(queue) + 1}
      /\ Len(queue) \in Nat /\ DOMAIN queue \subseteq Nat
      /\ \A i \in DOMAIN queue : i < Len(queue) + 1 /\ queue'[i] = queue[i]
      /\ queue'[Len(queue) + 1] = m
  BY <1>1, AppendFacts DEF Sends
<1>3. \A i \in DOMAIN queue : queue[i].id < nextId
  BY DEF Inv, IdsInv
<1>4. \A i, k \in DOMAIN queue : i < k => queue[i].id < queue[k].id
  BY DEF Inv, IdsInv
<1>5. \A i, k \in DOMAIN queue' : i < k => queue'[i].id < queue'[k].id
  BY <1>2, <1>3, <1>4 DEF Sends
<1>6. \A i \in DOMAIN queue' :
        \/ i \in DOMAIN queue /\ queue'[i] = queue[i] /\ queue[i].id < nextId
        \/ queue'[i] = m /\ \A k \in DOMAIN queue : k < i
  BY <1>2, <1>3
<1>7. \A p \in pending : p.id < nextId
  BY DEF Inv, IdsInv
<1>8. /\ pending' \in SUBSET Operations /\ o \in pending'
      /\ \A p \in pending' :
           \/ p = o
           \/ p \in pending /\ p.id < nextId /\ (p.kind = "discover") # (m.kind = "discover")
      /\ \A p \in pending : (p.kind = "discover") # (m.kind = "discover") => p \in pending'
  BY <1>1, <1>7 DEF Sends, SameClass
<1> QED
  BY <1>1, <1>2, <1>5, <1>6, <1>8 DEF Sends

\* Identifiers and classes stay in order.
LEMMA SentClient ==
  ASSUME Inv, NEW m, NEW o, Sends(m, o)
  PROVE  IdsInv' /\ ClassInv'
<1>0. /\ nextId \in Nat /\ latestId \in Nat /\ latestId < nextId /\ nextId' = nextId + 1
      /\ m.id = nextId /\ o.id = nextId /\ o.kind = m.kind /\ m.kind # "watch"
      /\ latestId' = IF m.kind = "discover" THEN latestId ELSE nextId
      /\ replies' = replies /\ pendingWatches' = pendingWatches
  BY PageTypes DEF Inv, IdsInv, Sends
<1>1. /\ \A i \in DOMAIN queue' :
           \/ i \in DOMAIN queue /\ queue'[i] = queue[i] /\ queue[i].id < nextId
           \/ queue'[i] = m /\ \A k \in DOMAIN queue : k < i
      /\ \A i, k \in DOMAIN queue' : i < k => queue'[i].id < queue'[k].id
      /\ \A p \in pending' :
           \/ p = o
           \/ p \in pending /\ p.id < nextId /\ (p.kind = "discover") # (m.kind = "discover")
  BY SentFacts
<1>2. \A i \in DOMAIN queue : queue[i].id \in Nat
  BY QueueTypes DEF Inv
<1>3. \A i \in DOMAIN replies : replies[i].id \in Nat /\ replies[i].id < nextId
  BY ReplyTypes DEF Inv, IdsInv
<1>4. /\ \A p \in pending : p.id \in Nat
      /\ \A q \in pendingWatches : q.id \in Nat /\ q.id < nextId
  BY PendingTypes DEF Inv, IdsInv
<1>5. IdsInv'
  <2>1. latestId' < nextId' /\ \A i \in DOMAIN queue' : queue'[i].id < nextId'
    BY <1>0, <1>1, <1>2
  <2>2. \A i \in DOMAIN replies : replies[i].id < nextId'
    BY <1>0, <1>3
  <2>3. \A i \in DOMAIN replies, j \in DOMAIN queue' : replies[i].id < queue'[j].id
    BY <1>0, <1>1, <1>3 DEF Inv, IdsInv
  <2>4. \A i \in DOMAIN queue' : queue'[i].kind \in {"compile", "run"} => queue'[i].id <= latestId'
    BY <1>0, <1>1, <1>2 DEF Inv, IdsInv
  <2>5. \A p \in pending' : p.id < nextId'
    BY <1>0, <1>1, <1>4
  <2>6. \A q \in pendingWatches : q.id < nextId'
    BY <1>0, <1>4
  <2>7. \A i, j \in DOMAIN replies : i < j => replies[i].id < replies[j].id
    BY DEF Inv, IdsInv
  <2> QED
    BY <1>0, <1>1, <2>1, <2>2, <2>3, <2>4, <2>5, <2>6, <2>7, Zenon DEF IdsInv
<1>6. ClassInv'
  <2>1. \A p \in pending' : p.kind # "discover" <=> p.id = latestId'
    BY <1>0, <1>1, <1>4 DEF Inv, ClassInv
  <2>2. \A p, q \in pending' : SameClass(p, q.kind) => p = q
    BY <1>0, <1>1 DEF Inv, ClassInv, SameClass
  <2>3. \A p \in pending', q \in pendingWatches' : p.id # q.id
    BY <1>0, <1>1, <1>4 DEF Inv, ClassInv
  <2> QED
    BY <1>0, <2>1, <2>2, <2>3 DEF Inv, ClassInv
<1> QED
  BY <1>5, <1>6

\* What is asked and answered, as far as the others are concerned.
LEMMA SentAsked ==
  ASSUME Inv, NEW m, NEW o, Sends(m, o), Asked(o, m)',
         \A p \in pending : \A key : (p.kind = "discover") # (m.kind = "discover") /\ Keyed(p, key) => Keyed(p, key)',
         \A p \in pending : (p.kind = "discover") # (m.kind = "discover") => Awaited(p)' = Awaited(p)
  PROVE  AskedInv'
<1>0. /\ m.id = nextId /\ o.id = nextId /\ nextId \in Nat
      /\ replies' = replies /\ runtime' = runtime /\ session' = session
  BY PageTypes DEF Inv, Sends
<1>1. /\ \A i \in DOMAIN queue' :
           \/ i \in DOMAIN queue /\ queue'[i] = queue[i] /\ queue[i].id < nextId
           \/ queue'[i] = m
      /\ \A p \in pending' :
           \/ p = o
           \/ p \in pending /\ p.id < nextId /\ (p.kind = "discover") # (m.kind = "discover")
  BY SentFacts
<1>2. \A i \in DOMAIN queue : queue[i].id \in Nat
  BY QueueTypes DEF Inv
<1>3. \A i \in DOMAIN replies : replies[i].id \in Nat /\ replies[i].id < nextId
  BY ReplyTypes DEF Inv, IdsInv
<1>4. \A p \in pending : p.id \in Nat
  BY PendingTypes DEF Inv
<1> DEFINE Kept(p) == p \in pending /\ (p.kind = "discover") # (m.kind = "discover")
<1>5. \A p, n : Kept(p) /\ Asked(p, n) => Asked(p, n)'
  BY <1>0 DEF Asked
<1>6. \A p, r : Kept(p) /\ Answered(p, r) => Answered(p, r)'
  BY <1>0 DEF Answered
<1> HIDE DEF Kept
<1>7. \A p \in pending' : p = o \/ (Kept(p) /\ p \in pending /\ p.id < nextId)
  BY <1>1 DEF Kept
<1>8. \A i \in DOMAIN queue : \A p \in pending : p.id = queue[i].id => Asked(p, queue[i])
  BY DEF Inv, AskedInv
<1>9. \A i \in DOMAIN replies : \A p \in pending : p.id = replies[i].id => Answered(p, replies[i])
  BY DEF Inv, AskedInv
<1>10. (\A i \in DOMAIN queue : \A p \in pending : p.id = queue[i].id => Asked(p, queue[i]))'
  <2>1. SUFFICES ASSUME NEW i \in DOMAIN queue', NEW p \in pending', p.id = queue'[i].id
                 PROVE  (Asked(p, queue[i]))'
    OBVIOUS
  <2>2. CASE queue'[i] = m
    BY <1>0, <1>4, <1>7, <2>1, <2>2
  <2>3. CASE i \in DOMAIN queue /\ queue'[i] = queue[i] /\ queue[i].id < nextId
    BY <1>0, <1>2, <1>5, <1>7, <1>8, <2>1, <2>3
  <2> QED
    BY <1>1, <2>2, <2>3
<1>11. (\A i \in DOMAIN replies : \A p \in pending : p.id = replies[i].id => Answered(p, replies[i]))'
  BY <1>0, <1>3, <1>6, <1>7, <1>9
<1> QED
  BY <1>10, <1>11, Zenon DEF AskedInv

\* An operation begins on an idle page.
LEMMA ExecuteStep ==
  ASSUME Inv, ~store.compiling, NEW kind \in {"compile", "run"}, NEW test \in BOOLEAN,
         NEW call \in ManualCalls \cup {None},
         call # None => kind = "run",
         kind = "run" /\ call = None => store.testCases \/ Discovered,
         test => kind = "run" /\ call = None,
         ExecuteWorkspace(kind, test, call), UNCHANGED <<replies, worker, effect>>
  PROVE  Inv'
<1> DEFINE testing == kind = "run" /\ call = None /\ (test \/ store.testCases)
           manual == kind = "run" /\ ~testing
           loading == IF manual THEN FALSE ELSE store.watchLoading
           shown == IF manual THEN None ELSE store.manualResult
           tested == IF testing THEN None ELSE store.testRun
<1>a. PICK key : key = SandboxKey(store)
  OBVIOUS
<1>b. PICK m : m = Message(nextId, kind, key, test, call, {})
  OBVIOUS
<1>c. PICK o : o = Operation(nextId, kind, compileRun + 1, store.workspaceVersion, testing, call)
  OBVIOUS
<1>1. /\ compileRun' = compileRun + 1
      /\ watchRun' = IF manual THEN watchRun + 1 ELSE watchRun
      /\ Request(m, o) /\ pendingWatches' = pendingWatches
  BY <1>a, <1>b, <1>c, Zenon DEF ExecuteWorkspace
<1>2. store' = Begun(store, loading, shown, tested)
  BY Zenon DEF ExecuteWorkspace, Begun
<1>3. /\ UNCHANGED <<replies, runtime, session, nextSandbox, effect>>
  BY DEF worker
<1>4. /\ nextId \in Nat /\ compileRun \in Nat /\ watchRun \in Nat /\ store.workspaceVersion \in Nat
      /\ store.sandboxEpoch \in Nat /\ key \in Keys /\ StoreTyped(store) /\ IsStore(store)
      /\ key.epoch = Sum(store) /\ key.source = store.source /\ None \notin Nat
  BY <1>a, PageTypes DEF Inv
<1>5. store.watchLoading \in BOOLEAN /\ store.testCases \in BOOLEAN
  BY <1>4, Zenon DEF StoreTyped
<1>6. testing \in BOOLEAN /\ manual \in BOOLEAN /\ loading \in BOOLEAN
  <2>1. testing \in BOOLEAN /\ manual \in BOOLEAN
    OBVIOUS
  <2> HIDE DEF testing, manual
  <2>2. loading \in BOOLEAN
    BY <1>5, Zenon
  <2> QED
    BY <2>1, <2>2
<1>7. /\ manual => kind = "run" /\ ~testing
      /\ call # None => manual
      /\ test => testing
      /\ manual /\ call = None => Discovered /\ ~store.testCases
  OBVIOUS
<1> HIDE DEF testing, loading, shown, tested
<1>8. /\ m \in Messages /\ m.id = nextId /\ m.kind = kind /\ m.key = key /\ m.call = call
      /\ m.test = test
  BY <1>b, <1>4 DEF Message, Messages
<1>9. /\ o \in Operations /\ o.id = nextId /\ o.kind = kind /\ o.run = compileRun + 1
      /\ o.version = store.workspaceVersion /\ o.testing = testing /\ o.call = call
      /\ o.manual = (kind = "run" /\ ~testing)
  BY <1>c, <1>4, <1>6 DEF Operation, Operations
<1>10. o.manual <=> manual
  BY <1>9
<1> HIDE DEF manual
<1>11. IsBegun(store, store', loading, shown, tested)
  BY <1>2, <1>4, BegunFields
<1>12. /\ SameWorkspace(store, store') /\ SameFound(store, store') /\ SameManual(store, store')
       /\ SameReads(store, store') /\ SameResult(store, store') /\ store'.watches = store.watches
       /\ store'.compiling = TRUE /\ store'.watchLoading = loading /\ IsStore(store')
  BY <1>11 DEF IsBegun
<1>13. StoreTyped(store')
  <2>1. Versions(store') = Versions(store)
    BY <1>12 DEF Versions, SameWorkspace
  <2>2. store'.compiling \in BOOLEAN /\ store'.watchLoading \in BOOLEAN
    BY <1>6, <1>12, Zenon
  <2> QED
    BY <1>4, <1>12, <2>1, <2>2 DEF StoreTyped, SameWorkspace, SameFound, SameManual, SameReads, SameResult
<1>14. Sends(m, o)
  BY <1>1, <1>3, <1>8, <1>9 DEF Sends, Request
<1>15. /\ store'.source = store.source /\ store'.backend = store.backend
       /\ store'.workspaceVersion = store.workspaceVersion
       /\ store'.sandboxEpoch = store.sandboxEpoch /\ store'.sandbox = store.sandbox
       /\ store'.actionSequence = store.actionSequence
       /\ SandboxKey(store') = key /\ Sum(store') = Sum(store)
  BY <1>a, <1>12 DEF SameWorkspace, SameManual, SandboxKey, Sum
<1>16. /\ queue' \in Seq(Messages) /\ pending' \in SUBSET Operations /\ nextId' \in Nat \ {0}
       /\ latestId' \in Nat /\ o \in pending'
       /\ \A i \in DOMAIN queue' :
            \/ i \in DOMAIN queue /\ queue'[i] = queue[i] /\ queue[i].id < nextId
            \/ queue'[i] = m /\ \A k \in DOMAIN queue : k < i
       /\ \A p \in pending' :
            \/ p = o
            \/ p \in pending /\ p.id < nextId /\ (p.kind = "discover") # (m.kind = "discover")
  BY <1>14, SentFacts
<1>17. m.kind # "discover" /\ \A p \in pending' : p = o \/ (p \in pending /\ p.kind = "discover")
  BY <1>8, <1>16
<1>18. IdsInv' /\ ClassInv'
  BY <1>14, SentClient
<1>19. TypeInv'
  <2>1. effect.version \in Versions(store')
    BY <1>15 DEF Inv, TypeInv, Versions
  <2>2. compileRun' \in Nat /\ watchRun' \in Nat
    BY <1>1, <1>4
  <2> QED
    BY <1>1, <1>3, <1>13, <1>16, <2>1, <2>2, Zenon DEF Inv, TypeInv
<1>20. \A q \in pendingWatches : /\ q.run <= watchRun' /\ q.run \in Nat
                                 /\ manual => q.run # watchRun'
                                 /\ watchRun' # watchRun => q.run # watchRun'
  <2>1. \A q \in pendingWatches : q.run \in Nat /\ q.run <= watchRun
    BY PendingTypes DEF Inv, AwaitInv
  <2> QED
    BY <1>1, <1>4, <2>1
<1>21. AwaitInv'
  <2>1. \A p \in pending' : p.run <= compileRun' /\ p.version <= store'.workspaceVersion
    <3>1. \A p \in pending : p.run \in Nat /\ p.run <= compileRun /\ p.version <= store.workspaceVersion
      BY PendingTypes DEF Inv, AwaitInv
    <3> QED
      BY <1>1, <1>4, <1>9, <1>15, <1>17, <3>1
  <2>2. \A p \in pending', q \in pendingWatches : Awaited(p)' /\ p.manual => q.run # watchRun'
    BY <1>10, <1>17, <1>20 DEF Awaited
  <2>3. \A q \in pendingWatches : /\ q.version <= store'.workspaceVersion /\ q.epoch <= store'.sandboxEpoch
                                  /\ q.epoch = store'.sandboxEpoch => q.action <= store'.actionSequence
    BY <1>15 DEF Inv, AwaitInv
  <2> QED
    BY <1>1, <1>12, <1>20, <2>1, <2>2, <2>3, Zenon DEF AwaitInv
<1>22. Keyed(o, key)'
  <2>1. key.epoch = store.sandboxEpoch + store.workspaceVersion
    BY <1>4 DEF Sum
  <2>2. (Keyed(o, key))' <=>
          /\ Awaited(o)' => /\ key.epoch = store'.sandboxEpoch + o.version
                            /\ o.version = store'.workspaceVersion => key = SandboxKey(store')
          /\ o.kind = "discover" /\ o.version = store'.workspaceVersion => key.source = store'.source
    BY DEF Keyed
  <2> QED
    BY <1>4, <1>9, <1>15, <2>1, <2>2
<1>23. Asked(o, m)'
  <2>1. manual /\ call = None => ~Facts[key.source].tests \/ runtime.wasm \in {"failed", "dead"}
    BY <1>4, <1>7 DEF Inv, DiscoveryInv, DiscoveredIsCurrent
  <2> QED
    BY <1>3, <1>7, <1>8, <1>9, <1>10, <1>22, <2>1 DEF Asked
<1>24. AskedInv'
  <2>1. \A p \in pending : \A k : (p.kind = "discover") # (m.kind = "discover") /\ Keyed(p, k) => Keyed(p, k)'
    BY <1>15, <1>17 DEF Keyed, Awaited
  <2>2. \A p \in pending : (p.kind = "discover") # (m.kind = "discover") => Awaited(p)' = Awaited(p)
    BY <1>17 DEF Awaited
  <2> QED
    BY <1>14, <1>23, <2>1, <2>2, SentAsked
<1>25. \A p \in pending : ~Awaited(p)
  BY IdleFacts
<1>26. InFlight' = InFlight /\ Uncounted' = Uncounted
  <2>1. ~InFlight /\ ~Uncounted
    BY <1>25 DEF InFlight, Uncounted, IsFlight
  <2>2. \A i \in DOMAIN replies : replies[i].id \in Nat /\ replies[i].id < nextId
    BY ReplyTypes DEF Inv, IdsInv
  <2>3. ~InFlight' /\ ~Uncounted'
    BY <1>3, <1>4, <1>9, <1>17, <2>2 DEF InFlight, Uncounted, IsFlight, Awaited
  <2> QED
    BY <2>1, <2>3 DEF InFlight, Uncounted
<1>27. LiveInv' /\ HistInv' /\ RecordInv' /\ WatchInv'
  BY <1>3, <1>12, <1>26, QuietManual
<1>28. DiscoveredIsCurrent' /\ ShownResultIsCurrent'
  BY <1>3, <1>12, QuietFound, QuietResult
<1>29. WasmInv'
  BY <1>3, <1>15 DEF Inv, WasmInv
<1>30. CallInv'
  <2>1. \A i \in DOMAIN queue : queue[i].call # None =>
          /\ queue[i].kind = "run" /\ queue[i].key.epoch <= Sum(store)
          /\ runtime.wasm = "dead" \/ queue[i].key.epoch < Sum(store)
          /\ store.sandbox = None
    BY <1>25 DEF Inv, CallInv
  <2>2. m.call # None => /\ m.kind = "run" /\ m.key.epoch <= Sum(store)
                         /\ \E p \in pending' : p.id = m.id /\ Awaited(p)'
    <3>1. Sum(store) \in Nat
      BY PageTypes DEF Inv
    <3> QED
      BY <1>1, <1>4, <1>8, <1>9, <1>16, <3>1 DEF Awaited
  <2>3. \A i \in DOMAIN queue' : (i \in DOMAIN queue /\ queue'[i] = queue[i]) \/ queue'[i] = m
    BY <1>16
  <2> QED
    BY <1>3, <1>15, <2>1, <2>2, <2>3 DEF Inv, CallInv
<1>31. ReadInv'
  <2>1. \A i \in DOMAIN queue', q \in pendingWatches :
          q.id = queue'[i].id => i \in DOMAIN queue /\ queue'[i] = queue[i]
    <3>1. \A q \in pendingWatches : q.id \in Nat /\ q.id < nextId
      BY PendingTypes DEF Inv, IdsInv
    <3> QED
      BY <1>4, <1>8, <1>16, <3>1
  <2>2. \A q \in pendingWatches : StillCurrent(store, q)' => StillCurrent(store, q)
    BY <1>15, <1>20 DEF StillCurrent
  <2> QED
    BY <1>1, <1>3, <2>1, <2>2 DEF Inv, ReadInv
<1>32. DiscoveryInv'
  BY <1>3, <1>9, <1>15, <1>17, <1>28 DEF Inv, DiscoveryInv
<1> QED
  BY <1>18, <1>19, <1>21, <1>24, <1>27, <1>28, <1>29, <1>30, <1>31, <1>32 DEF Inv

\* The compile button.
LEMMA CompileNowStep ==
  ASSUME Inv, CompileNow
  PROVE  Inv'
<1>1. /\ ~store.compiling /\ UNCHANGED <<replies, worker, effect>>
      /\ ExecuteWorkspace("compile", FALSE, None)
  BY DEF CompileNow, Gesture, ControlsEnabled
<1> QED
  BY <1>1, ExecuteStep

\* All tests, or one of them.
LEMMA RunTestsStep ==
  ASSUME Inv, NEW one \in BOOLEAN, RunTests(one)
  PROVE  Inv'
<1>1. /\ ~store.compiling /\ UNCHANGED <<replies, worker, effect>> /\ store.testCases
      /\ ExecuteWorkspace("run", one, None)
  BY DEF RunTests, Gesture, ControlsEnabled
<1> QED
  BY <1>1, ExecuteStep

\* The run button.
LEMMA RunMainStep ==
  ASSUME Inv, RunMain
  PROVE  Inv'
<1>1. /\ ~store.compiling /\ UNCHANGED <<replies, worker, effect>> /\ Discovered
      /\ ExecuteWorkspace("run", FALSE, None)
  BY DEF RunMain, MainEnabled, Gesture, ControlsEnabled
<1> QED
  BY <1>1, ExecuteStep

\* A manual call.
LEMMA RunCallStep ==
  ASSUME Inv, NEW contract \in Contracts, NEW simulate \in BOOLEAN, RunCall(contract, simulate)
  PROVE  Inv'
<1>1. PICK call : call = [contract |-> contract, simulate |-> simulate]
  OBVIOUS
<1>2. /\ ~store.compiling /\ UNCHANGED <<replies, worker, effect>>
      /\ ExecuteWorkspace("run", FALSE, call)
  BY <1>1, Zenon DEF RunCall, Gesture, ControlsEnabled
<1>3. call \in ManualCalls /\ call # None
  BY <1>1, FactsAssumption DEF ManualCalls
<1> QED
  BY <1>2, <1>3, ExecuteStep

-----------------------------------------------------------------------------
(* The discovery of tests. *)

\* The delay of a discovery is over: the compiler is asked about the workspace.
LEMMA DiscoveryTimerStep ==
  ASSUME Inv, DiscoveryTimer
  PROVE  Inv'
<1>a. PICK key : key = [source |-> effect.source, epoch |-> 0, backend |-> "solc"]
  OBVIOUS
<1>b. PICK m : m = Message(nextId, "discover", key, FALSE, None, {})
  OBVIOUS
<1>c. PICK o : o = Discoverer(nextId, effect.version)
  OBVIOUS
<1>1. /\ effect.armed /\ effect' = [effect EXCEPT !.armed = FALSE] /\ Request(m, o)
      /\ UNCHANGED <<compileRun, watchRun, pendingWatches, replies, runtime, session, nextSandbox>>
  BY <1>a, <1>b, <1>c, Zenon DEF DiscoveryTimer, worker
<1>2. store' = store
  <2>1. {p \in pending : p.kind = "discover" /\ p.active} = {}
    BY <1>1 DEF Inv, DiscoveryInv
  <2> QED
    BY <2>1, Zenon DEF DiscoveryTimer
<1>3. effect'.version = effect.version /\ effect'.source = effect.source /\ effect'.armed = FALSE
  BY <1>1 DEF Inv, TypeInv
<1>4. /\ effect.version \in Nat /\ effect.version <= store.workspaceVersion
      /\ effect.source \in Sources /\ store.workspaceVersion \in Nat
  <2>1. store.workspaceVersion \in Nat
    BY PageTypes DEF Inv
  <2> QED
    BY <1>1, <2>1 DEF Inv, TypeInv, Versions
<1>5. nextId \in Nat /\ compileRun \in Nat /\ None \notin Nat
  BY PageTypes DEF Inv
<1>6. key \in Keys /\ key.source = effect.source
  BY <1>a, <1>4 DEF Keys
<1>7. /\ m \in Messages /\ m.id = nextId /\ m.kind = "discover" /\ m.key = key /\ m.call = None
      /\ m.test = FALSE
  BY <1>b, <1>5, <1>6 DEF Message, Messages
<1>8. /\ o \in Operations /\ o.id = nextId /\ o.kind = "discover" /\ o.run = 0
      /\ o.version = effect.version /\ o.manual = FALSE /\ o.call = None
  BY <1>c, <1>4, <1>5 DEF Discoverer, Operations
<1>9. Sends(m, o)
  BY <1>1, <1>7, <1>8 DEF Sends, Request
<1>10. /\ queue' \in Seq(Messages) /\ pending' \in SUBSET Operations /\ nextId' \in Nat \ {0}
       /\ latestId' \in Nat
       /\ \A i \in DOMAIN queue' : (i \in DOMAIN queue /\ queue'[i] = queue[i]) \/ queue'[i] = m
       /\ \A p \in pending' : p = o \/ (p \in pending /\ p.kind # "discover")
       /\ \A p \in pending : p.kind # "discover" => p \in pending'
  <2>1. /\ queue' \in Seq(Messages) /\ pending' \in SUBSET Operations /\ nextId' \in Nat \ {0}
        /\ latestId' \in Nat
        /\ \A i \in DOMAIN queue' : (i \in DOMAIN queue /\ queue'[i] = queue[i]) \/ queue'[i] = m
        /\ \A p \in pending' :
             p = o \/ (p \in pending /\ (p.kind = "discover") # (m.kind = "discover"))
        /\ \A p \in pending : (p.kind = "discover") # (m.kind = "discover") => p \in pending'
    BY <1>9, SentFacts
  <2> QED
    BY <2>1, <1>7
<1>11. IdsInv' /\ ClassInv'
  BY <1>9, SentClient
<1>12. TypeInv'
  <2>1. effect' \in [version : Nat \cup {None}, source : Sources \cup {None},
                     compiling : BOOLEAN, armed : BOOLEAN]
    BY <1>1 DEF Inv, TypeInv
  <2>2. effect'.version \in Versions(store)
    BY <1>3 DEF Inv, TypeInv
  <2> QED
    BY <1>1, <1>2, <1>3, <1>10, <2>1, <2>2, Zenon DEF Inv, TypeInv
<1>13. \A p : Awaited(p)' <=> Awaited(p)
  BY <1>1 DEF Awaited
<1>14. \A p \in pending' : Awaited(p) => p \in pending
  BY <1>8, <1>10 DEF Awaited
<1>15. \A p \in pending : Awaited(p) => p \in pending'
  BY <1>10 DEF Awaited
<1>16. AwaitInv'
  BY <1>1, <1>2, <1>4, <1>5, <1>8, <1>10, <1>13, <1>14 DEF Inv, AwaitInv
<1>17. Asked(o, m)'
  <2>1. ~Awaited(o)'
    BY <1>8 DEF Awaited
  <2>2. effect.version = store.workspaceVersion => effect.source = store.source
    BY DEF Inv, DiscoveryInv
  <2>3. Keyed(o, key)'
    BY <1>2, <1>6, <1>8, <2>1, <2>2 DEF Keyed
  <2> QED
    BY <1>7, <1>8, <2>3 DEF Asked
<1>18. AskedInv'
  <2>1. \A p \in pending : \A k : (p.kind = "discover") # (m.kind = "discover") /\ Keyed(p, k) => Keyed(p, k)'
    BY <1>1, <1>2 DEF Keyed, Awaited
  <2>2. \A p \in pending : (p.kind = "discover") # (m.kind = "discover") => Awaited(p)' = Awaited(p)
    BY <1>1 DEF Awaited
  <2> QED
    BY <1>9, <1>17, <2>1, <2>2, SentAsked
<1>19. InFlight' = InFlight /\ Uncounted' = Uncounted
  <2>1. \A i \in DOMAIN replies : IsFlight(i)' <=> IsFlight(i)
    BY <1>1, <1>13, <1>14, <1>15 DEF IsFlight
  <2> QED
    BY <1>1, <2>1 DEF InFlight, Uncounted
<1>20. /\ SameWorkspace(store, store') /\ SameManual(store, store') /\ SameReads(store, store')
       /\ SameFound(store, store') /\ SameResult(store, store')
  BY <1>2 DEF SameWorkspace, SameManual, SameReads, SameFound, SameResult
<1>21. LiveInv' /\ HistInv' /\ RecordInv' /\ WatchInv'
  BY <1>1, <1>19, <1>20, QuietManual
<1>22. DiscoveredIsCurrent' /\ ShownResultIsCurrent'
  BY <1>1, <1>20, QuietFound, QuietResult
<1>23. WasmInv'
  BY <1>1, <1>2 DEF Inv, WasmInv
<1>24. CallInv'
  <2>1. \A i \in DOMAIN queue' : queue'[i].call # None => i \in DOMAIN queue /\ queue'[i] = queue[i]
    BY <1>7, <1>10
  <2>2. \A n : (\E p \in pending : p.id = n /\ Awaited(p)) => \E p \in pending' : p.id = n /\ Awaited(p)'
    BY <1>13, <1>15
  <2> QED
    BY <1>1, <1>2, <2>1, <2>2 DEF Inv, CallInv
<1>25. ReadInv'
  <2>1. \A q \in pendingWatches : q.id \in Nat /\ q.id < nextId
    BY PendingTypes DEF Inv, IdsInv
  <2>2. \A i \in DOMAIN queue', q \in pendingWatches :
          q.id = queue'[i].id => i \in DOMAIN queue /\ queue'[i] = queue[i]
    BY <1>5, <1>7, <1>10, <2>1
  <2>3. \A q \in pendingWatches : StillCurrent(store, q)' => StillCurrent(store, q)
    BY <1>1, <1>2 DEF StillCurrent
  <2> QED
    BY <1>1, <2>2, <2>3 DEF Inv, ReadInv
<1>26. DiscoveryInv'
  BY <1>2, <1>3, <1>22 DEF Inv, DiscoveryInv
<1> QED
  BY <1>11, <1>12, <1>16, <1>18, <1>21, <1>22, <1>23, <1>24, <1>25, <1>26 DEF Inv

\* A promise of a discovery whose effect was cleaned up.
Cleaned(p) == IF p.kind = "discover" THEN [p EXCEPT !.active = FALSE] ELSE p

\* Such a promise differs in nothing else.
LEMMA CleanedFacts ==
  ASSUME NEW p \in Operations
  PROVE  /\ Cleaned(p) \in Operations
         /\ Cleaned(p).id = p.id /\ Cleaned(p).kind = p.kind /\ Cleaned(p).run = p.run
         /\ Cleaned(p).version = p.version /\ Cleaned(p).call = p.call
         /\ Cleaned(p).testing = p.testing /\ Cleaned(p).manual = p.manual
         /\ p.kind = "discover" => ~Cleaned(p).active
         /\ p.kind # "discover" => Cleaned(p) = p
  BY DEF Cleaned, Operations

\* The effect of a render: the discovery under way no longer counts.
LEMMA DiscoveryEffectStep ==
  ASSUME Inv, DiscoveryEffect
  PROVE  Inv'
<1>1. /\ effect' = [version |-> store.workspaceVersion, source |-> store.source,
                    compiling |-> store.compiling, armed |-> ~store.compiling]
      /\ UNCHANGED <<store, compileRun, watchRun, nextId, latestId, pendingWatches, queue,
                     replies, runtime, session, nextSandbox>>
  BY DEF DiscoveryEffect, worker
<1>2. pending' = {Cleaned(p) : p \in pending}
  BY Zenon DEF DiscoveryEffect, Cleaned
<1>3. pending \in SUBSET Operations
  BY DEF Inv, TypeInv
<1>4. /\ pending' \in SUBSET Operations
      /\ \A c \in pending' : \E p \in pending : c = Cleaned(p)
      /\ \A p \in pending : Cleaned(p) \in pending'
  <2>1. \A p \in pending : Cleaned(p) \in Operations
    BY <1>3, CleanedFacts
  <2> QED
    BY <1>2, <2>1
<1>5. \A p \in pending :
        /\ Cleaned(p).id = p.id /\ Cleaned(p).kind = p.kind /\ Cleaned(p).run = p.run
        /\ Cleaned(p).version = p.version /\ Cleaned(p).call = p.call
        /\ Cleaned(p).testing = p.testing /\ Cleaned(p).manual = p.manual
        /\ p.kind = "discover" => ~Cleaned(p).active
        /\ p.kind # "discover" => Cleaned(p) = p
  BY <1>3, CleanedFacts
<1>6. \A p : Awaited(p)' <=> Awaited(p)
  BY <1>1 DEF Awaited
<1>7. \A p \in pending : Awaited(Cleaned(p)) <=> Awaited(p)
  BY <1>5 DEF Awaited
<1>8. TypeInv'
  <2>1. /\ store.workspaceVersion \in Nat /\ store.source \in Sources /\ None \notin Nat
        /\ store.compiling \in BOOLEAN
    BY PageTypes DEF Inv
  <2>2. /\ effect' \in [version : Nat \cup {None}, source : Sources \cup {None},
                        compiling : BOOLEAN, armed : BOOLEAN]
        /\ effect'.version \in Versions(store) /\ effect'.version # None
        /\ effect'.source \in Sources
    BY <1>1, <2>1 DEF Versions
  <2> QED
    BY <1>1, <1>4, <2>2 DEF Inv, TypeInv
<1>9. IdsInv'
  BY <1>1, <1>4, <1>5 DEF Inv, IdsInv
<1>10. ClassInv'
  <2>1. \A p, q \in pending : SameClass(Cleaned(p), Cleaned(q).kind) => p = q
    BY <1>5 DEF Inv, ClassInv, SameClass
  <2>2. \A p, q \in pending' : SameClass(p, q.kind) => p = q
    BY <1>4, <2>1
  <2>3. \A p \in pending' : p.kind # "discover" <=> p.id = latestId
    BY <1>4, <1>5 DEF Inv, ClassInv
  <2>4. \A p \in pending', q \in pendingWatches : p.id # q.id
    BY <1>4, <1>5 DEF Inv, ClassInv
  <2> QED
    BY <1>1, <2>2, <2>3, <2>4 DEF Inv, ClassInv
<1>11. AwaitInv'
  BY <1>1, <1>4, <1>5, <1>6, <1>7 DEF Inv, AwaitInv
<1>12. \A p \in pending : \A key : Keyed(p, key) => Keyed(Cleaned(p), key)'
  BY <1>1, <1>5, <1>6, <1>7 DEF Keyed
<1>13. AskedInv'
  <2>1. \A p \in pending : \A m : Asked(p, m) => Asked(Cleaned(p), m)'
    BY <1>1, <1>5, <1>12 DEF Asked
  <2>2. \A p \in pending : \A r : Answered(p, r) => Answered(Cleaned(p), r)'
    BY <1>1, <1>5, <1>6, <1>7, <1>12 DEF Answered
  <2>3. (\A i \in DOMAIN queue : \A p \in pending : p.id = queue[i].id => Asked(p, queue[i]))'
    BY <1>1, <1>4, <1>5, <2>1 DEF Inv, AskedInv
  <2>4. (\A i \in DOMAIN replies : \A p \in pending : p.id = replies[i].id => Answered(p, replies[i]))'
    BY <1>1, <1>4, <1>5, <2>2 DEF Inv, AskedInv
  <2> QED
    BY <2>3, <2>4, Zenon DEF AskedInv
<1>14. InFlight' = InFlight /\ Uncounted' = Uncounted
  <2>1. \A i \in DOMAIN replies : IsFlight(i)' <=> IsFlight(i)
    BY <1>1, <1>4, <1>5, <1>6, <1>7 DEF IsFlight
  <2> QED
    BY <1>1, <2>1 DEF InFlight, Uncounted
<1>15. /\ SameWorkspace(store, store') /\ SameManual(store, store') /\ SameReads(store, store')
       /\ SameFound(store, store') /\ SameResult(store, store')
  BY <1>1 DEF SameWorkspace, SameManual, SameReads, SameFound, SameResult
<1>16. LiveInv' /\ HistInv' /\ RecordInv' /\ WatchInv'
  BY <1>1, <1>14, <1>15, QuietManual
<1>17. DiscoveredIsCurrent' /\ ShownResultIsCurrent'
  BY <1>1, <1>15, QuietFound, QuietResult
<1>18. WasmInv' /\ ReadInv'
  BY <1>1 DEF Inv, WasmInv, ReadInv, StillCurrent
<1>19. CallInv'
  <2>1. \A n : (\E p \in pending : p.id = n /\ Awaited(p)) => \E p \in pending' : p.id = n /\ Awaited(p)'
    BY <1>4, <1>5, <1>6, <1>7
  <2> QED
    BY <1>1, <2>1 DEF Inv, CallInv
<1>20. DiscoveryInv'
  <2>1. \A p \in pending' : p.kind = "discover" => ~p.active
    BY <1>4, <1>5
  <2> QED
    BY <1>1, <1>17, <2>1 DEF DiscoveryInv
<1> QED
  BY <1>8, <1>9, <1>10, <1>11, <1>13, <1>16, <1>17, <1>18, <1>19, <1>20 DEF Inv

-----------------------------------------------------------------------------
(* The worker serves a request. *)

\* What it loads for a request h.
Loaded(h) ==
  /\ runtime' \in [wasm : {"unloaded", "ready", "failed", "dead"}, solc : BOOLEAN]
  /\ runtime'.wasm \in {"ready", "failed"}
  /\ runtime.wasm \in {"unloaded", runtime'.wasm}

\* The answer a fits the request h.
Fits(h, a) ==
  /\ a.id = h.id
  /\ \/ /\ a \in Errors /\ a.kind = "error"
        /\ h.kind = "discover" => runtime'.wasm = "failed"
     \/ /\ a \in Results /\ a.kind = "result" /\ a.key = h.key
        /\ h.kind # "watch" /\ runtime'.wasm = "ready"
        /\ h.test \/ Facts[h.key.source].tests \/ ~a.ranTests
        /\ h.call # None => ~a.ranTests
        /\ h.kind = "run" => a.sandbox = Info(session', h.key)
     \/ /\ a \in Readings /\ a.kind = "watch-result" /\ session' = session
        /\ h.kind = "watch" /\ runtime'.wasm = "ready" /\ DOMAIN a.values = h.watches
        /\ \A w \in h.watches : a.values[w] \in {None, session.calls}

\* What the request h, answered by a, does to the deployed contract.
Kept(a) == /\ session' = session /\ nextSandbox' = nextSandbox
           /\ a.kind = "result" => ~a.committed
IsCall(h, a) == h.kind = "run" /\ h.call # None /\ a.kind = "result"
Undeployed(a) == session' = None /\ nextSandbox' = nextSandbox + 1 /\ ~a.committed
Called(h, a) ==
  /\ session' \in Sessions /\ session'.key = h.key
  /\ \/ /\ session'.id = nextSandbox /\ nextSandbox' = nextSandbox + 1
        /\ session'.calls = (IF a.committed THEN 1 ELSE 0)
     \/ /\ session # None /\ session.key = h.key /\ session'.id = session.id
        /\ nextSandbox' = nextSandbox
        /\ session'.calls = session.calls + (IF a.committed THEN 1 ELSE 0)

Served(h, a) ==
  /\ queue # <<>> /\ runtime.wasm # "dead" /\ h = queue[1]
  /\ queue' = Tail(queue) /\ replies' = Append(replies, a)
  /\ UNCHANGED <<store, compileRun, watchRun, nextId, latestId, pending, pendingWatches, effect>>
  /\ Loaded(h) /\ Fits(h, a)
  /\ Kept(a) \/ (IsCall(h, a) /\ (Undeployed(a) \/ Called(h, a)))

\* The fields of a result.
IsResult(r, h, deployed, committed) ==
  /\ r \in Results /\ r.id = h.id /\ r.kind = "result" /\ r.key = h.key
  /\ h.test \/ Facts[h.key.source].tests \/ ~r.ranTests
  /\ h.call # None => ~r.ranTests
  /\ h.kind = "run" => r.sandbox = Info(deployed, h.key)
  /\ r.committed = committed

\* They are of their types and fit the request.
LEMMA ResultFacts ==
  ASSUME NEW h \in Messages, NEW deployed \in Sessions \cup {None},
         NEW committed \in BOOLEAN, NEW r, r = ResultOf(h, deployed, committed)
  PROVE  IsResult(r, h, deployed, committed)
<1> DEFINE facts == Facts[h.key.source]
           ran == h.kind = "run" /\ h.call = None /\ facts.ok /\ (h.test \/ facts.tests)
           sandbox == IF h.kind = "run" THEN Info(deployed, h.key) ELSE None
<1>1. /\ h.id \in Nat /\ h.key \in Keys /\ h.key.source \in Sources
      /\ facts \in [tests : BOOLEAN, main : BOOLEAN, ok : BOOLEAN, contracts : SUBSET Contracts]
  BY FactsAssumption DEF Messages, Keys
<1>2. ran \in BOOLEAN
  OBVIOUS
<1>3. /\ ran => h.test \/ facts.tests
      /\ ran => h.call = None
  OBVIOUS
<1>4. sandbox \in Deployments \cup {None}
  BY DEF Info, Sessions, Deployments
<1>5. h.kind = "run" => sandbox = Info(deployed, h.key)
  OBVIOUS
<1>6. r = [id |-> h.id, kind |-> "result", key |-> h.key, success |-> facts.ok,
           tests |-> facts.tests, contracts |-> facts.contracts, main |-> facts.main,
           ranTests |-> ran, sandbox |-> sandbox, committed |-> committed]
  BY Zenon DEF ResultOf
<1> HIDE DEF ran, sandbox
<1>7. facts.ok \in BOOLEAN /\ facts.tests \in BOOLEAN /\ facts.main \in BOOLEAN /\ facts.contracts \in SUBSET Contracts
  BY <1>1
<1>8. /\ r.id = h.id /\ r.kind = "result" /\ r.key = h.key /\ r.tests = facts.tests
      /\ r.contracts = facts.contracts /\ r.main = facts.main /\ r.ranTests = ran
      /\ r.sandbox = sandbox /\ r.committed = committed
  <2> HIDE DEF facts
  <2> QED
    BY <1>6
<1>9. r \in [id : Nat, kind : {"result"}, key : Keys, success : BOOLEAN,
             tests : BOOLEAN, contracts : SUBSET Contracts, main : BOOLEAN,
             ranTests : BOOLEAN, sandbox : Deployments \cup {None}, committed : BOOLEAN]
  <2> HIDE DEF facts
  <2> QED
    BY <1>1, <1>2, <1>4, <1>6, <1>7
<1>10. r \in Results
  BY <1>8, <1>9 DEF Results
<1> QED
  BY <1>3, <1>5, <1>8, <1>10 DEF IsResult

\* What is loaded is ready or failed, and stays so.
LEMMA LoadsFacts ==
  ASSUME Inv, NEW h, runtime.wasm # "dead", runtime' \in Loads(h)
  PROVE  Loaded(h)
<1>1. runtime \in [wasm : {"unloaded", "ready", "failed", "dead"}, solc : BOOLEAN]
  BY DEF Inv, TypeInv
<1>2. runtime' \in [wasm : IF runtime.wasm = "unloaded" THEN {"ready", "failed"} ELSE {runtime.wasm},
                    solc : BOOLEAN]
  BY DEF Loads
<1> QED
  BY <1>1, <1>2 DEF Loaded

\* A compilation, a discovery or a run that is no call.
LEMMA CompileFacts ==
  ASSUME Inv, NEW h \in Messages, Compile(h), runtime'.wasm = "ready"
  PROVE  \E a : replies' = Append(replies, a) /\ Fits(h, a) /\ Kept(a)
<1>1. /\ h.kind # "watch" /\ h.call = None /\ session' = session /\ nextSandbox' = nextSandbox
  BY DEF Compile
<1>2. PICK a : a = ResultOf(h, session, FALSE)
  OBVIOUS
<1>3. replies' = Append(replies, a)
  BY <1>2, Zenon DEF Compile, Reply
<1>4. IsResult(a, h, session, FALSE)
  BY <1>2, ResultFacts DEF Inv, TypeInv
<1>5. Fits(h, a) /\ Kept(a)
  BY <1>1, <1>4 DEF IsResult, Fits, Kept
<1> QED
  BY <1>3, <1>5

\* A reading of the watches.
LEMMA WatchFacts ==
  ASSUME Inv, NEW h \in Messages, Watch(h), runtime'.wasm = "ready"
  PROVE  \E a : replies' = Append(replies, a) /\ Fits(h, a) /\ Kept(a)
<1> DEFINE values == [w \in h.watches |->
                        IF session # None /\ session.key = h.key /\ session.contract = w
                        THEN session.calls ELSE None]
<1>1. h.kind = "watch" /\ session' = session /\ nextSandbox' = nextSandbox
  BY DEF Watch
<1>2. PICK a : a = [id |-> h.id, kind |-> "watch-result", values |-> values]
  OBVIOUS
<1>3. replies' = Append(replies, a)
  BY <1>2, Zenon DEF Watch, Reply
<1>4. h.id \in Nat /\ h.watches \in SUBSET Contracts
  BY DEF Messages
<1>5. session # None => session.calls \in Nat
  BY SessionTypes DEF Inv
<1>6. /\ DOMAIN values = h.watches /\ values \in [h.watches -> Nat \cup {None}]
      /\ \A w \in h.watches : values[w] \in {None, session.calls}
  BY <1>5
<1> HIDE DEF values
<1>7. values \in UNION {[W -> Nat \cup {None}] : W \in SUBSET Contracts}
  BY <1>4, <1>6
<1>8. a \in Readings /\ a.id = h.id /\ a.kind = "watch-result" /\ a.values = values
  BY <1>2, <1>4, <1>7 DEF Readings
<1>9. Fits(h, a) /\ Kept(a)
  BY <1>1, <1>6, <1>8 DEF Fits, Kept
<1> QED
  BY <1>3, <1>9

\* A manual call.
LEMMA CallFacts ==
  ASSUME Inv, NEW h \in Messages, Call(h), runtime'.wasm = "ready"
  PROVE  \E a : /\ replies' = Append(replies, a) /\ Fits(h, a)
                /\ Kept(a) \/ (IsCall(h, a) /\ (Undeployed(a) \/ Called(h, a)))
<1>1. PICK target : target = IF NeedsDeployment(h)
                             THEN [id |-> nextSandbox, contract |-> h.call.contract,
                                   key |-> h.key, calls |-> 0]
                             ELSE session
  OBVIOUS
<1>2. h.kind = "run" /\ h.call # None /\ h.call \in ManualCalls /\ h.key \in Keys
  BY DEF Call, Messages
<1>3. session \in Sessions \cup {None} /\ nextSandbox \in Nat
  BY DEF Inv, TypeInv
<1>4. /\ target \in Sessions /\ target.key = h.key /\ target # None
      /\ \/ target.id = nextSandbox /\ target.calls = 0 /\ NeedsDeployment(h)
         \/ target = session /\ session # None /\ ~NeedsDeployment(h)
  <2>1. CASE NeedsDeployment(h)
    <3>1. target = [id |-> nextSandbox, contract |-> h.call.contract, key |-> h.key, calls |-> 0]
      BY <1>1, <2>1
    <3>2. h.call.contract \in Contracts
      BY <1>2 DEF ManualCalls
    <3> QED
      BY <1>2, <1>3, <2>1, <3>1, <3>2, FactsAssumption DEF Sessions
  <2>2. CASE ~NeedsDeployment(h)
    BY <1>1, <1>3, <2>2 DEF NeedsDeployment
  <2> QED
    BY <2>1, <2>2
<1>5. CASE UNCHANGED <<session, nextSandbox>> /\ Reply(ResultOf(h, session, FALSE))
  <2>1. PICK a : a = ResultOf(h, session, FALSE)
    OBVIOUS
  <2>2. replies' = Append(replies, a)
    BY <1>5, <2>1 DEF Reply
  <2>3. IsResult(a, h, session, FALSE)
    BY <1>3, <2>1, ResultFacts
  <2>4. Fits(h, a) /\ Kept(a)
    BY <1>2, <1>5, <2>3 DEF IsResult, Fits, Kept
  <2> QED
    BY <2>2, <2>4
<1>6. CASE /\ session' = None /\ nextSandbox' = nextSandbox + 1
           /\ Reply(ResultOf(h, None, FALSE))
  <2>1. PICK a : a = ResultOf(h, None, FALSE)
    OBVIOUS
  <2>2. replies' = Append(replies, a)
    BY <1>6, <2>1 DEF Reply
  <2>3. IsResult(a, h, None, FALSE)
    BY <2>1, ResultFacts
  <2>4. Fits(h, a) /\ IsCall(h, a) /\ Undeployed(a)
    BY <1>2, <1>6, <2>3 DEF IsResult, Fits, IsCall, Undeployed
  <2> QED
    BY <2>2, <2>4
<1>7. CASE \E succeeded \in BOOLEAN :
             LET commits == succeeded /\ ~h.call.simulate
             IN  /\ session' = [target EXCEPT !.calls = @ + IF commits THEN 1 ELSE 0]
                 /\ nextSandbox' = IF NeedsDeployment(h) THEN nextSandbox + 1 ELSE nextSandbox
                 /\ Reply(ResultOf(h, target, commits))
  <2>1. PICK commits \in BOOLEAN :
          /\ session' = [target EXCEPT !.calls = @ + IF commits THEN 1 ELSE 0]
          /\ nextSandbox' = IF NeedsDeployment(h) THEN nextSandbox + 1 ELSE nextSandbox
          /\ Reply(ResultOf(h, target, commits))
    <3>1. PICK succeeded \in BOOLEAN :
             LET commits == succeeded /\ ~h.call.simulate
             IN  /\ session' = [target EXCEPT !.calls = @ + IF commits THEN 1 ELSE 0]
                 /\ nextSandbox' = IF NeedsDeployment(h) THEN nextSandbox + 1 ELSE nextSandbox
                 /\ Reply(ResultOf(h, target, commits))
      BY <1>7, Zenon
    <3>2. (succeeded /\ ~h.call.simulate) \in BOOLEAN
      OBVIOUS
    <3> QED
      BY <3>1, <3>2, Zenon
  <2>2. PICK a : a = ResultOf(h, target, commits)
    OBVIOUS
  <2>3. replies' = Append(replies, a)
    BY <2>1, <2>2, Zenon DEF Reply
  <2>4. IsResult(a, h, target, commits)
    BY <1>4, <2>2, ResultFacts
  <2>5. /\ session' \in Sessions /\ session'.id = target.id /\ session'.contract = target.contract
        /\ session'.key = h.key /\ session'.calls = target.calls + IF commits THEN 1 ELSE 0
    BY <1>4, <2>1 DEF Sessions
  <2>6. Info(session', h.key) = Info(target, h.key)
    BY <1>4, <2>5, FactsAssumption DEF Info
  <2>7. Fits(h, a) /\ IsCall(h, a)
    BY <1>2, <2>4, <2>6 DEF IsResult, Fits, IsCall
  <2>8. Called(h, a)
    <3>1. a.committed = commits
      BY <2>4 DEF IsResult
    <3>2. CASE NeedsDeployment(h)
      BY <1>4, <2>1, <2>5, <3>1, <3>2 DEF Called
    <3>3. CASE ~NeedsDeployment(h)
      BY <1>4, <2>1, <2>5, <3>1, <3>3 DEF Called
    <3> QED
      BY <3>2, <3>3
  <2> QED
    BY <2>3, <2>7, <2>8
<1> QED
  BY <1>1, <1>5, <1>6, <1>7, Zenon DEF Call

\* The answer to the first request.
LEMMA ServeFacts ==
  ASSUME Inv, Serve
  PROVE  \E h, a : Served(h, a)
<1>1. PICK h : h = Head(queue)
  OBVIOUS
<1>2. /\ queue # <<>> /\ runtime.wasm # "dead" /\ runtime' \in Loads(h) /\ queue' = Tail(queue)
      /\ UNCHANGED <<store, compileRun, watchRun, nextId, latestId, pending, pendingWatches, effect>>
      /\ IF runtime'.wasm = "failed" \/ (NeedsSolc(h) /\ ~runtime'.solc)
         THEN Reply([id |-> h.id, kind |-> "error"]) /\ UNCHANGED <<session, nextSandbox>>
         ELSE Compile(h) \/ Call(h) \/ Watch(h)
  BY <1>1, Zenon DEF Serve
<1>3. Loaded(h)
  BY <1>2, LoadsFacts
<1>4. h = queue[1] /\ h \in Messages
  BY <1>1, <1>2, TailFacts DEF Inv, TypeInv
<1>5. \E a : /\ replies' = Append(replies, a) /\ Fits(h, a)
             /\ Kept(a) \/ (IsCall(h, a) /\ (Undeployed(a) \/ Called(h, a)))
  <2>1. CASE runtime'.wasm = "failed" \/ (NeedsSolc(h) /\ ~runtime'.solc)
    <3>1. PICK a : a = [id |-> h.id, kind |-> "error"]
      OBVIOUS
    <3>2. replies' = Append(replies, a) /\ UNCHANGED <<session, nextSandbox>>
      BY <1>2, <2>1, <3>1, Zenon DEF Reply
    <3>3. h.kind = "discover" => runtime'.wasm = "failed"
      BY <2>1 DEF NeedsSolc
    <3>4. a \in Errors /\ a.id = h.id /\ a.kind = "error"
      BY <1>4, <3>1 DEF Errors, Messages
    <3>5. Fits(h, a) /\ Kept(a)
      BY <3>2, <3>3, <3>4 DEF Fits, Kept
    <3> QED
      BY <3>2, <3>5
  <2>2. CASE ~(runtime'.wasm = "failed" \/ (NeedsSolc(h) /\ ~runtime'.solc))
    <3>1. runtime'.wasm = "ready" /\ (Compile(h) \/ Call(h) \/ Watch(h))
      BY <1>2, <1>3, <2>2 DEF Loaded
    <3> QED
      BY <1>4, <3>1, CompileFacts, CallFacts, WatchFacts
  <2> QED
    BY <2>1, <2>2
<1> QED
  BY <1>2, <1>3, <1>4, <1>5 DEF Served

\* Where the requests and the answers are then.
LEMMA ServedMoves ==
  ASSUME Inv, NEW h, NEW a, Served(h, a)
  PROVE  /\ h \in Messages /\ 1 \in DOMAIN queue /\ queue[1] = h /\ h.id \in Nat
         /\ a \in Answers /\ a.id = h.id
         /\ queue' \in Seq(Messages) /\ replies' \in Seq(Answers)
         /\ \A i \in DOMAIN queue' :
              /\ i + 1 \in DOMAIN queue /\ queue'[i] = queue[i + 1]
              /\ h.id < queue[i + 1].id
         /\ \A i, k \in DOMAIN queue' : i < k => queue'[i].id < queue'[k].id
         /\ \E n \in DOMAIN replies' :
              /\ replies'[n] = a
              /\ \A i \in DOMAIN replies' : i = n \/ (i \in DOMAIN replies /\ i < n)
         /\ \A i \in DOMAIN replies :
              i \in DOMAIN replies' /\ replies'[i] = replies[i] /\ replies[i].id < h.id
<1>1. queue \in Seq(Messages) /\ replies \in Seq(Answers) /\ queue # <<>>
  BY DEF Inv, TypeInv, Served
<1>2. queue' = Tail(queue) /\ replies' = Append(replies, a) /\ h = queue[1] /\ a.id = h.id
  BY DEF Served, Fits
<1>3. a \in Answers
  BY DEF Served, Fits, Answers
<1>4. /\ Tail(queue) \in Seq(Messages) /\ 1 \in DOMAIN queue /\ queue[1] \in Messages
      /\ DOMAIN Tail(queue) \subseteq Nat
      /\ \A i \in DOMAIN Tail(queue) : i >= 1 /\ i + 1 \in DOMAIN queue /\ Tail(queue)[i] = queue[i + 1]
  BY <1>1, TailFacts
<1>5. /\ Append(replies, a) \in Seq(Answers) /\ Len(replies) \in Nat
      /\ DOMAIN Append(replies, a) = DOMAIN replies \cup {Len(replies) + 1}
      /\ \A i \in DOMAIN replies : i < Len(replies) + 1
      /\ \A i \in DOMAIN replies : Append(replies, a)[i] = replies[i]
      /\ Append(replies, a)[Len(replies) + 1] = a
  BY <1>1, <1>3, AppendFacts
<1>6. \A i, j \in DOMAIN queue : i < j => queue[i].id < queue[j].id
  BY DEF Inv, IdsInv
<1>7. \A i \in DOMAIN replies, j \in DOMAIN queue : replies[i].id < queue[j].id
  BY DEF Inv, IdsInv
<1>8. \A i \in DOMAIN queue' : i + 1 \in DOMAIN queue /\ queue'[i] = queue[i + 1]
                              /\ i \in Nat /\ h.id < queue[i + 1].id
  <2>1. \A i \in DOMAIN Tail(queue) : i \in Nat /\ i >= 1
    BY <1>4
  <2> QED
    BY <1>2, <1>4, <1>6, <2>1
<1>9. \A i, k \in DOMAIN queue' : i < k => queue'[i].id < queue'[k].id
  BY <1>6, <1>8
<1>10. h.id \in Nat
  BY <1>2, <1>4 DEF Messages
<1>11. \A i \in DOMAIN replies : i \in DOMAIN replies' /\ replies'[i] = replies[i] /\ replies[i].id < h.id
  BY <1>2, <1>4, <1>5, <1>7
<1>12. \E n \in DOMAIN replies' : /\ replies'[n] = a
                                  /\ \A i \in DOMAIN replies' : i = n \/ (i \in DOMAIN replies /\ i < n)
  <2> DEFINE n == Len(replies) + 1
  <2>1. n \in DOMAIN replies' /\ replies'[n] = a
    BY <1>2, <1>5
  <2>2. \A i \in DOMAIN replies' : i = n \/ (i \in DOMAIN replies /\ i < n)
    BY <1>2, <1>5
  <2> QED
    BY <2>1, <2>2
<1> QED
  BY <1>2, <1>3, <1>4, <1>5, <1>8, <1>9, <1>10, <1>11, <1>12

\* Identifiers stay in order.
LEMMA ServedIds ==
  ASSUME Inv, NEW h, NEW a, Served(h, a)
  PROVE  IdsInv'
<1>1. /\ h.id \in Nat /\ a.id = h.id /\ 1 \in DOMAIN queue /\ queue[1] = h
      /\ \A i \in DOMAIN queue' : i + 1 \in DOMAIN queue /\ queue'[i] = queue[i + 1] /\ h.id < queue[i + 1].id
      /\ \A i, k \in DOMAIN queue' : i < k => queue'[i].id < queue'[k].id
      /\ \A i \in DOMAIN replies :
           i \in DOMAIN replies' /\ replies'[i] = replies[i] /\ replies[i].id < h.id
  BY ServedMoves
<1>2. PICK n \in DOMAIN replies' : /\ replies'[n] = a
                                   /\ \A i \in DOMAIN replies' : i = n \/ (i \in DOMAIN replies /\ i < n)
  BY ServedMoves
<1>3. /\ UNCHANGED <<nextId, latestId, pending, pendingWatches>>
  BY DEF Served
<1>4. \A i \in DOMAIN replies' : replies'[i].id <= h.id /\ (i # n => replies'[i].id < h.id) /\ i <= n /\ i \in Nat
  <2>1. \A i \in DOMAIN replies : replies[i].id \in Nat /\ i \in Nat
    BY ReplyTypes DEF Inv
  <2>2. n \in Nat
    BY <1>2, ServedMoves, ElementFacts
  <2> QED
    BY <1>1, <1>2, <2>1, <2>2
<1>5. \A i, j \in DOMAIN replies' : i < j => replies'[i].id < replies'[j].id
  BY <1>1, <1>2, <1>4 DEF Inv, IdsInv
<1>6. \A i \in DOMAIN queue : queue[i].id \in Nat
  BY QueueTypes DEF Inv
<1>7. \A i \in DOMAIN replies' : replies'[i].id \in Nat
  BY <1>1, <1>2, ReplyTypes DEF Inv
<1>8. \A i \in DOMAIN replies', j \in DOMAIN queue' : replies'[i].id < queue'[j].id
  BY <1>1, <1>4, <1>6, <1>7
<1>9. h.id < nextId /\ nextId \in Nat
  BY <1>1, PageTypes DEF Inv, IdsInv
<1>10. \A i \in DOMAIN replies' : replies'[i].id < nextId
  BY <1>1, <1>4, <1>7, <1>9
<1> QED
  BY <1>1, <1>3, <1>5, <1>8, <1>10 DEF Inv, IdsInv

\* Which answers the page waits for then.
LEMMA ServedFlights ==
  ASSUME Inv, NEW h, NEW a, Served(h, a)
  PROVE  /\ InFlight => InFlight'
         /\ Kept(a) => Uncounted' = Uncounted
         /\ h.kind \in {"compile", "run"} =>
              \A i \in DOMAIN replies : \A p \in pending : p.id = replies[i].id => p.kind = "discover"
         /\ h.kind = "run" => ~InFlight /\ ~Uncounted
         /\ \A p \in pending : p.id = h.id /\ Awaited(p) /\ p.manual /\ IsCall(h, a) =>
              InFlight' /\ (Uncounted' <=> a.committed)
<1>1. /\ h.id \in Nat /\ a.id = h.id /\ 1 \in DOMAIN queue /\ queue[1] = h
      /\ \A i \in DOMAIN replies :
           i \in DOMAIN replies' /\ replies'[i] = replies[i] /\ replies[i].id < h.id
  BY ServedMoves
<1>2. PICK n \in DOMAIN replies' : /\ replies'[n] = a
                                   /\ \A i \in DOMAIN replies' : i = n \/ (i \in DOMAIN replies /\ i < n)
  BY ServedMoves
<1>3. UNCHANGED <<compileRun, pending, latestId>>
  BY DEF Served
<1>4. \A p : Awaited(p)' <=> Awaited(p)
  BY <1>3 DEF Awaited
<1>5. \A i \in DOMAIN replies : IsFlight(i)' <=> IsFlight(i)
  BY <1>1, <1>3, <1>4 DEF IsFlight
<1>6. InFlight => InFlight'
  BY <1>1, <1>5 DEF InFlight
<1>7. IsFlight(n)' <=> (a.kind = "result" /\ \E p \in pending : p.id = h.id /\ Awaited(p) /\ p.manual)
  BY <1>1, <1>2, <1>3, <1>4 DEF IsFlight
<1>8. Uncounted' <=> Uncounted \/ (IsFlight(n)' /\ a.committed)
  BY <1>1, <1>2, <1>5 DEF Uncounted
<1>9. Kept(a) => Uncounted' = Uncounted
  <2>1. ASSUME Kept(a) PROVE Uncounted' <=> Uncounted
    BY <1>7, <1>8, <2>1 DEF Kept
  <2> QED
    BY <2>1 DEF Uncounted
<1>10. ASSUME h.kind \in {"compile", "run"}
       PROVE  \A i \in DOMAIN replies : \A p \in pending : p.id = replies[i].id => p.kind = "discover"
  <2>1. h.id <= latestId /\ latestId \in Nat
    BY <1>1, <1>10, PageTypes DEF Inv, IdsInv
  <2>2. \A p \in pending : p.kind # "discover" => p.id = latestId
    BY DEF Inv, ClassInv
  <2>3. \A i \in DOMAIN replies : replies[i].id \in Nat
    BY ReplyTypes DEF Inv
  <2> QED
    BY <1>1, <2>1, <2>2, <2>3
<1>11. h.kind = "run" => ~InFlight /\ ~Uncounted
  BY <1>10 DEF InFlight, Uncounted, IsFlight, Awaited
<1>12. \A p \in pending : p.id = h.id /\ Awaited(p) /\ p.manual /\ IsCall(h, a) =>
              InFlight' /\ (Uncounted' <=> a.committed)
  <2>1. SUFFICES ASSUME NEW p \in pending, p.id = h.id, Awaited(p), p.manual, IsCall(h, a)
                 PROVE  InFlight' /\ (Uncounted' <=> a.committed)
    OBVIOUS
  <2>2. IsFlight(n)'
    BY <1>7, <2>1 DEF IsCall
  <2>3. ~Uncounted
    BY <1>11, <2>1 DEF IsCall
  <2> QED
    BY <1>2, <1>8, <2>2, <2>3 DEF InFlight
<1> QED
  BY <1>6, <1>9, <1>10, <1>11, <1>12


\* Requests, answers and the deployed contract keep their types.
LEMMA ServedTyped ==
  ASSUME Inv, NEW h, NEW a, Served(h, a)
  PROVE  /\ TypeInv'
         /\ nextSandbox \in Nat /\ nextSandbox' \in Nat /\ nextSandbox' >= nextSandbox
<1>1. queue' \in Seq(Messages) /\ replies' \in Seq(Answers) /\ h \in Messages
  BY ServedMoves
<1>2. /\ UNCHANGED <<store, compileRun, watchRun, nextId, latestId, pending, pendingWatches, effect>>
      /\ runtime' \in [wasm : {"unloaded", "ready", "failed", "dead"}, solc : BOOLEAN]
  BY DEF Served, Loaded
<1>3. nextSandbox \in Nat /\ (session # None => session.id \in Nat /\ session.id < nextSandbox)
  BY SessionTypes DEF Inv, TypeInv
<1>4. /\ session' \in Sessions \cup {None} /\ nextSandbox' \in Nat /\ nextSandbox' >= nextSandbox
      /\ session' # None => session'.id < nextSandbox'
  <2>1. CASE Kept(a)
    BY <1>3, <2>1 DEF Kept, Inv, TypeInv
  <2>2. CASE Undeployed(a)
    BY <1>3, <2>2 DEF Undeployed
  <2>3. CASE Called(h, a)
    BY <1>3, <2>3 DEF Called
  <2> QED
    BY <2>1, <2>2, <2>3 DEF Served
<1> QED
  BY <1>1, <1>2, <1>3, <1>4, Zenon DEF Inv, TypeInv

\* Every answer is one to what was asked.
LEMMA ServedAsked ==
  ASSUME Inv, NEW h, NEW a, Served(h, a)
  PROVE  AskedInv'
<1>1. /\ h.id \in Nat /\ a.id = h.id /\ 1 \in DOMAIN queue /\ queue[1] = h
      /\ \A i \in DOMAIN queue' : i + 1 \in DOMAIN queue /\ queue'[i] = queue[i + 1]
      /\ \A i \in DOMAIN replies : i \in DOMAIN replies' /\ replies'[i] = replies[i]
  BY ServedMoves
<1>2. PICK n \in DOMAIN replies' : /\ replies'[n] = a
                                   /\ \A i \in DOMAIN replies' : i = n \/ (i \in DOMAIN replies /\ i < n)
  BY ServedMoves
<1>3. UNCHANGED <<store, compileRun, pending>>
  BY DEF Served
<1>4. \A p : Awaited(p)' <=> Awaited(p)
  BY <1>3 DEF Awaited
<1>5. \A p, key : Keyed(p, key)' <=> Keyed(p, key)
  BY <1>3, <1>4 DEF Keyed
<1>6. runtime.wasm # "dead" /\ (runtime.wasm = "failed" => runtime'.wasm = "failed")
  BY DEF Served, Loaded
<1>7. \A p, m : Asked(p, m) => Asked(p, m)'
  BY <1>5, <1>6 DEF Asked
<1>8. \A i \in DOMAIN queue : \A p \in pending : p.id = queue[i].id => Asked(p, queue[i])
  BY DEF Inv, AskedInv
<1>9. \A i \in DOMAIN replies : \A p \in pending : p.id = replies[i].id => Answered(p, replies[i])
  BY DEF Inv, AskedInv
<1>10. \A i \in DOMAIN replies : \A p \in pending : p.id = replies[i].id => Answered(p, replies[i])'
  <2>1. SUFFICES ASSUME NEW i \in DOMAIN replies, NEW p \in pending, p.id = replies[i].id
                 PROVE  Answered(p, replies[i])'
    BY <1>1
  <2>2. Answered(p, replies[i])
    BY <1>9, <2>1
  <2>3. replies'[i] = replies[i]
    BY <1>1
  <2>4. CASE session' = session
    BY <1>4, <1>5, <1>6, <2>2, <2>3, <2>4 DEF Answered
  <2>5. CASE session' # session
    <3>1. h.kind = "run"
      BY <2>5 DEF Served, Kept, IsCall
    <3>2. p.kind = "discover"
      BY <2>1, <3>1, ServedFlights
    <3> QED
      BY <1>4, <1>5, <1>6, <2>2, <2>3, <3>2 DEF Answered, Awaited
  <2> QED
    BY <2>4, <2>5
<1>11. \A p \in pending : p.id = a.id => Answered(p, replies[n])'
  <2>1. SUFFICES ASSUME NEW p \in pending, p.id = a.id
                 PROVE  Answered(p, replies[n])'
    OBVIOUS
  <2>2. Asked(p, h)
    BY <1>1, <1>8, <2>1
  <2>3. p.kind \in {"compile", "run", "discover"} /\ p.manual \in BOOLEAN /\ p.testing \in BOOLEAN
    BY PendingTypes DEF Inv
  <2>4. p.kind = h.kind /\ Fits(h, a)
    BY <2>2 DEF Asked, Served
  <2>5. CASE a.kind = "error"
    BY <1>2, <1>4, <2>4, <2>5 DEF Fits, Answered
  <2>6. CASE a.kind = "result"
    <3>1. /\ a.key = h.key /\ runtime'.wasm = "ready"
          /\ h.test \/ Facts[h.key.source].tests \/ ~a.ranTests
          /\ h.call # None => ~a.ranTests
          /\ h.kind = "run" => a.sandbox = Info(session', h.key)
      BY <2>4, <2>6 DEF Fits, Errors, Readings
    <3>2. Keyed(p, a.key)'
      BY <1>5, <2>2, <3>1 DEF Asked
    <3>3. p.manual => ~a.ranTests
      <4>1. SUFFICES ASSUME p.manual, h.call = None
                     PROVE  ~a.ranTests
        BY <3>1
      <4>2. ~h.test
        BY <2>2, <4>1 DEF Asked
      <4>3. runtime.wasm \notin {"failed", "dead"}
        BY <1>6, <3>1
      <4>4. ~Facts[h.key.source].tests
        BY <2>2, <4>1, <4>3 DEF Asked
      <4> QED
        BY <3>1, <4>2, <4>4
    <3>4. p.manual => h.kind = "run"
      BY <2>2, <2>4 DEF Asked
    <3>5. a.committed => session' # None /\ session'.key = a.key
      <4>1. CASE Kept(a)
        BY <2>6, <4>1 DEF Kept
      <4>2. CASE Undeployed(a)
        BY <4>2 DEF Undeployed
      <4>3. CASE Called(h, a)
        BY <3>1, <4>3, FactsAssumption DEF Called
      <4> QED
        BY <4>1, <4>2, <4>3 DEF Served
    <3> QED
      BY <1>2, <1>4, <2>6, <3>1, <3>2, <3>3, <3>4, <3>5 DEF Answered
  <2> QED
    BY <2>3, <2>4, <2>5, <2>6 DEF Fits
<1>12. (\A i \in DOMAIN queue : \A p \in pending : p.id = queue[i].id => Asked(p, queue[i]))'
  BY <1>1, <1>3, <1>7, <1>8
<1>13. (\A i \in DOMAIN replies : \A p \in pending : p.id = replies[i].id => Answered(p, replies[i]))'
  <2>1. \A i \in DOMAIN replies' : \A p \in pending : p.id = replies'[i].id => Answered(p, replies[i])'
    BY <1>1, <1>2, <1>10, <1>11
  <2> QED
    BY <1>3, <2>1
<1> QED
  BY <1>12, <1>13, Zenon DEF AskedInv

\* A call whose outcome the page may show is the one it waits for.
LEMMA ServedCall ==
  ASSUME Inv, NEW h, NEW a, Served(h, a), IsCall(h, a)
  PROVE  /\ h.key.epoch <= Sum(store)
         /\ \/ h.key.epoch < Sum(store)
            \/ \E p \in pending : p.id = h.id /\ Awaited(p) /\ p.manual
         /\ store.sandbox # None =>
              \E p \in pending : p.id = h.id /\ Awaited(p) /\ p.manual
<1>1. 1 \in DOMAIN queue /\ queue[1] = h /\ runtime.wasm # "dead"
  BY ServedMoves DEF Served
<1>2. h.call # None
  BY DEF IsCall
<1>3. \A p \in pending : p.id = h.id => p.manual
  BY <1>1, <1>2 DEF Inv, AskedInv, Asked
<1> QED
  BY <1>1, <1>2, <1>3 DEF Inv, CallInv

\* The contract on the page and its calls.
LEMMA ServedManual ==
  ASSUME Inv, NEW h, NEW a, Served(h, a)
  PROVE  LiveInv' /\ HistInv' /\ RecordInv' /\ WatchInv'
<1>1. store' = store /\ (Kept(a) \/ (IsCall(h, a) /\ (Undeployed(a) \/ Called(h, a))))
  BY DEF Served
<1>2. /\ InFlight => InFlight'
      /\ h.kind = "run" => ~InFlight /\ ~Uncounted
      /\ \A p \in pending : p.id = h.id /\ Awaited(p) /\ p.manual /\ IsCall(h, a) =>
           InFlight' /\ (Uncounted' <=> a.committed)
  BY ServedFlights
<1>3. IsCall(h, a) /\ store.sandbox # None => InFlight'
  BY <1>2, ServedCall
<1>4. LiveInv' /\ WatchInv'
  <2>1. CASE Kept(a)
    BY <1>1, <1>2, <2>1 DEF Kept, Inv, LiveInv, WatchInv
  <2>2. CASE IsCall(h, a)
    BY <1>1, <1>3, <2>2 DEF LiveInv, WatchInv
  <2> QED
    BY <1>1, <2>1, <2>2
<1>5. nextSandbox \in Nat /\ nextSandbox' \in Nat /\ nextSandbox' >= nextSandbox
  BY ServedTyped
<1>6. /\ store.recentActions \in Seq(Actions) /\ None \notin Nat
      /\ Sum(store) \in Nat /\ SandboxKey(store).epoch = Sum(store)
  BY PageTypes, Zenon DEF Inv, StoreTyped
<1>7. \A i \in DOMAIN store.recentActions :
        /\ store.recentActions[i].sandbox \in Nat \cup {None}
        /\ store.recentActions[i].sandbox # nextSandbox
        /\ store.recentActions[i].sandbox # None => store.recentActions[i].sandbox < nextSandbox
  <2>1. \A i \in DOMAIN store.recentActions : store.recentActions[i] \in Actions
    BY <1>6, ElementFacts
  <2>2. \A i \in DOMAIN store.recentActions :
          store.recentActions[i].sandbox # None => store.recentActions[i].sandbox < nextSandbox
    BY DEF Inv, RecordInv
  <2> QED
    BY <1>5, <1>6, <2>1, <2>2 DEF Actions
<1>8. HistInv'
  <2>1. CASE Kept(a)
    <3>1. Uncounted' = Uncounted
      BY <2>1, ServedFlights
    <3> QED
      BY <1>1, <2>1, <3>1 DEF Kept, Inv, HistInv
  <2>2. CASE Undeployed(a)
    BY <2>2 DEF Undeployed, HistInv
  <2>3. CASE IsCall(h, a) /\ Called(h, a)
    <3>1. SUFFICES ASSUME session'.key = SandboxKey(store), Len(store.recentActions) < HistoryLimit
                   PROVE  session'.calls = Count(store.recentActions, session'.id)
                                             + (IF Uncounted' THEN 1 ELSE 0)
      BY <1>1 DEF HistInv
    <3>2. h.key = SandboxKey(store)
      BY <2>3, <3>1 DEF Called
    <3>3. ~(h.key.epoch < Sum(store))
      BY <1>6, <3>2
    <3>4. Uncounted' <=> a.committed
      BY <1>2, <2>3, <3>3, ServedCall
    <3>5. ~Uncounted
      BY <1>2, <2>3 DEF IsCall
    <3>6. CASE session'.id = nextSandbox /\ session'.calls = (IF a.committed THEN 1 ELSE 0)
      <4>1. Count(store.recentActions, nextSandbox) = 0
        BY <1>6, <1>7, CountNone
      <4> QED
        BY <3>4, <3>6, <4>1
    <3>7. CASE /\ session # None /\ session.key = h.key /\ session'.id = session.id
               /\ session'.calls = session.calls + (IF a.committed THEN 1 ELSE 0)
      <4>1. session.calls = Count(store.recentActions, session.id) + 0
        BY <3>1, <3>2, <3>5, <3>7 DEF Inv, HistInv
      <4>2. Count(store.recentActions, session.id) \in Nat
        BY <1>6, CountType
      <4> QED
        BY <3>4, <3>7, <4>1, <4>2
    <3> QED
      BY <2>3, <3>6, <3>7 DEF Called
  <2> QED
    BY <1>1, <2>1, <2>2, <2>3
<1>9. RecordInv'
  <2>1. OneDeploymentPerVersion'
    BY <1>1 DEF Inv, RecordInv, OneDeploymentPerVersion
  <2>2. SUFFICES ASSUME NEW i \in DOMAIN store.recentActions, store.recentActions[i].sandbox # None
                 PROVE  /\ store.recentActions[i].sandbox < nextSandbox'
                        /\ session' # None /\ store.recentActions[i].sandbox = session'.id =>
                             session'.key.epoch = store.sandboxEpoch + store.recentActions[i].version
    BY <1>1, <2>1, Zenon DEF RecordInv
  <2>3. store.recentActions[i].sandbox < nextSandbox'
    BY <1>5, <1>6, <1>7, <2>2
  <2>4. /\ session # None /\ store.recentActions[i].sandbox = session.id =>
             session.key.epoch = store.sandboxEpoch + store.recentActions[i].version
    BY <2>2 DEF Inv, RecordInv
  <2>5. CASE Kept(a)
    BY <2>3, <2>4, <2>5 DEF Kept
  <2>6. CASE Undeployed(a)
    BY <2>3, <2>6 DEF Undeployed
  <2>7. CASE Called(h, a)
    BY <1>7, <2>3, <2>4, <2>7 DEF Called
  <2> QED
    BY <1>1, <2>5, <2>6, <2>7
<1> QED
  BY <1>4, <1>8, <1>9

\* What the watches are.
LEMMA ServedReads ==
  ASSUME Inv, NEW h, NEW a, Served(h, a)
  PROVE  ReadInv'
<1>1. /\ a.id = h.id /\ 1 \in DOMAIN queue /\ queue[1] = h
      /\ \A i \in DOMAIN queue' : i + 1 \in DOMAIN queue /\ queue'[i] = queue[i + 1]
      /\ \A i \in DOMAIN replies : i \in DOMAIN replies' /\ replies'[i] = replies[i]
  BY ServedMoves
<1>2. PICK n \in DOMAIN replies' : /\ replies'[n] = a
                                   /\ \A i \in DOMAIN replies' : i = n \/ (i \in DOMAIN replies /\ i < n)
  BY ServedMoves
<1>3. UNCHANGED <<store, watchRun, pendingWatches>>
  BY DEF Served
<1>4. \A q : StillCurrent(store, q)' <=> StillCurrent(store, q)
  BY <1>3 DEF StillCurrent
<1>5. \A i \in DOMAIN queue' : \A q \in pendingWatches :
        q.id = queue'[i].id => queue'[i].kind = "watch" /\ queue'[i].watches = q.watches
  BY <1>1 DEF Inv, ReadInv
<1> DEFINE Fine(q, r, s) ==
             /\ r.kind \in {"watch-result", "error"}
             /\ r.kind = "watch-result" =>
                  /\ DOMAIN r.values = q.watches
                  /\ StillCurrent(store, q) => \A w \in q.watches : r.values[w] \in {None, s.calls}
<1>6. \A i \in DOMAIN replies : \A q \in pendingWatches : q.id = replies[i].id => Fine(q, replies[i], session)
  BY DEF Inv, ReadInv
<1>7. \A i \in DOMAIN replies : \A q \in pendingWatches : q.id = replies[i].id => Fine(q, replies[i], session')
  <2>1. CASE session' = session
    BY <1>6, <2>1
  <2>2. CASE session' # session
    <3>1. IsCall(h, a)
      BY <2>2 DEF Served, Kept
    <3>2. \A q \in pendingWatches : ~StillCurrent(store, q)
      <4>1. SUFFICES ASSUME NEW q \in pendingWatches, StillCurrent(store, q)
                     PROVE  FALSE
        OBVIOUS
      <4>2. store.sandbox # None /\ q.run = watchRun
        BY <4>1 DEF StillCurrent
      <4>3. \E p \in pending : Awaited(p) /\ p.manual
        BY <3>1, <4>2, ServedCall
      <4> QED
        BY <4>2, <4>3 DEF Inv, AwaitInv
    <3> QED
      BY <1>6, <3>2
  <2> QED
    BY <2>1, <2>2
<1>8. \A q \in pendingWatches : q.id = a.id => Fine(q, a, session')
  <2>1. SUFFICES ASSUME NEW q \in pendingWatches, q.id = a.id
                 PROVE  Fine(q, a, session')
    OBVIOUS
  <2>2. h.kind = "watch" /\ h.watches = q.watches
    BY <1>1, <2>1 DEF Inv, ReadInv
  <2>3. Fits(h, a)
    BY DEF Served
  <2> QED
    BY <2>2, <2>3 DEF Fits
<1>9. \A i \in DOMAIN replies' : \A q \in pendingWatches : q.id = replies'[i].id => Fine(q, replies'[i], session')
  BY <1>1, <1>2, <1>7, <1>8
<1> QED
  BY <1>3, <1>4, <1>5, <1>9 DEF ReadInv

\* The worker serves a request.
LEMMA ServeStep ==
  ASSUME Inv, Serve
  PROVE  Inv'
<1>1. PICK h, a : Served(h, a)
  BY ServeFacts
<1>2. /\ UNCHANGED <<store, compileRun, watchRun, nextId, latestId, pending, pendingWatches, effect>>
      /\ h = queue[1] /\ runtime.wasm # "dead" /\ Loaded(h) /\ Fits(h, a)
      /\ Kept(a) \/ (IsCall(h, a) /\ (Undeployed(a) \/ Called(h, a)))
  BY <1>1 DEF Served
<1>3. TypeInv' /\ IdsInv' /\ AskedInv' /\ ReadInv'
  BY <1>1, ServedTyped, ServedIds, ServedAsked, ServedReads
<1>4. LiveInv' /\ HistInv' /\ RecordInv' /\ WatchInv'
  BY <1>1, ServedManual
<1>5. \A p : Awaited(p)' <=> Awaited(p)
  BY <1>2 DEF Awaited
<1>6. ClassInv' /\ AwaitInv' /\ ShownResultIsCurrent'
  BY <1>2, <1>5 DEF Inv, ClassInv, AwaitInv, ShownResultIsCurrent
<1>7. DiscoveryInv'
  BY <1>2 DEF Inv, DiscoveryInv, DiscoveredIsCurrent, Discovered, Loaded
<1>8. WasmInv'
  <2>1. SUFFICES ASSUME runtime'.wasm # "ready"
                 PROVE  /\ session' = None /\ store.sandbox = None
                        /\ \A i \in DOMAIN replies' : replies'[i].kind = "error"
    BY <1>2 DEF WasmInv
  <2>2. runtime.wasm # "ready" /\ a.kind = "error" /\ session' = session
    BY <1>2, <2>1 DEF Loaded, Fits, IsCall, Kept
  <2>3. session = None /\ store.sandbox = None /\ \A i \in DOMAIN replies : replies[i].kind = "error"
    BY <2>2 DEF Inv, WasmInv
  <2>4. PICK n \in DOMAIN replies' : replies'[n] = a /\ \A i \in DOMAIN replies' : i = n \/ i \in DOMAIN replies
    BY <1>1, ServedMoves
  <2>5. \A i \in DOMAIN replies : replies'[i] = replies[i]
    BY <1>1, ServedMoves
  <2> QED
    BY <2>2, <2>3, <2>4, <2>5
<1>9. CallInv'
  <2>1. /\ 1 \in DOMAIN queue
        /\ \A i \in DOMAIN queue' : i + 1 \in DOMAIN queue /\ queue'[i] = queue[i + 1]
    BY <1>1, ServedMoves
  <2>2. session' # None => session'.key.epoch <= Sum(store)
    <3>1. IsCall(h, a) => h.key.epoch <= Sum(store)
      BY <1>1, ServedCall
    <3> QED
      BY <1>2, <3>1 DEF Kept, Undeployed, Called, Inv, CallInv
  <2> QED
    BY <1>2, <1>5, <2>1, <2>2 DEF Inv, CallInv
<1> QED
  BY <1>3, <1>4, <1>6, <1>7, <1>8, <1>9, Zenon DEF Inv

-----------------------------------------------------------------------------
(* The worker cannot be started. *)

\* The store when all that is awaited fails: an operation, a discovery, or both.
LEMMA BrokenStore ==
  ASSUME Inv, HandleWorkerError
  PROVE  \E s :
           /\ s = store \/ \E p \in pending : s = Failed(store, p) /\ Awaited(p)
           /\ store' = s \/ \E q \in pending : store' = Discovery(s, q, FALSE, {}, FALSE)
<1> DEFINE operations == {p \in pending : p.kind # "discover" /\ IsNewest(p)}
           discoveries == {p \in pending : p.kind = "discover"}
<1>1. PICK s : s = IF operations = {} THEN store ELSE Failed(store, CHOOSE p \in operations : TRUE)
  OBVIOUS
<1> DEFINE failed == IF operations = {} THEN store ELSE Failed(store, CHOOSE p \in operations : TRUE)
<1>2. store' = IF discoveries = {} THEN s
               ELSE Discovery(s, CHOOSE p \in discoveries : TRUE, FALSE, {}, FALSE)
  <2>1. store' = IF discoveries = {} THEN failed
                 ELSE Discovery(failed, CHOOSE p \in discoveries : TRUE, FALSE, {}, FALSE)
    BY DEF HandleWorkerError
  <2>2. s = failed
    BY <1>1
  <2> HIDE DEF operations, discoveries, failed
  <2> QED
    BY <2>1, <2>2
<1>3. s = store \/ \E p \in pending : s = Failed(store, p) /\ Awaited(p)
  <2>1. CASE operations # {}
    <3>1. (CHOOSE p \in operations : TRUE) \in operations
      BY <2>1
    <3>2. PICK p : p = CHOOSE o \in operations : TRUE
      OBVIOUS
    <3>3. p \in pending /\ Awaited(p)
      BY <3>1, <3>2 DEF Awaited, IsNewest
    <3> HIDE DEF operations
    <3> QED
      BY <1>1, <2>1, <3>2, <3>3
  <2> QED
    BY <1>1, <2>1
<1>4. store' = s \/ \E q \in pending : store' = Discovery(s, q, FALSE, {}, FALSE)
  <2>1. CASE discoveries # {}
    <3>1. (CHOOSE p \in discoveries : TRUE) \in discoveries
      BY <2>1
    <3>2. PICK q : q = CHOOSE o \in discoveries : TRUE
      OBVIOUS
    <3>3. q \in pending
      BY <3>1, <3>2
    <3> HIDE DEF discoveries
    <3> QED
      BY <1>2, <2>1, <3>2, <3>3
  <2> QED
    BY <1>2, <2>1
<1> QED
  BY <1>3, <1>4

\* What is awaited fails, before any contract was deployed.
LEMMA HandleWorkerErrorStep ==
  ASSUME Inv, HandleWorkerError
  PROVE  Inv'
<1>1. /\ runtime.wasm = "unloaded" /\ runtime' = [runtime EXCEPT !.wasm = "dead"]
      /\ pending' = {} /\ pendingWatches' = {}
      /\ UNCHANGED <<compileRun, watchRun, nextId, latestId, queue, replies, session, nextSandbox, effect>>
  BY DEF HandleWorkerError
<1>2. /\ session = None /\ store.sandbox = None
      /\ \A i \in DOMAIN replies : replies[i].kind = "error"
  BY <1>1 DEF Inv, WasmInv
<1>3. /\ runtime' \in [wasm : {"unloaded", "ready", "failed", "dead"}, solc : BOOLEAN]
      /\ runtime'.wasm = "dead"
  BY <1>1 DEF Inv, TypeInv
<1>4. PICK s : /\ s = store \/ \E p \in pending : s = Failed(store, p) /\ Awaited(p)
               /\ store' = s \/ \E q \in pending : store' = Discovery(s, q, FALSE, {}, FALSE)
  BY BrokenStore
<1>5. StoreTyped(store) /\ IsStore(store)
  BY PageTypes DEF Inv
<1>6. ~InFlight /\ ~Uncounted /\ ~InFlight' /\ ~Uncounted'
  BY <1>1, <1>2 DEF InFlight, Uncounted, IsFlight
<1>7. Uncounted' = Uncounted
  BY <1>6 DEF Uncounted
<1>8. /\ StoreTyped(s) /\ SameWorkspace(store, s) /\ s.sandbox = None
      /\ \/ s.recentActions = store.recentActions
         \/ \E a \in Actions : a.sandbox = None /\ ~a.committed /\ s.recentActions = Recorded(store, a)
      /\ \/ s.result = store.result /\ s.lastCompiledVersion = store.lastCompiledVersion
         \/ s.result.key = None
  <2>1. CASE s = store
    BY <1>2, <1>5, <2>1 DEF SameWorkspace
  <2>2. CASE \E p \in pending : s = Failed(store, p)
    <3>1. PICK p \in pending : s = Failed(store, p)
      BY <2>2
    <3>2. StoreTyped(s)
      BY <3>1, FailedTyped
    <3>3. IsFailed(store, s, p)
      BY <1>5, <3>1, FailedFields
    <3>4. /\ FailedCall(p) \in Actions /\ FailedCall(p).sandbox = None /\ ~FailedCall(p).committed
      BY PendingTypes DEF Inv, Actions, FailedCall
    <3>5. /\ SameWorkspace(store, s) /\ s.sandbox = None /\ s.result.key = None
      BY <1>2, <3>3 DEF IsFailed, Ended
    <3>6. \/ s.recentActions = store.recentActions
          \/ s.recentActions = Recorded(store, FailedCall(p))
      BY <3>3 DEF IsFailed, SameManual
    <3> QED
      BY <3>2, <3>4, <3>5, <3>6
  <2> QED
    BY <1>4, <2>1, <2>2
<1>9. /\ StoreTyped(store') /\ SameWorkspace(s, store') /\ SameManual(s, store') /\ SameResult(s, store')
  <2>1. CASE store' = s
    BY <1>8, <2>1 DEF SameWorkspace, SameManual, SameResult
  <2>2. CASE \E q \in pending : store' = Discovery(s, q, FALSE, {}, FALSE)
    <3>1. PICK q \in pending : store' = Discovery(s, q, FALSE, {}, FALSE)
      BY <2>2
    <3>2. IsStore(s) /\ FALSE \in BOOLEAN /\ {} \in SUBSET Contracts
      BY <1>8, Zenon DEF StoreTyped
    <3>3. StoreTyped(store')
      BY <1>8, <3>1, <3>2, DiscoveryTyped
    <3>4. SameWorkspace(s, store') /\ SameManual(s, store') /\ SameResult(s, store')
      BY <3>1, <3>2, DiscoveryFields
    <3> QED
      BY <3>3, <3>4
  <2> QED
    BY <1>4, <2>1, <2>2
<1>10. /\ SameWorkspace(store, store') /\ store'.sandbox = None
       /\ \/ store'.recentActions = store.recentActions
          \/ \E a \in Actions : a.sandbox = None /\ ~a.committed /\ store'.recentActions = Recorded(store, a)
  BY <1>8, <1>9 DEF SameWorkspace, SameManual
<1>11. HistInv' /\ RecordInv'
  <2>1. CASE store'.recentActions = store.recentActions
    BY <1>1, <1>2, <1>10, <2>1 DEF Inv, HistInv, RecordInv, OneDeploymentPerVersion
  <2>2. CASE \E a \in Actions : a.sandbox = None /\ ~a.committed /\ store'.recentActions = Recorded(store, a)
    BY <1>1, <1>7, <1>10, <2>2, FailureListed
  <2> QED
    BY <1>10, <2>1, <2>2
<1>12. LiveInv' /\ WatchInv'
  BY <1>10 DEF LiveInv, WatchInv
<1>13. ShownResultIsCurrent'
  BY <1>8, <1>9 DEF Inv, ShownResultIsCurrent, SameWorkspace, SameResult
<1>14. DiscoveryInv'
  BY <1>1, <1>3, <1>10 DEF Inv, DiscoveryInv, DiscoveredIsCurrent, SameWorkspace
<1>15. /\ store'.workspaceVersion = store.workspaceVersion /\ store'.sandboxEpoch = store.sandboxEpoch
  BY <1>10 DEF SameWorkspace
<1>16. TypeInv'
  <2>1. effect.version \in Versions(store')
    BY <1>15 DEF Inv, TypeInv, Versions
  <2> QED
    BY <1>1, <1>3, <1>9, <2>1, Zenon DEF Inv, TypeInv
<1>17. IdsInv' /\ ClassInv' /\ AwaitInv' /\ AskedInv' /\ ReadInv'
  BY <1>1 DEF Inv, IdsInv, ClassInv, AwaitInv, AskedInv, ReadInv
<1>18. WasmInv'
  BY <1>1, <1>2, <1>10 DEF WasmInv
<1>19. CallInv'
  BY <1>1, <1>2, <1>3, <1>10, <1>15 DEF Inv, CallInv, Sum
<1> QED
  BY <1>11, <1>12, <1>13, <1>14, <1>16, <1>17, <1>18, <1>19, Zenon DEF Inv

-----------------------------------------------------------------------------
(* The invariant. *)

\* The page when it opens.
LEMMA InitInv ==
  ASSUME Init
  PROVE  Inv
<1>1. /\ store = FreshStore(InitialSource, "solc", 0, 0)
      /\ compileRun = 0 /\ watchRun = 0 /\ nextId = 1 /\ latestId = 0
      /\ pending = {} /\ pendingWatches = {} /\ queue = <<>> /\ replies = <<>>
      /\ runtime = [wasm |-> "unloaded", solc |-> FALSE] /\ session = None /\ nextSandbox = 1
      /\ effect = [version |-> None, source |-> None, compiling |-> FALSE, armed |-> FALSE]
  BY DEF Init
<1>2. IsFresh(store, InitialSource, "solc", 0, 0)
  BY <1>1, FreshFields
<1>3. StoreTyped(store)
  BY <1>2, FreshTyped, FactsAssumption DEF Backends
<1>4. /\ store.source = InitialSource /\ store.workspaceVersion = 0 /\ store.sandboxEpoch = 0
      /\ store.discoveryVersion = None /\ store.sandbox = None /\ store.recentActions = <<>>
      /\ store.result = None /\ None \notin Nat
  BY <1>2, FactsAssumption DEF IsFresh
<1>5. TypeInv
  BY <1>1, <1>3 DEF TypeInv, Versions
<1>6. IdsInv /\ ClassInv /\ AwaitInv /\ AskedInv
  BY <1>1 DEF IdsInv, ClassInv, AwaitInv, AskedInv
<1>7. WasmInv /\ CallInv /\ LiveInv /\ WatchInv /\ ReadInv
  BY <1>1, <1>4 DEF WasmInv, CallInv, LiveInv, WatchInv, ReadInv
<1>8. HistInv /\ RecordInv
  BY <1>1, <1>4 DEF HistInv, RecordInv, OneDeploymentPerVersion
<1>9. DiscoveryInv /\ ShownResultIsCurrent
  BY <1>1, <1>4 DEF DiscoveryInv, DiscoveredIsCurrent, Discovered, ShownResultIsCurrent
<1> QED
  BY <1>5, <1>6, <1>7, <1>8, <1>9 DEF Inv

\* No step at all.
LEMMA StutterInv ==
  ASSUME Inv, UNCHANGED vars
  PROVE  Inv'
<1>1. /\ UNCHANGED <<store, compileRun, watchRun, nextId, latestId, pending, pendingWatches,
                     queue, replies, runtime, session, nextSandbox, effect>>
  BY DEF vars, client, worker
<1>2. InFlight' = InFlight /\ Uncounted' = Uncounted
  BY <1>1, SameFlights
<1>3. \A p : Awaited(p)' <=> Awaited(p)
  BY <1>1 DEF Awaited
<1>4. TypeInv' /\ IdsInv' /\ ClassInv' /\ WasmInv' /\ ShownResultIsCurrent'
  BY <1>1 DEF Inv, TypeInv, IdsInv, ClassInv, WasmInv, ShownResultIsCurrent
<1>5. AwaitInv' /\ CallInv'
  BY <1>1, <1>3 DEF Inv, AwaitInv, CallInv
<1>6. AskedInv'
  BY <1>1, <1>3 DEF Inv, AskedInv, Asked, Answered, Keyed
<1>7. LiveInv' /\ HistInv' /\ WatchInv'
  BY <1>1, <1>2 DEF Inv, LiveInv, HistInv, WatchInv
<1>8. RecordInv' /\ ReadInv' /\ DiscoveryInv'
  BY <1>1 DEF Inv, RecordInv, OneDeploymentPerVersion, ReadInv, StillCurrent, DiscoveryInv,
              DiscoveredIsCurrent, Discovered
<1> QED
  BY <1>4, <1>5, <1>6, <1>7, <1>8 DEF Inv

\* Every step keeps the invariant.
LEMMA NextInv ==
  ASSUME Inv, [Next]_vars
  PROVE  Inv'
<1>1. CASE UNCHANGED vars
  BY <1>1, StutterInv
<1>2. CASE UserGesture
  <2>1. CASE CompileNow \/ RunMain \/ ResetSandbox
    BY <2>1, CompileNowStep, RunMainStep, ResetSandboxStep
  <2>2. ASSUME NEW one \in BOOLEAN, RunTests(one)
        PROVE  Inv'
    BY <2>2, RunTestsStep
  <2>3. ASSUME NEW contract \in Contracts, NEW simulate \in BOOLEAN, RunCall(contract, simulate)
        PROVE  Inv'
    BY <2>3, RunCallStep
  <2>4. ASSUME NEW backend \in Backends, SetBackend(backend)
        PROVE  Inv'
    BY <2>4, SetBackendStep
  <2>5. ASSUME NEW source \in Sources, Edit(source) \/ ReplaceExample(source)
        PROVE  Inv'
    BY <2>5, EditStep, ReplaceExampleStep
  <2>6. ASSUME NEW watch \in Contracts, AddWatch(watch) \/ RemoveWatch(watch)
        PROVE  Inv'
    BY <2>6, AddWatchStep, RemoveWatchStep
  <2> QED
    BY <1>2, <2>1, <2>2, <2>3, <2>4, <2>5, <2>6, Zenon DEF UserGesture
<1>3. CASE Machine
  BY <1>3, DiscoveryEffectStep, DiscoveryTimerStep, ServeStep, HandleMessageStep DEF Machine
<1>4. CASE HandleWorkerError
  BY <1>4, HandleWorkerErrorStep
<1> QED
  BY <1>1, <1>2, <1>3, <1>4 DEF Next

\* It holds in every state.
LEMMA InvAlways == FairSpec => []Inv
<1>1. Init => Inv
  BY InitInv
<1>2. Inv /\ [Next]_vars => Inv'
  BY NextInv
<1> QED
  BY <1>1, <1>2, PTL DEF FairSpec

-----------------------------------------------------------------------------
(* What the page says is true. *)

\* The shapes the runs check are among the types.
LEMMA ShapesFollow ==
  ASSUME Inv
  PROVE  TypeOK
<1>1. StoreTyped(store) /\ store.workspaceVersion \in Nat /\ store.sandboxEpoch \in Nat
      /\ store.actionSequence \in Nat /\ store.source \in Sources /\ store.backend \in Backends
  BY PageTypes DEF Inv
<1>2. /\ store.compiling \in BOOLEAN /\ store.watchLoading \in BOOLEAN
      /\ store.testCases \in BOOLEAN /\ store.hasMain \in BOOLEAN
      /\ store.discoveryVersion \in Versions(store) /\ store.sandboxVersion \in Versions(store)
      /\ store.lastCompiledVersion \in Versions(store) /\ store.watchVersion \in Versions(store)
      /\ Len(store.recentActions) <= HistoryLimit
      /\ store.watches \in SUBSET Contracts /\ Cardinality(store.watches) <= WatchLimit
      /\ DOMAIN store.watchValues \subseteq Contracts
  BY <1>1, Zenon DEF StoreTyped
<1>3. {store.compiling, store.watchLoading, store.testCases, store.hasMain} \subseteq BOOLEAN
  BY <1>2, Zenon
<1>4. {store.discoveryVersion, store.sandboxVersion, store.lastCompiledVersion, store.watchVersion}
        \subseteq (0 .. store.workspaceVersion) \cup {None}
  BY <1>2 DEF Versions
<1>5. Cardinality(pendingWatches) <= 1
  <2>1. CASE pendingWatches = {}
    BY <2>1, FS_EmptySet
  <2>2. CASE pendingWatches # {}
    <3>1. PICK q : pendingWatches = {q}
      BY <2>2 DEF Inv, ClassInv
    <3> QED
      BY <3>1, FS_Singleton
  <2> QED
    BY <2>1, <2>2
<1>6. /\ \A p, q \in pending : SameClass(p, q.kind) => p = q
      /\ \A p \in pending : p.kind # "discover" => p.id = latestId
  BY DEF Inv, ClassInv
<1>7. session # None => session.id < nextSandbox
  BY DEF Inv, TypeInv
<1>8. {store.workspaceVersion, store.sandboxEpoch, store.actionSequence} \subseteq Nat
  BY <1>1
<1> QED
  BY <1>1, <1>2, <1>3, <1>4, <1>5, <1>6, <1>7, <1>8, Zenon DEF TypeOK

\* On an idle page no answer is on its way that would count.
LEMMA TruthFollows ==
  ASSUME Inv
  PROVE  PageIsTruthful
<1>1. TypeOK
  BY ShapesFollow
<1>2. ~store.compiling => ~InFlight /\ ~Uncounted
  BY IdleFacts DEF InFlight, Uncounted, IsFlight
<1>3. ASSUME Ready
      PROVE  session # None /\ Info(session, SandboxKey(store)) = store.sandbox
  BY <1>2, <1>3 DEF Inv, LiveInv, Ready
<1>4. ReadyIsLive
  BY <1>3 DEF ReadyIsLive
<1>5. HistoryIsTheSession
  <2>1. SUFFICES ASSUME Ready, Len(store.recentActions) < HistoryLimit
                 PROVE  session.calls = Count(store.recentActions, store.sandbox.id)
    BY Zenon DEF HistoryIsTheSession, Count
  <2>2. session # None /\ Info(session, SandboxKey(store)) = store.sandbox /\ store.sandbox # None
    BY <1>3, <2>1 DEF Ready
  <2>3. session.key = SandboxKey(store) /\ store.sandbox.id = session.id
    BY <2>2 DEF Info
  <2>4. session.calls = Count(store.recentActions, session.id) + 0
    BY <1>2, <2>1, <2>2, <2>3 DEF Inv, HistInv, Ready
  <2>5. Count(store.recentActions, session.id) \in Nat
    <3>1. store.recentActions \in Seq(Actions)
      BY PageTypes, Zenon DEF Inv, StoreTyped
    <3> QED
      BY <3>1, CountType
  <2> QED
    BY <2>3, <2>4, <2>5
<1>6. WatchValuesAreCurrent
  BY <1>2 DEF Inv, WatchInv, WatchValuesAreCurrent, Ready
<1>7. OneDeploymentPerVersion /\ DiscoveredIsCurrent /\ ShownResultIsCurrent
  BY DEF Inv, RecordInv, DiscoveryInv
<1> QED
  BY <1>1, <1>4, <1>5, <1>6, <1>7 DEF PageIsTruthful

\* For any workspaces, contracts, limits and order of gestures, answers and
\* failures, what the page says of its contract, calls, results, tests and watches
\* is true of the worker and of the present files (executeWorkspace, settle, the
\* manual session, CompileClient, runSandboxCall, DebouncedDiscovery).
THEOREM PageStaysTruthful == FairSpec => []PageIsTruthful
<1>1. Inv => PageIsTruthful
  BY TruthFollows
<1> QED
  BY <1>1, InvAlways, PTL

\* Nothing but the handling of an answer takes the first one away.
LEMMA OnlyHandlersTake ==
  ASSUME Inv, [Next]_vars, replies # <<>>, replies' = Tail(replies)
  PROVE  HandleMessage
<1>1. replies \in Seq(Answers)
  BY DEF Inv, TypeInv
<1>2. replies' # replies
  BY <1>1
<1>3. ~UserGesture
  BY <1>2 DEF UserGesture, CompileNow, RunMain, ResetSandbox, RunTests, RunCall, SetBackend, Edit,
              ReplaceExample, AddWatch, RemoveWatch, Gesture
<1>4. ~Serve
  <2>1. SUFFICES ASSUME Serve PROVE FALSE
    OBVIOUS
  <2>2. PICK h, a : Served(h, a)
    BY <2>1, ServeFacts
  <2>3. \A i \in DOMAIN replies : i \in DOMAIN replies'
    BY <2>2, ServedMoves
  <2>4. Len(replies) \in DOMAIN replies /\ Len(replies) \notin DOMAIN Tail(replies)
    BY <1>1, TailFacts
  <2> QED
    BY <2>3, <2>4
<1>5. ~DiscoveryEffect /\ ~DiscoveryTimer /\ ~HandleWorkerError /\ ~UNCHANGED vars
  BY <1>2 DEF DiscoveryEffect, DiscoveryTimer, HandleWorkerError, vars
<1> QED
  BY <1>3, <1>4, <1>5 DEF Next, Machine

\* An answer that ran tests ends no manual run.
LEMMA TestsEndNoCall ==
  ASSUME Inv, HandleMessage, Head(replies).kind = "result", Head(replies).ranTests
  PROVE  ManualSession(store') = ManualSession(store)
<1>1. replies # <<>> /\ Head(replies) = replies[1] /\ 1 \in DOMAIN replies
  BY TakesFirst
<1> DEFINE r == replies[1]
<1>2. IsStore(store)
  BY PageTypes DEF Inv
<1>3. CASE store' = store
  BY <1>3, Zenon DEF ManualSession
<1>4. \A p \in pendingWatches : p.id # r.id
  BY <1>1 DEF Inv, ReadInv
<1>5. ASSUME NEW p \in pending, p.id = r.id, p.kind = "discover", HandleDiscovery(p, r)
      PROVE  ManualSession(store') = ManualSession(store)
  <2>1. store' = Discovery(store, p, r.tests, r.contracts, r.main)
    BY <1>1, <1>5 DEF HandleDiscovery
  <2>2. SameManual(store, store') /\ SameReads(store, store') /\ store'.manualResult = store.manualResult
    BY <1>2, <2>1, DiscoveryFields
  <2> QED
    BY <2>2 DEF ManualSession, SameManual, SameReads
<1>6. ASSUME NEW p \in pending, p.id = r.id, p.kind # "discover", HandleOperation(p, r), store' # store
      PROVE  ManualSession(store') = ManualSession(store)
  <2>1. ~p.manual
    <3>1. Answered(p, r)
      BY <1>1, <1>6 DEF Inv, AskedInv
    <3> QED
      BY <1>1, <3>1 DEF Answered
  <2>2. store' = Settled(store, p, r)
    BY <1>1, <1>6, <2>1 DEF HandleOperation
  <2> HIDE DEF r
  <2>3. /\ Ended(store, store', p.version) /\ store'.watchLoading = store.watchLoading
        /\ SameManual(store, store') /\ store'.manualResult = store.manualResult
        /\ FoundBy(store, store', p.version, r.tests, r.contracts, r.main)
        /\ store'.result = [key |-> r.key, success |-> r.success]
    BY <1>2, <2>1, <2>2, SettledFields
  <2> QED
    BY <2>3 DEF ManualSession, SameManual, Ended, SameReads
<1>7. \/ \E p \in pending : p.id = r.id /\ p.kind = "discover" /\ HandleDiscovery(p, r)
      \/ \E p \in pending : p.id = r.id /\ p.kind # "discover" /\ HandleOperation(p, r)
      \/ store' = store
  <2>1. \/ \E p \in pendingWatches : p.id = r.id /\ HandleWatch(p, r)
        \/ \E p \in pending :
             /\ p.id = r.id
             /\ IF p.kind = "discover" THEN HandleDiscovery(p, r) ELSE HandleOperation(p, r)
        \/ store' = store
    BY <1>1 DEF HandleMessage
  <2> QED
    BY <1>4, <2>1
<1> QED
  BY <1>3, <1>5, <1>6, <1>7

\* For any workspaces, contracts, limits and order of gestures and answers, an
\* answer of a worker that ran tests leaves the manual session of the page as it
\* was (executeWorkspace's manual flag, showManualOutcome).
THEOREM TestsStayApart == FairSpec => TestsLeaveManualSession
<1>1. Inv /\ [Next]_vars =>
        [replies # <<>> /\ replies' = Tail(replies)
           /\ Head(replies).kind = "result" /\ Head(replies).ranTests
         => ManualSession(store') = ManualSession(store)]_vars
  <2> SUFFICES ASSUME Inv, [Next]_vars, replies # <<>>, replies' = Tail(replies),
                      Head(replies).kind = "result", Head(replies).ranTests
               PROVE  ManualSession(store') = ManualSession(store)
    OBVIOUS
  <2>1. HandleMessage
    BY OnlyHandlersTake
  <2> QED
    BY <2>1, TestsEndNoCall
<1> QED
  BY <1>1, InvAlways, PTL DEF FairSpec, TestsLeaveManualSession
=============================================================================
