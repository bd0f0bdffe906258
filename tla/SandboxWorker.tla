----------------------------- MODULE SandboxWorker -----------------------------
(* The compiler as the playground's worker runs it: compilation, manual calls   *)
(* against one deployment that is kept, tests against temporary deployments,    *)
(* watched calls, the cache of the last manual compilation, and the events a    *)
(* request reports. The EVM is a store of one number and a nonce per account.   *)
EXTENDS Naturals, Sequences, FiniteSets, SequencesExt

CONSTANTS Sources,       \* source -> [ok, contracts, tests, main, unrendered, uncompiled]
          ContractNames, \* the names of contracts, in order
          Requests,      \* what the page sends
          Callers,       \* its accounts
          Default,       \* CALLER
          Modulus,       \* words are numbers below this
          MaxWatches,    \* 16 in the code
          MaxRequests,
          None           \* Option::None

WorkerAssumption ==
  /\ Default \in Callers
  /\ \A s \in DOMAIN Sources : DOMAIN Sources[s].contracts \subseteq Range(ContractNames)

VARIABLES session,   \* SESSION: the deployment kept, or None
          nextId,    \* NEXT_ID
          cache,     \* MANUAL_COMPILE: [key, options, contracts], or None
          response,  \* the last answer, with its request
          log,       \* ghost: the deployment and calls reported for manual requests
          served     \* the number of requests served

vars == <<session, nextId, cache, response, log, served>>

(* A value under a name.                                                       *)
With(value, Body(_)) == Body(value)

Key(r) == <<r.source, r.epoch, r.backend>>
SourceOf(r) == Sources[r.source]

-------------------------------------------------------------------------------
(* Transactions.                                                               *)

FreshDb == [store |-> 0, nonce |-> [a \in Callers |-> 0]]

(* What running a method's code does.                                          *)
Effect(code, store) ==
  CASE code = "inc"    -> [status |-> "success", store |-> (store + 1) % Modulus, out |-> (store + 1) % Modulus]
    [] code = "get"    -> [status |-> "success", store |-> store, out |-> store]
    [] code = "revert" -> [status |-> "revert", store |-> store, out |-> 0]
    [] code = "halt"   -> [status |-> "halt", store |-> store, out |-> 0]

(* A transaction with the caller's nonce; it is kept only if committed. One    *)
(* that reverts or halts changes the nonce alone.                              *)
Transact(db, caller, code, commit) ==
  With(Effect(code, db.store), LAMBDA e :
    [result |-> [status |-> e.status, out |-> e.out],
     db     |-> IF commit THEN [store |-> e.store, nonce |-> [db.nonce EXCEPT ![caller] = @ + 1]] ELSE db])

Error(phase) == [status |-> "error", phase |-> phase, out |-> 0]
FromEvm(result, phase) == [status |-> result.status, phase |-> phase, out |-> result.out]

Event(kind, contract, method, simulate, caller, test, passed, result) ==
  [kind |-> kind, contract |-> contract, method |-> method, simulate |-> simulate, caller |-> caller,
   test |-> test, passed |-> passed, result |-> result]

(* A deployment: the session, or None, its event and the next id. An id is     *)
(* taken before the constructor runs.                                          *)
Deploy(r, name, caller, id) ==
  LET code == SourceOf(r).contracts[name].constructor IN
  With(Transact(FreshDb, caller, code, TRUE), LAMBDA t :
  With(r.backend \notin SourceOf(r).uncompiled, LAMBDA built :
  With(built /\ t.result.status = "success", LAMBDA works :
  LET shown == IF works THEN FromEvm(t.result, "deploy") ELSE Error("deploy") IN
    [session |-> IF works THEN [id |-> id, key |-> Key(r), contract |-> name, db |-> t.db] ELSE None,
     event   |-> Event("deploy", name, None, FALSE, caller, 0, None, shown),
     nextId  |-> IF built THEN id + 1 ELSE id])))

Info(s, key) == IF s # None /\ s.key = key THEN [id |-> s.id, contract |-> s.contract] ELSE None

-------------------------------------------------------------------------------
(* A manual call.                                                              *)

(* Whether a request names a contract and a function and its arguments encode. *)
Encodes(contracts, call) ==
  /\ call.contract \in DOMAIN contracts
  /\ call.method \in DOMAIN contracts[call.contract].methods
  /\ call.arguments = contracts[call.contract].methods[call.method].inputs
  /\ call.constructorArguments = contracts[call.contract].inputs

Invoke(s, contracts, call) ==
  With(Transact(s.db, call.caller, contracts[call.contract].methods[call.method].code, ~call.simulate), LAMBDA t :
  With(FromEvm(t.result, "call"), LAMBDA result :
    [session |-> [s EXCEPT !.db = t.db], execution |-> result,
     events  |-> <<Event("call", call.contract, call.method, call.simulate, call.caller, 0, None, result)>>]))

(* With the compiled program at hand: deploy again unless the deployment kept  *)
(* is of this key and contract. One that fails leaves none.                    *)
Execute(r, s, id) ==
  LET call == r.call
      contracts == SourceOf(r).contracts IN
  With(call.reset \/ s = None \/ s.key # Key(r) \/ s.contract # call.contract, LAMBDA fresh :
  With(Deploy(r, call.contract, call.caller, id), LAMBDA d :
  With(IF fresh THEN d.session ELSE s, LAMBDA used :
  With(IF fresh THEN <<d.event>> ELSE <<>>, LAMBDA before :
  With(Invoke(used, contracts, call), LAMBDA i :
    IF ~Encodes(contracts, call) THEN [session |-> s, nextId |-> id, execution |-> Error("prepare"), events |-> <<>>]
    ELSE IF used = None THEN [session |-> None, nextId |-> d.nextId, execution |-> Error("prepare"), events |-> before]
    ELSE [session |-> i.session, nextId |-> IF fresh THEN d.nextId ELSE id,
          execution |-> i.execution, events |-> before \o i.events])))))

-------------------------------------------------------------------------------
(* Tests: comments above functions, in the order of their lines. A test is     *)
(* [contract, method, action, expected, valid]; only a send is kept.           *)

Discover(src) == [i \in DOMAIN src.tests |-> [status |-> IF src.tests[i].valid THEN "ready" ELSE "error", replayed |-> FALSE]] \o <<>>

Selected(i, chosen) == chosen = 0 \/ chosen = i

Passed(test, result) ==
  CASE test.action = "send"   -> result.status = "success"
    [] test.action = "return" -> result.status = "success" /\ result.out = test.expected
    [] test.action = "revert" -> result.status = "revert"

(* One step of execute_contract: a holds the deployment's state, the tests and *)
(* events so far, whether the loop is over and whether it gave up.             *)
TestStep(src, contract, chosen, a, i) ==
  LET test == src.tests[i]
      send == test.action = "send" IN
  With(Transact(a.db, Default, src.contracts[contract].methods[test.method].code, send), LAMBDA t :
  With(Passed(test, t.result), LAMBDA passed :
  LET event == Event(IF send THEN "setup" ELSE "check", contract, test.method, ~send, Default, i, passed, FromEvm(t.result, "call")) IN
    IF a.done \/ test.contract # contract THEN a
    ELSE IF ~test.valid THEN [a EXCEPT !.done = TRUE, !.failed = TRUE]
    ELSE IF ~Selected(i, chosen) /\ ~send THEN a
    ELSE [db |-> t.db,
          tests |-> [a.tests EXCEPT ![i] = [status |-> IF passed THEN "passed" ELSE "failed", replayed |-> ~Selected(i, chosen)]],
          events |-> Append(a.events, event),
          done |-> (send /\ ~passed) \/ chosen = i, failed |-> send /\ ~passed]))

GiveUp(src, contract, chosen, tests) ==
  [i \in DOMAIN tests |-> IF src.tests[i].contract = contract /\ Selected(i, chosen) /\ tests[i].status = "ready"
                          THEN [tests[i] EXCEPT !.status = "error"] ELSE tests[i]] \o <<>>

(* The tests of one contract; its constructor must take no arguments.          *)
ExecuteContract(r, contract, a) ==
  LET src == SourceOf(r) IN
  With(Deploy(r, contract, Default, a.nextId), LAMBDA d :
  With(FoldLeft(LAMBDA b, i : TestStep(src, contract, r.test, b, i),
                [db |-> d.session.db, tests |-> a.tests, events |-> <<>>, done |-> FALSE, failed |-> FALSE],
                [i \in DOMAIN src.tests |-> i] \o <<>>), LAMBDA loop :
  LET deployable == contract \in DOMAIN src.contracts /\ src.contracts[contract].inputs = 0 IN
    IF ~deployable THEN [a EXCEPT !.tests = GiveUp(src, contract, r.test, @)]
    ELSE IF d.session = None
      THEN [a EXCEPT !.tests = GiveUp(src, contract, r.test, @), !.events = Append(@, d.event), !.nextId = d.nextId]
    ELSE [tests  |-> IF loop.failed THEN GiveUp(src, contract, r.test, loop.tests) ELSE loop.tests,
          events |-> Append(a.events, d.event) \o loop.events, nextId |-> d.nextId]))

ExecuteTests(r, id) ==
  LET src == SourceOf(r)
      chosen == {i \in DOMAIN src.tests : Selected(i, r.test)}
      contracts == SelectSeq(ContractNames, LAMBDA c : \E i \in chosen : src.tests[i].contract = c) IN
  With(FoldLeft(LAMBDA a, c : ExecuteContract(r, c, a),
                [tests |-> Discover(src), events |-> <<>>, nextId |-> id], contracts), LAMBDA ran :
  LET missing == r.test # 0 /\ r.test \notin DOMAIN src.tests
      passed == \A i \in chosen : ran.tests[i].status = "passed" IN
    IF missing THEN [tests |-> Discover(src), events |-> <<>>, nextId |-> id, execution |-> Error("prepare")]
    ELSE [tests |-> ran.tests, events |-> ran.events, nextId |-> ran.nextId,
          execution |-> [status |-> IF passed THEN "success" ELSE "error", phase |-> "call", out |-> 0]])

-------------------------------------------------------------------------------
(* main: a function of the program, or of its only contract, which is then     *)
(* deployed first. [code, contract, constructor, inputs], or None.             *)
RunMain(r) ==
  LET src == SourceOf(r) IN
  With(Transact(FreshDb, Default, src.main.constructor, TRUE), LAMBDA d :
  LET runs(db) == FromEvm(Transact(db, Default, src.main.code, TRUE).result, "call")
      prepared == src.main # None /\ src.contracts = <<>> /\ src.main.inputs = 0 /\ r.backend \notin src.uncompiled IN
    IF ~prepared THEN Error("prepare")
    ELSE IF ~src.main.contract THEN runs(FreshDb)
    ELSE IF d.result.status = "success" THEN runs(d.db) ELSE FromEvm(d.result, "deploy"))

-------------------------------------------------------------------------------
(* Requests.                                                                   *)

Answer(r, success, contracts, tests, execution, sandbox, events) ==
  [request |-> r, success |-> success, contracts |-> contracts, tests |-> tests,
   execution |-> execution, sandbox |-> sandbox, events |-> events]

(* compile_workspace: the artifacts come first, in the order of the command    *)
(* line; an error in one of them leaves the program unexecuted.                *)
CompileWorkspace(r, s, id) ==
  LET src == SourceOf(r) IN
  With(IF src.ok THEN src.contracts ELSE <<>>, LAMBDA contracts :
  With(Discover(src), LAMBDA found :
  With(src.ok /\ (r.options \cap src.unrendered = {}), LAMBDA success :
  With(r.kind # "compile" /\ success, LAMBDA executes :
  With(Execute(r, s, id), LAMBDA manual :
  With(ExecuteTests(r, id), LAMBDA tests :
  LET quiet(execution) == [session |-> s, nextId |-> id,
         answer |-> Answer(r, success, contracts, found, execution, IF r.kind = "compile" THEN None ELSE Info(s, Key(r)), <<>>)] IN
    CASE ~executes -> quiet(None)
      [] executes /\ r.kind = "manual" ->
           [session |-> manual.session, nextId |-> manual.nextId,
            answer |-> Answer(r, TRUE, contracts, found, manual.execution, Info(manual.session, Key(r)), manual.events)]
      [] executes /\ r.kind = "run" /\ found = <<>> /\ r.test = 0 -> quiet(RunMain(r))
      [] OTHER ->
           [session |-> s, nextId |-> tests.nextId,
            answer |-> Answer(r, TRUE, contracts, tests.tests, tests.execution, Info(s, Key(r)), tests.events)]))))))

\* Mutant: the cache answers without looking at the deployment.
CachedForKey(r) ==
  r.kind = "manual" /\ cache # None /\ cache.key = Key(r) /\ cache.options = r.options /\ session # None /\ ~r.call.reset

(* The last manual compilation may answer if the deployment kept is of the     *)
(* same key and contract.                                                      *)
Cached(r) ==
  /\ r.kind = "manual" /\ cache # None /\ cache.key = Key(r) /\ cache.options = r.options
  /\ session # None /\ ~r.call.reset /\ session.key = Key(r) /\ session.contract = r.call.contract

ExecuteCached(r) ==
  With(Invoke(session, cache.contracts, r.call), LAMBDA i :
  With(Encodes(cache.contracts, r.call), LAMBDA good :
    [session |-> IF good THEN i.session ELSE session, nextId |-> nextId,
     answer |-> Answer(r, TRUE, cache.contracts, cache.tests, IF good THEN i.execution ELSE Error("prepare"),
                       Info(session, Key(r)), IF good THEN i.events ELSE <<>>)]))

(* The events of a manual request, since the last deployment in them.          *)
Since(events) ==
  With({i \in DOMAIN events : events[i].kind = "deploy"}, LAMBDA at :
    IF at = {} THEN events ELSE SubSeq(events, CHOOSE i \in at : \A j \in at : j <= i, Len(events)))
LogOf(old, answer) ==
  IF answer.request.kind = "manual"
  THEN Since((IF answer.events # <<>> /\ answer.events[1].kind = "deploy" THEN <<>> ELSE old) \o answer.events)
  ELSE old

Serve(r) ==
  \E out \in {IF Cached(r) THEN ExecuteCached(r) ELSE CompileWorkspace(r, session, nextId)} :
    /\ session' = out.session /\ nextId' = out.nextId /\ response' = out.answer
    /\ cache' = IF r.kind = "manual" /\ ~Cached(r) /\ out.answer.success
                THEN [key |-> Key(r), options |-> r.options, contracts |-> out.answer.contracts, tests |-> out.answer.tests]
                ELSE cache
    /\ log' = LogOf(log, out.answer)

(* Watched calls run one after another against the deployment, and none of     *)
(* them is kept.                                                               *)
Watched(r) ==
  LET current(w) == session # None /\ session.key = Key(r) /\ session.contract = w.contract
      code(w) == SourceOf(r).contracts[w.contract].methods[w.method].code
      call(a, w) == IF ~current(w) THEN [a EXCEPT !.values = Append(@, None)]
                    ELSE With(Transact(a.session.db, Default, code(w), FALSE), LAMBDA t :
                           [session |-> [a.session EXCEPT !.db = t.db], values |-> Append(a.values, t.result)])
  IN  IF Len(r.watches) > MaxWatches THEN [session |-> session, values |-> <<>>]
      ELSE FoldLeft(call, [session |-> session, values |-> <<>>], r.watches)

Watch(r) ==
  \E w \in {Watched(r)} :
    /\ session' = w.session /\ response' = [request |-> r, values |-> w.values]
    /\ UNCHANGED <<nextId, cache, log>>

Init ==
  /\ session = None /\ nextId = 1 /\ cache = None /\ response = None /\ log = <<>> /\ served = 0

Next == \E r \in Requests :
  /\ served < MaxRequests
  /\ IF r.kind = "watch" THEN Watch(r) ELSE Serve(r)
  /\ served' = served + 1

Spec == Init /\ [][Next]_vars

-------------------------------------------------------------------------------
(* The worker's state has the shape the code gives it, and ids are not reused. *)
TypeOK ==
  /\ nextId \in Nat \ {0} /\ served \in 0..MaxRequests
  /\ session # None => session.id \in 1..(nextId - 1) /\ session.db.store \in 0..(Modulus - 1)
  /\ cache # None => DOMAIN cache.contracts \subseteq Range(ContractNames)

(* What the user was shown explains the deployment: there is one exactly when  *)
(* the last deployment reported for a manual call worked, and its storage and  *)
(* nonces are what the reported calls leave, each counted once. Simulated and  *)
(* watched calls, tests and cached answers leave no trace of their own.        *)
Replayed ==
  LET contracts == Sources[session.key[1]].contracts
      play(db, e) == Transact(db, e.caller,
        IF e.kind = "deploy" THEN contracts[e.contract].constructor ELSE contracts[e.contract].methods[e.method].code, ~e.simulate).db
  IN  FoldLeft(play, FreshDb, log)
StorageIsExplained ==
  /\ (session # None) <=> (log # <<>> /\ log[1].result.status = "success")
  /\ session # None => log[1].kind = "deploy" /\ log[1].contract = session.contract /\ session.db = Replayed

(* A test run alone comes out as it does among the others: what it skips       *)
(* leaves no trace, and what it replays fails in the same way.                 *)
SelectedTestAgrees ==
  LET r == response.request
      whole == ExecuteTests([r EXCEPT !.test = 0], nextId)
  IN  response # None /\ r.kind = "run" /\ response.success /\ r.test \in DOMAIN response.tests =>
        response.tests[r.test].status = whole.tests[r.test].status

(* An answer from the cache is the answer a new compilation would give, and    *)
(* leaves the same deployment.                                                 *)
CacheIsTransparent == [][
  LET r == response'.request
      plain == CompileWorkspace(r, session, nextId)
  IN  served' # served /\ r.kind = "manual" => response' = plain.answer /\ session' = plain.session /\ nextId' = plain.nextId
  ]_vars

(* The worker does what it reports, whatever is cached, skipped or simulated.   *)
WorkerIsHonest == [](TypeOK /\ StorageIsExplained /\ SelectedTestAgrees) /\ CacheIsTransparent
===============================================================================
