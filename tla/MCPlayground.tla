----------------------------- MODULE MCPlayground -----------------------------
(***************************************************************************)
(* The playground: the page with its client and discovery                  *)
(* (PlaygroundExecution), with a workspace of two contracts with tests and *)
(* one of a main function that the backend rejects; and the compiler as    *)
(* the worker runs it (SandboxWorker), with a counter with tests, a        *)
(* contract whose deployment fails, programs with a main and a source with *)
(* errors. A behaviour exercises one of them and leaves the other in its   *)
(* initial state.                                                          *)
(***************************************************************************)
EXTENDS PlaygroundExecution, TLC

CONSTANTS WorkerSources, WorkerRequests

VARIABLES
  part,       \* "page" or "worker"
  deployment, ids, cache, response, log, served

Worker == INSTANCE SandboxWorker
            WITH Sources <- WorkerSources, ContractNames <- <<"C", "D">>,
                 Requests <- WorkerRequests, Callers <- {"ann", "bob"}, Default <- "ann",
                 Modulus <- 3, MaxWatches <- 2, MaxRequests <- 4,
                 session <- deployment, nextId <- ids

ASSUME SandboxAssumption == Worker!WorkerAssumption

workerVars == <<deployment, ids, cache, response, log, served>>

PlaygroundInit == part \in {"page", "worker"} /\ Init /\ Worker!Init

OnPage(A) == part = "page" /\ A /\ UNCHANGED <<part, workerVars>>
ServeRequests == part = "worker" /\ Worker!Next /\ UNCHANGED <<part, vars>>
PlaygroundNext == OnPage(Next) \/ ServeRequests

PlaygroundSpec ==
  /\ PlaygroundInit /\ [][PlaygroundNext]_<<part, vars, workerVars>>
  /\ WF_vars(OnPage(DiscoveryEffect)) /\ WF_vars(OnPage(DiscoveryTimer))
  /\ WF_vars(OnPage(Serve)) /\ WF_vars(OnPage(HandleMessage))

-------------------------------------------------------------------------------
(* Once the user rests the page comes to rest, however late, superseded or      *)
(* unanswered its requests were (CompileClient, useTestDiscovery).              *)
PlaygroundSettles == part = "page" => PageSettles

(* A manual call, a watch or a test run answers and leaves the deployment as    *)
(* the reported transactions say, from the cache or not (sandbox.rs).           *)
DeploymentIsHonest == Worker!WorkerIsHonest

-------------------------------------------------------------------------------
MCSources == {"wallet", "script"}
MCContracts == {"A", "B"}
MCFacts ==
  [wallet |-> [tests |-> TRUE, main |-> FALSE, ok |-> TRUE, contracts |-> {"A", "B"}],
   script |-> [tests |-> FALSE, main |-> TRUE, ok |-> FALSE, contracts |-> {}]]

(* The files the worker compiles.                                               *)
MCWorkerSources ==
  LET
    Code(code, inputs) == [code |-> code, inputs |-> inputs]
    ContractWith(constructor, inputs, methods) == [constructor |-> constructor, inputs |-> inputs, methods |-> methods]
    TestOf(contract, method, action, expected, valid) ==
      [contract |-> contract, method |-> method, action |-> action, expected |-> expected, valid |-> valid]
    WorkspaceOf(ok, contracts, tests, main) ==
      [ok |-> ok, contracts |-> contracts, tests |-> tests, main |-> main, unrendered |-> {}, uncompiled |-> {}]
    Counter == [add |-> Code("inc", 0), read |-> Code("get", 0), fail |-> Code("revert", 1), spin |-> Code("halt", 0)]
  IN
    [counter |-> WorkspaceOf(TRUE, [C |-> ContractWith("inc", 0, Counter), D |-> ContractWith("get", 1, Counter)],
          <<TestOf("C", "add", "send", 0, TRUE), TestOf("C", "add", "return", 0, TRUE), TestOf("C", "read", "return", 2, TRUE),
            TestOf("C", "fail", "revert", 0, TRUE), TestOf("C", "add", "send", 0, TRUE), TestOf("C", "read", "return", 0, TRUE),
            TestOf("C", "read", "return", 1, TRUE)>>, None),
       setup |-> WorkspaceOf(TRUE, [C |-> ContractWith("get", 0, Counter), D |-> ContractWith("get", 0, Counter)],
          <<TestOf("C", "read", "revert", 0, TRUE), TestOf("D", "add", "return", 1, TRUE), TestOf("C", "fail", "send", 0, TRUE),
            TestOf("C", "read", "return", 0, TRUE), TestOf("D", "add", "return", 1, FALSE), TestOf("D", "read", "return", 0, TRUE)>>, None),
       failing |-> [WorkspaceOf(TRUE, [C |-> ContractWith("revert", 0, Counter), D |-> ContractWith("get", 1, Counter)],
          <<TestOf("C", "add", "send", 0, TRUE), TestOf("D", "add", "return", 1, TRUE)>>, None) EXCEPT !.unrendered = {"yul"}, !.uncompiled = {"sonatina"}],
       free |-> WorkspaceOf(TRUE, <<>>, <<>>, [code |-> "inc", contract |-> FALSE, constructor |-> "get", inputs |-> 0]),
       runtime |-> WorkspaceOf(TRUE, <<>>, <<>>, [code |-> "get", contract |-> TRUE, constructor |-> "inc", inputs |-> 0]),
       stuck |-> WorkspaceOf(TRUE, <<>>, <<>>, [code |-> "get", contract |-> TRUE, constructor |-> "halt", inputs |-> 0]),
       broken |-> WorkspaceOf(FALSE, <<>>, <<>>, None)]

(* What the page sends it.                                                      *)
MCWorkerRequests ==
  LET
    Code(code, inputs) == [code |-> code, inputs |-> inputs]
    Counter == [add |-> Code("inc", 0), read |-> Code("get", 0), fail |-> Code("revert", 1), spin |-> Code("halt", 0)]
    RequestOf(kind, source, options) == [kind |-> kind, source |-> source, epoch |-> 0, backend |-> "solc", options |-> options, test |-> 0]
    Manual(source, contract, method, simulate, reset, caller) ==
      RequestOf("manual", source, {}) @@
      [call |-> [contract |-> contract, method |-> method, arguments |-> Counter[method].inputs,
                 constructorArguments |-> IF contract = "C" THEN 0 ELSE 1, simulate |-> simulate, reset |-> reset, caller |-> caller]]
    Calls == {Manual("counter", "C", m, simulate, FALSE, "ann") : m \in {"add", "read", "fail"}, simulate \in BOOLEAN}
      \cup {Manual("counter", "C", "add", FALSE, FALSE, "bob"), Manual("counter", "C", "spin", FALSE, FALSE, "ann"),
            Manual("counter", "D", "add", FALSE, FALSE, "ann"), Manual("counter", "C", "add", FALSE, TRUE, "bob"),
            Manual("failing", "C", "add", FALSE, FALSE, "ann"), Manual("setup", "C", "add", FALSE, FALSE, "ann")}
    Variants == {[r EXCEPT !.epoch = 1] : r \in {Manual("counter", "C", "add", FALSE, FALSE, "ann")}}
      \cup {[r EXCEPT !.options = {"yul"}] : r \in {Manual("counter", "C", "add", FALSE, FALSE, "ann"), Manual("failing", "C", "add", FALSE, FALSE, "ann")}}
      \cup {[Manual("counter", "C", "fail", FALSE, FALSE, "ann") EXCEPT !.call.arguments = 0],
            [Manual("failing", "C", "add", FALSE, FALSE, "ann") EXCEPT !.backend = "sonatina"]}
    Runs == {[RequestOf("run", s, {}) EXCEPT !.test = t] : s \in {"counter", "setup"}, t \in 0..8}
      \cup {RequestOf("run", s, {}) : s \in {"failing", "free", "runtime", "stuck", "broken"}}
    Reads == {RequestOf("watch", "counter", {}) @@ [watches |-> w] : w \in
      {<<[contract |-> "C", method |-> "add"], [contract |-> "C", method |-> "read"]>>,
       <<[contract |-> "D", method |-> "read"]>>,
       <<[contract |-> "C", method |-> "add"], [contract |-> "C", method |-> "add"], [contract |-> "C", method |-> "add"]>>}}
  IN
    Calls \cup Variants \cup Runs \cup Reads \cup {RequestOf("compile", "counter", {})}
===============================================================================
