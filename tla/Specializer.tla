----------------------------- MODULE Specializer -----------------------------
(* The specializer's driver: from the entry points of the program it makes one *)
(* monomorphic function per instance.  Source functions and instance methods   *)
(* go through a work list; functions derived by the compiler are built where   *)
(* they are first called, inside the build of their caller.  An instance is a  *)
(* definition at a type, of which only the number of nodes is kept.            *)
EXTENDS Naturals, Sequences, FiniteSets

CONSTANTS Defs,              \* the definitions
          Programs,          \* see ProgramsAssumption
          MaxInstantiations, MaxDepth, MaxTypeNodes

(* source: an ordinary function; method: an instance method; derived: built    *)
(* from a representation; generic: a conversion to it, without calls; absent:  *)
(* not indexed; unsolved: a class method without a dictionary.                 *)
Kinds == {"source", "method", "derived", "generic", "absent", "unsolved"}

(* What lowering a body comes to: a function, nothing (with a diagnostic), or  *)
(* a signature that is still open.                                             *)
Bodies == {"ok", "fails", "open"}

(* A call names a definition and the nodes its type has more than the caller's. *)
Function == [kind : Kinds, body : Bodies, calls : Seq([to : Defs, grow : Nat])]
Contract == [entries : Seq(Defs), main : Seq(Defs), comptimeParam : BOOLEAN]

ASSUME DefsAssumption == IsFiniteSet(Defs)
ASSUME LimitsAssumption == MaxInstantiations \in Nat /\ MaxDepth \in Nat /\ MaxTypeNodes \in Nat
ASSUME ProgramsAssumption == \A p \in Programs :
  /\ p \in [defs : [Defs -> Function], contracts : Seq(Contract), mains : Seq(Defs)]
  /\ \A d \in Defs : p.defs[d].kind = "generic" => p.defs[d].calls = <<>>

VARIABLES
  program,   \* the definitions, the contracts and the free functions "main"
  phase,     \* "start", "roots", "running" or "done"
  entries,   \* the entry points of the module, in order
  roots,     \* the ones not queued yet
  order,     \* the instances given a name, in order
  queue,     \* the ones still to specialize, with their depth
  stack,     \* the bodies under way: a queued one and, above it, derived ones
  derived,   \* the derived instances registered, in order
  funs,      \* the functions made: instance -> the instances its body names
  diagnostics

vars == <<program, phase, entries, roots, order, queue, stack, derived, funs, diagnostics>>

Def(key) == program.defs[key.def]
Kind(key) == Def(key).kind
Targets(key) == [i \in DOMAIN Def(key).calls |->
                   [def |-> Def(key).calls[i].to, size |-> key.size + Def(key).calls[i].grow]]
In(x, seq) == \E i \in DOMAIN seq : seq[i] = x
IsLarge(key) == key.size > MaxTypeNodes
Report(what) == diagnostics' = diagnostics \cup {what}

(* What a retain leaves of a list: its members at these places, in their order *)
(* (SelectSeq, whose recursion the proofs could not look into).                *)
Place(places, n) == CHOOSE i \in places : Cardinality({j \in places : j <= i}) = n
Pick(seq, places) == [n \in 1..Cardinality(places) |-> seq[Place(places, n)]]

-------------------------------------------------------------------------------
Init ==
  /\ program \in Programs
  /\ phase = "start"
  /\ entries = <<>> /\ roots = <<>> /\ order = <<>> /\ queue = <<>> /\ stack = <<>>
  /\ derived = <<>> /\ diagnostics = {}
  /\ funs = [k \in {} |-> {}]

(* Entry points: per contract its deployment wrapper and fallback, and its     *)
(* runtime main unless a public method takes a compile-time parameter; without *)
(* a contract every function named main.                                       *)
ContractRoots[i \in 0..Len(program.contracts)] ==
  IF i = 0 THEN <<>>
  ELSE LET c == program.contracts[i]
       IN  ContractRoots[i - 1] \o c.entries \o (IF c.comptimeParam THEN <<>> ELSE c.main)

Candidates == IF program.contracts = <<>> THEN program.mains ELSE ContractRoots[Len(program.contracts)]

(* An entry point must be indexed and have a closed type.                      *)
IsRoot(d) == program.defs[d].kind = "source" /\ program.defs[d].body # "open"

CollectRoots ==
  LET found == Pick(Candidates, {i \in DOMAIN Candidates : IsRoot(Candidates[i])})
      open == \E i \in DOMAIN Candidates :
                program.defs[Candidates[i]].kind = "source" /\ program.defs[Candidates[i]].body = "open"
      blocked == \E i \in DOMAIN program.contracts : program.contracts[i].comptimeParam
  IN  /\ phase = "start"
      /\ phase' = "roots"
      /\ entries' = [i \in DOMAIN found |-> [def |-> found[i], size |-> 1]]
      /\ roots' = entries'
      /\ diagnostics' = (IF open THEN {"FreeTypeVariable"} ELSE {})
                        \cup (IF blocked THEN {"PublicComptimeParam"} ELSE {})
      /\ UNCHANGED <<program, order, queue, stack, derived, funs>>

(* The instance is admitted unless it is known or one of these limits is met;  *)
(* the caller names it in either case.                                         *)
Queueing(key, depth, known, limit) ==
  LET new == ~known /\ limit = {}
  IN  /\ order' = IF new THEN Append(order, key) ELSE order
      /\ queue' = IF new THEN Append(queue, [key |-> key, depth |-> depth]) ELSE queue
      /\ diagnostics' = diagnostics \cup limit

Limit(key, depth) ==
  IF IsLarge(key) THEN {"TypeSizeExceeded"}
  ELSE IF Len(order) >= MaxInstantiations THEN {"InstantiationFuelExhausted"}
  ELSE IF depth > MaxDepth THEN {"InstantiationDepthExceeded"}
  ELSE {}

\* Mutant: the table of names is not consulted.
EnqueueAlways(key, depth) == Queueing(key, depth, FALSE, Limit(key, depth))

(* A new instance gets its name and its place in the queue, once.              *)
Enqueue(key, depth) ==
  Queueing(key, depth, In(key, order), IF In(key, order) THEN {} ELSE Limit(key, depth))

EnqueueRoot ==
  /\ phase = "roots"
  /\ IF roots = <<>> THEN phase' = "running" /\ UNCHANGED <<roots, order, queue, diagnostics>>
     ELSE /\ Enqueue(Head(roots), 0)
          /\ roots' = Tail(roots)
          /\ UNCHANGED phase
  /\ UNCHANGED <<program, entries, stack, derived, funs>>

-------------------------------------------------------------------------------
(* Bodies.  A frame is an instance, the calls left and the instances named.    *)

Top == stack[Len(stack)]
Below == SubSeq(stack, 1, Len(stack) - 1)
Frame(key, depth) == [key |-> key, todo |-> Targets(key), named |-> {}, depth |-> depth]
IsDerived(frame) == Kind(frame.key) = "derived"
Callee == Head(Top.todo)

(* A derived body resolves its calls one level deeper.                         *)
CallDepth == IF IsDerived(Top) THEN Top.depth + 1 ELSE Top.depth

Named(frame) == [frame EXCEPT !.todo = Tail(@), !.named = @ \cup {Head(frame.todo)}]
Skipped(frame) == [frame EXCEPT !.todo = Tail(@)]

Make(key, named) == funs' = [k \in DOMAIN funs \cup {key} |-> IF k = key THEN named ELSE funs[k]]

(* The call on top came to nothing, for this reason.  The derived bodies are   *)
(* given up and taken back, each of them the call that came to nothing in the  *)
(* one below; the queued body reports it and goes on without the call.         *)
Unwind(why) ==
  LET GivenUp(key) == \E j \in 2..Len(stack) : stack[j].key = key
  IN  /\ stack' = <<Skipped(stack[1])>>
      /\ derived' = Pick(derived, {i \in DOMAIN derived : ~GivenUp(derived[i])})
      /\ diagnostics' = diagnostics \cup why

\* Mutant: the fallback expression is taken without a diagnostic.
FailQuietly(why) == Unwind(why)

Fail(why) == Unwind(why \cup {"MissingEvidence"}
                        \cup (IF IsDerived(Top) THEN {"UnsupportedEvidence"} ELSE {}))

Resolved == stack' = Append(Below, Named(Top))

\* Mutant: an instance that cannot be closed goes back into the queue.
RetryPending ==
  /\ phase = "running" /\ stack = <<>> /\ queue # <<>>
  /\ LET pending == Head(queue)
     IN  IF Def(pending.key).body = "open"
         THEN Report("FreeTypeVariable") /\ queue' = Append(Tail(queue), pending) /\ UNCHANGED stack
         ELSE queue' = Tail(queue) /\ stack' = <<Frame(pending.key, pending.depth)>> /\ UNCHANGED diagnostics
  /\ UNCHANGED <<program, phase, entries, roots, order, derived, funs>>

(* The first instance of the queue; its type must be closed.                   *)
SpecializePending ==
  /\ phase = "running" /\ stack = <<>> /\ queue # <<>>
  /\ LET pending == Head(queue)
     IN  IF pending.key \in DOMAIN funs THEN UNCHANGED <<stack, diagnostics>>
         ELSE IF Def(pending.key).body = "open" THEN Report("FreeTypeVariable") /\ UNCHANGED stack
         ELSE stack' = <<Frame(pending.key, pending.depth)>> /\ UNCHANGED diagnostics
  /\ queue' = Tail(queue)
  /\ UNCHANGED <<program, phase, entries, roots, order, derived, funs>>

Calling(kinds) == phase = "running" /\ stack # <<>> /\ Top.todo # <<>> /\ Kind(Callee) \in kinds

(* An ordinary function is named whatever happens.                             *)
SpecializeFunction ==
  /\ Calling({"source", "absent"}) /\ ~IsDerived(Top)
  /\ Resolved
  /\ IF Kind(Callee) = "absent" THEN Report("UnresolvedExternal") /\ UNCHANGED <<order, queue>>
     ELSE IF IsLarge(Callee) THEN Report("TypeSizeExceeded") /\ UNCHANGED <<order, queue>>
     ELSE Enqueue(Callee, Top.depth + 1)
  /\ UNCHANGED <<program, phase, entries, roots, derived, funs>>

(* A call through a dictionary of an instance: the method is queued.  A        *)
(* derived body reaches the library's functions in the same way.               *)
CallInstanceMethod ==
  /\ Calling({"source", "method"}) /\ (Kind(Callee) = "method" \/ IsDerived(Top))
  /\ IF IsLarge(Callee)
     THEN Fail({"TypeSizeExceeded"}) /\ UNCHANGED <<order, queue>>
     ELSE /\ Enqueue(Callee, IF Kind(Callee) = "method" THEN CallDepth + 1 ELSE CallDepth)
          /\ Resolved /\ UNCHANGED derived
  /\ UNCHANGED <<program, phase, entries, roots, funs>>

(* No dictionary, or one that is not available.                                *)
CallUnsolved ==
  /\ Calling({"unsolved", "absent"}) /\ (Kind(Callee) = "unsolved" \/ IsDerived(Top))
  /\ Fail({})
  /\ UNCHANGED <<program, phase, entries, roots, order, queue, funs>>

(* A derived function is registered before it is built, so that a cycle finds  *)
(* it.                                                                         *)
SpecializeDerived ==
  /\ Calling({"derived"})
  /\ \/ /\ In(Callee, derived)
        /\ Resolved /\ UNCHANGED <<derived, diagnostics>>
     \/ /\ ~In(Callee, derived) /\ IsLarge(Callee)
        /\ Fail({"TypeSizeExceeded"})
     \/ /\ ~In(Callee, derived) /\ ~IsLarge(Callee)
        /\ derived' = Append(derived, Callee)
        /\ stack' = Append(stack, Frame(Callee, CallDepth))
        /\ UNCHANGED diagnostics
  /\ UNCHANGED <<program, phase, entries, roots, order, queue, funs>>

(* A conversion has no calls and keeps its name even when it cannot be built.  *)
SpecializeDerivedGeneric ==
  /\ Calling({"generic"})
  /\ \/ /\ In(Callee, derived)
        /\ Resolved /\ UNCHANGED <<derived, funs, diagnostics>>
     \/ /\ ~In(Callee, derived) /\ IsLarge(Callee)
        /\ Fail({"TypeSizeExceeded"}) /\ UNCHANGED funs
     \/ /\ ~In(Callee, derived) /\ ~IsLarge(Callee)
        /\ derived' = Append(derived, Callee)
        /\ Resolved
        /\ IF Def(Callee).body = "ok" THEN Make(Callee, {}) /\ UNCHANGED diagnostics
           ELSE Report("UnsupportedEvidence") /\ UNCHANGED funs
  /\ UNCHANGED <<program, phase, entries, roots, order, queue>>

(* All calls are resolved: the function is made, or the build fails.           *)
BuildDone ==
  /\ phase = "running" /\ stack # <<>> /\ Top.todo = <<>>
  /\ CASE Def(Top.key).body = "ok" ->
            /\ Make(Top.key, Top.named)
            /\ stack' = IF Below = <<>> THEN <<>> ELSE [Below EXCEPT ![Len(Below)] = Named(@)]
            /\ UNCHANGED <<derived, diagnostics>>
       [] Def(Top.key).body # "ok" /\ IsDerived(Top) -> Fail({}) /\ UNCHANGED funs
       [] OTHER -> stack' = <<>> /\ Report("MissingResolution") /\ UNCHANGED <<derived, funs>>
  /\ UNCHANGED <<program, phase, entries, roots, order, queue>>

Finish ==
  /\ phase = "running" /\ stack = <<>> /\ queue = <<>>
  /\ phase' = "done"
  /\ UNCHANGED <<program, entries, roots, order, queue, stack, derived, funs, diagnostics>>

Next ==
  \/ CollectRoots \/ EnqueueRoot \/ SpecializePending \/ SpecializeFunction \/ CallInstanceMethod
  \/ CallUnsolved \/ SpecializeDerived \/ SpecializeDerivedGeneric \/ BuildDone \/ Finish

Spec == Init /\ [][Next]_vars /\ WF_vars(Next)

-------------------------------------------------------------------------------
(* The reference: the instances the program needs, up to a size that no limit  *)
(* lets through.                                                               *)
Reach[n \in Nat] ==
  IF n = 0 THEN {entries[i] : i \in DOMAIN entries}
  ELSE LET known == Reach[n - 1]
       IN  known \cup UNION {{Targets(k)[i] : i \in DOMAIN Targets(k)} : k \in {q \in known : ~IsLarge(q)}}

Needed == Reach[Cardinality(Defs) * (MaxTypeNodes + 1)]
Queued(keys) == {k \in keys : Def(k).kind \in {"source", "method"}}
Items == {order[i] : i \in DOMAIN order} \cup {derived[i] : i \in DOMAIN derived}

(* Names, queue and functions stay within the limits and belong to the driver. *)
TypeOK ==
  /\ phase \in {"start", "roots", "running", "done"}
  /\ Len(order) <= MaxInstantiations
  /\ \A i \in DOMAIN queue : In(queue[i].key, order) /\ queue[i].depth \in 0..MaxDepth
  /\ DOMAIN funs \subseteq Items

(* No instance is made or listed twice, so no function is emitted twice under  *)
(* one name, however often and from wherever it is called.                     *)
EachOnce ==
  /\ \A i, j \in DOMAIN order : order[i] = order[j] => i = j
  /\ \A i, j \in DOMAIN derived : derived[i] = derived[j] => i = j
  /\ \A i, j \in DOMAIN queue : queue[i].key = queue[j].key => i = j

(* The driver's maps, queues and counters belong together.                     *)
DriverIsConsistent == TypeOK /\ EachOnce

(* Without a diagnostic the output is exactly what the program needs: every    *)
(* function an emitted body names is emitted, also the ones named while their  *)
(* own build was under way and could still fail.                               *)
OutputIsClosed ==
  phase = "done" /\ diagnostics = {} =>
    /\ DOMAIN funs = Needed
    /\ \A k \in DOMAIN funs : funs[k] \subseteq DOMAIN funs

(* The instantiation limit is blamed only for programs that need more.         *)
FuelBlameIsHonest ==
  "InstantiationFuelExhausted" \in diagnostics => Cardinality(Queued(Needed)) > MaxInstantiations

(* What is emitted, and what is refused for its size, is what the program is.  *)
OutputIsExact == OutputIsClosed /\ FuelBlameIsHonest

(* Polymorphic recursion ends: some limit stops it.                            *)
Terminates == <>(phase = "done")

-----------------------------------------------------------------------------
(* The instance that TLC checks: a main function, a second function, and two   *)
(* derived ones that may call each other, themselves and back, at the same or  *)
(* at a larger type.                                                           *)
MCDefs == {"main", "g", "d", "e"}

MCPrograms ==
  LET
    F(kind, body, calls) == [kind |-> kind, body |-> body, calls |-> calls]
    To(d) == [to |-> d, grow |-> 0]
    Grow(d) == [to |-> d, grow |-> 1]
    Singles(ds) == {<<To(d)>> : d \in ds} \cup {<<Grow(d)>> : d \in ds}
    Pairs(ds) == {<<To(a), To(b)>> : a \in ds, b \in ds}
    Mains == {F("source", "ok", c) : c \in Pairs({"g", "d", "e"})}
    Gs == {F(k, "ok", c) : k \in {"source", "method"}, c \in {<<>>} \cup Singles(MCDefs \ {"g"}) \cup {<<Grow("g")>>}}
          \cup {F("source", b, <<To("d")>>) : b \in {"fails", "open"}} \cup {F("absent", "ok", <<>>)}
    Ds == {F("derived", "ok", c) : c \in {<<>>} \cup Singles({"g", "e", "d"}) \cup {<<To("e"), To("g")>>}}
    Es == {F("derived", b, c) : b \in {"ok", "fails"}, c \in {<<>>} \cup Singles({"g", "d"})}
          \cup {F("generic", b, <<>>) : b \in {"ok", "fails"}} \cup {F("unsolved", "ok", <<>>)}
    OneContract(es, comptime) == <<[entries |-> es, main |-> <<"main">>, comptimeParam |-> comptime]>>
  IN  {[defs |-> [x \in MCDefs |-> CASE x = "main" -> m [] x = "g" -> g [] x = "d" -> d [] OTHER -> e],
        contracts |-> c, mains |-> <<"main">>]
         : m \in Mains, g \in Gs, d \in Ds, e \in Es,
           c \in {<<>>, OneContract(<<"g">>, FALSE), OneContract(<<"g">>, TRUE)}}
=============================================================================
