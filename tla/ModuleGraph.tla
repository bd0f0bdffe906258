----------------------------- MODULE ModuleGraph -----------------------------
(* The module graph: the modules reachable from the entry, breadth first; its  *)
(* strongly connected components, depth first with low links; and the modules  *)
(* whose instances the entry sees, which follow imports but not re-exports.    *)
EXTENDS Naturals, Sequences, FiniteSets, SequencesExt

CONSTANTS Modules,
          Entry,
          Graphs     \* each gives every module those its imports and its exports name

ASSUME GraphsAssumption ==
  /\ Entry \in Modules
  /\ Graphs \subseteq [Modules -> [imports : Seq(Modules), exports : Seq(Modules)]]

VARIABLES
  graph,
  phase,       \* "reach", "scc", "instances" or "done"
  queue, modules, seen,                 \* collect_reachable_modules
  calls, stack, index, low, components, \* strong_connect: the active calls first
  visible      \* instance_import_modules

vars == <<graph, phase, queue, modules, seen, calls, stack, index, low, components, visible>>

(* A file's references: imports first, then what its exports name.             *)
ImportRefs(m) == graph[m].imports
ReferenceEdges(m) == graph[m].imports \o graph[m].exports

Init ==
  /\ graph \in Graphs
  /\ phase = "reach"
  /\ queue = <<Entry>> /\ modules = <<>> /\ seen = {}
  /\ calls = <<>> /\ stack = <<>> /\ components = <<>>
  /\ index = [m \in {} |-> 0] /\ low = [m \in {} |-> 0]
  /\ visible = <<>>

-------------------------------------------------------------------------------
CollectReachable ==
  /\ phase = "reach" /\ queue # <<>>
  /\ LET m == Head(queue)
     IN  IF m \in seen THEN queue' = Tail(queue) /\ UNCHANGED <<modules, seen>>
         ELSE /\ seen' = seen \cup {m}
              /\ modules' = Append(modules, m)
              /\ queue' = Tail(queue) \o ReferenceEdges(m)
  /\ UNCHANGED <<graph, phase, calls, stack, index, low, components, visible>>

Reached ==
  /\ phase = "reach" /\ queue = <<>>
  /\ phase' = "scc"
  /\ UNCHANGED <<graph, queue, modules, seen, calls, stack, index, low, components, visible>>

-------------------------------------------------------------------------------
(* A call of strong_connect is a module and the edges left.                    *)

Top == calls[Len(calls)]
Callers == SubSeq(calls, 1, Len(calls) - 1)
With(f, m, v) == [x \in DOMAIN f \cup {m} |-> IF x = m THEN v ELSE f[x]]
Least(a, b) == IF a < b THEN a ELSE b
Lowered(m, v) == [low EXCEPT ![m] = Least(@, v)]
NextIndex == Cardinality(DOMAIN index)

Enter(m, below) ==
  /\ index' = With(index, m, NextIndex)
  /\ low' = With(low, m, NextIndex)
  /\ stack' = Append(stack, m)
  /\ calls' = Append(below, [module |-> m, edges |-> ReferenceEdges(m)])

StartComponent ==
  /\ phase = "scc" /\ calls = <<>>
  /\ \E i \in DOMAIN modules :
       /\ modules[i] \notin DOMAIN index /\ \A j \in 1..i - 1 : modules[j] \in DOMAIN index
       /\ Enter(modules[i], <<>>)
  /\ UNCHANGED <<graph, phase, queue, modules, seen, components, visible>>

\* Mutant: an edge into a finished component lowers the link as well.
FollowEdgeAnywhere ==
  /\ phase = "scc" /\ calls # <<>> /\ Top.edges # <<>>
  /\ LET t == Head(Top.edges)
         below == Append(Callers, [Top EXCEPT !.edges = Tail(@)])
     IN  IF t \notin DOMAIN index THEN Enter(t, below)
         ELSE calls' = below /\ low' = Lowered(Top.module, index[t]) /\ UNCHANGED <<stack, index>>
  /\ UNCHANGED <<graph, phase, queue, modules, seen, components, visible>>

FollowEdge ==
  /\ phase = "scc" /\ calls # <<>> /\ Top.edges # <<>>
  /\ LET t == Head(Top.edges)
         below == Append(Callers, [Top EXCEPT !.edges = Tail(@)])
     IN  IF t \notin DOMAIN index THEN Enter(t, below)
         ELSE /\ calls' = below
              /\ low' = IF t \in Range(stack) THEN Lowered(Top.module, index[t]) ELSE low
              /\ UNCHANGED <<stack, index>>
  /\ UNCHANGED <<graph, phase, queue, modules, seen, components, visible>>

(* A root pops its component; the caller takes over the link.                  *)
Leave ==
  /\ phase = "scc" /\ calls # <<>> /\ Top.edges = <<>>
  /\ LET m == Top.module
         from == CHOOSE i \in DOMAIN stack : stack[i] = m
     IN  /\ IF low[m] = index[m]
            THEN /\ components' = Append(components, Range(SubSeq(stack, from, Len(stack))))
                 /\ stack' = SubSeq(stack, 1, from - 1)
            ELSE UNCHANGED <<components, stack>>
         /\ low' = IF Callers = <<>> THEN low ELSE Lowered(calls[Len(calls) - 1].module, low[m])
  /\ calls' = Callers
  /\ UNCHANGED <<graph, phase, queue, modules, seen, index, visible>>

Connected ==
  /\ phase = "scc" /\ calls = <<>> /\ Range(modules) \subseteq DOMAIN index
  /\ phase' = "instances"
  /\ seen' = {Entry} /\ visible' = <<Entry>>
  /\ calls' = <<[module |-> Entry, edges |-> ImportRefs(Entry)]>>
  /\ UNCHANGED <<graph, queue, modules, stack, index, low, components>>

-------------------------------------------------------------------------------
CollectImportedModules ==
  /\ phase = "instances" /\ calls # <<>>
  /\ IF Top.edges = <<>> THEN calls' = Callers /\ UNCHANGED <<seen, visible>>
     ELSE LET t == Head(Top.edges)
              below == Append(Callers, [Top EXCEPT !.edges = Tail(@)])
          IN  IF t \in seen THEN calls' = below /\ UNCHANGED <<seen, visible>>
              ELSE /\ seen' = seen \cup {t}
                   /\ visible' = Append(visible, t)
                   /\ calls' = Append(below, [module |-> t, edges |-> ImportRefs(t)])
  /\ UNCHANGED <<graph, phase, queue, modules, stack, index, low, components>>

Collected ==
  /\ phase = "instances" /\ calls = <<>>
  /\ phase' = "done"
  /\ UNCHANGED <<graph, queue, modules, seen, calls, stack, index, low, components, visible>>

Next == \/ CollectReachable \/ Reached \/ StartComponent \/ FollowEdge \/ Leave \/ Connected
        \/ CollectImportedModules \/ Collected

Spec == Init /\ [][Next]_vars /\ WF_vars(Next)

-------------------------------------------------------------------------------
(* Reference: where edges lead, in any number of steps.                        *)
Imports == {e \in Modules \X Modules : e[2] \in Range(ImportRefs(e[1]))}
References == {e \in Modules \X Modules : e[2] \in Range(ReferenceEdges(e[1]))}

Closed(S, edges) == \A e \in edges : e[1] \in S => e[2] \in S
From(m, edges) == {t \in Modules : \A S \in SUBSET Modules : m \in S /\ t \notin S => ~Closed(S, edges)}
Reaches(m, t) == t \in From(m, References)
NoRepeats(seq) == Cardinality(Range(seq)) = Len(seq)

(* A module has an index from its first visit on, and is on the stack until    *)
(* its component is known; no link points outside the stack.                   *)
TypeOK ==
  /\ phase \in {"reach", "scc", "instances", "done"}
  /\ Range(stack) = DOMAIN index \ UNION Range(components)
  /\ \A m \in Range(stack) : \E t \in Range(stack) : low[m] = index[t] /\ index[t] <= index[m]

(* Every module an import or a re-export leads to is collected, once.          *)
ReachableOnce ==
  phase # "reach" => NoRepeats(modules) /\ Range(modules) = From(Entry, References)

(* A component is popped only when it is a whole class of mutually reachable   *)
(* modules, and after every component it refers to, also in the middle of the  *)
(* search.                                                                     *)
ComponentsAreCycles ==
  \A i \in DOMAIN components :
    /\ \A m \in components[i] : components[i] = {t \in Modules : Reaches(m, t) /\ Reaches(t, m)}
    /\ \A j \in DOMAIN components : i < j => \A m \in components[i], t \in components[j] : ~Reaches(m, t)

(* Instances are seen along chains of imports and no others, each once.        *)
InstancesFollowImports ==
  phase = "done" => NoRepeats(visible) /\ Range(visible) = From(Entry, Imports)

(* collect_reachable_modules, strong_connect and instance_import_modules do    *)
(* together what each is for, on every graph and at every step.                *)
GraphIsExact == TypeOK /\ ReachableOnce /\ ComponentsAreCycles /\ InstancesFollowImports

(* Cycles of imports do not keep any of the searches busy.                     *)
Terminates == <>(phase = "done")
=============================================================================
