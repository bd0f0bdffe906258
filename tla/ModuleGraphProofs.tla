-------------------------- MODULE ModuleGraphProofs --------------------------
(***************************************************************************)
(* Proofs about ModuleGraph, for every graph: the modules collected are    *)
(* those reachable from the entry (ReachableOnce), the components are the  *)
(* classes of mutually reachable modules, each after all it refers to      *)
(* (ComponentsAreCycles), and instances follow imports                     *)
(* (InstancesFollowImports).                                               *)
(*                                                                         *)
(* The component search keeps indexes and low links, and what it pops is a *)
(* component only because of what the links mean while calls are active.   *)
(* StackInv says how the modules on the stack reach one another: an active *)
(* call reaches everything above it, and everything on the stack reaches   *)
(* an active call below it.  LinkInv says what a link accounts for: every  *)
(* edge followed from the modules between one active call and the next     *)
(* leads no lower than the link of the first.  FrontierInv says that what  *)
(* is left is left on purpose: a module that was entered has all its       *)
(* references entered, unless its call still has them to follow, and       *)
(* finished components refer to finished components only.                  *)
(***************************************************************************)
EXTENDS ModuleGraph, SequenceTheorems, FiniteSetTheorems, TLAPS

Calls == Seq([module : Modules, edges : Seq(Modules)])
Edge(m, t) == <<m, t>> \in References
Done == UNION Range(components)

(* The calls of strong_connect, in the phase that has any.                     *)
Active == IF phase = "scc" THEN calls ELSE << >>
Module(i) == Active[i].module

-------------------------------------------------------------------------------
(* The invariant, part by part.                                                *)

Types ==
  /\ graph \in Graphs /\ phase \in {"reach", "scc", "instances", "done"}
  /\ queue \in Seq(Modules) /\ modules \in Seq(Modules) /\ seen \subseteq Modules
  /\ calls \in Calls /\ (phase \in {"reach", "done"} => calls = << >>)
  /\ stack \in Seq(Modules)
  /\ IsFiniteSet(DOMAIN index) /\ DOMAIN index \subseteq Modules /\ DOMAIN low = DOMAIN index
  /\ index \in [DOMAIN index -> Nat] /\ low \in [DOMAIN index -> Nat]
  /\ components \in Seq(SUBSET Modules) /\ visible \in Seq(Modules)

(* Modules are collected once each, all of them reachable, and what one of     *)
(* them refers to is collected or in the queue.                                *)
ReachInv ==
  /\ NoRepeats(modules)
  /\ phase = "reach" =>
       /\ Range(modules) = seen
       /\ Entry \in seen \cup Range(queue)
       /\ seen \cup Range(queue) \subseteq From(Entry, References)
       /\ \A m \in seen, t \in Modules : Edge(m, t) => t \in seen \cup Range(queue)
  /\ phase # "reach" => Range(modules) = From(Entry, References)

(* The stack and the active calls are in the order of their indexes, and the   *)
(* calls are on the stack, which holds what no component has yet.              *)
OrderInv ==
  /\ Range(stack) \cap Done = {} /\ Range(stack) \cup Done = DOMAIN index
  /\ \A m \in DOMAIN index : index[m] < NextIndex
  /\ \A i, j \in DOMAIN stack : i < j => index[stack[i]] < index[stack[j]]
  /\ \A i \in DOMAIN Active : Module(i) \in Range(stack)
  /\ \A i, j \in DOMAIN Active : i < j => index[Module(i)] < index[Module(j)]

(* An active call reaches what is above it on the stack, and everything on the *)
(* stack reaches an active call below it.                                      *)
StackInv ==
  /\ \A i \in DOMAIN Active, m \in Range(stack) : index[Module(i)] <= index[m] => Reaches(Module(i), m)
  /\ \A m \in Range(stack) :
       \E i \in DOMAIN Active : index[Module(i)] <= index[m] /\ Reaches(m, Module(i))

(* References of an entered module are entered, or its call still has them,    *)
(* and calls have nothing else. Components refer to components only.           *)
FrontierInv ==
  /\ \A i \in DOMAIN Active : \A t \in Range(Active[i].edges) : Edge(Module(i), t)
  /\ \A m \in DOMAIN index, t \in Modules : Edge(m, t) =>
       \/ t \in DOMAIN index
       \/ \E i \in DOMAIN Active : Module(i) = m /\ t \in Range(Active[i].edges)
  /\ \A m \in Done, t \in Modules : Edge(m, t) => t \in Done

(* A low link is the index of a module reached on the stack; and what the      *)
(* modules between one active call and the next refer to on the stack is not   *)
(* below the link of the first.                                                *)
Linked(m) == \E t \in Range(stack) : low[m] = index[t] /\ index[t] <= index[m] /\ Reaches(m, t)
Between(i, m) ==
  /\ index[Module(i)] <= index[m]
  /\ \A j \in DOMAIN Active : i < j => index[m] < index[Module(j)]
Accounted(i, m, t) == (m = Module(i) /\ t \in Range(Active[i].edges)) \/ low[Module(i)] <= index[t]

LinkInv ==
  /\ \A m \in Range(stack) : Linked(m)
  /\ \A i \in DOMAIN Active, m, t \in Range(stack) : Edge(m, t) /\ Between(i, m) => Accounted(i, m, t)

(* Instances are collected once each, along imports, and what a collected      *)
(* module imports is collected unless its call still has it to follow.         *)
InstancesInv ==
  /\ NoRepeats(visible)
  /\ phase \in {"instances", "done"} =>
       /\ Range(visible) = seen /\ Entry \in seen /\ seen \subseteq From(Entry, Imports)
       /\ \A m \in seen, t \in Modules : <<m, t>> \in Imports =>
            \/ t \in seen
            \/ \E i \in DOMAIN calls : calls[i].module = m /\ t \in Range(calls[i].edges)
       /\ \A i \in DOMAIN calls : /\ calls[i].module \in seen
                                 /\ \A t \in Range(calls[i].edges) : <<calls[i].module, t>> \in Imports

SearchInv == OrderInv /\ StackInv /\ FrontierInv /\ LinkInv /\ ComponentsAreCycles

(* The search has not begun while modules are collected.                       *)
BeginInv ==
  phase = "reach" => /\ stack = << >> /\ components = << >> /\ visible = << >>
                     /\ index = [m \in {} |-> 0] /\ low = [m \in {} |-> 0]

Inv == Types /\ ReachInv /\ SearchInv /\ BeginInv /\ InstancesInv
-------------------------------------------------------------------------------
(* Where edges lead.                                                           *)

(* From is a closure: it has its root, follows edges, composes, and is in      *)
(* every closed set that has the root.                                         *)
LEMMA FromFacts ==
  ASSUME NEW edges \in SUBSET (Modules \X Modules)
  PROVE  /\ \A m \in Modules : m \in From(m, edges)
         /\ \A m, t, u : t \in From(m, edges) /\ <<t, u>> \in edges => u \in From(m, edges)
         /\ \A m, t, u : t \in From(m, edges) /\ u \in From(t, edges) => u \in From(m, edges)
         /\ \A S \in SUBSET Modules : Closed(S, edges) => \A m \in S : From(m, edges) \subseteq S
<1>1. \A m \in Modules : m \in From(m, edges)
  BY DEF From
<1>2. ASSUME NEW m, NEW t, NEW u, t \in From(m, edges), <<t, u>> \in edges
      PROVE  u \in From(m, edges)
  <2>1. u \in Modules
    BY <1>2
  <2>2. ASSUME NEW S \in SUBSET Modules, m \in S, Closed(S, edges) PROVE u \in S
    <3>1. t \in S
      BY <1>2, <2>2 DEF From
    <3> QED
      BY <1>2, <2>2, <3>1 DEF Closed
  <2> QED
    BY <2>1, <2>2 DEF From
<1>3. \A m, t, u : t \in From(m, edges) /\ u \in From(t, edges) => u \in From(m, edges)
  BY DEF From
<1>4. \A S \in SUBSET Modules : Closed(S, edges) => \A m \in S : From(m, edges) \subseteq S
  BY DEF From
<1> QED
  BY <1>1, <1>2, <1>3, <1>4

(* The references of a file are its imports and what its exports name.         *)
LEMMA RefsFacts ==
  ASSUME graph \in Graphs, NEW m \in Modules
  PROVE  /\ ImportRefs(m) \in Seq(Modules) /\ ReferenceEdges(m) \in Seq(Modules)
         /\ \A t : t \in Range(ImportRefs(m)) <=> <<m, t>> \in Imports
         /\ \A t : t \in Range(ReferenceEdges(m)) <=> Edge(m, t)
<1>1. graph[m] \in [imports : Seq(Modules), exports : Seq(Modules)]
  BY GraphsAssumption
<1>2. ImportRefs(m) \in Seq(Modules) /\ ReferenceEdges(m) \in Seq(Modules)
  BY <1>1, ConcatProperties DEF ImportRefs, ReferenceEdges
<1>3. Range(ImportRefs(m)) \subseteq Modules /\ Range(ReferenceEdges(m)) \subseteq Modules
  BY <1>2, RangeOfSeq
<1> QED
  BY <1>2, <1>3 DEF Imports, References, Edge

(* An edge is between modules, and a module reaches itself, along edges and in *)
(* turn; what it reaches is in every set closed under edges.                   *)
LEMMA ReachFacts ==
  /\ \A m, t : Edge(m, t) => m \in Modules /\ t \in Modules
  /\ \A m \in Modules : Reaches(m, m)
  /\ \A m, t, u : Reaches(m, t) /\ Edge(t, u) => Reaches(m, u)
  /\ \A m, t, u : Reaches(m, t) /\ Reaches(t, u) => Reaches(m, u)
  /\ \A S \in SUBSET Modules : (\A m \in S, t \in Modules : Edge(m, t) => t \in S) =>
        \A m \in S : \A t : Reaches(m, t) => t \in S
<1>1. References \in SUBSET (Modules \X Modules)
  BY DEF References
<1>2. \A S \in SUBSET Modules : (\A m \in S, t \in Modules : Edge(m, t) => t \in S) => Closed(S, References)
  BY <1>1 DEF Closed, Edge
<1> QED
  BY <1>1, <1>2, FromFacts DEF Edge, Reaches

(* Nothing about paths changes while the graph stays.                          *)
LEMMA GraphSame ==
  ASSUME graph' = graph
  PROVE  /\ References' = References /\ Imports' = Imports
         /\ \A m, t : Edge(m, t)' <=> Edge(m, t)
         /\ \A m, t : Reaches(m, t)' <=> Reaches(m, t)
         /\ \A m : From(m, References)' = From(m, References) /\ From(m, Imports)' = From(m, Imports)
<1>1. References' = References /\ Imports' = Imports
  BY DEF References, Imports, ReferenceEdges, ImportRefs
<1>2. \A m, t : Edge(m, t)' <=> Edge(m, t)
  BY <1>1 DEF Edge
<1>3. \A m : From(m, References)' = From(m, References) /\ From(m, Imports)' = From(m, Imports)
  BY <1>1 DEF From, Closed
<1>4. \A m, t : Reaches(m, t)' <=> Reaches(m, t)
  BY <1>3 DEF Reaches
<1> QED
  BY <1>1, <1>2, <1>3, <1>4

-------------------------------------------------------------------------------
(* Sequences.                                                                  *)

LEMMA RangeAppend ==
  ASSUME NEW S, NEW s \in Seq(S), NEW x \in S
  PROVE  Range(Append(s, x)) = Range(s) \cup {x}
<1> DEFINE n == Len(s)
           r == Append(s, x)
<1>1. n \in Nat /\ DOMAIN s = 1 .. n /\ DOMAIN r = 1 .. n + 1
  BY AppendProperties, LenProperties
<1>2. (\A i \in 1 .. n : r[i] = s[i]) /\ r[n + 1] = x
  BY AppendProperties
<1> HIDE DEF n, r
<1>3. 1 .. n + 1 = (1 .. n) \cup {n + 1}
  BY <1>1
<1> QED
  BY <1>1, <1>2, <1>3 DEF Range, r

LEMMA RangeTail ==
  ASSUME NEW S, NEW s \in Seq(S), s # << >>
  PROVE  Head(s) \in S /\ Tail(s) \in Seq(S) /\ Range(s) = Range(Tail(s)) \cup {Head(s)}
<1> DEFINE n == Len(s)
           r == Tail(s)
           h == Head(s)
<1>1. n \in Nat /\ n # 0 /\ DOMAIN s = 1 .. n
  BY LenProperties, EmptySeq
<1>2. h \in S /\ r \in Seq(S) /\ Len(r) = n - 1 /\ h = s[1] /\ \A i \in 1 .. n - 1 : r[i] = s[i + 1]
  BY HeadTailProperties
<1>3. DOMAIN r = 1 .. n - 1
  BY <1>2, LenProperties
<1> HIDE DEF n, r, h
<1>4. ASSUME NEW x PROVE x \in Range(s) <=> x \in Range(r) \cup {h}
  <2>1. x \in Range(r) => x \in Range(s)
    <3> SUFFICES ASSUME NEW i \in 1 .. n - 1, x = r[i] PROVE x \in Range(s)
      BY <1>3 DEF Range
    <3>1. i + 1 \in 1 .. n /\ x = s[i + 1]
      BY <1>1, <1>2
    <3> QED
      BY <1>1, <3>1 DEF Range
  <2>2. h \in Range(s)
    BY <1>1, <1>2 DEF Range
  <2>3. x \in Range(s) => x \in Range(r) \cup {h}
    <3> SUFFICES ASSUME NEW i \in 1 .. n, x = s[i], i # 1 PROVE x \in Range(r)
      BY <1>1, <1>2 DEF Range
    <3> DEFINE k == i - 1
    <3>1. k \in 1 .. n - 1 /\ k + 1 = i
      BY <1>1
    <3> HIDE DEF k
    <3>2. x = r[k]
      BY <3>1, <1>2
    <3> QED
      BY <1>3, <3>1, <3>2 DEF Range
  <2> QED
    BY <2>1, <2>2, <2>3
<1>5. Range(s) = Range(r) \cup {h}
  BY <1>4
<1> QED
  BY <1>2, <1>5 DEF r, h

LEMMA RangeEmpty == Range(<< >>) = {}
BY DEF Range

(* A sequence without repeats stays one when it gets a new element.            *)
LEMMA NoRepeatsAppend ==
  ASSUME NEW S, NEW s \in Seq(S), NEW x \in S, NoRepeats(s), x \notin Range(s)
  PROVE  NoRepeats(Append(s, x))
<1> DEFINE n == Len(s)
           R == Range(s)
<1>1. n \in Nat /\ DOMAIN s = 1 .. n /\ Len(Append(s, x)) = n + 1
  BY LenProperties, AppendProperties
<1>2. Range(Append(s, x)) = R \cup {x}
  BY RangeAppend
<1>3. IsFiniteSet(R)
  <2>1. s \in [1 .. n -> R]
    BY <1>1, LenProperties DEF Range
  <2>2. s \in Surjection(1 .. n, R)
    BY <1>1, <2>1 DEF Surjection, Range
  <2>3. IsFiniteSet(1 .. n)
    BY <1>1, FS_Interval
  <2> HIDE DEF n, R
  <2> QED
    BY <2>2, <2>3, FS_Surjection
<1> HIDE DEF n, R
<1>4. Cardinality(R \cup {x}) = Cardinality(R) + 1
  BY <1>3, FS_AddElement DEF R
<1> QED
  BY <1>1, <1>2, <1>4 DEF NoRepeats, n, R

-------------------------------------------------------------------------------
(* Calls.                                                                      *)

Call == [module : Modules, edges : Seq(Modules)]

LEMMA TopFacts ==
  ASSUME calls \in Calls, calls # << >>, NEW n, n = Len(calls)
  PROVE  /\ n \in Nat /\ n # 0 /\ DOMAIN calls = 1 .. n
         /\ \A i \in 1 .. n : calls[i] \in Call
         /\ Top = calls[n] /\ Top \in Call
         /\ Callers \in Calls /\ DOMAIN Callers = 1 .. n - 1 /\ Len(Callers) = n - 1
         /\ \A i \in 1 .. n - 1 : Callers[i] = calls[i]
         /\ Callers = << >> <=> n = 1
<1>1. /\ n \in Nat /\ n # 0 /\ DOMAIN calls = 1 .. n
      /\ \A i \in 1 .. n : calls[i] \in Call
  BY EmptySeq, LenProperties, ElementOfSeq DEF Calls, Call
<1>2. Top = calls[n] /\ Top \in Call
  BY <1>1 DEF Top
<1>3. /\ Callers \in Calls /\ Len(Callers) = n - 1
      /\ \A i \in 1 .. n - 1 : Callers[i] = calls[i]
  <2>1. 1 \in Int /\ n - 1 \in Int /\ \A i \in 1 .. n - 1 : calls[i] \in Call
    BY <1>1
  <2> DEFINE r == SubSeq(calls, 1, n - 1)
  <2>2. /\ r \in Seq(Call)
        /\ Len(r) = IF 1 <= n - 1 THEN n - 1 - 1 + 1 ELSE 0
        /\ \A i \in 1 .. n - 1 - 1 + 1 : r[i] = calls[1 + i - 1]
    BY <2>1, SubSeqProperties
  <2>3. r = Callers
    BY DEF Callers
  <2> HIDE DEF r
  <2>4. Len(r) = n - 1
    BY <1>1, <2>2
  <2>5. ASSUME NEW i \in 1 .. n - 1 PROVE r[i] = calls[i]
    <3>1. i \in 1 .. n - 1 - 1 + 1 /\ 1 + i - 1 = i
      BY <1>1
    <3> QED
      BY <2>2, <3>1
  <2> QED
    BY <2>2, <2>3, <2>4, <2>5 DEF Calls, Call
<1>4. DOMAIN Callers = 1 .. n - 1
  BY <1>3, LenProperties DEF Calls
<1>5. Callers = << >> <=> n = 1
  <2>1. Callers = << >> => Len(Callers) = 0
    BY EmptySeq
  <2>2. Callers # << >> => Len(Callers) # 0
    BY <1>3, EmptySeq DEF Calls
  <2> QED
    BY <1>1, <1>3, <2>1, <2>2
<1> QED
  BY <1>1, <1>2, <1>3, <1>4, <1>5

(* The calls after the top one has taken its next reference t.                 *)
Below == Append(Callers, [Top EXCEPT !.edges = Tail(@)])

Trimmed(below, t) ==
  /\ below \in Calls /\ DOMAIN below = DOMAIN calls
  /\ \A i \in DOMAIN calls :
       /\ below[i].module = calls[i].module
       /\ Range(below[i].edges) \subseteq Range(calls[i].edges)
       /\ \A x \in Range(calls[i].edges) : x \in Range(below[i].edges) \/ (i = Len(calls) /\ x = t)

LEMMA BelowFacts ==
  ASSUME calls \in Calls, calls # << >>, Top.edges # << >>
  PROVE  /\ Trimmed(Below, Head(Top.edges)) /\ Head(Top.edges) \in Modules
         /\ Head(Top.edges) \in Range(calls[Len(calls)].edges)
<1> DEFINE n == Len(calls)
           t == Head(Top.edges)
           e == Top.edges
           c == [Top EXCEPT !.edges = Tail(@)]
<1>1. /\ n \in Nat /\ n # 0 /\ DOMAIN calls = 1 .. n
      /\ \A i \in 1 .. n : calls[i] \in Call
      /\ Top = calls[n] /\ Top \in Call
      /\ Callers \in Seq(Call) /\ Len(Callers) = n - 1
      /\ \A i \in 1 .. n - 1 : Callers[i] = calls[i]
  BY TopFacts DEF Calls, Call
<1>2. e \in Seq(Modules)
  BY <1>1 DEF Call
<1>3. t \in Modules /\ Tail(e) \in Seq(Modules) /\ Range(e) = Range(Tail(e)) \cup {t}
  BY <1>2, RangeTail
<1>4. c \in Call /\ c.module = Top.module /\ c.edges = Tail(e)
  BY <1>1, <1>3 DEF Call
<1> HIDE DEF c, n
<1>5. /\ Below \in Seq(Call) /\ Len(Below) = n - 1 + 1
      /\ \A i \in 1 .. n - 1 : Below[i] = Callers[i]
      /\ Below[n - 1 + 1] = c
  BY <1>1, <1>4, AppendProperties DEF Below, c
<1>6. n - 1 + 1 = n
  BY <1>1
<1>7. DOMAIN Below = 1 .. n
  BY <1>5, <1>6, LenProperties
<1>8. ASSUME NEW i \in 1 .. n
      PROVE  /\ Below[i].module = calls[i].module
             /\ Range(Below[i].edges) \subseteq Range(calls[i].edges)
             /\ \A x \in Range(calls[i].edges) : x \in Range(Below[i].edges) \/ (i = n /\ x = t)
  <2>1. CASE i = n
    <3>1. Below[i].module = calls[i].module /\ Below[i].edges = Tail(e) /\ calls[i].edges = e
      BY <1>1, <1>4, <1>5, <1>6, <2>1
    <3> QED
      BY <1>3, <2>1, <3>1
  <2>2. CASE i # n
    <3>1. i \in 1 .. n - 1
      BY <1>1, <2>2
    <3>2. Below[i] = calls[i]
      BY <1>1, <1>5, <3>1
    <3> QED
      BY <3>2
  <2> QED
    BY <2>1, <2>2
<1>9. t \in Range(calls[n].edges)
  BY <1>1, <1>3
<1> QED
  BY <1>1, <1>3, <1>5, <1>7, <1>8, <1>9 DEF Trimmed, Calls, Call, n

-------------------------------------------------------------------------------
(* The component search, step by step.                                         *)

(* An interval from 1 says where it ends.                                      *)
LEMMA SameEnd ==
  ASSUME NEW a \in Nat, NEW b \in Nat, 1 .. a = 1 .. b
  PROVE  a = b
<1>1. a <= b
  <2>1. CASE a = 0
    BY <2>1
  <2>2. CASE a # 0
    <3>1. a \in 1 .. a
      BY <2>2
    <3>2. a \in 1 .. b
      BY <3>1
    <3> QED
      BY <3>2
  <2> QED
    BY <2>1, <2>2
<1>2. b <= a
  <2>1. CASE b = 0
    BY <2>1
  <2>2. CASE b # 0
    <3>1. b \in 1 .. b
      BY <2>2
    <3>2. b \in 1 .. a
      BY <3>1
    <3> QED
      BY <3>2
  <2> QED
    BY <2>1, <2>2
<1> QED
  BY <1>1, <1>2

(* The values of Types as facts about elements.                                *)
LEMMA TypeFacts ==
  ASSUME Types
  PROVE  /\ Range(stack) \subseteq Modules /\ Range(modules) \subseteq Modules
         /\ NextIndex \in Nat
         /\ \A m \in DOMAIN index : m \in Modules /\ index[m] \in Nat /\ low[m] \in Nat
         /\ Len(calls) \in Nat /\ DOMAIN calls = 1 .. Len(calls)
         /\ \A i \in DOMAIN calls : calls[i] \in Call /\ calls[i].module \in Modules /\ calls[i].edges \in Seq(Modules)
         /\ Done \subseteq Modules
<1>1. Range(stack) \subseteq Modules /\ Range(modules) \subseteq Modules
  BY RangeOfSeq DEF Types
<1>2. NextIndex \in Nat
  BY FS_CardinalityType DEF Types, NextIndex
<1>3. \A m \in DOMAIN index : m \in Modules /\ index[m] \in Nat /\ low[m] \in Nat
  BY DEF Types
<1>4. calls \in Seq(Call)
  BY DEF Types, Calls, Call
<1>5. Len(calls) \in Nat /\ DOMAIN calls = 1 .. Len(calls) /\ \A i \in 1 .. Len(calls) : calls[i] \in Call
  BY <1>4, LenProperties, ElementOfSeq
<1>6. Range(components) \subseteq SUBSET Modules
  BY RangeOfSeq DEF Types
<1>7. Done \subseteq Modules
  BY <1>6 DEF Done
<1> QED
  BY <1>1, <1>2, <1>3, <1>5, <1>7 DEF Call

(* While modules are searched, the active calls are the calls; what is on the  *)
(* stack has an index.                                                         *)
LEMMA SearchFacts ==
  ASSUME Types, SearchInv, phase = "scc"
  PROVE  /\ Active = calls /\ \A i : Module(i) = calls[i].module
         /\ Range(stack) \subseteq DOMAIN index /\ Done \subseteq DOMAIN index
         /\ \A i \in DOMAIN calls : calls[i].module \in Range(stack)
         /\ \A m \in Range(stack) : index[m] \in Nat /\ low[m] \in Nat /\ low[m] <= index[m]
<1>1. Active = calls /\ \A i : Module(i) = calls[i].module
  BY DEF Active, Module
<1>2. Range(stack) \subseteq DOMAIN index /\ Done \subseteq DOMAIN index
  BY DEF SearchInv, OrderInv
<1>3. \A i \in DOMAIN calls : calls[i].module \in Range(stack)
  BY <1>1 DEF SearchInv, OrderInv
<1>4. ASSUME NEW m \in Range(stack) PROVE index[m] \in Nat /\ low[m] \in Nat /\ low[m] <= index[m]
  <2>1. index[m] \in Nat /\ low[m] \in Nat
    BY <1>2, TypeFacts
  <2>2. Linked(m)
    BY DEF SearchInv, LinkInv
  <2> QED
    BY <2>1, <2>2 DEF Linked
<1> QED
  BY <1>1, <1>2, <1>3, <1>4

(* A step of the search keeps the types of what it changes.                    *)
SearchTypes ==
  /\ calls \in Calls /\ stack \in Seq(Modules)
  /\ IsFiniteSet(DOMAIN index) /\ DOMAIN index \subseteq Modules /\ DOMAIN low = DOMAIN index
  /\ index \in [DOMAIN index -> Nat] /\ low \in [DOMAIN index -> Nat]
  /\ components \in Seq(SUBSET Modules)

(* A module is entered from a call that reaches it, or from none.              *)
LEMMA EnterStep ==
  ASSUME Types, SearchInv, phase = "scc", phase' = "scc", graph' = graph, components' = components,
         NEW m \in Modules, m \notin DOMAIN index, NEW below, Trimmed(below, m), Enter(m, below),
         \A i \in DOMAIN calls : Reaches(calls[i].module, m)
  PROVE  SearchTypes' /\ SearchInv'
<1>0. PICK n, k : n = Len(calls) /\ k = NextIndex
  OBVIOUS
<1> DEFINE c == [module |-> m, edges |-> ReferenceEdges(m)]
<1>1. /\ Active = calls /\ \A i : Module(i) = calls[i].module
      /\ Range(stack) \subseteq DOMAIN index /\ Done \subseteq DOMAIN index
      /\ \A i \in DOMAIN calls : calls[i].module \in Range(stack)
      /\ \A x \in Range(stack) : index[x] \in Nat /\ low[x] \in Nat /\ low[x] <= index[x]
  BY SearchFacts
<1>2. /\ k \in Nat /\ n \in Nat /\ DOMAIN calls = 1 .. n
      /\ \A x \in DOMAIN index : x \in Modules /\ index[x] \in Nat /\ low[x] \in Nat
  BY <1>0, TypeFacts
<1>3. c \in Call
  BY RefsFacts DEF Call, Types
<1>4. /\ calls' \in Calls /\ Len(calls') = n + 1 /\ DOMAIN calls' = 1 .. n + 1
      /\ \A i \in 1 .. n : calls'[i] = below[i]
      /\ calls'[n + 1] = c
  <2>1. below \in Seq(Call) /\ calls' = Append(below, c)
    BY DEF Trimmed, Calls, Call, Enter
  <2>2. Len(below) \in Nat /\ DOMAIN below = 1 .. Len(below) /\ DOMAIN below = 1 .. n
    BY <1>2, <2>1, LenProperties DEF Trimmed
  <2>3. Len(below) = n
    BY <1>2, <2>2, SameEnd
  <2> HIDE DEF c
  <2>4. /\ Append(below, c) \in Seq(Call) /\ Len(Append(below, c)) = n + 1
        /\ \A i \in 1 .. n : Append(below, c)[i] = below[i]
        /\ Append(below, c)[n + 1] = c
    BY <1>3, <2>1, <2>3, AppendProperties
  <2> QED
    BY <2>1, <2>4, LenProperties DEF Calls, Call
<1>5. /\ DOMAIN index' = DOMAIN index \cup {m} /\ DOMAIN low' = DOMAIN index'
      /\ \A x \in DOMAIN index : index'[x] = index[x] /\ low'[x] = low[x]
      /\ index'[m] = k /\ low'[m] = k
  BY <1>0 DEF Enter, With, Types
<1>6. /\ index' \in [DOMAIN index' -> Nat] /\ low' \in [DOMAIN index' -> Nat]
  <2>1. index' = [x \in DOMAIN index' |-> index'[x]] /\ low' = [x \in DOMAIN index' |-> low'[x]]
    BY DEF Enter, With, Types
  <2>2. \A x \in DOMAIN index' : index'[x] \in Nat /\ low'[x] \in Nat
    BY <1>2, <1>5
  <2> QED
    BY <2>1, <2>2
<1>7. IsFiniteSet(DOMAIN index') /\ NextIndex' = k + 1
  <2>1. IsFiniteSet(DOMAIN index)
    BY DEF Types
  <2> DEFINE D == DOMAIN index
  <2> HIDE DEF D
  <2>2. IsFiniteSet(D \cup {m}) /\ Cardinality(D \cup {m}) = Cardinality(D) + 1
    BY <2>1, FS_AddElement DEF D
  <2> QED
    BY <1>0, <1>5, <2>2 DEF D, NextIndex
<1>8. /\ stack' \in Seq(Modules) /\ Range(stack') = Range(stack) \cup {m}
      /\ Len(stack) \in Nat /\ DOMAIN stack = 1 .. Len(stack) /\ DOMAIN stack' = 1 .. Len(stack) + 1
      /\ \A i \in 1 .. Len(stack) : stack'[i] = stack[i]
      /\ stack'[Len(stack) + 1] = m
  <2>1. stack \in Seq(Modules) /\ stack' = Append(stack, m)
    BY DEF Types, Enter
  <2> QED
    BY <2>1, RangeAppend, AppendProperties, LenProperties
<1>9. SearchTypes'
  <2>1. components' \in Seq(SUBSET Modules)
    BY DEF Types
  <2> QED
    BY <1>2, <1>4, <1>5, <1>6, <1>7, <1>8, <2>1 DEF SearchTypes
<1>10. /\ Active' = calls' /\ \A i : Module(i)' = calls'[i].module
       /\ Done' = Done
  BY DEF Active, Module, Done
<1>11. /\ \A i \in 1 .. n : Module(i)' = calls[i].module
       /\ Module(n + 1)' = m
       /\ Active'[n + 1].edges = ReferenceEdges(m)
       /\ \A i \in 1 .. n : /\ Range(Active'[i].edges) \subseteq Range(calls[i].edges)
                            /\ \A x \in Range(calls[i].edges) : x \in Range(Active'[i].edges) \/ x = m
  <2>1. \A i \in 1 .. n : Active'[i] = below[i] /\ Module(i)' = below[i].module
    BY <1>2, <1>4, <1>10
  <2>2. n + 1 \in 1 .. n + 1
    BY <1>2
  <2>3. Module(n + 1)' = m /\ Active'[n + 1].edges = ReferenceEdges(m)
    BY <1>4, <1>10, <2>2
  <2>4. ASSUME NEW i \in 1 .. n
        PROVE  /\ below[i].module = calls[i].module
               /\ Range(below[i].edges) \subseteq Range(calls[i].edges)
               /\ \A x \in Range(calls[i].edges) : x \in Range(below[i].edges) \/ x = m
    BY <1>2, <2>4 DEF Trimmed
  <2> QED
    BY <2>1, <2>3, <2>4
<1>12. /\ \A x \in DOMAIN index : index[x] < k
       /\ \A x \in Range(stack) : x # m /\ index'[x] = index[x] /\ low'[x] = low[x]
  BY <1>0, <1>1, <1>5 DEF SearchInv, OrderInv
<1>13. /\ \A x, t : Edge(x, t)' <=> Edge(x, t)
       /\ \A x, t : Reaches(x, t)' <=> Reaches(x, t)
  BY GraphSame
<1>14. /\ Reaches(m, m)
       /\ \A t : t \in Range(ReferenceEdges(m)) <=> Edge(m, t)
  BY ReachFacts, RefsFacts DEF Types
<1> HIDE DEF c
<1>15. DOMAIN Active' = 1 .. n + 1 /\ 1 .. n + 1 = (1 .. n) \cup {n + 1} /\ DOMAIN Active = 1 .. n
  BY <1>1, <1>2, <1>4, <1>10
<1>16. OrderInv'
  <2>1. Range(stack') \cap Done' = {} /\ Range(stack') \cup Done' = DOMAIN index'
    BY <1>1, <1>5, <1>8, <1>10 DEF SearchInv, OrderInv
  <2>2. \A x \in DOMAIN index' : index'[x] < NextIndex'
    <3> SUFFICES ASSUME NEW x \in DOMAIN index' PROVE index'[x] < k + 1
      BY <1>7
    <3>1. CASE x = m
      BY <1>2, <1>5, <3>1
    <3>2. CASE x # m
      <4>1. x \in DOMAIN index /\ index'[x] = index[x]
        BY <1>5, <3>2
      <4> QED
        BY <1>2, <1>12, <4>1
    <3> QED
      BY <3>1, <3>2
  <2>3. ASSUME NEW i \in DOMAIN stack', NEW j \in DOMAIN stack', i < j
        PROVE  index'[stack'[i]] < index'[stack'[j]]
    <3>1. i \in 1 .. Len(stack) /\ stack'[i] = stack[i] /\ stack[i] \in Range(stack)
      BY <1>8, <2>3 DEF Range
    <3>2. CASE j \in 1 .. Len(stack)
      <4>1. stack'[j] = stack[j] /\ stack[j] \in Range(stack)
        BY <1>8, <3>2 DEF Range
      <4>2. index[stack[i]] < index[stack[j]]
        BY <1>8, <3>1, <3>2, <2>3 DEF SearchInv, OrderInv
      <4> QED
        BY <1>12, <3>1, <4>1, <4>2
    <3>3. CASE j = Len(stack) + 1
      BY <1>1, <1>5, <1>8, <1>12, <3>1, <3>3
    <3> QED
      BY <1>8, <3>2, <3>3
  <2>4. \A i \in DOMAIN Active' : Module(i)' \in Range(stack')
    BY <1>1, <1>2, <1>8, <1>11, <1>15
  <2>5. ASSUME NEW i \in DOMAIN Active', NEW j \in DOMAIN Active', i < j
        PROVE  index'[Module(i)'] < index'[Module(j)']
    <3>1. i \in 1 .. n
      BY <1>2, <1>15, <2>5
    <3>2. Module(i)' = calls[i].module /\ calls[i].module \in Range(stack)
      BY <1>1, <1>2, <1>11, <3>1
    <3>3. CASE j \in 1 .. n
      <4>1. Module(j)' = calls[j].module /\ calls[j].module \in Range(stack)
        BY <1>1, <1>2, <1>11, <3>3
      <4>2. index[calls[i].module] < index[calls[j].module]
        BY <1>1, <1>15, <3>1, <3>3, <2>5 DEF SearchInv, OrderInv
      <4> QED
        BY <1>12, <3>2, <4>1, <4>2
    <3>4. CASE j = n + 1
      BY <1>1, <1>5, <1>11, <1>12, <3>2, <3>4
    <3> QED
      BY <1>15, <3>3, <3>4
  <2> QED
    BY <2>1, <2>2, <2>3, <2>4, <2>5 DEF OrderInv
<1>17. StackInv'
  <2>1. ASSUME NEW i \in DOMAIN Active', NEW x \in Range(stack'), index'[Module(i)'] <= index'[x]
        PROVE  Reaches(Module(i)', x)
    <3>1. CASE i \in 1 .. n /\ x = m
      BY <1>2, <1>11, <3>1
    <3>2. CASE i \in 1 .. n /\ x # m
      <4>1. x \in Range(stack) /\ Module(i)' = calls[i].module /\ calls[i].module \in Range(stack)
        BY <1>1, <1>2, <1>8, <1>11, <3>2
      <4>2. index[calls[i].module] <= index[x]
        BY <1>12, <2>1, <4>1
      <4> QED
        BY <1>1, <1>2, <3>2, <4>1, <4>2 DEF SearchInv, StackInv
    <3>3. CASE i = n + 1
      <4>1. x = m
        <5> SUFFICES ASSUME x # m PROVE FALSE
          OBVIOUS
        <5>1. x \in Range(stack) /\ index'[x] = index[x] /\ index[x] < k /\ index[x] \in Nat
          BY <1>1, <1>8, <1>12
        <5>2. index'[Module(i)'] = k
          BY <1>5, <1>11, <3>3
        <5> QED
          BY <1>2, <2>1, <5>1, <5>2
      <4> QED
        BY <1>11, <1>14, <3>3, <4>1
    <3> QED
      BY <1>15, <3>1, <3>2, <3>3
  <2>2. ASSUME NEW x \in Range(stack')
        PROVE  \E i \in DOMAIN Active' : index'[Module(i)'] <= index'[x] /\ Reaches(x, Module(i)')
    <3>1. CASE x = m
      <4>1. n + 1 \in DOMAIN Active' /\ Module(n + 1)' = m /\ index'[m] \in Nat
        BY <1>2, <1>5, <1>11, <1>15
      <4> QED
        BY <1>14, <3>1, <4>1
    <3>2. CASE x # m
      <4>1. x \in Range(stack)
        BY <1>8, <3>2
      <4>2. PICK i \in DOMAIN Active : index[Module(i)] <= index[x] /\ Reaches(x, Module(i))
        BY <4>1 DEF SearchInv, StackInv
      <4>3. i \in 1 .. n /\ Module(i) = calls[i].module /\ calls[i].module \in Range(stack)
        BY <1>1, <1>2, <4>2
      <4> QED
        BY <1>11, <1>12, <1>15, <4>1, <4>2, <4>3
    <3> QED
      BY <3>1, <3>2
  <2> QED
    BY <1>13, <2>1, <2>2 DEF StackInv
<1>18. FrontierInv'
  <2>1. ASSUME NEW i \in DOMAIN Active', NEW t \in Range(Active'[i].edges) PROVE Edge(Module(i)', t)
    <3>1. CASE i \in 1 .. n
      <4>1. t \in Range(calls[i].edges) /\ Module(i)' = calls[i].module /\ Module(i) = calls[i].module
        BY <1>1, <1>11, <2>1, <3>1
      <4>2. i \in DOMAIN Active /\ t \in Range(Active[i].edges)
        BY <1>1, <1>2, <3>1, <4>1
      <4>3. Edge(Module(i), t)
        BY <4>2 DEF SearchInv, FrontierInv
      <4> QED
        BY <4>1, <4>3
    <3>2. CASE i = n + 1
      BY <1>11, <1>14, <3>2
    <3> QED
      BY <1>15, <3>1, <3>2
  <2>2. ASSUME NEW x \in DOMAIN index', NEW t \in Modules, Edge(x, t), t \notin DOMAIN index'
        PROVE  \E i \in DOMAIN Active' : Module(i)' = x /\ t \in Range(Active'[i].edges)
    <3>1. CASE x = m
      BY <1>11, <1>14, <1>15, <2>2, <3>1
    <3>2. CASE x # m
      <4>1. x \in DOMAIN index /\ t \notin DOMAIN index /\ t # m
        BY <1>5, <2>2, <3>2
      <4>2. PICK i \in DOMAIN Active : Module(i) = x /\ t \in Range(Active[i].edges)
        BY <2>2, <4>1 DEF SearchInv, FrontierInv
      <4> QED
        BY <1>1, <1>11, <1>15, <4>1, <4>2
    <3> QED
      BY <3>1, <3>2
  <2>3. \A x \in Done', t \in Modules : Edge(x, t) => t \in Done'
    BY <1>10 DEF SearchInv, FrontierInv
  <2> QED
    BY <1>13, <2>1, <2>2, <2>3 DEF FrontierInv
<1>19. LinkInv'
  <2>1. ASSUME NEW x \in Range(stack') PROVE Linked(x)'
    <3>1. SUFFICES \E t \in Range(stack') : low'[x] = index'[t] /\ index'[t] <= index'[x] /\ Reaches(x, t)
      BY <1>13 DEF Linked
    <3>2. CASE x = m
      <4>1. m \in Range(stack') /\ index'[m] \in Nat
        BY <1>2, <1>5, <1>8
      <4> QED
        BY <1>5, <1>14, <3>2, <4>1
    <3>3. CASE x # m
      <4>1. x \in Range(stack)
        BY <1>8, <3>3
      <4>2. PICK t \in Range(stack) : low[x] = index[t] /\ index[t] <= index[x] /\ Reaches(x, t)
        BY <4>1 DEF SearchInv, LinkInv, Linked
      <4> QED
        BY <1>8, <1>12, <4>1, <4>2
    <3> QED
      BY <3>2, <3>3
  <2>2. ASSUME NEW i \in DOMAIN Active', NEW x \in Range(stack'), NEW t \in Range(stack'),
               Edge(x, t), Between(i, x)'
        PROVE  Accounted(i, x, t)'
    <3>1. /\ index'[Module(i)'] <= index'[x]
          /\ \A j \in DOMAIN Active' : i < j => index'[x] < index'[Module(j)']
      BY <2>2 DEF Between
    <3>2. SUFFICES (x = Module(i)' /\ t \in Range(Active'[i].edges)) \/ low'[Module(i)'] <= index'[t]
      BY DEF Accounted
    <3>3. CASE i = n + 1
      <4>1. x = m
        <5> SUFFICES ASSUME x # m PROVE FALSE
          OBVIOUS
        <5>1. x \in Range(stack) /\ index'[x] = index[x] /\ index[x] < k /\ index[x] \in Nat
          BY <1>1, <1>8, <1>12
        <5>2. index'[Module(i)'] = k
          BY <1>5, <1>11, <3>3
        <5> QED
          BY <1>2, <3>1, <5>1, <5>2
      <4> QED
        BY <1>11, <1>14, <2>2, <3>3, <4>1
    <3>4. CASE i \in 1 .. n
      <4> DEFINE g == calls[i].module
      <4>1. Module(i)' = g /\ Module(i) = g /\ g \in Range(stack) /\ index'[g] = index[g] /\ low'[g] = low[g]
        BY <1>1, <1>2, <1>11, <1>12, <3>4
      <4> HIDE DEF g
      <4>2. x # m /\ x \in Range(stack)
        <5>1. index'[x] < k
          BY <1>2, <1>5, <1>11, <1>15, <3>1, <3>4
        <5>2. x # m
          BY <1>2, <1>5, <5>1
        <5> QED
          BY <1>8, <5>2
      <4>3. CASE t = m
        BY <1>1, <1>2, <1>5, <1>12, <4>1, <4>3
      <4>4. CASE t # m
        <5>1. t \in Range(stack)
          BY <1>8, <4>4
        <5>2. Between(i, x)
          <6>1. index[Module(i)] <= index[x]
            BY <1>12, <3>1, <4>1, <4>2
          <6>2. ASSUME NEW j \in DOMAIN Active, i < j PROVE index[x] < index[Module(j)]
            <7>1. j \in 1 .. n /\ Module(j) = calls[j].module /\ Module(j)' = calls[j].module /\ calls[j].module \in Range(stack)
              BY <1>1, <1>2, <1>11, <6>2
            <7>2. index'[x] < index'[Module(j)']
              BY <1>15, <3>1, <6>2, <7>1
            <7> QED
              BY <1>12, <4>2, <7>1, <7>2
          <6> QED
            BY <6>1, <6>2 DEF Between
        <5>3. Accounted(i, x, t)
          BY <1>15, <2>2, <3>4, <4>2, <5>1, <5>2 DEF SearchInv, LinkInv
        <5>4. (x = g /\ t \in Range(calls[i].edges)) \/ low[g] <= index[t]
          BY <1>1, <4>1, <5>3 DEF Accounted
        <5> QED
          BY <1>11, <1>12, <3>4, <4>1, <4>4, <5>1, <5>4
      <4> QED
        BY <4>3, <4>4
    <3> QED
      BY <1>15, <3>3, <3>4
  <2> QED
    BY <1>13, <2>1, <2>2 DEF LinkInv
<1>20. ComponentsAreCycles'
  BY <1>13 DEF SearchInv, ComponentsAreCycles
<1> QED
  BY <1>9, <1>16, <1>17, <1>18, <1>19, <1>20 DEF SearchInv


(* A reference to a module that has an index lowers the link, if that module   *)
(* is on the stack.                                                            *)
LEMMA LinkStep ==
  ASSUME Types, SearchInv, phase = "scc", phase' = "scc", graph' = graph, components' = components,
         stack' = stack, index' = index, calls # << >>, Top.edges # << >>, Head(Top.edges) \in DOMAIN index,
         calls' = Below,
         low' = IF Head(Top.edges) \in Range(stack) THEN Lowered(Top.module, index[Head(Top.edges)]) ELSE low
  PROVE  SearchTypes' /\ SearchInv'
<1>0. PICK n, t, m : n = Len(calls) /\ t = Head(Top.edges) /\ m = Top.module
  OBVIOUS
<1>1. /\ Active = calls /\ \A i : Module(i) = calls[i].module
      /\ Range(stack) \subseteq DOMAIN index
      /\ \A i \in DOMAIN calls : calls[i].module \in Range(stack)
      /\ \A x \in Range(stack) : index[x] \in Nat /\ low[x] \in Nat /\ low[x] <= index[x]
  BY SearchFacts
<1>2. n \in Nat /\ n # 0 /\ DOMAIN calls = 1 .. n /\ n \in DOMAIN calls /\ m = calls[n].module /\ m \in Range(stack)
  BY <1>0, <1>1, TopFacts DEF Types
<1>3. Trimmed(Below, t) /\ t \in Range(calls[n].edges) /\ t \in Modules
  BY <1>0, BelowFacts DEF Types
<1>4. /\ calls' \in Calls /\ DOMAIN calls' = DOMAIN calls
      /\ \A i \in DOMAIN calls :
           /\ calls'[i].module = calls[i].module
           /\ Range(calls'[i].edges) \subseteq Range(calls[i].edges)
           /\ \A x \in Range(calls[i].edges) : x \in Range(calls'[i].edges) \/ (i = n /\ x = t)
  BY <1>0, <1>3 DEF Trimmed
<1>5. /\ Active' = calls' /\ DOMAIN Active' = DOMAIN Active
      /\ \A i \in DOMAIN Active : /\ Module(i)' = Module(i) /\ Module(i) \in Range(stack)
                                 /\ Range(Active'[i].edges) \subseteq Range(Active[i].edges)
                                 /\ \A x \in Range(Active[i].edges) : x \in Range(Active'[i].edges) \/ (i = n /\ x = t)
      /\ Done' = Done
  BY <1>1, <1>4 DEF Active, Module, Done
<1>6. /\ DOMAIN low = DOMAIN index /\ low \in [DOMAIN index -> Nat] /\ index \in [DOMAIN index -> Nat]
      /\ m \in DOMAIN index /\ index[t] \in Nat
  BY <1>0, <1>1, <1>2 DEF Types
<1>7. /\ low' \in [DOMAIN index -> Nat]
      /\ \A x \in DOMAIN index : x # m => low'[x] = low[x]
      /\ low'[m] <= low[m] /\ (low'[m] = low[m] \/ (t \in Range(stack) /\ low'[m] = index[t]))
      /\ t \in Range(stack) => low'[m] <= index[t]
  <2>1. CASE t \in Range(stack)
    <3>1. low' = [low EXCEPT ![m] = Least(@, index[t])]
      BY <1>0, <2>1 DEF Lowered
    <3>2. low[m] \in Nat /\ Least(low[m], index[t]) \in {low[m], index[t]} /\ Least(low[m], index[t]) <= low[m] /\ Least(low[m], index[t]) <= index[t]
      BY <1>6 DEF Least
    <3> QED
      BY <1>6, <2>1, <3>1, <3>2
  <2>2. CASE t \notin Range(stack)
    <3>1. low' = low /\ low[m] \in Nat
      BY <1>0, <1>6, <2>2
    <3> QED
      BY <1>6, <2>2, <3>1
  <2> QED
    BY <2>1, <2>2
<1>8. SearchTypes'
  BY <1>4, <1>6, <1>7 DEF SearchTypes, Types
<1>9. /\ \A x, u : Edge(x, u)' <=> Edge(x, u)
      /\ \A x, u : Reaches(x, u)' <=> Reaches(x, u)
  BY GraphSame
<1>10. OrderInv'
  <2>1. NextIndex' = NextIndex
    BY DEF NextIndex
  <2> QED
    BY <1>5, <2>1 DEF SearchInv, OrderInv
<1>11. StackInv'
  BY <1>5, <1>9 DEF SearchInv, StackInv
<1>12. Edge(m, t) /\ Reaches(m, t)
  <2>1. Edge(m, t)
    BY <1>1, <1>2, <1>3 DEF SearchInv, FrontierInv
  <2> QED
    BY <2>1, ReachFacts
<1>13. FrontierInv'
  <2>1. \A i \in DOMAIN Active' : \A u \in Range(Active'[i].edges) : Edge(Module(i)', u)
    BY <1>5 DEF SearchInv, FrontierInv
  <2>2. ASSUME NEW x \in DOMAIN index, NEW u \in Modules, Edge(x, u), u \notin DOMAIN index
        PROVE  \E i \in DOMAIN Active' : Module(i)' = x /\ u \in Range(Active'[i].edges)
    <3>1. PICK i \in DOMAIN Active : Module(i) = x /\ u \in Range(Active[i].edges)
      BY <2>2 DEF SearchInv, FrontierInv
    <3>2. u # t
      BY <1>0, <2>2
    <3> QED
      BY <1>5, <3>1, <3>2
  <2>3. \A x \in Done', u \in Modules : Edge(x, u) => u \in Done'
    BY <1>5 DEF SearchInv, FrontierInv
  <2> QED
    BY <1>9, <2>1, <2>2, <2>3 DEF FrontierInv
<1>14. LinkInv'
  <2>1. ASSUME NEW x \in Range(stack) PROVE Linked(x)'
    <3>1. SUFFICES \E u \in Range(stack) : low'[x] = index[u] /\ index[u] <= index[x] /\ Reaches(x, u)
      BY <1>9 DEF Linked
    <3>2. PICK u \in Range(stack) : low[x] = index[u] /\ index[u] <= index[x] /\ Reaches(x, u)
      BY <2>1 DEF SearchInv, LinkInv, Linked
    <3>3. CASE low'[x] = low[x]
      BY <3>2, <3>3
    <3>4. CASE low'[x] # low[x]
      <4>1. x = m /\ t \in Range(stack) /\ low'[x] = index[t]
        BY <1>1, <1>7, <3>4
      <4>2. index[t] <= index[x]
        BY <1>1, <1>6, <1>7, <2>1, <4>1
      <4> QED
        BY <1>12, <4>1, <4>2
    <3> QED
      BY <3>3, <3>4
  <2>2. ASSUME NEW i \in DOMAIN Active, NEW x \in Range(stack), NEW u \in Range(stack),
               Edge(x, u), Between(i, x)'
        PROVE  Accounted(i, x, u)'
    <3>1. Between(i, x)
      BY <1>5, <2>2 DEF Between
    <3>2. (x = Module(i) /\ u \in Range(Active[i].edges)) \/ low[Module(i)] <= index[u]
      BY <2>2, <3>1 DEF SearchInv, LinkInv, Accounted
    <3>3. SUFFICES (x = Module(i) /\ u \in Range(Active'[i].edges)) \/ low'[Module(i)] <= index[u]
      BY <1>5 DEF Accounted
    <3> DEFINE g == Module(i)
    <3>4. /\ g \in Range(stack) /\ g \in DOMAIN index
          /\ low'[g] \in Nat /\ low[g] \in Nat /\ index[u] \in Nat
      BY <1>1, <1>5, <1>7
    <3>5. i = n => g = m
      BY <1>1, <1>2
    <3> HIDE DEF g
    <3>6. low'[g] <= low[g]
      BY <1>7, <3>4
    <3>7. CASE low[g] <= index[u]
      BY <3>4, <3>6, <3>7 DEF g
    <3>8. CASE x = g /\ u \in Range(Active[i].edges)
      BY <1>5, <1>7, <3>4, <3>5, <3>8 DEF g
    <3> QED
      BY <3>2, <3>7, <3>8 DEF g
  <2> QED
    BY <1>5, <1>9, <2>1, <2>2 DEF LinkInv
<1>15. ComponentsAreCycles'
  BY <1>9 DEF SearchInv, ComponentsAreCycles
<1> QED
  BY <1>8, <1>10, <1>11, <1>13, <1>14, <1>15 DEF SearchInv

(* A module on the stack cuts it in two: below it the lesser indexes, from it  *)
(* on the others.                                                              *)
LEMMA SplitFacts ==
  ASSUME Types, OrderInv, NEW m \in Range(stack),
         NEW from \in DOMAIN stack, stack[from] = m
  PROVE  /\ SubSeq(stack, 1, from - 1) \in Seq(Modules)
         /\ \A i \in DOMAIN SubSeq(stack, 1, from - 1) :
              i \in DOMAIN stack /\ SubSeq(stack, 1, from - 1)[i] = stack[i]
         /\ Range(SubSeq(stack, 1, from - 1)) = {x \in Range(stack) : index[x] < index[m]}
         /\ Range(SubSeq(stack, from, Len(stack))) = {x \in Range(stack) : index[m] <= index[x]}
<1>1. from \in DOMAIN stack /\ stack[from] = m
  OBVIOUS
<1>2. PICK h : h = Len(stack)
  OBVIOUS
<1>3. stack \in Seq(Modules) /\ h \in Nat /\ DOMAIN stack = 1 .. h /\ \A i \in 1 .. h : stack[i] \in Modules
  BY <1>2, LenProperties, ElementOfSeq DEF Types
<1>4. from \in 1 .. h
  BY <1>1, <1>3
<1>5. \A i \in 1 .. h : index[stack[i]] \in Nat
  <2>1. \A i \in 1 .. h : stack[i] \in DOMAIN index
    BY <1>3 DEF OrderInv, Range
  <2> QED
    BY <2>1 DEF Types
<1>6. \A i, j \in 1 .. h : i < j => index[stack[i]] < index[stack[j]]
  BY <1>3 DEF OrderInv
<1> DEFINE a == SubSeq(stack, 1, from - 1)
           b == SubSeq(stack, from, h)
<1>7. /\ a \in Seq(Modules) /\ DOMAIN a = 1 .. from - 1
      /\ \A i \in 1 .. from - 1 : a[i] = stack[i]
  <2>1. 1 \in Int /\ from - 1 \in Int /\ \A i \in 1 .. from - 1 : stack[i] \in Modules
    <3>1. \A i \in 1 .. from - 1 : i \in 1 .. h
      BY <1>3, <1>4
    <3>2. from \in Int
      BY <1>3, <1>4
    <3> QED
      BY <1>3, <3>1, <3>2
  <2>2. /\ a \in Seq(Modules)
        /\ Len(a) = IF 1 <= from - 1 THEN from - 1 - 1 + 1 ELSE 0
        /\ \A i \in 1 .. from - 1 - 1 + 1 : a[i] = stack[1 + i - 1]
    BY <2>1, SubSeqProperties
  <2> HIDE DEF a
  <2>3. Len(a) = from - 1
    BY <1>4, <2>2
  <2>4. DOMAIN a = 1 .. from - 1
    BY <2>2, <2>3, LenProperties
  <2>5. ASSUME NEW i \in 1 .. from - 1 PROVE a[i] = stack[i]
    <3>1. i \in 1 .. from - 1 - 1 + 1 /\ 1 + i - 1 = i
      BY <1>4
    <3> QED
      BY <2>2, <3>1
  <2> QED
    BY <2>2, <2>4, <2>5
<1>8. /\ b \in Seq(Modules) /\ DOMAIN b = 1 .. h - from + 1
      /\ \A i \in 1 .. h - from + 1 : b[i] = stack[from + i - 1]
  <2>1. from \in Int /\ h \in Int /\ \A i \in from .. h : stack[i] \in Modules
    <3>1. \A i \in from .. h : i \in 1 .. h
      BY <1>3, <1>4
    <3>2. from \in Int /\ h \in Int
      BY <1>3, <1>4
    <3> QED
      BY <1>3, <3>1, <3>2
  <2>2. /\ b \in Seq(Modules)
        /\ Len(b) = IF from <= h THEN h - from + 1 ELSE 0
        /\ \A i \in 1 .. h - from + 1 : b[i] = stack[from + i - 1]
    BY <2>1, SubSeqProperties
  <2> HIDE DEF b
  <2>3. Len(b) = h - from + 1
    BY <1>4, <2>2
  <2> QED
    BY <2>2, <2>3, LenProperties
<1> HIDE DEF a, b
<1>9. ASSUME NEW x PROVE x \in Range(a) <=> x \in Range(stack) /\ index[x] < index[m]
  <2>1. x \in Range(a) => x \in Range(stack) /\ index[x] < index[m]
    <3> SUFFICES ASSUME NEW i \in 1 .. from - 1, x = stack[i] PROVE x \in Range(stack) /\ index[x] < index[m]
      BY <1>7 DEF Range
    <3>1. i \in 1 .. h /\ i < from
      BY <1>3, <1>4
    <3> QED
      BY <1>1, <1>3, <1>4, <1>6, <3>1 DEF Range
  <2>2. x \in Range(stack) /\ index[x] < index[m] => x \in Range(a)
    <3> SUFFICES ASSUME NEW i \in 1 .. h, x = stack[i], index[x] < index[m] PROVE x \in Range(a)
      BY <1>3 DEF Range
    <3>1. ~(from <= i)
      BY <1>1, <1>4, <1>5, <1>6
    <3>2. i \in 1 .. from - 1
      BY <1>3, <1>4, <3>1
    <3> QED
      BY <1>7, <3>2 DEF Range
  <2> QED
    BY <2>1, <2>2
<1>10. ASSUME NEW x PROVE x \in Range(b) <=> x \in Range(stack) /\ index[m] <= index[x]
  <2>1. x \in Range(b) => x \in Range(stack) /\ index[m] <= index[x]
    <3> SUFFICES ASSUME NEW i \in 1 .. h - from + 1, x = stack[from + i - 1] PROVE x \in Range(stack) /\ index[m] <= index[x]
      BY <1>8 DEF Range
    <3>1. PICK j : j = from + i - 1
      OBVIOUS
    <3>2. j \in 1 .. h /\ from <= j /\ x = stack[j]
      BY <1>3, <1>4, <3>1
    <3>3. x \in Range(stack)
      BY <1>3, <3>2 DEF Range
    <3>4. CASE from = j
      <4>1. index[x] = index[m] /\ index[x] \in Nat
        BY <1>1, <1>5, <3>2, <3>4
      <4> QED
        BY <3>3, <4>1
    <3>5. CASE from < j
      <4>1. index[m] < index[x] /\ index[m] \in Nat /\ index[x] \in Nat
        BY <1>1, <1>4, <1>5, <1>6, <3>2, <3>5
      <4> QED
        BY <3>3, <4>1
    <3> QED
      BY <1>4, <3>2, <3>4, <3>5
  <2>2. x \in Range(stack) /\ index[m] <= index[x] => x \in Range(b)
    <3> SUFFICES ASSUME NEW i \in 1 .. h, x = stack[i], index[m] <= index[x] PROVE x \in Range(b)
      BY <1>3 DEF Range
    <3>1. ~(i < from)
      BY <1>1, <1>4, <1>5, <1>6
    <3>2. PICK j : j = i - from + 1
      OBVIOUS
    <3>3. j \in 1 .. h - from + 1 /\ from + j - 1 = i
      BY <1>3, <1>4, <3>1, <3>2
    <3> QED
      BY <1>8, <3>3 DEF Range
  <2> QED
    BY <2>1, <2>2
<1>11. \A i \in DOMAIN a : i \in DOMAIN stack /\ a[i] = stack[i]
  BY <1>3, <1>4, <1>7
<1>12. Range(a) = {x \in Range(stack) : index[x] < index[m]}
  BY <1>9
<1>13. Range(b) = {x \in Range(stack) : index[m] <= index[x]}
  BY <1>10
<1> QED
  BY <1>1, <1>2, <1>7, <1>11, <1>12, <1>13 DEF a, b

(* A call that has followed its references returns, and its link passes to the *)
(* caller.                                                                     *)
Returns ==
  /\ phase = "scc" /\ phase' = "scc" /\ graph' = graph /\ index' = index
  /\ calls # << >> /\ Top.edges = << >> /\ calls' = Callers
  /\ low' = IF Callers = << >> THEN low ELSE Lowered(calls[Len(calls) - 1].module, low[Top.module])

LEMMA ReturnFacts ==
  ASSUME Types, SearchInv, Returns, NEW n, n = Len(calls), NEW m, m = Top.module
  PROVE  /\ n \in Nat /\ n # 0 /\ DOMAIN Active = 1 .. n /\ DOMAIN Active' = 1 .. n - 1
         /\ \A i \in 1 .. n - 1 : i \in 1 .. n /\ Module(i)' = Module(i) /\ Active'[i].edges = Active[i].edges
         /\ \A i \in 1 .. n : Module(i) \in Range(stack)
         /\ n \in 1 .. n /\ Module(n) = m /\ Range(Active[n].edges) = {} /\ m \in Range(stack)
         /\ \A i \in 1 .. n - 1 : index[Module(i)] < index[m]
         /\ \A x \in Range(stack) : x \in DOMAIN index /\ index[x] \in Nat /\ low[x] \in Nat /\ low[x] <= index[x] /\ low'[x] \in Nat
         /\ calls' \in Calls /\ low' \in [DOMAIN index -> Nat]
         /\ \A x \in DOMAIN index :
              \/ low'[x] = low[x]
              \/ 1 < n /\ x = Module(n - 1) /\ low'[x] = low[m] /\ low[m] < low[x]
         /\ \A x \in DOMAIN index : low'[x] <= low[x]
         /\ 1 < n => low'[Module(n - 1)] <= low[m]
<1>1. /\ Active = calls /\ \A i : Module(i) = calls[i].module
      /\ Range(stack) \subseteq DOMAIN index
      /\ \A i \in DOMAIN calls : calls[i].module \in Range(stack)
      /\ \A x \in Range(stack) : index[x] \in Nat /\ low[x] \in Nat /\ low[x] <= index[x]
  BY SearchFacts DEF Returns
<1>2. /\ n \in Nat /\ n # 0 /\ DOMAIN calls = 1 .. n /\ Top = calls[n]
      /\ calls' \in Calls /\ DOMAIN calls' = 1 .. n - 1
      /\ \A i \in 1 .. n - 1 : calls'[i] = calls[i]
      /\ Callers = << >> <=> n = 1
  BY TopFacts DEF Types, Returns
<1>3. n \in 1 .. n /\ Module(n) = m /\ m \in Range(stack) /\ \A i \in 1 .. n - 1 : i \in 1 .. n
  BY <1>1, <1>2
<1>4. Active' = calls' /\ \A i : Module(i)' = calls'[i].module
  BY DEF Active, Module, Returns
<1>5. Range(Active[n].edges) = {}
  BY <1>1, <1>2, RangeEmpty DEF Returns
<1>6. \A i \in 1 .. n - 1 : index[Module(i)] < index[m]
  <2>1. \A i \in 1 .. n - 1 : i \in DOMAIN Active /\ n \in DOMAIN Active /\ i < n
    BY <1>1, <1>2, <1>3
  <2>2. \A i, j \in DOMAIN Active : i < j => index[Module(i)] < index[Module(j)]
    BY DEF SearchInv, OrderInv
  <2> QED
    BY <1>3, <2>1, <2>2
<1>7. /\ low' \in [DOMAIN index -> Nat]
      /\ \A x \in DOMAIN index :
           \/ low'[x] = low[x]
           \/ 1 < n /\ x = Module(n - 1) /\ low'[x] = low[m] /\ low[m] < low[x]
      /\ \A x \in DOMAIN index : low'[x] <= low[x]
      /\ 1 < n => low'[Module(n - 1)] <= low[m]
  <2>1. low \in [DOMAIN index -> Nat]
    BY DEF Types
  <2>2. CASE n = 1
    <3>1. low' = low
      BY <1>2, <2>2 DEF Returns
    <3> QED
      BY <2>1, <2>2, <3>1
  <2>3. CASE n # 1
    <3>1. PICK p : p = Module(n - 1)
      OBVIOUS
    <3>2. n - 1 \in 1 .. n - 1 /\ 1 < n
      BY <1>2, <2>3
    <3>3. p \in DOMAIN index /\ p = calls[n - 1].module
      BY <1>1, <1>2, <1>3, <3>1, <3>2
    <3>4. low' = [low EXCEPT ![p] = Least(@, low[m])]
      BY <1>2, <2>3, <3>3 DEF Returns, Lowered
    <3>5. /\ low[m] \in Nat /\ low[p] \in Nat
          /\ Least(low[p], low[m]) <= low[p] /\ Least(low[p], low[m]) <= low[m]
          /\ Least(low[p], low[m]) = low[p] \/ (Least(low[p], low[m]) = low[m] /\ low[m] < low[p])
      BY <1>1, <1>3, <2>1, <3>3 DEF Least
    <3>6. low'[p] = Least(low[p], low[m]) /\ low' \in [DOMAIN index -> Nat] /\ \A x \in DOMAIN index : x # p => low'[x] = low[x]
      BY <2>1, <3>3, <3>4, <3>5
    <3>7. \A x \in DOMAIN index : low'[x] <= low[x]
      BY <2>1, <3>5, <3>6
    <3> QED
      BY <3>1, <3>2, <3>5, <3>6, <3>7
  <2> QED
    BY <2>2, <2>3
<1>8. \A x \in Range(stack) : x \in DOMAIN index /\ low'[x] \in Nat
  BY <1>1, <1>7
<1>9. /\ DOMAIN Active = 1 .. n /\ DOMAIN Active' = 1 .. n - 1
      /\ \A i \in 1 .. n - 1 : Module(i)' = Module(i) /\ Active'[i].edges = Active[i].edges
      /\ \A i \in 1 .. n : Module(i) \in Range(stack)
  BY <1>1, <1>2, <1>4
<1> QED
  BY <1>1, <1>2, <1>3, <1>5, <1>6, <1>7, <1>8, <1>9

(* Between two calls of the callers, the modules are those between the same    *)
(* calls before, and for the last caller also those above the returned call.   *)
LEMMA ReturnBetween ==
  ASSUME Types, SearchInv, Returns, NEW n, n = Len(calls), NEW m, m = Top.module,
         NEW i \in 1 .. n - 1, NEW x \in Range(stack), Between(i, x)'
  PROVE  Between(i, x) \/ (i = n - 1 /\ 1 < n /\ Between(n, x))
<1>1. /\ n \in Nat /\ n # 0 /\ DOMAIN Active = 1 .. n /\ DOMAIN Active' = 1 .. n - 1
      /\ \A j \in 1 .. n - 1 : j \in 1 .. n /\ Module(j)' = Module(j)
      /\ \A j \in 1 .. n : Module(j) \in Range(stack)
      /\ Module(n) = m
      /\ \A j \in 1 .. n - 1 : index[Module(j)] < index[m]
      /\ \A y \in Range(stack) : index[y] \in Nat
      /\ m \in Range(stack)
  BY ReturnFacts
<1>2. index' = index
  BY DEF Returns
<1>3. index[Module(i)] <= index[x] /\ \A j \in 1 .. n - 1 : i < j => index[x] < index[Module(j)]
  BY <1>1, <1>2 DEF Between
<1>4. CASE index[x] < index[m]
  <2>1. ASSUME NEW j \in 1 .. n, i < j PROVE index[x] < index[Module(j)]
    <3>1. CASE j = n
      BY <1>1, <1>4, <3>1
    <3>2. CASE j # n
      <4>1. j \in 1 .. n - 1
        BY <1>1, <3>2
      <4> QED
        BY <1>3, <2>1, <4>1
    <3> QED
      BY <3>1, <3>2
  <2> QED
    BY <1>1, <1>3, <2>1 DEF Between
<1>5. CASE index[m] <= index[x]
  <2>1. i = n - 1
    <3> SUFFICES ASSUME i # n - 1 PROVE FALSE
      OBVIOUS
    <3>1. n - 1 \in 1 .. n - 1 /\ i < n - 1
      BY <1>1
    <3>2. index[x] < index[Module(n - 1)] /\ index[Module(n - 1)] < index[m]
      BY <1>1, <1>3, <3>1
    <3>3. index[x] \in Nat /\ index[m] \in Nat /\ index[Module(n - 1)] \in Nat
      BY <1>1, <3>1
    <3> QED
      BY <1>5, <3>2, <3>3
  <2>2. \A j \in 1 .. n : ~(n < j)
    BY <1>1
  <2> QED
    BY <1>1, <1>5, <2>1, <2>2 DEF Between
<1> QED
  BY <1>1, <1>4, <1>5

(* A call that is no root leaves what is above it to its caller.               *)
LEMMA InnerStep ==
  ASSUME Types, SearchInv, Returns, low[Top.module] # index[Top.module],
         stack' = stack, components' = components
  PROVE  SearchTypes' /\ SearchInv'
<1>0. PICK n, m : n = Len(calls) /\ m = Top.module
  OBVIOUS
<1>1. /\ n \in Nat /\ n # 0 /\ DOMAIN Active = 1 .. n /\ DOMAIN Active' = 1 .. n - 1
      /\ \A i \in 1 .. n - 1 : i \in 1 .. n /\ Module(i)' = Module(i) /\ Active'[i].edges = Active[i].edges
      /\ \A i \in 1 .. n : Module(i) \in Range(stack)
      /\ n \in 1 .. n /\ Module(n) = m /\ Range(Active[n].edges) = {} /\ m \in Range(stack)
      /\ \A i \in 1 .. n - 1 : index[Module(i)] < index[m]
      /\ \A x \in Range(stack) : x \in DOMAIN index /\ index[x] \in Nat /\ low[x] \in Nat /\ low[x] <= index[x] /\ low'[x] \in Nat
  BY <1>0, ReturnFacts
<1>2. /\ calls' \in Calls /\ low' \in [DOMAIN index -> Nat]
      /\ \A x \in DOMAIN index :
           \/ low'[x] = low[x]
           \/ 1 < n /\ x = Module(n - 1) /\ low'[x] = low[m] /\ low[m] < low[x]
      /\ \A x \in DOMAIN index : low'[x] <= low[x]
      /\ 1 < n => low'[Module(n - 1)] <= low[m]
  BY <1>0, ReturnFacts
<1>3. index' = index /\ Done' = Done /\ NextIndex' = NextIndex
  BY DEF Returns, Done, NextIndex
<1>4. SearchTypes'
  BY <1>2, <1>3 DEF SearchTypes, Types
<1>5. /\ \A x, u : Edge(x, u)' <=> Edge(x, u)
      /\ \A x, u : Reaches(x, u)' <=> Reaches(x, u)
  BY GraphSame DEF Returns
<1>6. PICK t \in Range(stack) : low[m] = index[t] /\ index[t] <= index[m] /\ Reaches(m, t)
  BY <1>1 DEF SearchInv, LinkInv, Linked
<1>7. index[t] < index[m]
  BY <1>0, <1>1, <1>6
<1>8. PICK k \in 1 .. n - 1 : index[Module(k)] <= index[t] /\ Reaches(t, Module(k))
  <2>1. PICK k \in 1 .. n : index[Module(k)] <= index[t] /\ Reaches(t, Module(k))
    BY <1>1 DEF SearchInv, StackInv
  <2>2. k # n
    BY <1>1, <1>7, <2>1
  <2>3. k \in 1 .. n - 1
    BY <1>1, <2>2
  <2> QED
    BY <2>1, <2>3
<1>9. OrderInv'
  <2>1. \A i, j \in DOMAIN Active' : i < j => index'[Module(i)'] < index'[Module(j)']
    BY <1>1, <1>3 DEF SearchInv, OrderInv
  <2> QED
    BY <1>1, <1>3, <2>1 DEF SearchInv, OrderInv
<1>10. StackInv'
  <2>1. ASSUME NEW i \in DOMAIN Active', NEW x \in Range(stack), index[Module(i)] <= index[x]
        PROVE  Reaches(Module(i), x)
    BY <1>1, <2>1 DEF SearchInv, StackInv
  <2>2. ASSUME NEW x \in Range(stack)
        PROVE  \E i \in 1 .. n - 1 : index[Module(i)] <= index[x] /\ Reaches(x, Module(i))
    <3>1. PICK i \in 1 .. n : index[Module(i)] <= index[x] /\ Reaches(x, Module(i))
      BY <1>1 DEF SearchInv, StackInv
    <3>2. CASE i = n
      <4>1. index[m] <= index[x] /\ Reaches(x, m)
        BY <1>1, <3>1, <3>2
      <4>2. Reaches(x, Module(k))
        BY <1>6, <1>8, <4>1, ReachFacts
      <4>3. index[Module(k)] <= index[x]
        BY <1>1, <1>7, <1>8, <4>1
      <4> QED
        BY <4>2, <4>3
    <3>3. CASE i # n
      <4>1. i \in 1 .. n - 1
        BY <1>1, <3>3
      <4> QED
        BY <3>1, <4>1
    <3> QED
      BY <3>2, <3>3
  <2> QED
    <3>1. \A i \in DOMAIN Active', x \in Range(stack) : index[Module(i)'] <= index[x] => Reaches(Module(i)', x)
      BY <1>1, <2>1
    <3>2. \A x \in Range(stack) :
            \E i \in DOMAIN Active' : index[Module(i)'] <= index[x] /\ Reaches(x, Module(i)')
      BY <1>1, <2>2
    <3> QED
      BY <1>3, <1>5, <3>1, <3>2 DEF StackInv
<1>11. FrontierInv'
  <2>1. \A i \in DOMAIN Active' : \A u \in Range(Active'[i].edges) : Edge(Module(i)', u)
    BY <1>1 DEF SearchInv, FrontierInv
  <2>2. ASSUME NEW x \in DOMAIN index, NEW u \in Modules, Edge(x, u), u \notin DOMAIN index
        PROVE  \E i \in DOMAIN Active' : Module(i)' = x /\ u \in Range(Active'[i].edges)
    <3>1. PICK i \in DOMAIN Active : Module(i) = x /\ u \in Range(Active[i].edges)
      BY <2>2 DEF SearchInv, FrontierInv
    <3>2. i \in 1 .. n /\ i # n
      BY <1>1, <3>1
    <3>3. i \in 1 .. n - 1
      BY <1>1, <3>2
    <3> QED
      BY <1>1, <3>1, <3>3
  <2>3. \A x \in Done', u \in Modules : Edge(x, u) => u \in Done'
    BY <1>3 DEF SearchInv, FrontierInv
  <2> QED
    BY <1>3, <1>5, <2>1, <2>2, <2>3 DEF FrontierInv
<1>12. LinkInv'
  <2>1. ASSUME NEW x \in Range(stack) PROVE Linked(x)'
    <3>1. SUFFICES \E u \in Range(stack) : low'[x] = index[u] /\ index[u] <= index[x] /\ Reaches(x, u)
      BY <1>3, <1>5 DEF Linked
    <3>2. PICK u \in Range(stack) : low[x] = index[u] /\ index[u] <= index[x] /\ Reaches(x, u)
      BY <2>1 DEF SearchInv, LinkInv, Linked
    <3>3. CASE low'[x] = low[x]
      BY <3>2, <3>3
    <3>4. CASE low'[x] # low[x]
      <4>1. 1 < n /\ x = Module(n - 1) /\ low'[x] = low[m] /\ low[m] < low[x]
        BY <1>1, <1>2, <3>4
      <4>2. n - 1 \in 1 .. n - 1
        BY <1>1, <4>1
      <4>3. index[x] <= index[m]
        BY <1>1, <4>1, <4>2
      <4>4. Reaches(x, m)
        BY <1>1, <4>1, <4>2, <4>3 DEF SearchInv, StackInv
      <4>5. Reaches(x, t)
        BY <1>6, <4>4, ReachFacts
      <4>6. index[t] <= index[x]
        BY <1>1, <1>6, <4>1
      <4> QED
        BY <1>6, <4>1, <4>5, <4>6
    <3> QED
      BY <3>3, <3>4
  <2>2. ASSUME NEW i \in 1 .. n - 1, NEW x \in Range(stack), NEW u \in Range(stack),
               Edge(x, u), Between(i, x)'
        PROVE  Accounted(i, x, u)'
    <3>1. /\ i \in 1 .. n /\ Module(i) \in Range(stack) /\ Module(i)' = Module(i)
          /\ low'[Module(i)] \in Nat /\ low[Module(i)] \in Nat /\ low'[Module(i)] <= low[Module(i)]
          /\ index[u] \in Nat /\ low[m] \in Nat
      BY <1>1, <1>2
    <3>2. SUFFICES (x = Module(i) /\ u \in Range(Active'[i].edges)) \/ low'[Module(i)] <= index[u]
      BY <1>3, <3>1 DEF Accounted
    <3>3. Between(i, x) \/ (i = n - 1 /\ 1 < n /\ Between(n, x))
      BY <1>0, <2>2, ReturnBetween
    <3>4. CASE Between(i, x)
      <4>1. (x = Module(i) /\ u \in Range(Active[i].edges)) \/ low[Module(i)] <= index[u]
        BY <1>1, <2>2, <3>1, <3>4 DEF SearchInv, LinkInv, Accounted
      <4>2. CASE low[Module(i)] <= index[u]
        BY <3>1, <4>2
      <4> QED
        BY <1>1, <4>1, <4>2
    <3>5. CASE i = n - 1 /\ 1 < n /\ Between(n, x)
      <4>1. low[m] <= index[u]
        BY <1>1, <2>2, <3>5 DEF SearchInv, LinkInv, Accounted
      <4>2. low'[Module(i)] <= low[m]
        BY <1>2, <3>5
      <4> QED
        BY <3>1, <4>1, <4>2
    <3> QED
      BY <3>3, <3>4, <3>5
  <2> QED
    BY <1>1, <1>5, <2>1, <2>2 DEF LinkInv
<1>13. ComponentsAreCycles'
  BY <1>5 DEF SearchInv, ComponentsAreCycles
<1> QED
  BY <1>4, <1>9, <1>10, <1>11, <1>12, <1>13 DEF SearchInv

(* A root takes what is on the stack from it on: that is its component, and    *)
(* the rest of the search goes on as if it were not there.                     *)
LEMMA RootStep ==
  ASSUME Types, SearchInv, Returns, low[Top.module] = index[Top.module],
         NEW from \in DOMAIN stack, stack[from] = Top.module,
         components' = Append(components, Range(SubSeq(stack, from, Len(stack)))),
         stack' = SubSeq(stack, 1, from - 1)
  PROVE  SearchTypes' /\ SearchInv'
<1>0. PICK n, m, h : n = Len(calls) /\ m = Top.module /\ h = Len(components)
  OBVIOUS
<1> DEFINE comp == Range(SubSeq(stack, from, Len(stack)))
<1>1. /\ n \in Nat /\ n # 0 /\ DOMAIN Active = 1 .. n /\ DOMAIN Active' = 1 .. n - 1
      /\ \A i \in 1 .. n - 1 : i \in 1 .. n /\ Module(i)' = Module(i) /\ Active'[i].edges = Active[i].edges
      /\ \A i \in 1 .. n : Module(i) \in Range(stack)
      /\ n \in 1 .. n /\ Module(n) = m /\ Range(Active[n].edges) = {} /\ m \in Range(stack)
      /\ \A i \in 1 .. n - 1 : index[Module(i)] < index[m]
      /\ \A x \in Range(stack) : x \in DOMAIN index /\ index[x] \in Nat /\ low[x] \in Nat /\ low[x] <= index[x] /\ low'[x] \in Nat
  BY <1>0, ReturnFacts
<1>2. calls' \in Calls /\ low' \in [DOMAIN index -> Nat] /\ \A x \in DOMAIN index : low'[x] = low[x]
  <2>1. /\ calls' \in Calls /\ low' \in [DOMAIN index -> Nat]
        /\ \A x \in DOMAIN index :
             \/ low'[x] = low[x]
             \/ 1 < n /\ x = Module(n - 1) /\ low'[x] = low[m] /\ low[m] < low[x]
    BY <1>0, ReturnFacts
  <2>2. ASSUME NEW x \in DOMAIN index, low'[x] # low[x] PROVE FALSE
    <3>1. 1 < n /\ x = Module(n - 1) /\ low[m] < low[x]
      BY <2>1, <2>2
    <3>2. n - 1 \in 1 .. n - 1
      BY <1>1, <3>1
    <3>3. x \in Range(stack) /\ index[x] < index[m]
      BY <1>1, <3>1, <3>2
    <3> QED
      BY <1>0, <1>1, <3>1, <3>3
  <2> QED
    BY <2>1, <2>2
<1>3. /\ stack' \in Seq(Modules)
      /\ \A i \in DOMAIN stack' : i \in DOMAIN stack /\ stack'[i] = stack[i]
      /\ Range(stack') = {x \in Range(stack) : index[x] < index[m]}
      /\ comp = {x \in Range(stack) : index[m] <= index[x]}
  BY <1>0, <1>1, SplitFacts DEF SearchInv
<1>4. \A x \in Range(stack) : x \in comp <=> x \notin Range(stack')
  BY <1>1, <1>3
<1> HIDE DEF comp
<1>5. components' = Append(components, comp) /\ comp \subseteq Modules
  <2>1. components' = Append(components, comp)
    BY DEF comp
  <2> QED
    BY <1>3, <2>1, TypeFacts
<1>6. /\ components' \in Seq(SUBSET Modules) /\ Range(components') = Range(components) \cup {comp}
      /\ h \in Nat /\ DOMAIN components = 1 .. h /\ DOMAIN components' = 1 .. h + 1
      /\ \A i \in 1 .. h : components'[i] = components[i]
      /\ components'[h + 1] = comp
  <2>1. components \in Seq(SUBSET Modules) /\ comp \in SUBSET Modules
    BY <1>5 DEF Types
  <2> QED
    <3>1. h \in Nat /\ DOMAIN components = 1 .. h
      BY <1>0, <2>1, LenProperties
    <3>2. components' \in Seq(SUBSET Modules) /\ Range(components') = Range(components) \cup {comp}
      BY <1>5, <2>1, RangeAppend, AppendProperties
    <3>3. /\ Len(components') = h + 1 /\ components'[h + 1] = comp
          /\ \A i \in 1 .. h : components'[i] = components[i]
      BY <1>0, <1>5, <2>1, AppendProperties
    <3>4. DOMAIN components' = 1 .. h + 1
      BY <3>2, <3>3, LenProperties
    <3> QED
      BY <3>1, <3>2, <3>3, <3>4
<1>7. Done' = Done \cup comp
  BY <1>6 DEF Done
<1>8. index' = index /\ NextIndex' = NextIndex
  BY DEF Returns, NextIndex
<1>9. SearchTypes'
  BY <1>2, <1>3, <1>6, <1>8 DEF SearchTypes, Types
<1>10. /\ \A x, u : Edge(x, u)' <=> Edge(x, u)
       /\ \A x, u : Reaches(x, u)' <=> Reaches(x, u)
  BY GraphSame DEF Returns
<1>11. \A i \in 1 .. n - 1 : Module(i)' = Module(i) /\ Module(i) \in Range(stack')
  BY <1>1, <1>3
<1>12. OrderInv'
  <2>1. Range(stack') \cap Done' = {} /\ Range(stack') \cup Done' = DOMAIN index
    <3>1. Range(stack) \cap Done = {} /\ Range(stack) \cup Done = DOMAIN index
      BY DEF SearchInv, OrderInv
    <3>2. Range(stack') \subseteq Range(stack) /\ comp \subseteq Range(stack)
      BY <1>3
    <3> QED
      BY <1>4, <1>7, <3>1, <3>2
  <2>2. \A x \in DOMAIN index : index[x] < NextIndex
    BY DEF SearchInv, OrderInv
  <2>3. \A i, j \in DOMAIN stack' : i < j => index[stack'[i]] < index[stack'[j]]
    BY <1>3 DEF SearchInv, OrderInv
  <2>4. \A i, j \in DOMAIN Active' : i < j => index[Module(i)'] < index[Module(j)']
    <3>1. \A i, j \in DOMAIN Active : i < j => index[Module(i)] < index[Module(j)]
      BY DEF SearchInv, OrderInv
    <3>2. \A i \in DOMAIN Active' : i \in DOMAIN Active /\ Module(i)' = Module(i)
      BY <1>1
    <3> QED
      BY <3>1, <3>2
  <2>5. \A i \in DOMAIN Active' : Module(i)' \in Range(stack')
    BY <1>1, <1>11
  <2> QED
    BY <1>8, <2>1, <2>2, <2>3, <2>4, <2>5 DEF OrderInv
<1>13. StackInv'
  <2>1. ASSUME NEW i \in DOMAIN Active', NEW x \in Range(stack'), index[Module(i)'] <= index[x]
        PROVE  Reaches(Module(i)', x)
    <3>1. i \in DOMAIN Active /\ Module(i)' = Module(i) /\ x \in Range(stack)
      BY <1>1, <1>3
    <3> QED
      BY <2>1, <3>1 DEF SearchInv, StackInv
  <2>2. ASSUME NEW x \in Range(stack')
        PROVE  \E i \in DOMAIN Active' : index[Module(i)'] <= index[x] /\ Reaches(x, Module(i)')
    <3>1. x \in Range(stack) /\ index[x] < index[m]
      BY <1>3
    <3>2. PICK i \in 1 .. n : index[Module(i)] <= index[x] /\ Reaches(x, Module(i))
      BY <1>1, <3>1 DEF SearchInv, StackInv
    <3>3. i # n
      BY <1>1, <3>1, <3>2
    <3>4. i \in 1 .. n - 1
      BY <1>1, <3>3
    <3> QED
      BY <1>1, <3>2, <3>4
  <2> QED
    BY <1>8, <1>10, <2>1, <2>2 DEF StackInv
<1>14. \A x \in Done', u \in Modules : Edge(x, u) => u \in Done'
  <2> SUFFICES ASSUME NEW x \in Done', NEW u \in Modules, Edge(x, u) PROVE u \in Done \cup comp
    BY <1>7
  <2>1. CASE x \in Done
    BY <2>1 DEF SearchInv, FrontierInv
  <2>2. CASE x \in comp
    <3>1. x \in Range(stack) /\ index[m] <= index[x] /\ x \in DOMAIN index
      BY <1>1, <1>3, <2>2
    <3>2. u \in DOMAIN index
      <4> SUFFICES ASSUME u \notin DOMAIN index PROVE FALSE
        OBVIOUS
      <4>1. PICK i \in 1 .. n : Module(i) = x /\ u \in Range(Active[i].edges)
        BY <1>1, <3>1 DEF SearchInv, FrontierInv
      <4>2. i \in 1 .. n /\ i # n
        BY <1>1, <4>1
      <4>3. i \in 1 .. n - 1
        BY <1>1, <4>2
      <4>4. index[x] < index[m]
        BY <1>1, <4>1, <4>3
      <4> QED
        BY <1>1, <3>1, <4>4
    <3>3. CASE u \in Range(stack)
      <4>1. Between(n, x)
        <5>1. \A j \in 1 .. n : ~(n < j)
          BY <1>1
        <5> QED
          BY <1>1, <3>1, <5>1 DEF Between
      <4>2. low[m] <= index[u]
        BY <1>1, <3>1, <3>3, <4>1 DEF SearchInv, LinkInv, Accounted
      <4>3. index[m] <= index[u]
        BY <1>0, <4>2
      <4> QED
        BY <1>3, <3>3, <4>3
    <3>4. CASE u \notin Range(stack)
      BY <3>2, <3>4 DEF SearchInv, OrderInv
    <3> QED
      BY <3>3, <3>4
  <2> QED
    BY <1>7, <2>1, <2>2
<1>15. FrontierInv'
  <2>1. \A i \in DOMAIN Active' : \A u \in Range(Active'[i].edges) : Edge(Module(i)', u)
    BY <1>1 DEF SearchInv, FrontierInv
  <2>2. ASSUME NEW x \in DOMAIN index, NEW u \in Modules, Edge(x, u), u \notin DOMAIN index
        PROVE  \E i \in DOMAIN Active' : Module(i)' = x /\ u \in Range(Active'[i].edges)
    <3>1. PICK i \in DOMAIN Active : Module(i) = x /\ u \in Range(Active[i].edges)
      BY <2>2 DEF SearchInv, FrontierInv
    <3>2. i \in 1 .. n /\ i # n
      BY <1>1, <3>1
    <3>3. i \in 1 .. n - 1
      BY <1>1, <3>2
    <3> QED
      BY <1>1, <3>1, <3>3
  <2> QED
    BY <1>8, <1>10, <1>14, <2>1, <2>2 DEF FrontierInv
<1>16. LinkInv'
  <2>1. ASSUME NEW x \in Range(stack') PROVE Linked(x)'
    <3>1. SUFFICES \E u \in Range(stack') : low'[x] = index[u] /\ index[u] <= index[x] /\ Reaches(x, u)
      BY <1>8, <1>10 DEF Linked
    <3>2. x \in Range(stack) /\ index[x] < index[m] /\ low'[x] = low[x]
      BY <1>1, <1>2, <1>3
    <3>3. PICK u \in Range(stack) : low[x] = index[u] /\ index[u] <= index[x] /\ Reaches(x, u)
      BY <3>2 DEF SearchInv, LinkInv, Linked
    <3>4. index[u] < index[m]
      BY <1>1, <3>2, <3>3
    <3> QED
      BY <1>3, <3>2, <3>3, <3>4
  <2>2. ASSUME NEW i \in 1 .. n - 1, NEW x \in Range(stack'), NEW u \in Range(stack'),
               Edge(x, u), Between(i, x)'
        PROVE  Accounted(i, x, u)'
    <3>1. /\ i \in 1 .. n /\ Module(i)' = Module(i) /\ low'[Module(i)] = low[Module(i)]
          /\ x \in Range(stack) /\ u \in Range(stack) /\ index[x] < index[m]
      BY <1>1, <1>2, <1>3
    <3>2. Between(i, x)
      <4>1. Between(i, x) \/ Between(n, x)
        BY <1>0, <2>2, <3>1, ReturnBetween
      <4>2. ~Between(n, x)
        BY <1>1, <3>1 DEF Between
      <4> QED
        BY <4>1, <4>2
    <3>3. (x = Module(i) /\ u \in Range(Active[i].edges)) \/ low[Module(i)] <= index[u]
      BY <1>1, <2>2, <3>1, <3>2 DEF SearchInv, LinkInv, Accounted
    <3> QED
      BY <1>1, <1>8, <3>1, <3>3 DEF Accounted
  <2> QED
    BY <1>1, <1>10, <2>1, <2>2 DEF LinkInv
<1>17. ASSUME NEW x \in comp PROVE comp = {t \in Modules : Reaches(x, t) /\ Reaches(t, x)}
  <2>1. ASSUME NEW y \in comp PROVE Reaches(m, y) /\ Reaches(y, m)
    <3>1. y \in Range(stack) /\ index[m] <= index[y]
      BY <1>3
    <3>2. Reaches(m, y)
      BY <1>1, <3>1 DEF SearchInv, StackInv
    <3>3. PICK i \in 1 .. n : Reaches(y, Module(i))
      BY <1>1, <3>1 DEF SearchInv, StackInv
    <3>4. index[Module(i)] <= index[m]
      <4>1. CASE i = n
        BY <1>1, <4>1
      <4>2. CASE i # n
        <5>1. i \in 1 .. n - 1
          BY <1>1, <4>2
        <5> QED
          BY <1>1, <5>1
      <4> QED
        BY <4>1, <4>2
    <3>5. Reaches(Module(i), m)
      BY <1>1, <3>4 DEF SearchInv, StackInv
    <3> QED
      BY <3>2, <3>3, <3>5, ReachFacts
  <2>2. \A t \in comp : t \in Modules /\ Reaches(x, t) /\ Reaches(t, x)
    BY <1>5, <2>1, ReachFacts
  <2>3. ASSUME NEW t \in Modules, Reaches(x, t), Reaches(t, x) PROVE t \in comp
    <3>1. Done \subseteq Modules /\ Done' \subseteq Modules
      BY <1>5, <1>7, TypeFacts
    <3>2. t \in Done'
      <4>1. x \in Done'
        BY <1>7
      <4> QED
        BY <1>14, <2>3, <3>1, <4>1, ReachFacts
    <3>3. t \notin Done
      <4>1. \A y \in Done, u \in Modules : Edge(y, u) => u \in Done
        BY DEF SearchInv, FrontierInv
      <4>2. t \in Done => x \in Done
        BY <2>3, <3>1, <4>1, ReachFacts
      <4>3. x \notin Done
        BY <1>3 DEF SearchInv, OrderInv
      <4> QED
        BY <4>2, <4>3
    <3> QED
      BY <1>7, <3>2, <3>3
  <2> QED
    BY <2>2, <2>3
<1>18. ASSUME NEW i \in 1 .. h, NEW x \in components[i], NEW t \in comp PROVE ~Reaches(x, t)
  <2>1. x \in Done
    BY <1>6 DEF Done, Range
  <2>2. \A y \in Done, u \in Modules : Edge(y, u) => u \in Done
    BY DEF SearchInv, FrontierInv
  <2>3. Done \subseteq Modules
    BY TypeFacts
  <2>4. Reaches(x, t) => t \in Done
    BY <2>1, <2>2, <2>3, ReachFacts
  <2>5. t \notin Done
    BY <1>3 DEF SearchInv, OrderInv
  <2> QED
    BY <2>4, <2>5
<1>19. ComponentsAreCycles'
  <2>1. ASSUME NEW i \in DOMAIN components', NEW x \in components'[i]
        PROVE  components'[i] = {t \in Modules : Reaches(x, t) /\ Reaches(t, x)}
    <3>1. CASE i = h + 1
      BY <1>6, <1>17, <2>1, <3>1
    <3>2. CASE i \in 1 .. h
      BY <1>6, <2>1, <3>2 DEF SearchInv, ComponentsAreCycles
    <3> QED
      BY <1>6, <3>1, <3>2
  <2>2. ASSUME NEW i \in DOMAIN components', NEW j \in DOMAIN components', i < j,
               NEW x \in components'[i], NEW t \in components'[j]
        PROVE  ~Reaches(x, t)
    <3>1. i \in 1 .. h /\ x \in components[i]
      BY <1>6, <2>2
    <3>2. CASE j = h + 1
      BY <1>6, <1>18, <2>2, <3>1, <3>2
    <3>3. CASE j \in 1 .. h
      BY <1>6, <2>2, <3>1, <3>3 DEF SearchInv, ComponentsAreCycles
    <3> QED
      BY <1>6, <3>2, <3>3
  <2> QED
    BY <1>10, <2>1, <2>2 DEF ComponentsAreCycles
<1> QED
  BY <1>9, <1>12, <1>13, <1>15, <1>16, <1>19 DEF SearchInv

-------------------------------------------------------------------------------
(* The steps.                                                                  *)

(* What does not touch the search leaves its invariant alone.                  *)
LEMMA SameSearch ==
  ASSUME SearchInv, Active' = Active, UNCHANGED <<graph, stack, index, low, components>>
  PROVE  SearchInv'
<1>1. /\ \A i : Module(i)' = Module(i)
      /\ Done' = Done /\ NextIndex' = NextIndex
      /\ stack' = stack /\ index' = index /\ low' = low /\ components' = components
  BY DEF Module, Done, NextIndex
<1>2. /\ \A m, t : Edge(m, t)' <=> Edge(m, t)
      /\ \A m, t : Reaches(m, t)' <=> Reaches(m, t)
  BY GraphSame
<1>3. OrderInv'
  BY <1>1 DEF SearchInv, OrderInv
<1>4. StackInv'
  BY <1>1, <1>2 DEF SearchInv, StackInv
<1>5. FrontierInv'
  BY <1>1, <1>2 DEF SearchInv, FrontierInv
<1>6. LinkInv'
  <2>1. \A m \in Range(stack) : Linked(m)'
    BY <1>1, <1>2 DEF SearchInv, LinkInv, Linked
  <2>2. ASSUME NEW i \in DOMAIN Active, NEW m \in Range(stack), NEW t \in Range(stack), Edge(m, t), Between(i, m)'
        PROVE  Accounted(i, m, t)'
    <3>1. Between(i, m)
      BY <1>1, <2>2 DEF Between
    <3>2. Accounted(i, m, t)
      BY <2>2, <3>1 DEF SearchInv, LinkInv
    <3> QED
      BY <1>1, <3>2 DEF Accounted
  <2> QED
    BY <1>1, <1>2, <2>1, <2>2 DEF LinkInv
<1>7. ComponentsAreCycles'
  BY <1>1, <1>2 DEF SearchInv, ComponentsAreCycles
<1> QED
  BY <1>3, <1>4, <1>5, <1>6, <1>7 DEF SearchInv

(* Once the modules are known, they stay known.                                *)
LEMMA SameReach ==
  ASSUME ReachInv, phase # "reach", phase' # "reach", graph' = graph, modules' = modules
  PROVE  ReachInv'
<1>1. NoRepeats(modules)'
  BY DEF ReachInv, NoRepeats
<1> QED
  BY <1>1, GraphSame DEF ReachInv

(* Instances wait for the search.                                              *)
LEMMA SameInstances ==
  ASSUME InstancesInv, visible' = visible, phase' \in {"reach", "scc"}
  PROVE  InstancesInv'
BY DEF InstancesInv, NoRepeats

LEMMA InitInv == Init => Inv
<1> SUFFICES ASSUME Init PROVE Inv
  OBVIOUS
<1> USE DEF Init
<1>1. /\ DOMAIN index = {} /\ DOMAIN low = {} /\ Range(stack) = {} /\ Range(modules) = {} /\ Range(visible) = {}
      /\ Range(queue) = {Entry} /\ Done = {} /\ Active = << >> /\ DOMAIN Active = {} /\ Range(components) = {}
  BY RangeEmpty DEF Range, Done, Active
<1>2. Entry \in Modules
  BY GraphsAssumption
<1>3. NoRepeats(modules) /\ NoRepeats(visible)
  BY <1>1, FS_EmptySet DEF NoRepeats
<1>4. Types
  <2>1. /\ IsFiniteSet(DOMAIN index) /\ DOMAIN index \subseteq Modules
        /\ index \in [DOMAIN index -> Nat] /\ low \in [DOMAIN index -> Nat]
    BY <1>1, FS_EmptySet
  <2> QED
    BY <1>1, <1>2, <2>1 DEF Types, Calls
<1>5. ReachInv
  <2>1. Entry \in From(Entry, References)
    BY <1>2, FromFacts DEF References
  <2> QED
    BY <1>1, <1>3, <2>1 DEF ReachInv
<1>6. SearchInv
  BY <1>1 DEF SearchInv, OrderInv, StackInv, FrontierInv, LinkInv, ComponentsAreCycles
<1>7. BeginInv /\ InstancesInv
  BY <1>1, <1>3 DEF BeginInv, InstancesInv
<1> QED
  BY <1>4, <1>5, <1>6, <1>7 DEF Inv

LEMMA CollectReachableStep == ASSUME Inv, CollectReachable PROVE Inv'
<1> USE DEF CollectReachable
<1> DEFINE m == Head(queue)
           r == Tail(queue)
<1>1. /\ Types /\ ReachInv /\ SearchInv /\ BeginInv /\ InstancesInv
      /\ phase = "reach" /\ phase' = "reach" /\ graph' = graph
  BY DEF Inv
<1>2. m \in Modules /\ r \in Seq(Modules) /\ Range(queue) = Range(r) \cup {m}
  BY <1>1, RangeTail DEF Types
<1>3. ReferenceEdges(m) \in Seq(Modules) /\ \A t : t \in Range(ReferenceEdges(m)) <=> Edge(m, t)
  BY <1>1, <1>2, RefsFacts DEF Types
<1>4. /\ Range(modules) = seen /\ NoRepeats(modules) /\ Entry \in seen \cup Range(queue)
      /\ seen \cup Range(queue) \subseteq From(Entry, References)
      /\ \A x \in seen, t \in Modules : Edge(x, t) => t \in seen \cup Range(queue)
  BY <1>1 DEF ReachInv
<1>5. /\ \A x, t : Edge(x, t)' <=> Edge(x, t)
      /\ From(Entry, References)' = From(Entry, References)
  BY <1>1, GraphSame
<1>6. SearchInv'
  BY <1>1, SameSearch DEF Active
<1>7. BeginInv' /\ InstancesInv'
  BY <1>1, SameInstances DEF BeginInv
<1> HIDE DEF m, r
<1>8. CASE m \in seen
  <2>1. queue' = r /\ modules' = modules /\ seen' = seen
    BY <1>8 DEF m, r
  <2>2. Types'
    BY <1>1, <1>2, <2>1 DEF Types
  <2>3. Range(queue) \subseteq seen \cup Range(queue') /\ Range(queue') \subseteq Range(queue)
    BY <1>2, <1>8, <2>1
  <2>4. NoRepeats(modules)'
    BY <1>4, <2>1 DEF NoRepeats
  <2>5. ReachInv'
    BY <1>1, <1>4, <1>5, <2>1, <2>3, <2>4 DEF ReachInv
  <2> QED
    BY <1>6, <1>7, <2>2, <2>5 DEF Inv
<1>9. CASE m \notin seen
  <2>1. queue' = r \o ReferenceEdges(m) /\ modules' = Append(modules, m) /\ seen' = seen \cup {m}
    BY <1>9 DEF m, r
  <2>2. queue' \in Seq(Modules) /\ Range(queue') = Range(r) \cup Range(ReferenceEdges(m))
    BY <1>2, <1>3, <2>1, ConcatProperties, RangeConcatenation
  <2>3. modules' \in Seq(Modules) /\ Range(modules') = seen'
    BY <1>1, <1>2, <1>4, <2>1, RangeAppend, AppendProperties DEF Types
  <2>4. NoRepeats(modules')
    BY <1>1, <1>2, <1>4, <1>9, <2>1, NoRepeatsAppend DEF Types
  <2>5. Types'
    BY <1>1, <1>2, <2>1, <2>2, <2>3 DEF Types
  <2>6. \A t : Edge(m, t) => t \in Range(queue') /\ t \in From(Entry, References)
    <3>1. m \in From(Entry, References)
      BY <1>2, <1>4
    <3> QED
      BY <1>3, <2>2, <3>1, FromFacts DEF Edge, References
  <2>7. seen' \cup Range(queue') = seen \cup Range(queue) \cup Range(ReferenceEdges(m))
    BY <1>2, <2>1, <2>2
  <2>8. \A x \in seen', t \in Modules : Edge(x, t) => t \in seen' \cup Range(queue')
    BY <1>4, <2>1, <2>6, <2>7
  <2>9. seen' \cup Range(queue') \subseteq From(Entry, References)
    BY <1>3, <1>4, <2>6, <2>7
  <2>10. ReachInv'
    BY <1>1, <1>4, <1>5, <2>3, <2>4, <2>7, <2>8, <2>9 DEF ReachInv, NoRepeats
  <2> QED
    BY <1>6, <1>7, <2>5, <2>10 DEF Inv
<1> QED
  BY <1>8, <1>9

LEMMA ReachedStep == ASSUME Inv, Reached PROVE Inv'
<1> USE DEF Reached
<1>1. /\ Types /\ ReachInv /\ SearchInv /\ BeginInv /\ InstancesInv
      /\ phase = "reach" /\ phase' = "scc" /\ graph' = graph /\ calls = << >>
  BY DEF Inv, Types
<1>2. Types' /\ BeginInv' /\ InstancesInv'
  BY <1>1, SameInstances DEF Types, BeginInv
<1>3. SearchInv'
  BY <1>1, SameSearch DEF Active
<1>4. Range(queue) = {}
  BY RangeEmpty
<1>5. Range(modules) = From(Entry, References)
  <2>1. Range(modules) \subseteq Modules /\ Range(modules) \subseteq From(Entry, References) /\ Entry \in Range(modules)
    BY <1>1, <1>4, TypeFacts DEF ReachInv
  <2>2. Closed(Range(modules), References)
    BY <1>1, <1>4 DEF ReachInv, Closed, Edge, References
  <2>3. References \in SUBSET (Modules \X Modules)
    BY DEF References
  <2>4. From(Entry, References) \subseteq Range(modules)
    BY <2>1, <2>2, <2>3, FromFacts
  <2> QED
    BY <2>1, <2>4
<1>6. ReachInv'
  BY <1>1, <1>5, GraphSame DEF ReachInv, NoRepeats
<1> QED
  BY <1>2, <1>3, <1>6 DEF Inv

(* A step of the search, from what it keeps of the search.                     *)
LEMMA SearchStep ==
  ASSUME Inv, phase = "scc", phase' = "scc", SearchTypes', SearchInv',
         UNCHANGED <<graph, queue, modules, seen, visible>>
  PROVE  Inv'
<1>1. Types' /\ BeginInv'
  BY DEF Inv, Types, SearchTypes, BeginInv
<1>2. ReachInv' /\ InstancesInv'
  BY SameReach, SameInstances DEF Inv
<1> QED
  BY <1>1, <1>2 DEF Inv

LEMMA StartComponentStep == ASSUME Inv, StartComponent PROVE Inv'
<1> USE DEF StartComponent
<1>1. Types /\ SearchInv /\ phase = "scc" /\ phase' = "scc" /\ graph' = graph /\ components' = components /\ calls = << >>
  BY DEF Inv
<1>2. PICK i \in DOMAIN modules : modules[i] \notin DOMAIN index /\ Enter(modules[i], << >>)
  OBVIOUS
<1>3. modules[i] \in Modules
  BY <1>1, <1>2, TypeFacts DEF Range
<1>4. Trimmed(<< >>, modules[i])
  BY <1>1 DEF Trimmed, Calls
<1>5. SearchTypes' /\ SearchInv'
  BY <1>1, <1>2, <1>3, <1>4, EnterStep
<1> QED
  BY <1>1, <1>5, SearchStep

LEMMA FollowEdgeStep == ASSUME Inv, FollowEdge PROVE Inv'
<1> USE DEF FollowEdge
<1> DEFINE t == Head(Top.edges)
           n == Len(calls)
<1>1. /\ Types /\ SearchInv /\ phase = "scc" /\ phase' = "scc" /\ graph' = graph /\ components' = components
      /\ calls # << >> /\ Top.edges # << >>
  BY DEF Inv
<1>2. Trimmed(Below, t) /\ t \in Modules /\ t \in Range(calls[n].edges)
  BY <1>1, BelowFacts DEF Types
<1>3. CASE t \notin DOMAIN index
  <2>1. Enter(t, Below)
    BY <1>3 DEF Below
  <2>2. Active = calls /\ (\A i : Module(i) = calls[i].module) /\ \A i \in DOMAIN calls : calls[i].module \in Range(stack)
    BY <1>1, SearchFacts
  <2>3. n \in DOMAIN calls /\ \A i \in DOMAIN calls : i = n \/ i < n
    BY <1>1, TopFacts DEF Types
  <2>4. Edge(Module(n), t)
    BY <1>1, <1>2, <2>2, <2>3 DEF SearchInv, FrontierInv
  <2>5. ASSUME NEW i \in DOMAIN calls PROVE Reaches(calls[i].module, t)
    <3>1. index[Module(i)] <= index[Module(n)]
      <4>1. index[Module(n)] \in Nat /\ index[Module(i)] \in Nat
        BY <1>1, <2>2, <2>3, SearchFacts
      <4>2. i = n \/ index[Module(i)] < index[Module(n)]
        BY <1>1, <2>2, <2>3 DEF SearchInv, OrderInv
      <4> QED
        BY <4>1, <4>2
    <3>2. Reaches(Module(i), Module(n))
      BY <1>1, <2>2, <2>3, <3>1 DEF SearchInv, StackInv
    <3> QED
      BY <2>2, <2>4, <3>2, ReachFacts
  <2> HIDE DEF t
  <2>6. SearchTypes' /\ SearchInv'
    BY <1>1, <1>2, <1>3, <2>1, <2>5, EnterStep
  <2> QED
    BY <1>1, <2>6, SearchStep
<1>4. CASE t \in DOMAIN index
  <2>1. /\ calls' = Below /\ stack' = stack /\ index' = index
        /\ low' = IF t \in Range(stack) THEN Lowered(Top.module, index[t]) ELSE low
    BY <1>4 DEF Below
  <2>2. SearchTypes' /\ SearchInv'
    BY <1>1, <1>4, <2>1, LinkStep
  <2> QED
    BY <1>1, <2>2, SearchStep
<1> QED
  BY <1>3, <1>4

LEMMA LeaveStep == ASSUME Inv, Leave PROVE Inv'
<1> DEFINE m == Top.module
           from == CHOOSE i \in DOMAIN stack : stack[i] = m
<1>1. Types /\ SearchInv
  BY DEF Inv
<1>2. Returns
  BY DEF Leave, Returns
<1>3. CASE low[m] = index[m]
  <2>1. /\ components' = Append(components, Range(SubSeq(stack, from, Len(stack))))
        /\ stack' = SubSeq(stack, 1, from - 1)
    BY <1>3 DEF Leave
  <2>2. m \in Range(stack)
    BY <1>1, <1>2, ReturnFacts
  <2>3. from \in DOMAIN stack /\ stack[from] = m
    BY <2>2 DEF Range
  <2> HIDE DEF from
  <2>4. SearchTypes' /\ SearchInv'
    BY <1>1, <1>2, <1>3, <2>1, <2>3, RootStep
  <2> QED
    BY <1>2, <2>4, SearchStep DEF Returns, Leave
<1>4. CASE low[m] # index[m]
  <2>1. stack' = stack /\ components' = components
    BY <1>4 DEF Leave
  <2>2. SearchTypes' /\ SearchInv'
    BY <1>1, <1>2, <1>4, <2>1, InnerStep
  <2> QED
    BY <1>2, <2>2, SearchStep DEF Returns, Leave
<1> QED
  BY <1>3, <1>4

LEMMA ConnectedStep == ASSUME Inv, Connected PROVE Inv'
<1> USE DEF Connected
<1> DEFINE c == [module |-> Entry, edges |-> ImportRefs(Entry)]
<1>1. /\ Types /\ ReachInv /\ SearchInv
      /\ phase = "scc" /\ phase' = "instances" /\ graph' = graph
      /\ calls = << >> /\ calls' = << c >> /\ seen' = {Entry} /\ visible' = << Entry >>
  BY DEF Inv
<1>2. Entry \in Modules
  BY GraphsAssumption
<1>3. ImportRefs(Entry) \in Seq(Modules) /\ \A t : t \in Range(ImportRefs(Entry)) <=> <<Entry, t>> \in Imports
  BY <1>1, <1>2, RefsFacts DEF Types
<1>4. Types'
  BY <1>1, <1>2, <1>3 DEF Types, Calls
<1>5. SearchInv'
  BY <1>1, SameSearch DEF Active
<1>6. ReachInv' /\ BeginInv'
  BY <1>1, SameReach DEF BeginInv
<1>7. InstancesInv'
  <2>1. DOMAIN calls' = {1} /\ calls'[1].module = Entry /\ calls'[1].edges = ImportRefs(Entry)
    BY <1>1
  <2>2. Range(visible') = {Entry} /\ Len(visible') = 1
    BY <1>1 DEF Range
  <2>3. NoRepeats(visible')
    BY <2>2, FS_Singleton DEF NoRepeats
  <2>4. Entry \in From(Entry, Imports)
    BY <1>2, FromFacts DEF Imports
  <2>5. Imports' = Imports /\ From(Entry, Imports)' = From(Entry, Imports)
    BY <1>1, GraphSame
  <2> QED
    BY <1>1, <1>3, <2>1, <2>2, <2>3, <2>4, <2>5 DEF InstancesInv, NoRepeats
<1> QED
  BY <1>4, <1>5, <1>6, <1>7 DEF Inv

LEMMA CollectImportedModulesStep == ASSUME Inv, CollectImportedModules PROVE Inv'
<1> USE DEF CollectImportedModules
<1> DEFINE t == Head(Top.edges)
           c == [module |-> t, edges |-> ImportRefs(t)]
<1>0. PICK n : n = Len(calls)
  OBVIOUS
<1>1. /\ Types /\ ReachInv /\ SearchInv /\ InstancesInv
      /\ phase = "instances" /\ phase' = "instances" /\ graph' = graph /\ calls # << >>
  BY DEF Inv
<1>2. SearchInv'
  BY <1>1, SameSearch DEF Active
<1>3. ReachInv' /\ BeginInv'
  BY <1>1, SameReach DEF BeginInv
<1>4. Imports' = Imports /\ From(Entry, Imports)' = From(Entry, Imports)
  BY <1>1, GraphSame
<1>5. /\ NoRepeats(visible) /\ Range(visible) = seen /\ Entry \in seen /\ seen \subseteq From(Entry, Imports)
      /\ \A m \in seen, u \in Modules : <<m, u>> \in Imports =>
           \/ u \in seen
           \/ \E i \in DOMAIN calls : calls[i].module = m /\ u \in Range(calls[i].edges)
      /\ \A i \in DOMAIN calls : /\ calls[i].module \in seen
                                /\ \A u \in Range(calls[i].edges) : <<calls[i].module, u>> \in Imports
  BY <1>1 DEF InstancesInv
<1>6. /\ n \in Nat /\ n # 0 /\ DOMAIN calls = 1 .. n /\ Top = calls[n]
      /\ Callers \in Calls /\ DOMAIN Callers = 1 .. n - 1
      /\ \A i \in 1 .. n - 1 : Callers[i] = calls[i]
  BY <1>0, <1>1, TopFacts DEF Types
<1>7. CASE Top.edges = << >>
  <2>1. calls' = Callers /\ seen' = seen /\ visible' = visible
    BY <1>7
  <2>2. Types'
    BY <1>1, <1>6, <2>1 DEF Types
  <2>3. ASSUME NEW m \in seen, NEW u \in Modules, <<m, u>> \in Imports, u \notin seen
        PROVE  \E i \in DOMAIN calls' : calls'[i].module = m /\ u \in Range(calls'[i].edges)
    <3>1. PICK i \in 1 .. n : calls[i].module = m /\ u \in Range(calls[i].edges)
      BY <1>5, <1>6, <2>3
    <3>2. i # n
      BY <1>6, <1>7, <3>1, RangeEmpty
    <3>3. i \in 1 .. n - 1
      BY <1>6, <3>2
    <3> QED
      BY <1>6, <2>1, <3>1, <3>3
  <2>4. \A i \in DOMAIN calls' : i \in DOMAIN calls /\ calls'[i] = calls[i]
    BY <1>6, <2>1
  <2>5. InstancesInv'
    BY <1>1, <1>4, <1>5, <2>1, <2>3, <2>4 DEF InstancesInv, NoRepeats
  <2> QED
    BY <1>2, <1>3, <2>2, <2>5 DEF Inv
<1>8. CASE Top.edges # << >>
  <2>1. Trimmed(Below, t) /\ t \in Modules /\ t \in Range(calls[n].edges)
    BY <1>0, <1>1, <1>8, BelowFacts DEF Types
  <2>2. /\ Below \in Calls /\ DOMAIN Below = 1 .. n
        /\ \A i \in 1 .. n :
             /\ Below[i].module = calls[i].module
             /\ Range(Below[i].edges) \subseteq Range(calls[i].edges)
             /\ \A x \in Range(calls[i].edges) : x \in Range(Below[i].edges) \/ x = t
    BY <1>6, <2>1 DEF Trimmed
  <2>3. CASE t \in seen
    <3>1. calls' = Below /\ seen' = seen /\ visible' = visible
      BY <1>8, <2>3 DEF Below
    <3>2. Types'
      BY <1>1, <2>2, <3>1 DEF Types
    <3>3. ASSUME NEW m \in seen, NEW u \in Modules, <<m, u>> \in Imports, u \notin seen
          PROVE  \E i \in DOMAIN calls' : calls'[i].module = m /\ u \in Range(calls'[i].edges)
      <4>1. PICK i \in 1 .. n : calls[i].module = m /\ u \in Range(calls[i].edges)
        BY <1>5, <1>6, <3>3
      <4> QED
        BY <2>2, <2>3, <3>1, <3>3, <4>1
    <3>4. \A i \in DOMAIN calls' : /\ calls'[i].module \in seen
                                  /\ \A u \in Range(calls'[i].edges) : <<calls'[i].module, u>> \in Imports
      BY <1>5, <1>6, <2>2, <3>1
    <3>5. InstancesInv'
      BY <1>1, <1>4, <1>5, <3>1, <3>3, <3>4 DEF InstancesInv, NoRepeats
    <3> QED
      BY <1>2, <1>3, <3>2, <3>5 DEF Inv
  <2>4. CASE t \notin seen
    <3>1. calls' = Append(Below, c) /\ seen' = seen \cup {t} /\ visible' = Append(visible, t)
      BY <1>8, <2>4 DEF Below
    <3>2. ImportRefs(t) \in Seq(Modules) /\ \A u : u \in Range(ImportRefs(t)) <=> <<t, u>> \in Imports
      BY <1>1, <2>1, RefsFacts DEF Types
    <3>3. c \in Call /\ c.module = t /\ c.edges = ImportRefs(t)
      BY <2>1, <3>2 DEF Call
    <3> HIDE DEF c, t
    <3>4. /\ calls' \in Calls /\ DOMAIN calls' = 1 .. n + 1
          /\ \A i \in 1 .. n : calls'[i] = Below[i]
          /\ calls'[n + 1] = c
      <4>1. Below \in Seq(Call) /\ Len(Below) \in Nat /\ DOMAIN Below = 1 .. Len(Below)
        BY <2>2, LenProperties DEF Calls, Call
      <4>2. Len(Below) = n
        BY <1>6, <2>2, <4>1, SameEnd
      <4>3. /\ calls' \in Seq(Call) /\ Len(calls') = n + 1
            /\ \A i \in 1 .. n : calls'[i] = Below[i]
            /\ calls'[n + 1] = c
        BY <3>1, <3>3, <4>1, <4>2, AppendProperties
      <4> QED
        BY <4>3, LenProperties DEF Calls, Call
    <3>5. 1 .. n + 1 = (1 .. n) \cup {n + 1}
      BY <1>6
    <3>6. visible' \in Seq(Modules) /\ Range(visible') = seen' /\ NoRepeats(visible')
      BY <1>1, <1>5, <2>1, <2>4, <3>1, RangeAppend, AppendProperties, NoRepeatsAppend DEF Types
    <3>7. Types'
      BY <1>1, <2>1, <3>1, <3>4, <3>6 DEF Types
    <3>8. <<calls[n].module, t>> \in Imports /\ calls[n].module \in seen
      BY <1>5, <1>6, <2>1
    <3>9. seen' \subseteq From(Entry, Imports)
      <4>1. calls[n].module \in From(Entry, Imports)
        BY <1>5, <3>8
      <4>2. Imports \in SUBSET (Modules \X Modules)
        BY DEF Imports
      <4>3. t \in From(Entry, Imports)
        BY <3>8, <4>1, <4>2, FromFacts
      <4> QED
        BY <1>5, <3>1, <4>3
    <3>10. ASSUME NEW m \in seen', NEW u \in Modules, <<m, u>> \in Imports, u \notin seen'
           PROVE  \E i \in DOMAIN calls' : calls'[i].module = m /\ u \in Range(calls'[i].edges)
      <4>1. CASE m = t
        BY <3>2, <3>3, <3>4, <3>5, <3>10, <4>1
      <4>2. CASE m # t
        <5>1. m \in seen /\ u \notin seen /\ u # t
          BY <3>1, <3>10, <4>2
        <5>2. PICK i \in 1 .. n : calls[i].module = m /\ u \in Range(calls[i].edges)
          BY <1>5, <1>6, <3>10, <5>1
        <5> QED
          BY <2>2, <3>4, <3>5, <5>1, <5>2
      <4> QED
        BY <4>1, <4>2
    <3>11. ASSUME NEW i \in DOMAIN calls'
           PROVE  /\ calls'[i].module \in seen'
                  /\ \A u \in Range(calls'[i].edges) : <<calls'[i].module, u>> \in Imports
      <4>1. CASE i = n + 1
        BY <3>1, <3>2, <3>3, <3>4, <4>1
      <4>2. CASE i \in 1 .. n
        BY <1>5, <1>6, <2>2, <3>1, <3>4, <4>2
      <4> QED
        BY <3>4, <3>5, <4>1, <4>2
    <3>12. InstancesInv'
      BY <1>1, <1>4, <1>5, <3>1, <3>6, <3>9, <3>10, <3>11 DEF InstancesInv, NoRepeats
    <3> QED
      BY <1>2, <1>3, <3>7, <3>12 DEF Inv
  <2> QED
    BY <2>3, <2>4
<1> QED
  BY <1>7, <1>8

LEMMA CollectedStep == ASSUME Inv, Collected PROVE Inv'
<1> USE DEF Collected
<1>1. /\ Types /\ ReachInv /\ SearchInv /\ InstancesInv
      /\ phase = "instances" /\ phase' = "done" /\ graph' = graph
  BY DEF Inv
<1>2. Types' /\ ReachInv' /\ SearchInv' /\ BeginInv'
  BY <1>1, SameReach, SameSearch DEF Types, Active, BeginInv
<1>3. InstancesInv'
  BY <1>1, GraphSame DEF InstancesInv, NoRepeats
<1> QED
  BY <1>2, <1>3 DEF Inv

LEMMA StutterStep == ASSUME Inv, UNCHANGED vars PROVE Inv'
<1> USE DEF vars
<1>1. Types' /\ BeginInv'
  BY DEF Inv, Types, BeginInv
<1>2. SearchInv'
  BY SameSearch DEF Inv, Active
<1>3. ReachInv'
  BY GraphSame DEF Inv, ReachInv, NoRepeats
<1>4. InstancesInv'
  BY GraphSame DEF Inv, InstancesInv, NoRepeats
<1> QED
  BY <1>1, <1>2, <1>3, <1>4 DEF Inv

(* The invariant holds in every state of every graph's searches.               *)
LEMMA Invariance == Spec => []Inv
<1>1. Inv /\ [Next]_vars => Inv'
  BY CollectReachableStep, ReachedStep, StartComponentStep, FollowEdgeStep, LeaveStep, ConnectedStep,
     CollectImportedModulesStep, CollectedStep, StutterStep DEF Next
<1> QED
  BY InitInv, <1>1, PTL DEF Spec

-------------------------------------------------------------------------------
(* A module with an index is on the stack or in a component, and links stay on *)
(* the stack: solcore's strong_connect drops no module and none twice.         *)
THEOREM TypeCorrect == Spec => []TypeOK
<1>1. Inv => TypeOK
  <2> SUFFICES ASSUME Inv PROVE TypeOK
    OBVIOUS
  <2>1. phase \in {"reach", "scc", "instances", "done"}
    BY DEF Inv, Types
  <2>2. Range(stack) = DOMAIN index \ UNION Range(components)
    BY DEF Inv, SearchInv, OrderInv, Done
  <2>3. \A m \in Range(stack) : \E t \in Range(stack) : low[m] = index[t] /\ index[t] <= index[m]
    BY DEF Inv, SearchInv, LinkInv, Linked
  <2> QED
    BY <2>1, <2>2, <2>3 DEF TypeOK
<1> QED
  BY Invariance, <1>1, PTL

(* collect_reachable_modules collects every module that imports and exports    *)
(* lead to, and each once.                                                     *)
THEOREM EveryModuleIsCollected == Spec => []ReachableOnce
<1>1. Inv => ReachableOnce
  BY DEF Inv, ReachInv, ReachableOnce
<1> QED
  BY Invariance, <1>1, PTL

(* strong_connect pops the classes of mutually reachable modules, in an order  *)
(* in which none refers to a later one.                                        *)
THEOREM ComponentsAreClasses == Spec => []ComponentsAreCycles
<1>1. Inv => ComponentsAreCycles
  BY DEF Inv, SearchInv
<1> QED
  BY Invariance, <1>1, PTL

(* instance_import_modules collects what chains of imports lead to.            *)
THEOREM InstancesAlongImports == Spec => []InstancesFollowImports
<1>1. Inv => InstancesFollowImports
  <2> SUFFICES ASSUME Inv, phase = "done" PROVE NoRepeats(visible) /\ Range(visible) = From(Entry, Imports)
    BY DEF InstancesFollowImports
  <2>1. calls = << >> /\ seen \subseteq Modules
    BY DEF Inv, Types
  <2>2. /\ NoRepeats(visible) /\ Range(visible) = seen /\ Entry \in seen /\ seen \subseteq From(Entry, Imports)
        /\ \A m \in seen, t \in Modules : <<m, t>> \in Imports => t \in seen
    BY <2>1 DEF Inv, InstancesInv
  <2>3. Imports \in SUBSET (Modules \X Modules)
    BY DEF Imports
  <2>4. Closed(seen, Imports)
    BY <2>2, <2>3 DEF Closed
  <2>5. From(Entry, Imports) \subseteq seen
    BY <2>1, <2>2, <2>3, <2>4, FromFacts
  <2> QED
    BY <2>2, <2>5
<1> QED
  BY Invariance, <1>1, PTL

(* All of it: what solcore's three passes over the graph of modules are for.   *)
THEOREM GraphStaysExact == Spec => []GraphIsExact
<1>1. TypeOK /\ ReachableOnce /\ ComponentsAreCycles /\ InstancesFollowImports => GraphIsExact
  BY DEF GraphIsExact
<1> QED
  BY TypeCorrect, EveryModuleIsCollected, ComponentsAreClasses, InstancesAlongImports, <1>1, PTL
=============================================================================
