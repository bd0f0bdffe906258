----------------------------- MODULE TraitSolver -----------------------------
(* The trait solver: Solcore's adapter for tabled resolution and the choice of *)
(* a solution among the answers.  A goal is a ground predicate, so a           *)
(* substitution is empty, a table key is the predicate and a dictionary root   *)
(* is always exact.  A builtin or derived fact with conditions behaves as a    *)
(* regular instance.  What is left is what the adapter is about: which clauses *)
(* compete, cycles, two passes with and without the identity of dictionaries,  *)
(* and pruning by preference.  The order in which the library serves pending   *)
(* work is left open.                                                          *)
EXTENDS Naturals, Sequences, FiniteSets

CONSTANTS Preds,      \* the ground predicates
          Goal,       \* the goal to solve
          Programs    \* the programs to solve it in, each a set of clauses

Kinds == {"given", "builtin", "regular", "super", "default", "stdDefault"}

(* A clause proves head from its conditions; def tells declarations apart.     *)
Clauses == [def : Nat, kind : Kinds, head : Preds, conditions : Seq(Preds)]

ProgramsAssumption ==
  /\ Goal \in Preds
  /\ \A p \in Programs : \A c \in p :
       /\ c \in Clauses
       /\ c.kind \in {"given", "builtin"} => c.conditions = <<>>
       /\ c.kind = "super" => Len(c.conditions) = 1

VARIABLES
  program,    \* the clauses in scope
  phase,      \* "discovery", "complete" or "done"
  tables,     \* key -> its answers and the consumers waiting for more
  work,       \* clauses to apply and answers to deliver
  collapsed,  \* discovery met two dictionaries behind one logical answer
  recipes,    \* discovery's record of what each logical answer was made from
  exhausted,  \* the work budget or the table limit ran out
  answers     \* the answers of the root goal in the pass that was kept

vars == <<program, phase, tables, work, collapsed, recipes, exhausted, answers>>

-------------------------------------------------------------------------------
(* Evidence: a dictionary is its root and the dictionaries of the conditions.  *)

Givens == {c.head : c \in {d \in program : d.kind = "given"}}

(* Facts and assumptions are discharged directly and are not told apart.       *)
Root(c) == IF c.kind \in {"given", "builtin"} THEN [def |-> 0, kind |-> "builtin", pred |-> c.head]
           ELSE [def |-> c.def, kind |-> c.kind, pred |-> c.head]

ClauseEvidence(c, kids) == [root |-> Root(c), kids |-> kids]

RECURSIVE EvidenceRootGiven(_)
EvidenceRootGiven(e) ==
  CASE e.root.kind = "builtin" -> {e.root.pred}
    [] e.root.kind = "super" -> EvidenceRootGiven(e.kids[1])
    [] OTHER -> {}

LocalGiven(e) == EvidenceRootGiven(e) \cap Givens # {}

(* Projections of one predicate from one assumption are one dictionary.        *)
RECURSIVE DictionaryIdentity(_)
DictionaryIdentity(e) ==
  IF LocalGiven(e) THEN [given |-> EvidenceRootGiven(e), pred |-> e.root.pred]
  ELSE [root |-> e.root, kids |-> [i \in DOMAIN e.kids |-> DictionaryIdentity(e.kids[i])]]

RECURSIVE ContainsRoot(_, _)
ContainsRoot(e, root) ==
  e.root = root \/ \E i \in DOMAIN e.kids : ContainsRoot(e.kids[i], root)

RepeatsRoot(e) == \E i \in DOMAIN e.kids : ContainsRoot(e.kids[i], e.root)

ClausePriority(kind, given) ==
  CASE given -> 0 [] kind = "super" -> 2 [] kind = "default" -> 3
    [] kind = "stdDefault" -> 4 [] OTHER -> 1

EvidencePriority(e) == ClausePriority(e.root.kind, LocalGiven(e))

(* The partial order on dictionaries of one goal: "eq", "lt", "gt" or "none".  *)
RECURSIVE EvidencePreference(_, _)
EvidencePreference(l, r) ==
  LET pl == EvidencePriority(l)
      pr == EvidencePriority(r)
      kids == {EvidencePreference(l.kids[i], r.kids[i]) : i \in DOMAIN l.kids} \ {"eq"}
  IN  CASE DictionaryIdentity(l) = DictionaryIdentity(r) -> "eq"
        [] pl < pr -> "lt"
        [] pl > pr -> "gt"
        [] l.root # r.root \/ Len(l.kids) # Len(r.kids) -> "none"
        [] kids = {} -> "eq"
        [] Cardinality(kids) = 1 -> CHOOSE k \in kids : TRUE
        [] OTHER -> "none"

(* An answer keeps the clause origin beside its evidence.                      *)
Origin(c) == IF c.kind \in {"given", "builtin"} THEN <<c.kind, 0>> ELSE <<c.kind, c.def>>
LogicalAnswerKey(a) == <<a.origin, LocalGiven(a.evidence)>>
KeyPriority(k) == ClausePriority(k[1][1], k[2])
AnswerPriority(a) == KeyPriority(LogicalAnswerKey(a))

(* The candidates of a solution: of the best root priority, one per dictionary *)
(* and none that another is preferred to.                                      *)
SolutionFromAnswers(as) ==
  LET best == {a \in as : \A b \in as : AnswerPriority(a) <= AnswerPriority(b)}
  IN  {DictionaryIdentity(a.evidence) :
         a \in {b \in best : \A o \in best : EvidencePreference(o.evidence, b.evidence) # "lt"}}

-------------------------------------------------------------------------------
(* Clauses that compete for a goal: a default only when no implementation      *)
(* reserves the head.                                                          *)

ApplicableClauses(pred) ==
  LET heads == {c \in program : c.head = pred}
      fallbacks == {c \in heads : c.kind \in {"default", "stdDefault"}}
  IN  IF \E c \in heads : c.kind \in {"regular", "builtin"} THEN heads \ fallbacks ELSE heads

(* A logical answer of a goal has a finite proof that repeats no ancestor: the *)
(* least fixed point over the recipes whose own root is not one.               *)
Nodes == {r.node : r \in recipes}
RECURSIVE Proven(_, _)
Proven(ctx, known) ==
  LET more == {r.node : r \in {q \in recipes : q.branch \cap ctx = {} /\ q.prerequisites \subseteq known}}
  IN  IF more \subseteq known THEN known ELSE Proven(ctx, known \cup more)

\* Mutant: a witness may repeat a dictionary that is already an ancestor.
WitnessAnywhere(node, ctx) == node \in Proven({}, {})

HasFiniteWitness(node, ctx) == node \in Proven(ctx, {})

LogicalAnswers(pred) == {n[2] : n \in {m \in Nodes : m[1] = pred}}

DominatesSubstitution(key, priority) ==
  \E k \in LogicalAnswers(key.pred) :
    /\ KeyPriority(k) < priority
    /\ key.context = {} \/ HasFiniteWitness(<<key.pred, k>>, key.context)

DominatesClause(key, c) ==
  LET as == {k \in LogicalAnswers(key.pred) : k[1] = Origin(c)}
  IN  as # {} /\ \A k \in as : DominatesSubstitution(key, KeyPriority(k))

-------------------------------------------------------------------------------
(* The library: a table per key, a unit of work per clause and per answer that *)
(* reaches a consumer, and no answer twice.                                    *)

Generate(key) == {[key |-> key, clause |-> c, kids |-> <<>>, nodes |-> {}] : c \in ApplicableClauses(key.pred)}
EmptyTable == [answers |-> {}, consumers |-> {}]
RootKey == [pred |-> Goal, context |-> {}]

Start ==
  /\ tables' = [k \in {RootKey} |-> EmptyTable]
  /\ work' = Generate(RootKey)

(* The consumer s waits for the next condition of its clause.                  *)
Subgoal(s) ==
  [pred |-> s.clause.conditions[Len(s.kids) + 1],
   context |-> IF phase = "complete" THEN s.key.context \cup {Root(s.clause)} ELSE {}]

Deliver(s, a) == [state |-> s, answer |-> a]

Suspend(s, rest) ==
  LET sub == Subgoal(s)
      known == sub \in DOMAIN tables
      table == IF known THEN tables[sub] ELSE EmptyTable
  IN  /\ tables' = [k \in DOMAIN tables \cup {sub} |->
                      IF k = sub THEN [table EXCEPT !.consumers = @ \cup {s}] ELSE tables[k]]
      /\ work' = rest \cup {Deliver(s, a) : a \in table.answers}
                      \cup (IF known THEN {} ELSE Generate(sub))
      /\ UNCHANGED <<collapsed, recipes>>

Reject(rest) == work' = rest /\ UNCHANGED <<tables, collapsed, recipes>>

AnswerKey(a) == IF phase = "discovery" THEN <<LogicalAnswerKey(a)>>
                ELSE <<DictionaryIdentity(a.evidence)>>

AddAnswer(key, a, rest) ==
  IF \E b \in tables[key].answers : AnswerKey(b) = AnswerKey(a)
  THEN work' = rest /\ UNCHANGED tables
  ELSE /\ tables' = [tables EXCEPT ![key].answers = @ \cup {a}]
       /\ work' = rest \cup {Deliver(s, a) : s \in tables[key].consumers}

(* A clause with all its conditions met answers its goal.                      *)
Answer(s, rest) ==
  LET a == [evidence |-> ClauseEvidence(s.clause, s.kids), origin |-> Origin(s.clause)]
      node == <<s.key.pred, LogicalAnswerKey(a)>>
      branch == IF s.nodes = {} THEN {} ELSE {Root(s.clause)}
  IN  \/ /\ phase = "discovery"
         /\ collapsed' = (\/ collapsed
                          \/ RepeatsRoot(a.evidence)
                          \/ \E b \in tables[s.key].answers :
                               LogicalAnswerKey(b) = LogicalAnswerKey(a) /\ b # a)
         /\ recipes' = recipes \cup {[node |-> node, branch |-> branch, prerequisites |-> s.nodes]}
         /\ AddAnswer(s.key, a, rest)
      \/ /\ phase = "complete"
         /\ IF RepeatsRoot(a.evidence) \/ DominatesSubstitution(s.key, AnswerPriority(a))
            THEN Reject(rest)
            ELSE AddAnswer(s.key, a, rest) /\ UNCHANGED <<collapsed, recipes>>

Proceed(s, rest) == IF Len(s.kids) < Len(s.clause.conditions) THEN Suspend(s, rest) ELSE Answer(s, rest)

-------------------------------------------------------------------------------
Init ==
  /\ program \in Programs
  /\ phase = "discovery"
  /\ tables = [k \in {RootKey} |-> EmptyTable]
  /\ work = Generate(RootKey)
  /\ collapsed = FALSE /\ recipes = {} /\ exhausted = FALSE /\ answers = {}

Running == phase \in {"discovery", "complete"}

(* apply_clause: a dominated clause, or one whose dictionary is an ancestor of *)
(* this goal, is not tried in the second pass.                                 *)
ApplyClause(s) ==
  LET pruned == /\ phase = "complete"
                /\ \/ DominatesClause(s.key, s.clause)
                   \/ s.clause.conditions # <<>> /\ Root(s.clause) \in s.key.context
  IN  /\ Running
      /\ IF pruned THEN Reject(work \ {s}) ELSE Proceed(s, work \ {s})
      /\ UNCHANGED <<program, phase, exhausted, answers>>

(* resume: an answer of the awaited condition joins the evidence.              *)
Resume(d) ==
  LET s == d.state
      node == <<Subgoal(s).pred, LogicalAnswerKey(d.answer)>>
      next == [s EXCEPT !.kids = Append(@, d.answer.evidence),
                          !.nodes = IF phase = "discovery" THEN @ \cup {node} ELSE @]
  IN  /\ Running
      /\ Proceed(next, work \ {d})
      /\ UNCHANGED <<program, phase, exhausted, answers>>

\* Mutant: the second pass runs with the keys of the first.
FinishKeepingDiscovery ==
  /\ Running /\ work = {}
  /\ \/ collapsed /\ Start /\ UNCHANGED <<phase, answers>>
     \/ /\ ~collapsed /\ phase' = "done"
        /\ answers' = tables[RootKey].answers
        /\ UNCHANGED <<tables, work>>
  /\ UNCHANGED <<program, collapsed, recipes, exhausted>>

(* Saturated: one pass is enough unless a logical answer stood for several     *)
(* dictionaries; then the proof graph is kept and a second pass expands them.  *)
FinishPass ==
  /\ Running /\ work = {}
  /\ \/ /\ phase = "discovery" /\ collapsed
        /\ phase' = "complete"
        /\ Start
        /\ UNCHANGED answers
     \/ /\ ~(phase = "discovery" /\ collapsed)
        /\ phase' = "done"
        /\ answers' = tables[RootKey].answers
        /\ UNCHANGED <<tables, work>>
  /\ UNCHANGED <<program, collapsed, recipes, exhausted>>

(* A callback finds the budget spent, or a table is one too many: the answers  *)
(* so far are reported with the flag.                                          *)
Exhaust ==
  /\ Running
  /\ phase' = "done" /\ exhausted' = TRUE
  /\ answers' = tables[RootKey].answers
  /\ UNCHANGED <<program, tables, work, collapsed, recipes>>

Step ==
  \/ \E s \in work : "clause" \in DOMAIN s /\ ApplyClause(s)
  \/ \E d \in work : "answer" \in DOMAIN d /\ Resume(d)
  \/ FinishPass

Next == Step \/ Exhaust

Spec == Init /\ [][Next]_vars /\ WF_vars(Step)

-------------------------------------------------------------------------------
(* The reference: every finite proof in which no dictionary is its own         *)
(* ancestor, from the clauses alone.                                           *)
RECURSIVE SimpleProofs(_, _), Products(_, _)
SimpleProofs(pred, above) ==
  UNION {LET inner == above \cup {Root(c)}
         IN  IF c.conditions # <<>> /\ Root(c) \in above THEN {}
             ELSE {[evidence |-> ClauseEvidence(c, kids), origin |-> Origin(c)] :
                     kids \in Products(c.conditions, inner)}
         : c \in ApplicableClauses(pred)}
Products(conditions, above) ==
  IF conditions = <<>> THEN {<<>>}
  ELSE {<<a.evidence>> \o rest : a \in SimpleProofs(Head(conditions), above),
                                 rest \in Products(Tail(conditions), above)}

RECURSIVE Proves(_, _)
Proves(e, pred) ==
  /\ e.root.pred = pred
  /\ \E c \in program :
       /\ Root(c) = e.root /\ Len(e.kids) = Len(c.conditions)
       /\ \A i \in DOMAIN e.kids : Proves(e.kids[i], c.conditions[i])

(* Every table is of a goal, every consumer waits where its next condition is. *)
TypeOK ==
  /\ phase \in {"discovery", "complete", "done"}
  /\ collapsed \in BOOLEAN /\ exhausted \in BOOLEAN
  /\ \A k \in DOMAIN tables : k.pred \in Preds
  /\ \A k \in DOMAIN tables : \A s \in tables[k].consumers :
       s.clause.conditions[Len(s.kids) + 1] = k.pred /\ s.key \in DOMAIN tables

(* Whatever the order of the work and wherever the budget ends, every answer   *)
(* is a proof of its goal from the clauses: delivering an answer to a consumer *)
(* never pairs it with another condition.                                      *)
AnswersAreProofs ==
  /\ \A k \in DOMAIN tables : \A a \in tables[k].answers : Proves(a.evidence, k.pred)
  /\ \A a \in answers : Proves(a.evidence, Goal)

(* A solve that was not cut short reports exactly the preferred dictionaries   *)
(* among all finite proofs, in every order of work: sharing logical answers,   *)
(* skipping the second pass and pruning dominated clauses lose no candidate    *)
(* and keep none that is not wanted, cycles included.                          *)
SolutionIsReference ==
  phase = "done" /\ ~exhausted =>
    SolutionFromAnswers(answers) = SolutionFromAnswers(SimpleProofs(Goal, {}))

(* Cyclic programs saturate: without any budget the work ends.                 *)
Terminates == <>(phase = "done")

=============================================================================
