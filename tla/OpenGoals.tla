------------------------------ MODULE OpenGoals ------------------------------
(* The trait solver on goals with variables.  A goal's solvable variables are  *)
(* numbered in a way that does not depend on the caller, so that goals equal   *)
(* up to renaming share one table; variables fixed by the surrounding body are *)
(* carried by a stable origin, since the assumptions in scope are written in   *)
(* terms of those.  An answer is a substitution in the table's numbering and   *)
(* is renumbered for every consumer.  Dictionaries and the second pass         *)
(* are in TraitSolver, and so are all orders of work: here it is served fairly,*)
(* oldest first.                                                               *)
EXTENDS TypeMatch, SequencesExt

CONSTANTS Cases,   \* what is solved: [program, givens, pred, allowed]
          Fuel     \* the work budget (16384 in the code)

VARIABLES
  program,   \* the clauses in scope
  givens,    \* the assumptions of the surrounding body
  root,      \* the goal: its predicate and its solvable variables
  tables,    \* key -> its answers and the consumers waiting for more
  work,      \* clauses to apply and answers to deliver, oldest first
  fuel,      \* what is left of the budget
  stopped    \* the budget ran out

vars == <<program, givens, root, tables, work, fuel, stopped>>

-------------------------------------------------------------------------------
RECURSIVE InSomeOrder(_)
InSomeOrder(S) == IF S = {} THEN <<>> ELSE LET x == CHOOSE y \in S : TRUE IN <<x>> \o InSomeOrder(S \ {x})

RECURSIVE Ascending(_)
Ascending(S) == IF S = {} THEN <<>> ELSE Append(Ascending(S \ {SetMax(S)}), SetMax(S))

(* Keys.  A rigid variable has a stable origin and a number in the goal.       *)

Rigid(origin, actual) == [origin |-> origin, actual |-> actual]
Actuals(rigid) == {rigid[i].actual : i \in DOMAIN rigid}
Origins(rigid) == {rigid[i].origin : i \in DOMAIN rigid}

RECURSIVE VarsInOrder(_, _)
VarsInOrder(ts, seen) ==
  IF ts = <<>> THEN seen
  ELSE IF IsBound(Head(ts))
       THEN VarsInOrder(Tail(ts), IF Contains(seen, Head(ts)[2]) THEN seen ELSE Append(seen, Head(ts)[2]))
       ELSE VarsInOrder(Parts(Head(ts)) \o Tail(ts), seen)

(* First occurrence decides, not the caller's numbers.                         *)
PredVarsInOrder(pred) == VarsInOrder(TypesOf(pred), <<>>)

(* A fixed variable met for the first time is its own origin, unless another   *)
(* one already is.                                                             *)
RECURSIVE ExtendRigid(_, _, _)
ExtendRigid(rigid, new, next) ==
  IF new = <<>> THEN rigid
  ELSE LET taken == Origins(rigid)
           free == CHOOSE n \in next..(next + Cardinality(taken)) :
                     n \notin taken /\ \A m \in next..(n - 1) : m \in taken
       IN  IF Head(new) \notin taken
           THEN ExtendRigid(Append(rigid, Rigid(Head(new), Head(new))), Tail(new), next)
           ELSE ExtendRigid(Append(rigid, Rigid(free, Head(new))), Tail(new), free + 1)

FreshBase(pred, allowed, rigid) == NextVar(Actuals(rigid) \cup allowed \cup PredVars(pred))

CanonicalizeGoal(pred, allowed, rigidVars) ==
  LET order == PredVarsInOrder(pred)
      known == Actuals(rigidVars)
      flex == SelectSeq(order, LAMBDA v : v \in allowed /\ v \notin known)
      new == Ascending(PredVars(pred) \ (Range(flex) \cup known))
      all == SortSeq(ExtendRigid(rigidVars, new, NextVar(Origins(rigidVars) \cup PredVars(pred))),
                     LAMBDA a, b : a.origin < b.origin)
      map == [v \in Range(flex) \cup Actuals(all) |->
                IF v \in Range(flex) THEN (CHOOSE i \in DOMAIN flex : flex[i] = v) - 1
                ELSE Len(flex) + (CHOOSE i \in DOMAIN all : all[i].actual = v) - 1]
  IN  [key |-> [pred |-> RenamePred(pred, map), flex |-> Len(flex),
                rigid |-> [i \in DOMAIN all |-> Rigid(all[i].origin, Len(flex) + i - 1)] \o <<>>],
       renaming |-> [actual |-> [i \in 0..(Len(flex) + Len(all) - 1) |->
                                   IF i < Len(flex) THEN flex[i + 1] ELSE all[i - Len(flex) + 1].actual],
                     fresh |-> FreshBase(pred, allowed, all)]]

AllowedVars(key) == 0..(key.flex - 1)

(* An assumption, written with origins, in the numbering of a key.             *)
CanonicalGiven(given, key) ==
  RenamePred(given, [v \in PredVars(given) |->
    IF v \in Origins(key.rigid)
    THEN key.rigid[CHOOSE i \in DOMAIN key.rigid : key.rigid[i].origin = v].actual
    ELSE key.flex + v])

(* An answer for its consumer: the table's variables become the caller's, and  *)
(* variables of the answer itself become fresh ones.                           *)
ActualizeAnswer(answer, renaming) ==
  LET context == DOMAIN renaming.actual
      locals == Ascending(UNION {TyVars(answer[v]) : v \in DOMAIN answer} \ context)
      map == [v \in context \cup Range(locals) |->
                IF v \in context THEN renaming.actual[v]
                ELSE renaming.fresh + (CHOOSE i \in DOMAIN locals : locals[i] = v) - 1]
      values == {<<map[v], RenameTy(answer[v], map)>> : v \in DOMAIN answer}
      kept == {p \in values : p[2] # Bound(p[1])}
  IN  [v \in {p[1] : p \in kept} |-> (CHOOSE p \in kept : p[1] = v)[2]]

-------------------------------------------------------------------------------
GivenClause(given, key) ==
  [binders |-> 0, head |-> CanonicalGiven(given, key), conditions |-> <<>>, kind |-> "given"]

ReservesHead(c) == c.kind \in {"builtin", "regular"}

(* Defaults are tried only where no instance's head can unify with the goal.   *)
ApplicableClauses(key) ==
  LET candidates == {GivenClause(g, key) : g \in givens} \cup {c \in program : c.kind # "default"}
      fitting == {c \in candidates : PredShapesMayMatch(c.head, key.pred)}
      defaults == {c \in program : c.kind = "default" /\ PredShapesMayMatch(c.head, key.pred)}
      goalVars == AllowedVars(key) \cup PredVars(key.pred)
      reserved == \E c \in fitting : ReservesHead(c) /\ HeadCanUnify(c, key.pred, goalVars)
  IN  fitting \cup (IF reserved THEN {} ELSE defaults)

EmptyTable == [answers |-> {}, consumers |-> {}]
ClauseWork(key) == InSomeOrder({[tag |-> "clause", key |-> key, clause |-> c] : c \in ApplicableClauses(key)})

Start == CanonicalizeGoal(root.pred, root.allowed,
                          LET fixed == Ascending(UNION {PredVars(g) : g \in givens})
                          IN  [i \in DOMAIN fixed |-> Rigid(fixed[i], fixed[i])] \o <<>>)

Init ==
  /\ \E case \in Cases :
       /\ program = case.program
       /\ givens = case.givens
       /\ root = [pred |-> case.pred, allowed |-> case.allowed]
  /\ tables = (Start.key :> EmptyTable)
  /\ work = ClauseWork(Start.key)
  /\ fuel = Fuel
  /\ stopped = FALSE

SnapshotForVars(s, flex) ==
  [v \in {u \in 0..(flex - 1) : Apply(s, Bound(u)) # Bound(u)} |-> Apply(s, Bound(v))]

Merge(s, answer) ==
  IF \E v \in DOMAIN s \cap DOMAIN answer : ~TyEqual(Apply(s, s[v]), Apply(s, answer[v]))
  THEN Failed
  ELSE Ok([v \in DOMAIN s \cup DOMAIN answer |-> IF v \in DOMAIN s THEN s[v] ELSE Apply(s, answer[v])])

(* An answer reaches every consumer of its table.                              *)
AddAnswer(key, answer, rest) ==
  /\ tables' = [tables EXCEPT ![key].answers = @ \cup {answer}]
  /\ work' = rest \o (IF answer \in tables[key].answers THEN <<>>
                      ELSE InSomeOrder({[tag |-> "answer", consumer |-> c, answer |-> answer] :
                                       c \in tables[key].consumers}))

(* The next condition, under what is known so far, becomes a goal of its own.  *)
Condition(state) == ApplyPred(state.subst, state.clause.conditions[state.next])
Subgoal(state) == CanonicalizeGoal(Condition(state), state.vars, state.parent.rigid)

Suspend(state, rest) ==
  LET key == Subgoal(state).key
      fresh == key \notin DOMAIN tables
      old == IF fresh THEN EmptyTable ELSE tables[key]
  IN  /\ tables' = (key :> [old EXCEPT !.consumers = @ \cup {state}]) @@ tables
      /\ work' = rest \o InSomeOrder({[tag |-> "answer", consumer |-> state, answer |-> a] : a \in old.answers})
                      \o (IF fresh THEN ClauseWork(key) ELSE <<>>)

\* Mutant: the last condition is not asked for.
ProceedEarly(state, rest) ==
  IF state.next < Len(state.clause.conditions) THEN Suspend(state, rest)
  ELSE AddAnswer(state.parent, SnapshotForVars(state.subst, state.parent.flex), rest)

Proceed(state, rest) ==
  IF state.next <= Len(state.clause.conditions) THEN Suspend(state, rest)
  ELSE AddAnswer(state.parent, SnapshotForVars(state.subst, state.parent.flex), rest)

ApplyClause(w) ==
  LET c == Instantiate(w.clause, w.key.pred, Actuals(w.key.rigid))
      match == MatchHead(c.head, w.key.pred, c.vars, AllowedVars(w.key))
  IN  /\ w.tag = "clause"
      /\ fuel > 0 /\ fuel' = fuel - 1
      /\ IF match.ok
         THEN Proceed([parent |-> w.key, clause |-> c, subst |-> match.s, next |-> 1,
                       vars |-> AllowedVars(w.key) \cup c.vars], Tail(work))
         ELSE work' = Tail(work) /\ UNCHANGED tables
      /\ UNCHANGED <<program, givens, root, stopped>>

Resume(w) ==
  /\ w.tag = "answer"
  /\ fuel > 0 /\ fuel' = fuel - 1
  /\ LET answer == ActualizeAnswer(w.answer, Subgoal(w.consumer).renaming)
         merged == Merge(w.consumer.subst, answer)
     IN  IF merged.ok
         THEN Proceed([w.consumer EXCEPT !.subst = merged.s, !.next = @ + 1,
                         !.vars = @ \cup UNION {TyVars(answer[v]) : v \in DOMAIN answer}], Tail(work))
         ELSE work' = Tail(work) /\ UNCHANGED tables
  /\ UNCHANGED <<program, givens, root, stopped>>

(* Ever larger types are possible; what was found so far is still reported.    *)
Stop ==
  /\ fuel = 0 /\ work # <<>> /\ ~stopped
  /\ stopped' = TRUE
  /\ UNCHANGED <<program, givens, root, tables, work, fuel>>

Done == work = <<>> \/ stopped

(* The answers of the root goal in the caller's variables.                     *)
RootAnswers == {ActualizeAnswer(a, Start.renaming) : a \in tables[Start.key].answers}

(* An answer that still holds variables of its own leaves the goal ambiguous.  *)
IsClosed(answer) ==
  UNION {TyVars(answer[v]) : v \in DOMAIN answer}
    \subseteq PredVars(root.pred) \cup UNION {PredVars(g) : g \in givens}

Next ==
  \/ work # <<>> /\ ApplyClause(Head(work))
  \/ work # <<>> /\ Resume(Head(work))
  \/ Stop

Spec == Init /\ [][Next]_vars

-------------------------------------------------------------------------------
(* The reference: naive resolution of ground predicates, clause by clause and  *)
(* without tables, with a type of its own for every fixed variable.            *)

CONSTANTS Ground,     \* the ground types tried for a variable
          ProofDepth  \* proofs up to this depth are looked for

Skolem(origin) == Named("rigid", <<Named(ToString(origin), <<>>)>>)
FixedVars == UNION {PredVars(g) : g \in givens} \cup (PredVars(root.pred) \ root.allowed)
Base == Ground \cup {Skolem(o) : o \in FixedVars}
Universe == Base \cup {Named("box", <<t>>) : t \in Base}

RECURSIVE NormalTy(_)
NormalTy(t) ==
  IF IsComptime(t) THEN NormalTy(Parts(t)[1])
  ELSE IF IsUnit(t) THEN Named("unit", <<>>)
  ELSE LET F(part) == NormalTy(part) IN MapParts(t, F)
Normal(pred) == LET F(t) == NormalTy(t) IN MapPred(pred, F)

ClauseVars(c) == PredVars(c.head) \cup UNION {PredVars(c.conditions[i]) : i \in DOMAIN c.conditions}

(* The assignments that extend g and make the patterns these ground types.     *)
RECURSIVE Assignments(_, _, _)
Assignments(patterns, types, g) ==
  IF patterns = <<>> THEN {g}
  ELSE LET p == NormalTy(Head(patterns))
           t == Head(types)
       IN  IF IsBound(p)
           THEN IF p[2] \in DOMAIN g
                THEN IF g[p[2]] = t THEN Assignments(Tail(patterns), Tail(types), g) ELSE {}
                ELSE Assignments(Tail(patterns), Tail(types), (p[2] :> t) @@ g)
           ELSE IF Kind(p) = Kind(t) /\ p[2] = t[2] /\ Len(Parts(p)) = Len(Parts(t))
           THEN Assignments(Parts(p) \o Tail(patterns), Parts(t) \o Tail(types), g)
           ELSE {}

GivenFacts == {Normal(ApplyPred([v \in PredVars(g) |-> Skolem(v)], g)) : g \in givens}

RECURSIVE Provable(_, _, _)
Provable(clauses, pred, depth) ==
  \/ pred \in GivenFacts
  \/ /\ depth > 0
     /\ \E c \in {d \in clauses : d.head.class = pred.class /\ Len(d.head.args) = Len(pred.args)} :
          \E g \in Assignments(TypesOf(c.head), TypesOf(pred), NoBindings) :
            \E h \in [ClauseVars(c) \ DOMAIN g -> Universe] :
              \A i \in DOMAIN c.conditions :
                Provable(clauses, Normal(ApplyPred(g @@ h, c.conditions[i])), depth - 1)

(* A key's predicate with its fixed variables replaced by their types.         *)
FixedPred(key, pred) ==
  ApplyPred([v \in Actuals(key.rigid) |->
               Skolem(key.rigid[CHOOSE i \in DOMAIN key.rigid : key.rigid[i].actual = v].origin)], pred)

(* What an answer claims: every ground instance of the goal under it.          *)
Claims(key, answer, types) ==
  LET pred == FixedPred(key, ApplyPred(answer, key.pred))
  IN  {Normal(ApplyPred(g, pred)) : g \in [PredVars(pred) -> types]}

(* Every answer in every table, also one taken from a table that another goal  *)
(* filled, holds for all types: numbering, fresh variables and assumptions are *)
(* never confused on the way between a goal, its table and its consumers.      *)
AnswersAreSound ==
  work = <<>> =>
    \A key \in DOMAIN tables : \A a \in tables[key].answers :
      \A p \in Claims(key, a, Base) : Provable(program, p, ProofDepth)

(* The main type of a condition is known when its turn comes: from the head's  *)
(* main type alone, or also from the arguments of earlier conditions where     *)
(* every clause leaves no argument open.                                       *)
MainsFrom(c, Known(_)) ==
  \A i \in DOMAIN c.conditions : TyVars(c.conditions[i].main) \subseteq TyVars(c.head.main) \cup Known(i)
MainsFromHead(c) == LET Nothing(i) == {} IN MainsFrom(c, Nothing)
MainsInOrder(c) ==
  LET Earlier(i) == UNION {PredVars(c.conditions[j]) : j \in 1..(i - 1)} IN MainsFrom(c, Earlier)
LeavesNothingOpen(c) ==
  PredVars(c.head) \subseteq TyVars(c.head.main) \cup UNION {PredVars(c.conditions[i]) : i \in DOMAIN c.conditions}
WellModed(clauses) ==
  \/ \A c \in clauses : MainsFromHead(c)
  \/ \A c \in clauses : MainsInOrder(c) /\ LeavesNothingOpen(c)

(* When no work is left, a goal whose main type is known has an answer for     *)
(* every way of filling its arguments that the instances and assumptions (not  *)
(* the defaults) prove: neither the prefilter on shapes nor one-way matching   *)
(* nor the sharing of tables loses one.                                        *)
AnswersAreComplete ==
  LET clauses == {c \in program : c.kind # "default"}
  IN  work = <<>> /\ WellModed(clauses) =>
        \A key \in DOMAIN tables :
          TyVars(key.pred.main) \cap AllowedVars(key) = {} =>
            LET goal == FixedPred(key, key.pred)
            IN  \A g \in [PredVars(goal) -> Universe] :
                  LET pred == Normal(ApplyPred(g, goal))
                  IN  Provable(clauses, pred, ProofDepth) =>
                        \E a \in tables[key].answers :
                          LET claim == FixedPred(key, ApplyPred(a, key.pred))
                          IN  Assignments(TypesOf(claim), TypesOf(pred), NoBindings) # {}

(* A known main type determines the arguments where every clause's arguments   *)
(* come from its main type or its conditions: no answer to such a goal is left *)
(* with a variable of its own.                                                 *)
AnswersAreClosed ==
  (/\ \A c \in program : MainsInOrder(c) /\ LeavesNothingOpen(c)
   /\ TyVars(root.pred.main) \cap root.allowed = {})
    => \A a \in RootAnswers : IsClosed(a) /\ \A v \in DOMAIN a : TyVars(a[v]) \cap root.allowed = {}

(* Goals that differ only in the names of their solvable variables share a     *)
(* table, however the callers came to number them.                             *)
Renamings(n) == {f \in [0..(n - 1) -> 0..(n - 1)] : \A i, j \in 0..(n - 1) : f[i] = f[j] => i = j}
NoTwinTables ==
  \A k, l \in DOMAIN tables :
    k # l /\ k.flex = l.flex /\ k.rigid = l.rigid =>
      \A f \in Renamings(k.flex) : RenamePred(k.pred, f) # l.pred

RECURSIVE Subterms(_)
Subterms(t) == {t} \cup UNION {Subterms(Parts(t)[i]) : i \in DOMAIN Parts(t)}
NoGrowth(c) ==
  LET small == Subterms(c.head.main) \cup {Bound(v) : v \in 0..(c.binders - 1)}
  IN  /\ \A i \in DOMAIN c.head.args : TyVars(c.head.args[i]) = {} \/ c.head.args[i] \in small
      /\ \A i \in DOMAIN c.conditions : \A j \in DOMAIN TypesOf(c.conditions[i]) :
           TyVars(TypesOf(c.conditions[i])[j]) = {} \/ TypesOf(c.conditions[i])[j] \in small

(* Where no clause makes a larger type, every goal is settled within the       *)
(* budget, however instances and superclasses lead back to it.                 *)
CyclesSettle == stopped => \E c \in program : ~NoGrowth(c)

TypeOK ==
  /\ \A k \in DOMAIN tables :
       /\ PredVars(k.pred) \subseteq AllowedVars(k) \cup Actuals(k.rigid)
       /\ \A c \in tables[k].consumers : c.parent \in DOMAIN tables /\ Subgoal(c).key = k
       /\ \A a \in tables[k].answers : DOMAIN a \subseteq AllowedVars(k)
  /\ Start.key \in DOMAIN tables
  /\ \A w \in Range(work) : w.tag = "clause" => w.key \in DOMAIN tables

===============================================================================
