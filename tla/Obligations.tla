----------------------------- MODULE Obligations -----------------------------
(* The end of inference: the class obligations a body has left are attempted   *)
(* in rounds, each solved one may pin variables of the others, literals are    *)
(* defaulted, and what is still open is reported.                              *)
EXTENDS Unification, SequencesExt

CONSTANTS
  Bodies,        \* [pending, root, std]: the obligations of a body, the
                 \* variables of its root type, and whether std is present
  Instances,     \* [class, main, args]: ground instances in scope
  ClosureSigs,   \* closure -> <<parameter, result>>
  NumVars        \* variables the body has allocated

IntLiteral == {"literal", "pattern"}

VARIABLES
  body,          \* the body whose inference is being finished
  table,         \* the unification table
  phase,         \* "rounds", "defaults", "final" or "done"
  scheduled,     \* indexes still to attempt in this round
  deferred,      \* index -> the variables of its goal and what they were then
  progress,      \* something was solved in this round
  evidence,      \* indexes with evidence, in the order it was recorded
  diagnostics,   \* <<index, kind>> in the order they were reported
  reported,      \* inference itself has reported something
  ambiguous,     \* one ambiguous type has been reported already
  poisoned,      \* expressions an error was reported for
  rounds         \* rounds begun

vars == <<body, table, phase, scheduled, deferred, progress, evidence, diagnostics, reported,
          ambiguous, poisoned, rounds>>

pending == body.pending
Indexes == DOMAIN pending
Ascending(s) == SetToSortSeq(s, <)

-------------------------------------------------------------------------------
(* A goal and what the solver answers.  The main type of an instance must match*)
(* the goal as it is, its arguments may bind variables of the goal.  An answer *)
(* that leaves variables open, and a search that runs out of fuel, are treated *)
(* as an ambiguous answer is.                                                  *)

Goal(o) == [main |-> Resolve(table, o.main), args |-> [k \in DOMAIN o.args |-> Resolve(table, o.args[k])] \o <<>>]
GoalVars(g) == VarsOf(g.main) \cup UNION {VarsOf(g.args[k]) : k \in DOMAIN g.args}
GoalHasError(g) == ContainsError(g.main) \/ \E k \in DOMAIN g.args : ContainsError(g.args[k])

Answers(o, g) ==
  {i \in Instances : /\ i.class = o.class /\ i.main = g.main /\ Len(i.args) = Len(g.args)
                     /\ UnifyEach(table, i.args, g.args).ok}

OpenInteger(o, g) == o.class = "Int" /\ g.args = <<>> /\ Kind(g.main) \in {"var", "unknown"}
LocalClosure(o, g) ==
  o.class = "Invokable" /\ Len(g.args) = 2 /\ Kind(g.main) = "named" /\ g.main[2] \in DOMAIN ClosureSigs

(* The variables of a goal are remembered with the values they have now.       *)
Snapshot(g) == [v \in GoalVars(g) |-> Resolve(table, Var(v))]

\* Mutant: variables that have been made equal do not count as a change.
AffectedByBinding == {i \in DOMAIN deferred : \E v \in DOMAIN deferred[i] : ~IsVar(Resolve(table, Var(v)))}

Affected == {i \in DOMAIN deferred : \E v \in DOMAIN deferred[i] : Resolve(table, Var(v)) # deferred[i][v]}

(* How one attempt ends.                                                       *)
Attempt(o, defer) ==
  With(Goal(o), LAMBDA g :
  With(Answers(o, g), LAMBDA answers :
  With(GoalVars(g) # {}, LAMBDA open :
    CASE o.expr \in poisoned \/ GoalHasError(g) -> "skipped"
      [] OpenInteger(o, g) -> IF defer THEN "deferred" ELSE "skipped"
      [] LocalClosure(o, g) -> "closure"
      [] Cardinality(answers) = 1 -> "solved"
      [] defer /\ open -> "deferred"
      [] answers # {} -> "ambiguous"
      [] open -> "ambiguousType"
      [] OTHER -> "unsatisfied")))

Numeric == {"word", "integer"}
ConcreteNonNumeric(t) == Kind(t) \notin {"error", "unknown", "var", "bound"} /\ t[2] \notin Numeric

(* A literal of a type that has no numbers, or a call of what is not callable, *)
(* poisons its expression.                                                     *)
Poisons(o, g) ==
  \/ o.class = "Int" /\ g.args = <<>> /\ o.source \in IntLiteral /\ ConcreteNonNumeric(g.main)
  \/ o.class = "Invokable" /\ Len(g.args) = 2 /\ o.source = "call" /\ Kind(g.main) \notin {"unknown", "var", "bound", "function"}

(* The unique answer's substitution, applied variable by variable.             *)
ApplySolverSubstitution(o, g) ==
  LET i == CHOOSE j \in Answers(o, g) : TRUE IN UnifyEach(table, g.args, i.args)

(* A closure's own signature answers: its parameter and its result are unified *)
(* with the goal's, and each failure is reported.                              *)
UnifyClosure(o, g) ==
  LET sig == ClosureSigs[g.main[2]] IN
  With(Unify(table, sig[1], g.args[1]), LAMBDA param :
  With(Unify(param.table, g.args[2], sig[2]), LAMBDA ret :
    [ok |-> param.ok /\ ret.ok, table |-> ret.table]))

(* Everything an attempt changes except the worklist.                          *)
Perform(i, outcome) ==
  LET o == pending[i]
      g == Goal(o)
      res == CASE outcome = "solved" -> ApplySolverSubstitution(o, g)
               [] outcome = "closure" -> UnifyClosure(o, g)
               [] OTHER -> Done(table)
      report == outcome \in {"ambiguous", "unsatisfied"} \/ (outcome = "ambiguousType" /\ ~ambiguous)
  IN  /\ table' = res.table
      /\ reported' = (reported \/ ~res.ok)
      /\ evidence' = IF outcome \in {"solved", "closure"} THEN Append(evidence, i) ELSE evidence
      /\ diagnostics' = IF report THEN Append(diagnostics, <<i, outcome>>) ELSE diagnostics
      /\ ambiguous' = (ambiguous \/ outcome = "ambiguousType")
      /\ poisoned' = IF outcome = "unsatisfied" /\ Poisons(o, g) THEN poisoned \cup {o.expr} ELSE poisoned

Init ==
  /\ body \in Bodies
  /\ \E keep \in {"first", "second"} :
       table = [EmptyTable(keep) EXCEPT !.root = [v \in 1 .. NumVars |-> v], !.value = [v \in 1 .. NumVars |-> NoValue]]
  /\ phase = "rounds"
  /\ scheduled = [i \in Indexes |-> i]
  /\ deferred = <<>>
  /\ progress = FALSE
  /\ evidence = <<>> /\ diagnostics = <<>>
  /\ reported = FALSE /\ ambiguous = FALSE
  /\ poisoned = {}
  /\ rounds = 1

Drop(f, i) == [j \in DOMAIN f \ {i} |-> f[j]]
Put(f, i, x) == [j \in DOMAIN f \cup {i} |-> IF j = i THEN x ELSE f[j]]

AttemptNext ==
  /\ phase = "rounds" /\ scheduled # <<>>
  /\ \E i \in {Head(scheduled)} : \E outcome \in {Attempt(pending[i], TRUE)} :
         /\ Perform(i, outcome)
         /\ progress' = (progress \/ outcome \in {"solved", "closure"})
         /\ deferred' = IF outcome = "deferred" THEN Put(deferred, i, Snapshot(Goal(pending[i]))) ELSE Drop(deferred, i)
  /\ scheduled' = Tail(scheduled)
  /\ UNCHANGED <<body, phase, rounds>>

(* Another round for the obligations whose goals have changed since.           *)
EndRound ==
  /\ phase = "rounds" /\ scheduled = <<>>
  /\ IF ~progress \/ Affected = {}
     THEN phase' = "defaults" /\ UNCHANGED <<scheduled, progress, rounds>>
     ELSE scheduled' = Ascending(Affected) /\ progress' = FALSE /\ rounds' = rounds + 1 /\ UNCHANGED phase
  /\ UNCHANGED <<body, table, deferred, evidence, diagnostics, reported, ambiguous, poisoned>>

-------------------------------------------------------------------------------
(* Defaulting, as a fold over obligations of [table, reported].                *)

VarsIn(tb, o) == CollectInferVars(tb, o.main) \cup UNION {CollectInferVars(tb, o.args[k]) : k \in DOMAIN o.args}
HasError(tb, o) == ContainsError(Resolve(tb, o.main)) \/ \E k \in DOMAIN o.args : ContainsError(Resolve(tb, o.args[k]))
Live(s, o) == o.expr \notin poisoned /\ ~HasError(s.table, o)
PlainInt(o) == o.class = "Int" /\ o.args = <<>>

UnifyReporting(s, l, r) ==
  With(IF Kind(r) = "error" THEN Done(s.table) ELSE Unify(s.table, l, r), LAMBDA res :
    [table |-> res.table, reported |-> s.reported \/ ~res.ok])

DefaultIntegerTy == IF body.std THEN Named("uint256", <<>>) ELSE Error
DefaultInteger(s, o) == UnifyReporting([s EXCEPT !.reported = @ \/ ~body.std], o.main, DefaultIntegerTy)

(* Literals whose type another open obligation depends on.                     *)
DefaultConstrained(s, unresolved) ==
  LET constrained == UNION {VarsIn(s.table, pending[i]) : i \in {j \in DOMAIN deferred : pending[j].class # "Int"}}
  IN  FoldLeft(LAMBDA t, i :
                 LET o == pending[i]
                 IN  IF PlainInt(o) /\ o.source \in IntLiteral /\ VarsIn(t.table, o) \cap constrained # {}
                     THEN DefaultInteger(t, o) ELSE t,
               s, unresolved)

DefaultPatterns(s) ==
  FoldLeft(LAMBDA t, o : IF o.source = "pattern" /\ Live(t, o) /\ IsVar(Resolve(t.table, o.main))
                         THEN DefaultInteger(t, o) ELSE t,
           s, pending)

RootVars(s) == UNION {CollectInferVars(s.table, Var(v)) : v \in body.root}

DefaultRoot(s) ==
  FoldLeft(LAMBDA t, o : IF /\ PlainInt(o) /\ Live(t, o) /\ VarsIn(t.table, o) # {}
                            /\ VarsIn(t.table, o) \subseteq RootVars(s)
                         THEN DefaultInteger(t, o) ELSE t,
           s, pending)

DefaultStrings(s, unresolved) ==
  FoldLeft(LAMBDA t, i :
             LET o == pending[i]
             IN  IF /\ o.class = "Str" /\ o.args = <<>> /\ o.source = "coercion"
                    /\ Kind(Resolve(t.table, o.main)) \in {"var", "unknown"}
                 THEN UnifyReporting(t, o.main, Named("string", <<>>)) ELSE t,
           s, unresolved)

Current == [table |-> table, reported |-> reported]

Defaults ==
  /\ phase = "defaults"
  /\ LET unresolved == Ascending(DOMAIN deferred)
     IN  \E s \in {DefaultStrings(DefaultRoot(DefaultPatterns(DefaultConstrained(Current, unresolved))), unresolved)} :
           /\ table' = s.table
           /\ reported' = s.reported
           /\ scheduled' = unresolved
  /\ phase' = "final"
  /\ UNCHANGED <<body, deferred, progress, evidence, diagnostics, ambiguous, poisoned, rounds>>

(* One last attempt, which reports.                                            *)
AttemptFinal ==
  /\ phase = "final" /\ scheduled # <<>>
  /\ Perform(Head(scheduled), Attempt(pending[Head(scheduled)], FALSE))
  /\ scheduled' = Tail(scheduled)
  /\ UNCHANGED <<body, phase, deferred, progress, rounds>>

AmbiguousLiteral(s) ==
  \E i \in Indexes :
    LET o == pending[i]
    IN  PlainInt(o) /\ o.source # "pattern" /\ Live(s, o) /\ ~(VarsIn(s.table, o) \subseteq RootVars(s))

(* Evidence and diagnostics are put in the order of the obligations; literal   *)
(* patterns and the root type are defaulted once more.                         *)
Finish ==
  /\ phase = "final" /\ scheduled = <<>>
  /\ \E s \in {DefaultPatterns(Current)} :
       \E t \in {DefaultRoot([s EXCEPT !.reported = @ \/ AmbiguousLiteral(s)])} :
         table' = t.table /\ reported' = t.reported
  /\ evidence' = SortSeq(evidence, <)
  /\ diagnostics' = SortSeq(diagnostics, LAMBDA a, b : a[1] < b[1])
  /\ phase' = "done"
  /\ UNCHANGED <<body, scheduled, deferred, progress, ambiguous, poisoned, rounds>>

Next == AttemptNext \/ EndRound \/ Defaults \/ AttemptFinal \/ Finish

Spec == Init /\ [][Next]_vars

-------------------------------------------------------------------------------
(* The worklist and the deferred obligations are obligations of the body, in   *)
(* ascending order within a round (solve_pending_obligations).                 *)
TypeOK ==
  /\ phase \in {"rounds", "defaults", "final", "done"}
  /\ DOMAIN deferred \subseteq Indexes
  /\ \A k \in DOMAIN scheduled : scheduled[k] \in Indexes
  /\ \A k \in 1 .. Len(scheduled) - 1 : scheduled[k] < scheduled[k + 1]
  /\ \A i \in DOMAIN deferred : DOMAIN deferred[i] \subseteq Vids(table)

(* Where the rounds stop nothing has been overlooked: every obligation that is *)
(* still deferred would be deferred again, although it may not have been       *)
(* looked at since others were solved.                                         *)
NoMissedWakeup ==
  phase = "defaults" => \A i \in DOMAIN deferred : Attempt(pending[i], TRUE) \in {"deferred", "skipped"}

(* "Each continuing round resolves at least one obligation, bounding the loop  *)
(* by pending.len() rounds."                                                   *)
RoundsAreBounded == rounds <= Len(pending) \/ pending = <<>>

(* No obligation is answered twice, or both answered and reported, and the     *)
(* outputs end in the order of the obligations.                                *)
OneVerdict ==
  /\ \A j, k \in DOMAIN evidence : j # k => evidence[j] # evidence[k]
  /\ \A j \in DOMAIN evidence, k \in DOMAIN diagnostics : evidence[j] # diagnostics[k][1]
  /\ phase = "done" => \A k \in 1 .. Len(evidence) - 1 : evidence[k] < evidence[k + 1]

(* Recorded evidence is evidence for the types inference ends with: whatever   *)
(* was unified after it was recorded, the goal is still the one it proves.     *)
EvidenceHolds ==
  phase = "done" =>
    \A k \in DOMAIN evidence :
      LET o == pending[evidence[k]] IN reported \/ LocalClosure(o, Goal(o)) \/ Cardinality(Answers(o, Goal(o))) = 1

HasEvidence(i) == \E k \in DOMAIN evidence : evidence[k] = i
Quiet == phase = "done" /\ ~reported /\ diagnostics = <<>>

(* If nothing has been reported, every obligation has evidence (the later      *)
(* stages look up a dictionary for it), except integer obligations, which are  *)
(* dropped when their type is open at their last turn.                         *)
OnlyIntegersAreDropped == Quiet => \A i \in Indexes : HasEvidence(i) \/ PlainInt(pending[i])
===============================================================================
