------------------------------- MODULE MCTraits -------------------------------
(***************************************************************************)
(* The trait solver on small programs: ground goals, where the choice      *)
(* among dictionaries is at stake (TraitSolver), and goals with variables, *)
(* where the traffic between tables is (OpenGoals). A behaviour exercises  *)
(* one of them and leaves the variables of the other at Idle.              *)
(***************************************************************************)
EXTENDS Naturals, Sequences, FiniteSets

CONSTANTS
  Declared, Asked, Types

VARIABLES
  part,     \* "dictionaries", "goals"
  program, phase, tables, work, collapsed, recipes, exhausted, answers,
  givens, root, fuel, stopped

Dictionaries == INSTANCE TraitSolver
                  WITH Preds <- {"p", "q", "r"}, Goal <- "p", Programs <- Declared
Goals == INSTANCE OpenGoals
           WITH Cases <- Asked, Ground <- Types, Fuel <- 60, ProofDepth <- 5
Heads == INSTANCE TypeMatch

ASSUME DeclaredAssumption == Dictionaries!ProgramsAssumption

vars == <<part, program, phase, tables, work, collapsed, recipes, exhausted, answers,
          givens, root, fuel, stopped>>

Idle == "idle"
Init ==
  /\ part \in {"dictionaries", "goals"}
  /\ IF part = "dictionaries" THEN Dictionaries!Init
     ELSE /\ phase = Idle /\ collapsed = Idle /\ recipes = Idle /\ exhausted = Idle
          /\ answers = Idle
  /\ IF part = "goals" THEN Goals!Init
     ELSE /\ givens = Idle /\ root = Idle /\ fuel = Idle /\ stopped = Idle

SolveGround ==
  /\ part = "dictionaries" /\ Dictionaries!Next
  /\ UNCHANGED <<part, givens, root, fuel, stopped>>
SolveOpen ==
  /\ part = "goals" /\ Goals!Next
  /\ UNCHANGED <<part, phase, collapsed, recipes, exhausted, answers>>
Next == SolveGround \/ SolveOpen

(* The work is fair; asked of the programs with two clauses beside the goal's. *)
Short == part = "dictionaries" /\ Cardinality(program) <= 3
WorkOn ==
  /\ Short /\ Dictionaries!Step
  /\ UNCHANGED <<part, givens, root, fuel, stopped>>

Spec == Init /\ [][Next]_vars /\ WF_vars(WorkOn)

-------------------------------------------------------------------------------
(* Every answer is a proof of its goal, and a solve that was not cut short     *)
(* keeps exactly the preferred dictionaries among all finite proofs, in        *)
(* whichever order the tables are served (TabledEngine, solution_from_answers).*)
DictionariesAreTheBest ==
  part = "dictionaries" =>
    Dictionaries!TypeOK /\ Dictionaries!AnswersAreProofs /\ Dictionaries!SolutionIsReference

(* Through shared tables, fresh variables and assumptions a goal gets exactly  *)
(* the answers that resolution without tables proves; goals that differ only   *)
(* in the numbering of their variables share a table, and where no clause      *)
(* grows a type every goal settles within the budget (canonicalize_goal,       *)
(* match_head, actualize_answer, spend_step).                                  *)
AnswersAreExact ==
  part = "goals" =>
    /\ Goals!TypeOK /\ Goals!AnswersAreClosed /\ Goals!NoTwinTables
    /\ Goals!AnswersAreSound /\ Goals!AnswersAreComplete /\ Goals!CyclesSettle

(* Without a budget the work on a cyclic program ends, two passes included.    *)
CyclesEnd == <>(Short => phase = "done")

-------------------------------------------------------------------------------
(* The programs. *)

(* A goal that needs q, or q and r, and up to three clauses beside, with a fact  *)
(* among them: without one there is nothing to prove.                          *)
MCDeclared ==
  LET
    Preds == {"p", "q", "r"}
    C(def, kind, head, conditions) == [def |-> def, kind |-> kind, head |-> head, conditions |-> conditions]
    (* The goal needs q, or q and r.                                               *)
    Bases == {{C(1, "regular", "p", <<"q">>)}, {C(1, "regular", "p", <<"q", "r">>)}}
    (* Facts and assumptions, and instances and projections that lead back to any  *)
    (* predicate, with both kinds of defaults.                                     *)
    Facts ==
      {C(2, k, "q", <<>>) : k \in {"given", "builtin", "regular", "default"}}
      \cup {C(2, "given", "r", <<>>), C(2, "default", "r", <<>>), C(2, "regular", "p", <<>>), C(2, "builtin", "p", <<>>)}
    Rules ==
      {C(3, k, h, <<b>>) : k \in {"regular", "super", "default"}, h \in Preds, b \in Preds}
      \cup {C(3, "stdDefault", "q", <<b>>) : b \in Preds}
    Pool == Facts \cup {c \in Rules : c.kind = "regular"}
  IN  {b \cup {x, y, z} : b \in Bases, x \in Facts, y \in Pool, z \in Rules}

(* All programs of at most three clauses from a menu with a fact among them,    *)
(* and those of at most two beside assumptions, for goals with solvable and    *)
(* fixed variables.                                                            *)
MCAsked ==
  LET
    Named(c, ts) == Heads!Named(c, ts)
    W == Named("word", <<>>)
    Box(t) == Named("box", <<t>>)
    Pair(a, b) == Named("pair", <<a, b>>)
    V0 == Heads!Bound(0)
    V1 == Heads!Bound(1)
    V2 == Heads!Bound(2)
    V3 == Heads!Bound(3)
    Cl(kind, binders, head, conditions) ==
      [kind |-> kind, binders |-> binders, head |-> head, conditions |-> conditions]
    InClass(class, main, args) == Heads!InClass(class, main, args)
    C(t) == InClass("C", t, <<>>)
    D(t, u) == InClass("D", t, <<u>>)
    E(t, u) == InClass("E", t, <<u>>)
    T(t, u, v) == InClass("T", t, <<u, v>>)
    Menu == {
      Cl("regular", 0, C(W), <<>>),
      Cl("regular", 1, C(Box(V0)), <<C(V0)>>),
      Cl("regular", 2, C(Box(V0)), <<D(V0, V1), C(V1)>>),
      Cl("regular", 0, D(W, Heads!Tuple(<<>>)), <<>>),
      Cl("regular", 1, D(Box(V0), V0), <<>>),
      Cl("regular", 2, D(V0, Box(V1)), <<>>),
      Cl("regular", 2, D(Heads!Comptime(Box(V0)), Heads!Comptime(V1)), <<D(V0, V1)>>),
      Cl("super", 2, D(V0, V1), <<E(V0, V1)>>),
      Cl("regular", 3, E(V0, Pair(V1, V2)), <<D(V0, V2), D(V0, V1)>>),
      Cl("regular", 2, E(Box(V1), V0), <<D(V1, V0)>>),
      Cl("regular", 3, T(V0, V1, V2), <<T(V0, V2, V1)>>),
      Cl("regular", 1, T(Box(V0), V0, W), <<>>),
      Cl("regular", 3, E(V0, V1), <<T(V0, V1, V2)>>),
      Cl("default", 1, C(V0), <<>>)
    }
    Links == {D(V0, V2)}
    Linked == {E(V2, V0), C(V0)}
    Questions == {
      [pred |-> C(Box(Heads!Comptime(W))), allowed |-> {}, given |-> Linked],
      [pred |-> C(Box(V0)), allowed |-> {}, given |-> Linked],
      [pred |-> D(Box(V0), V1), allowed |-> {1}, given |-> Links],
      [pred |-> T(Box(V0), V3, V1), allowed |-> {1, 3}, given |-> Links],
      [pred |-> E(Box(W), Pair(V3, V1)), allowed |-> {1, 3}, given |-> Links],
      [pred |-> E(V0, V1), allowed |-> {1}, given |-> Linked]
    }
    Facts == {c \in Menu : c.conditions = <<>>}
    Ask(q, p, g) == [program |-> p, givens |-> g, pred |-> q.pred, allowed |-> q.allowed]
  IN  {Ask(q, {a, b, c}, {}) : q \in Questions, a \in Facts, b \in Menu, c \in Menu}
      \cup {Ask(q, {a, b}, q.given) : q \in Questions, a \in Menu, b \in Menu}

MCTypes == {Heads!Named("word", <<>>), Heads!Named("unit", <<>>)}
===============================================================================
