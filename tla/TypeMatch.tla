------------------------------ MODULE TypeMatch ------------------------------
(* The solver's types with bound variables and what it does with them: one-way *)
(* matching of a clause head, unification of the weak arguments, renaming      *)
(* apart, and the measure of the Patterson condition.  A type is               *)
(* <<kind, name, parts>>; a variable carries its number; the parts of a        *)
(* function are its parameters and then its result.                            *)
EXTENDS Integers, Sequences, FiniteSets, TLC

Bound(i) == <<"bound", i, <<>>>>
Named(ctor, args) == <<"named", ctor, args>>
Tuple(elems) == <<"tuple", Len(elems), elems>>
Function(params, ret) == <<"function", Len(params), Append(params, ret)>>
Comptime(inner) == <<"comptime", 0, <<inner>>>>

Kind(t) == t[1]
Parts(t) == t[3]
IsBound(t) == Kind(t) = "bound"
IsComptime(t) == Kind(t) = "comptime"
IsUnit(t) == t = Named("unit", <<>>) \/ t = Tuple(<<>>)

(* A predicate: a class, the main type, and the weak arguments it determines.  *)
InClass(class, main, args) == [class |-> class, main |-> main, args |-> args]
TypesOf(pred) == <<pred.main>> \o pred.args

MapParts(t, F(_)) == <<t[1], t[2], [i \in DOMAIN Parts(t) |-> F(Parts(t)[i])] \o <<>>>>
MapPred(pred, F(_)) ==
  InClass(pred.class, F(pred.main), [i \in DOMAIN pred.args |-> F(pred.args[i])] \o <<>>)

RECURSIVE TyVars(_)
TyVars(t) == IF IsBound(t) THEN {t[2]} ELSE UNION {TyVars(Parts(t)[i]) : i \in DOMAIN Parts(t)}
PredVars(pred) == UNION {TyVars(TypesOf(pred)[i]) : i \in DOMAIN TypesOf(pred)}

SetMax(S) == CHOOSE n \in S : \A m \in S : m <= n
NextVar(S) == IF S = {} THEN 0 ELSE SetMax(S) + 1

(* Renaming by a function on variable numbers; others are left alone.          *)
RECURSIVE RenameTy(_, _)
RenameTy(t, map) ==
  IF IsBound(t) THEN IF t[2] \in DOMAIN map THEN Bound(map[t[2]]) ELSE t
  ELSE LET F(part) == RenameTy(part, map) IN MapParts(t, F)
RenamePred(pred, map) == LET F(t) == RenameTy(t, map) IN MapPred(pred, F)

RECURSIVE TyMeasure(_)
RECURSIVE SumMeasure(_)
SumMeasure(ts) == IF ts = <<>> THEN 0 ELSE TyMeasure(Head(ts)) + SumMeasure(Tail(ts))
TyMeasure(t) == 1 + SumMeasure(Parts(t))
Measure(pred) == SumMeasure(TypesOf(pred))

(* Equality up to comptime wrappers and the two spellings of unit.             *)
RECURSIVE TyEqual(_, _)
TyEqual(a, b) ==
  CASE IsComptime(a) /\ IsComptime(b) -> TyEqual(Parts(a)[1], Parts(b)[1])
    [] IsComptime(a) /\ ~IsComptime(b) -> TyEqual(Parts(a)[1], b)
    [] ~IsComptime(a) /\ IsComptime(b) -> TyEqual(a, Parts(b)[1])
    [] OTHER -> \/ IsUnit(a) /\ IsUnit(b)
                \/ /\ Kind(a) = Kind(b) /\ a[2] = b[2] /\ Len(Parts(a)) = Len(Parts(b))
                   /\ \A i \in DOMAIN Parts(a) : TyEqual(Parts(a)[i], Parts(b)[i])

-------------------------------------------------------------------------------
(* A substitution binds variables; a bound variable's type may hold others.    *)

NoBindings == <<>>
Binds(s, v) == v \in DOMAIN s

RECURSIVE ApplyInner(_, _, _)
ApplyInner(s, t, visiting) ==
  IF IsBound(t)
  THEN IF Binds(s, t[2]) /\ t[2] \notin visiting
       THEN ApplyInner(s, s[t[2]], visiting \cup {t[2]}) ELSE t
  ELSE LET F(part) == ApplyInner(s, part, visiting) IN MapParts(t, F)

Apply(s, t) == ApplyInner(s, t, {})
ApplyPred(s, pred) == LET F(t) == Apply(s, t) IN MapPred(pred, F)

Failed == [ok |-> FALSE, s |-> NoBindings]
Ok(s) == [ok |-> TRUE, s |-> s]

OccursInTy(v, t) == v \in TyVars(t)

RECURSIVE Unify(_, _, _, _)
RECURSIVE UnifyAll(_, _, _, _)

BindFlex(s, var, type) ==
  LET t == Apply(s, type)
  IN  IF t = Bound(var) THEN Ok(s)
      ELSE IF OccursInTy(var, t) THEN Failed
      ELSE IF Binds(s, var) THEN Unify(s[var], t, s, {})
      ELSE Ok((var :> t) @@ s)

Unify(lhs, rhs, s, bindable) ==
  LET a == Apply(s, lhs)
      b == Apply(s, rhs)
  IN  CASE IsBound(a) /\ a[2] \in bindable -> BindFlex(s, a[2], b)
        [] ~(IsBound(a) /\ a[2] \in bindable) /\ IsBound(b) /\ b[2] \in bindable -> BindFlex(s, b[2], a)
        [] OTHER ->
             IF IsUnit(a) /\ IsUnit(b) THEN Ok(s)
             ELSE IF IsComptime(a) /\ IsComptime(b) THEN Unify(Parts(a)[1], Parts(b)[1], s, bindable)
             ELSE IF IsComptime(a) THEN Unify(Parts(a)[1], b, s, bindable)
             ELSE IF IsComptime(b) THEN Unify(a, Parts(b)[1], s, bindable)
             ELSE IF Kind(a) = Kind(b) /\ a[2] = b[2] /\ Len(Parts(a)) = Len(Parts(b))
             THEN UnifyAll(Parts(a), Parts(b), s, bindable)
             ELSE Failed

UnifyAll(as, bs, s, bindable) ==
  IF as = <<>> THEN Ok(s)
  ELSE LET first == Unify(Head(as), Head(bs), s, bindable)
       IN  IF first.ok THEN UnifyAll(Tail(as), Tail(bs), first.s, bindable) ELSE Failed

(* One-way: only the pattern's variables are bound, so an open goal does not   *)
(* match a head that is more specific.                                         *)
RECURSIVE MatchTy(_, _, _, _)
RECURSIVE MatchAll(_, _, _, _)

MatchTy(pattern, goal, s, patternVars) ==
  LET p == Apply(s, pattern)
      g == Apply(s, goal)
  IN  CASE IsBound(p) -> IF p[2] \in patternVars THEN BindFlex(s, p[2], g)
                         ELSE IF TyEqual(p, g) THEN Ok(s) ELSE Failed
        [] IsComptime(p) -> MatchTy(Parts(p)[1], IF IsComptime(g) THEN Parts(g)[1] ELSE g, s, patternVars)
        [] IsComptime(g) /\ ~IsBound(p) /\ ~IsComptime(p) -> MatchTy(p, Parts(g)[1], s, patternVars)
        [] OTHER ->
             IF IsUnit(p) /\ IsUnit(g) THEN Ok(s)
             ELSE IF Kind(p) = Kind(g) /\ p[2] = g[2] /\ Len(Parts(p)) = Len(Parts(g))
             THEN MatchAll(Parts(p), Parts(g), s, patternVars)
             ELSE Failed

MatchAll(ps, gs, s, patternVars) ==
  IF ps = <<>> THEN Ok(s)
  ELSE LET first == MatchTy(Head(ps), Head(gs), s, patternVars)
       IN  IF first.ok THEN MatchAll(Tail(ps), Tail(gs), first.s, patternVars) ELSE Failed

(* The main type is matched one way and the weak arguments are unified, so a   *)
(* goal's open arguments are an output.                                        *)
MatchHead(head, goal, patternVars, goalVars) ==
  IF head.class # goal.class \/ Len(head.args) # Len(goal.args) THEN Failed
  ELSE LET main == MatchTy(head.main, goal.main, NoBindings, patternVars)
       IN  IF main.ok THEN UnifyAll(head.args, goal.args, main.s, patternVars \cup goalVars)
           ELSE Failed

(* A clause with its binders renamed past every variable in sight.             *)
Instantiate(clause, goal, avoid) ==
  LET base == NextVar(avoid \cup PredVars(goal) \cup PredVars(clause.head)
                      \cup UNION {PredVars(clause.conditions[i]) : i \in DOMAIN clause.conditions})
      map == [v \in 0..(clause.binders - 1) |-> base + v]
  IN  [clause EXCEPT !.head = RenamePred(@, map),
                     !.conditions = [i \in DOMAIN @ |-> RenamePred(@[i], map)] \o <<>>]
        @@ [vars |-> {base + v : v \in 0..(clause.binders - 1)}]

HeadCanUnify(clause, goal, goalVars) ==
  LET c == Instantiate(clause, goal, goalVars)
  IN  /\ c.head.class = goal.class /\ Len(c.head.args) = Len(goal.args)
      /\ UnifyAll(TypesOf(c.head), TypesOf(goal), NoBindings, c.vars \cup goalVars).ok

(* A cheap test that may keep a clause that cannot apply, and must not drop    *)
(* one that can: correlations between variables are ignored.                   *)
RECURSIVE ShapesMayMatch(_, _)

ShapesMayMatch(a, b) ==
  IF IsComptime(a) THEN ShapesMayMatch(Parts(a)[1], b)
  ELSE IF IsComptime(b) THEN ShapesMayMatch(a, Parts(b)[1])
  ELSE \/ IsBound(a) \/ IsBound(b)
       \/ IsUnit(a) /\ IsUnit(b)
       \/ /\ Kind(a) = Kind(b) /\ a[2] = b[2] /\ Len(Parts(a)) = Len(Parts(b))
          /\ \A i \in DOMAIN Parts(a) : ShapesMayMatch(Parts(a)[i], Parts(b)[i])

PredShapesMayMatch(head, goal) ==
  /\ head.class = goal.class /\ Len(head.args) = Len(goal.args)
  /\ \A i \in DOMAIN TypesOf(head) : ShapesMayMatch(TypesOf(head)[i], TypesOf(goal)[i])

===============================================================================
