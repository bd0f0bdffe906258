---------------------------- MODULE ComptimeCheck ----------------------------
(* The front end's check that compile-time positions do not get run-time       *)
(* values.  One walk over a function body classifies every expression; calls   *)
(* are left to specialization, except that a call is also held to what the     *)
(* called body passes on to compile-time parameters.                           *)
EXTENDS Integers, Sequences, FiniteSets, TLC

CONSTANTS Programs,   \* the modules: functions by name
          None        \* nothing: no expression at an arena index

(* A function is [params, ret, body]; a parameter [name, comptime, tyvar].  An *)
(* expression is [k, name, parts, params, ret, body], a statement              *)
(* [k, name, names, comptime, compound, es, blocks]: names are the variables   *)
(* of a match's arms, compound an assignment such as +=. The parts of a         *)
(* "tuple" (or constructor) and a "slice" are classified on demand, those of   *)
(* "all" (an operator) and "index" all of them.                                *)
VARIABLES program, reports, latent, checked
vars == <<program, reports, latent, checked>>

Expr(k, name, parts) == [k |-> k, name |-> name, parts |-> parts, params |-> <<>>, ret |-> FALSE, body |-> <<>>]
Lambda(params, ret, body) == [k |-> "lambda", name |-> "", parts |-> <<>>, params |-> params, ret |-> ret, body |-> body]
Stmt(k, name, comptime, es, blocks) ==
  [k |-> k, name |-> name, names |-> <<>>, comptime |-> comptime, compound |-> FALSE, es |-> es, blocks |-> blocks]
Functions == DOMAIN program

-------------------------------------------------------------------------------
(* Arenas: a body's expressions are numbered as they are lowered, parts before *)
(* the whole and a callee before its arguments; a closure's body has an arena  *)
(* of its own.                                                                 *)

(* A value under a name.                                                       *)
With(value, Body(_)) == Body(value)

RECURSIVE Flatten(_)
Flatten(seqs) == IF seqs = <<>> THEN <<>> ELSE Head(seqs) \o Flatten(Tail(seqs))

RECURSIVE ExprArena(_)
ExprArena(e) ==
  (IF e.k = "call" THEN <<Expr("var", e.name, <<>>)>> ELSE <<>>)
  \o Flatten([i \in DOMAIN e.parts |-> ExprArena(e.parts[i])] \o <<>>) \o <<e>>

RECURSIVE Arena(_)
StmtArena(s) ==
  With(Flatten([i \in DOMAIN s.es |-> ExprArena(s.es[i])] \o <<>>), LAMBDA exprs :
  With([i \in DOMAIN s.blocks |-> Arena(s.blocks[i])] \o <<>>, LAMBDA blocks :
    IF s.k = "for" THEN blocks[1] \o exprs \o Flatten(Tail(blocks)) ELSE exprs \o Flatten(blocks)))
Arena(stmts) == Flatten([i \in DOMAIN stmts |-> StmtArena(stmts[i])] \o <<>>)

Before(arenas, i, base) == base + Len(Flatten(SubSeq(arenas, 1, i - 1)))

-------------------------------------------------------------------------------
(* Classification.                                                             *)

\* Mutant: only the first part counts.
FromFirst(values) == IF values = <<>> THEN "Comptime" ELSE values[1]

FromAll(values) ==
  IF \E i \in DOMAIN values : values[i] = "Runtime" THEN "Runtime"
  ELSE IF \E i \in DOMAIN values : values[i] = "Deferred" THEN "Deferred" ELSE "Comptime"

(* The walk's state: names in scope, what they are bound to, and the last      *)
(* expression's or statement's class.                                          *)
Checker(ret) ==
  [scopes |-> <<<<>>>>, bindings |-> <<>>, ret |-> ret, depth |-> 0, value |-> "Comptime", diags |-> {}, obligations |-> {}]

PushScope(s) == [s EXCEPT !.scopes = Append(@, <<>>)]
PopScope(s) == [s EXCEPT !.scopes = SubSeq(@, 1, Len(@) - 1)]
Bind(s, name, value) ==
  LET key == Len(s.bindings) + 1
  IN  [s EXCEPT !.bindings = Append(@, value), !.scopes[Len(s.scopes)] = (name :> key) @@ @]
Visible(s, name) == {i \in DOMAIN s.scopes : name \in DOMAIN s.scopes[i]}
KeyOf(s, name) == s.scopes[CHOOSE i \in Visible(s, name) : \A j \in Visible(s, name) : j <= i][name]
LookupName(s, name) == IF Visible(s, name) = {} THEN "Deferred" ELSE s.bindings[KeyOf(s, name)]
Report(s, kind, at) == [s EXCEPT !.diags = @ \cup {[kind |-> kind, depth |-> s.depth, at |-> at]}]

RECURSIVE BindParams(_, _)
BindParams(s, params) ==
  IF params = <<>> THEN s
  ELSE BindParams(Bind(s, Head(params).name, IF Head(params).comptime \/ s.ret THEN "Comptime" ELSE "Runtime"), Tail(params))

RECURSIVE ClassifyExpr(_, _, _)
RECURSIVE ClassifyParts(_, _, _, _, _)
RECURSIVE CheckStmts(_, _, _)
RECURSIVE CheckArms(_, _, _, _)

(* Parts from left to right; the values are collected in value.  On demand,    *)
(* nothing after the first run-time part is asked for.                         *)
OnDemand == {"tuple", "slice"}
Decided(values) == values # <<>> /\ values[Len(values)] = "Runtime"

ClassifyParts(lazy, parts, base, s, values) ==
  IF parts = <<>> \/ (lazy /\ Decided(values)) THEN [s EXCEPT !.value = values]
  ELSE With(ClassifyExpr(Head(parts), base, s), LAMBDA first :
         ClassifyParts(lazy, Tail(parts), base + Len(ExprArena(Head(parts))), first, Append(values, first.value)))

CheckLambda(e, s) ==
  LET inner == [PushScope(s) EXCEPT !.ret = e.ret, !.depth = @ + 1]
  IN  [PopScope(CheckStmts(e.body, 0, BindParams(inner, e.params))) EXCEPT !.ret = s.ret, !.depth = s.depth, !.value = "Comptime"]

(* A call whose callee has a compile-time parameter of open type is reported   *)
(* by nobody here; its arguments are still obligations.                        *)
ClassifyCall(e, base, args) ==
  LET f == program[e.name] IN
  With([i \in DOMAIN e.parts |->
          Before([j \in DOMAIN e.parts |-> ExprArena(e.parts[j])] \o <<>>, i + 1, base + 1) - 1] \o <<>>, LAMBDA ids :
  With({i \in DOMAIN f.params \cap DOMAIN e.parts : f.params[i].comptime}, LAMBDA required :
  LET open == \E i \in DOMAIN f.params : f.params[i].comptime /\ f.params[i].tyvar
      runtime == {i \in required : args.value[i] = "Runtime" /\ ~open} IN
    [args EXCEPT !.obligations = @ \cup {[depth |-> args.depth, at |-> ids[i]] : i \in required},
                 !.diags = @ \cup {[kind |-> "Param", depth |-> args.depth, at |-> ids[i]] : i \in runtime},
                 !.value = IF f.ret /\ \A i \in DOMAIN e.parts : args.value[i] = "Comptime" THEN "Comptime" ELSE "Deferred"]))

ClassifyExpr(e, base, s) ==
  With(ClassifyParts(e.k \in OnDemand, e.parts, base, s, <<>>), LAMBDA parts :
    CASE e.k = "lit" -> [s EXCEPT !.value = "Comptime"]
      [] e.k = "var" -> [s EXCEPT !.value = LookupName(s, e.name)]
      [] e.k \in {"all", "index"} \cup OnDemand -> [parts EXCEPT !.value = FromAll(parts.value)]
      [] e.k = "array" -> [parts EXCEPT !.value = "Runtime"]
      [] e.k = "field" -> [s EXCEPT !.value = "Deferred"]
      [] e.k = "lambda" -> CheckLambda(e, s)
      [] e.k = "call" -> ClassifyCall(e, base, ClassifyParts(FALSE, e.parts, base + 1, s, <<>>)))

CheckReturn(s, at) == IF s.ret /\ s.value = "Runtime" THEN Report(s, "Return", at) ELSE s

(* The arms are walked one after another, each from the bindings the one       *)
(* before it left.                                                             *)
CheckArms(arms, names, base, s) ==
  IF arms = <<>> THEN s
  ELSE With(PushScope(s), LAMBDA scoped :
       LET bound == IF names = <<>> \/ Head(names) = "" THEN scoped ELSE Bind(scoped, Head(names), s.value)
           arm == CheckStmts(Head(arms), base, bound) IN
         CheckArms(Tail(arms), IF names = <<>> THEN <<>> ELSE Tail(names), base + Len(Arena(Head(arms))),
                   [PopScope(arm) EXCEPT !.value = s.value]))

CheckLet(st, base, s) ==
  With(IF st.es = <<>> THEN [s EXCEPT !.value = "Deferred"] ELSE ClassifyExpr(st.es[1], base, s), LAMBDA init :
  LET reported == IF st.comptime /\ init.value = "Runtime" THEN Report(init, "Let", base + Len(ExprArena(st.es[1])) - 1) ELSE init
      value == IF st.comptime /\ init.value # "Runtime" THEN "Comptime" ELSE init.value IN
    [Bind(reported, st.name, value) EXCEPT !.value = "Comptime"])

CheckAssign(st, base, s) ==
  With(ClassifyExpr(st.es[2], base + Len(ExprArena(st.es[1])), s), LAMBDA rhs :
  LET target == st.es[1].name IN
    IF st.es[1].k = "var" /\ Visible(rhs, target) # {} THEN [rhs EXCEPT !.bindings[KeyOf(rhs, target)] = rhs.value] ELSE rhs)

(* The walk looks at a loop's body before its post clause.                     *)
CheckFor(st, base, s) ==
  With(base + Len(Arena(st.blocks[1])), LAMBDA condBase :
  With(condBase + Len(ExprArena(st.es[1])), LAMBDA postBase :
  With(ClassifyExpr(st.es[1], condBase, CheckStmts(st.blocks[1], base, PushScope(s))), LAMBDA cond :
  LET body == CheckStmts(st.blocks[3], postBase + Len(Arena(st.blocks[2])), PushScope(cond))
      post == CheckStmts(st.blocks[2], postBase, PushScope(PopScope(body))) IN
    [PopScope(PopScope(post)) EXCEPT !.value = cond.value])))

CheckStmt(st, base, s, tail) ==
  With(IF st.es = <<>> THEN base ELSE base + Len(ExprArena(st.es[1])) - 1, LAMBDA last :
    CASE st.k = "let" -> CheckLet(st, base, s)
      [] st.k = "return" -> IF st.es = <<>> THEN [s EXCEPT !.value = "Comptime"]
                            ELSE CheckReturn(ClassifyExpr(st.es[1], base, s), last)
      [] st.k = "expr" -> With(ClassifyExpr(st.es[1], base, s), LAMBDA value :
                            IF tail THEN CheckReturn(value, last) ELSE value)
      [] st.k = "assign" -> CheckAssign(st, base, s)
      [] st.k = "match" -> CheckArms(st.blocks, st.names, last + 1, ClassifyExpr(st.es[1], base, s))
      [] st.k = "if" -> LET cond == ClassifyExpr(st.es[1], base, s) IN CheckArms(st.blocks, <<>>, last + 1, cond)
      [] st.k = "for" -> CheckFor(st, base, s)
      [] st.k = "block" -> PopScope(CheckStmts(st.blocks[1], base, PushScope(s)))
      [] OTHER -> [s EXCEPT !.value = "Deferred"])

CheckStmts(stmts, base, s) ==
  IF stmts = <<>> THEN [s EXCEPT !.value = "Comptime"]
  ELSE With(CheckStmt(Head(stmts), base, s, Len(stmts) = 1), LAMBDA first :
         IF Len(stmts) = 1 THEN first ELSE CheckStmts(Tail(stmts), base + Len(StmtArena(Head(stmts))), first))

CheckFunctionOf(f) == CheckStmts(f.body, 0, BindParams(Checker(f.ret), f.params))

-------------------------------------------------------------------------------
(* What a body passes on: an obligation whose expression is one of its own     *)
(* parameters.  The expression is looked up in the arena of the function's     *)
(* body, whichever body the obligation came from, and the parameter by name.   *)

ExprAt(f, id) == With(Arena(f.body), LAMBDA arena :
                   IF id + 1 \in DOMAIN arena THEN arena[id + 1] ELSE None)

LatentParams(f) ==
  {i \in DOMAIN f.params : \E o \in CheckFunctionOf(f).obligations :
     With(ExprAt(f, o.at), LAMBDA e :
       e # None /\ e.k = "var" /\ e.name = f.params[i].name)}

RECURSIVE IsLiteralComptime(_)
IsLiteralComptime(e) == e.k = "lit" \/ (e.k \in {"all", "tuple"} /\ \A i \in DOMAIN e.parts : IsLiteralComptime(e.parts[i]))

(* Inference gives every expression a type: it is open when it is a parameter  *)
(* of open type, compile-time when the name was declared so.                   *)
DeclaredComptime(f) ==
  {f.params[i].name : i \in {j \in DOMAIN f.params : f.params[j].comptime}}
  \cup {f.body[i].name : i \in {j \in DOMAIN f.body : f.body[j].k = "let" /\ f.body[j].comptime}}
OpenNames(f) == {f.params[i].name : i \in {j \in DOMAIN f.params : f.params[j].tyvar}}
HasRuntimeType(f, e) ==
  /\ ~(e.k = "var" /\ e.name \in OpenNames(f) \cup DeclaredComptime(f))
  /\ ~(e.k = "call" /\ program[e.name].ret)

LatentReports(f) ==
  With(Arena(f.body), LAMBDA arena :
  LET calls == {k \in DOMAIN arena : arena[k].k = "call"} IN
    UNION {{[call |-> k - 1, arg |-> i] : i \in {j \in LatentParams(program[arena[k].name]) \cap DOMAIN arena[k].parts :
              HasRuntimeType(f, arena[k].parts[j]) /\ ~IsLiteralComptime(arena[k].parts[j])}} : k \in calls})

-------------------------------------------------------------------------------
Init == program \in Programs /\ reports = <<>> /\ latent = <<>> /\ checked = {}

(* One function of the module: its own walk, then inference and the walk over  *)
(* its calls.                                                                  *)
CheckFunction(name) ==
  /\ name \notin checked
  /\ \E walk \in {CheckFunctionOf(program[name])} :
       reports' = (name :> [diags |-> walk.diags, obligations |-> walk.obligations]) @@ reports
  /\ latent' = (name :> LatentReports(program[name])) @@ latent
  /\ checked' = checked \cup {name}
  /\ UNCHANGED program

Next == \E name \in Functions : CheckFunction(name)
Spec == Init /\ [][Next]_vars

-------------------------------------------------------------------------------
(* The reference: along each path, which names hold a run-time value.  env is  *)
(* the stack of [name, t]; a block's names go when it ends.                    *)

Outcome(env, hits, done) == [env |-> env, hits |-> hits, done |-> done]
Tainted(env, name) ==
  With({i \in DOMAIN env : env[i].name = name}, LAMBDA at :
    at # {} /\ env[CHOOSE i \in at : \A j \in at : j <= i].t)
Retaint(env, name, t) ==
  With({i \in DOMAIN env : env[i].name = name}, LAMBDA at :
    [env EXCEPT ![CHOOSE i \in at : \A j \in at : j <= i].t = t])
ParamEnv(params, ret) == [i \in DOMAIN params |-> [name |-> params[i].name, t |-> ~params[i].comptime /\ ~ret]] \o <<>>
Hit(kind, depth, at) == [kind |-> kind, depth |-> depth, at |-> at]

RECURSIVE Runtime(_, _)
Runtime(e, env) ==
  CASE e.k = "array" -> TRUE
    [] e.k = "var" -> Tainted(env, e.name)
    [] e.k \in {"all", "index", "tuple", "slice"} -> \E i \in DOMAIN e.parts : Runtime(e.parts[i], env)
    [] OTHER -> FALSE

(* What lies after a run-time part of a tuple, constructor or slice is passed  *)
(* over: a part that need not be known to know what the whole is.              *)
Looked(e, env) ==
  {i \in DOMAIN e.parts : e.k \in {"tuple", "slice"} => \A j \in 1 .. i - 1 : ~Runtime(e.parts[j], env)}

RECURSIVE Paths(_, _, _, _, _)
RECURSIVE HitsOf(_, _, _, _)
PartBase(e, i, base) ==
  Before([j \in DOMAIN e.parts |-> ExprArena(e.parts[j])] \o <<>>, i, base + IF e.k = "call" THEN 1 ELSE 0)
HitsOf(e, base, env, depth) ==
  UNION {HitsOf(e.parts[i], PartBase(e, i, base), env, depth) : i \in Looked(e, env)}
  \cup (IF e.k = "lambda" THEN UNION {o.hits : o \in Paths(e.body, 0, env \o ParamEnv(e.params, e.ret), depth + 1, e.ret)} ELSE {})
  \cup (IF e.k # "call" \/ \E i \in DOMAIN program[e.name].params : program[e.name].params[i].comptime /\ program[e.name].params[i].tyvar
        THEN {}
        ELSE {Hit("Param", depth, PartBase(e, i + 1, base) - 1) :
                i \in {j \in DOMAIN e.parts : program[e.name].params[j].comptime /\ Runtime(e.parts[j], env)}})

Left(outcomes, env) == {[o EXCEPT !.env = SubSeq(@, 1, Len(env))] : o \in outcomes}
Then(outcomes, F(_)) ==
  {o \in outcomes : o.done}
  \cup UNION {{[q EXCEPT !.hits = @ \cup o.hits] : q \in F(o.env)} : o \in {p \in outcomes : ~p.done}}

Step(st, base, env, depth, ret, tail) ==
  LET e == st.es[Len(st.es)] IN
  With(base + IF st.k = "assign" THEN Len(ExprArena(st.es[1])) ELSE IF st.k = "for" THEN Len(Arena(st.blocks[1])) ELSE 0, LAMBDA eBase :
  With(eBase + Len(ExprArena(e)) - 1, LAMBDA at :
  LET seen(in) == HitsOf(e, eBase, in, depth) IN
  With(Runtime(e, env), LAMBDA t :
  With(IF ret /\ t THEN {Hit("Return", depth, at)} ELSE {}, LAMBDA out :
  LET armBase(i) == Before([j \in DOMAIN st.blocks |-> Arena(st.blocks[j])] \o <<>>, i, at + 1)
      bodyBase == at + 1 + Len(Arena(st.blocks[2]))
      Body(in) == Left(Paths(st.blocks[3], bodyBase, in, depth, ret), in)
      Post(in) == Left(Paths(st.blocks[2], at + 1, in, depth, ret), in)
      Cond(in) == {Outcome(in, seen(in), FALSE)}
      Once(in) == Then(Then(Body(in), Post), Cond) IN
    CASE st.k = "let" -> {Outcome(Append(env, [name |-> st.name, t |-> t]),
                                  seen(env) \cup IF st.comptime /\ t THEN {Hit("Let", depth, at)} ELSE {}, FALSE)}
      [] st.k = "return" -> {Outcome(env, seen(env) \cup out, TRUE)}
      [] st.k = "expr" -> {Outcome(env, seen(env) \cup IF tail THEN out ELSE {}, FALSE)}
      [] st.k = "assign" -> {Outcome(Retaint(env, st.es[1].name, t \/ (st.compound /\ Tainted(env, st.es[1].name))), seen(env), FALSE)}
      [] st.k = "block" -> Left(Paths(st.blocks[1], base, env, depth, ret), env)
      [] st.k = "for" -> With(Then(Paths(st.blocks[1], base, env, depth, ret), Cond), LAMBDA start :
                           Left(start \cup Then(start, Once) \cup Then(Then(start, Once), Once), env))
      [] OTHER -> UNION {LET in == IF st.names = <<>> \/ st.names[i] = "" THEN env ELSE Append(env, [name |-> st.names[i], t |-> t])
                         IN  {[o EXCEPT !.hits = @ \cup seen(env)] : o \in Left(Paths(st.blocks[i], armBase(i), in, depth, ret), env)} :
                         i \in DOMAIN st.blocks}))))

Paths(stmts, base, env, depth, ret) ==
  IF stmts = <<>> THEN {Outcome(env, {}, FALSE)}
  ELSE LET Rest(in) == Paths(Tail(stmts), base + Len(StmtArena(Head(stmts))), in, depth, ret)
       IN  Then(Step(Head(stmts), base, env, depth, ret, Len(stmts) = 1), Rest)

(* The names an expression hands to compile-time parameters as they are.       *)
RECURSIVE HandedOn(_, _)
HandedOn(e, env) ==
  (IF e.k # "call" THEN {}
   ELSE {e.parts[i].name : i \in {j \in DOMAIN e.parts : program[e.name].params[j].comptime /\ e.parts[j].k = "var"}})
  \cup UNION {HandedOn(e.parts[i], env) : i \in Looked(e, env)}

PathsOf(f) == Paths(f.body, 0, ParamEnv(f.params, f.ret), 0, f.ret)
RuntimeAt(f) == UNION {o.hits : o \in PathsOf(f)}

RECURSIVE Assigns(_)
Assigns(stmts) == \E i \in DOMAIN stmts : stmts[i].k = "assign" \/ \E j \in DOMAIN stmts[i].blocks : Assigns(stmts[i].blocks[j])
(* No branch, loop or closure assigns, nothing returns early, and += is absent. *)
Linear(stmts) ==
  \A i \in DOMAIN stmts :
    /\ ~stmts[i].compound
    /\ stmts[i].k = "return" => i = Len(stmts)
    /\ stmts[i].k \in {"if", "match", "for"} => \A j \in DOMAIN stmts[i].blocks : ~Assigns(stmts[i].blocks[j])

(* Functions, and one report for each.                                         *)
TypeOK ==
  /\ checked \subseteq Functions /\ DOMAIN reports = checked /\ DOMAIN latent = checked
  /\ \A f \in checked : \A r \in reports[f].diags :
       r.depth = 0 => r.at + 1 \in DOMAIN Arena(program[f].body)

(* Where branches assign nothing, the places reported are exactly the ones a   *)
(* run-time value reaches without passing through a call, except those after a *)
(* run-time part of one tuple, constructor or slice: there nothing is reported *)
(* (ComptimeChecker, ComptimeValue::from_all).                                 *)
LinearReportsAreExact ==
  \A f \in checked : Linear(program[f].body) => reports[f].diags = RuntimeAt(program[f])

(* A run-time argument that the called function hands straight to a            *)
(* compile-time parameter is reported, in that function or at the call; not so *)
(* from after a run-time part, where no obligation is noted                    *)
(* (latent_comptime_params).                                                   *)
ForwardedRuntimeIsReported ==
  {"main", "fwd"} \subseteq checked =>
    LET fwd == program["fwd"]
        call == program["main"].body[2].es[1]
        env == <<[name |-> "p", t |-> TRUE], [name |-> "c", t |-> FALSE], [name |-> "n", t |-> FALSE]>>
        passed == {i \in 1..2 : Len(fwd.body) = 1 /\ fwd.body[1].k = "expr" /\
                     fwd.params[i].name \in HandedOn(fwd.body[1].es[1], ParamEnv(fwd.params, fwd.ret))}
    IN  \A i \in passed : Runtime(call.parts[i], env) =>
          reports["fwd"].diags # {} \/ \E r \in latent["main"] : r.arg = i
===============================================================================
