----------------------------- MODULE Evaluator -----------------------------
(* The partial evaluator: each function is evaluated with the values known     *)
(* while compiling, calls are folded within a budget of fuel, functions with   *)
(* literal string arguments are cloned, and what is left is the program that   *)
(* runs.  The residual program and the source are then executed side by side.  *)
(* Expressions and statements are tuples that start with their kind.  An       *)
(* effect is the set of names it may write, AnyName standing for all storage.  *)
EXTENDS Naturals, Sequences, FiniteSets, SequencesExt, TLC

CONSTANTS
  Programs,     \* [funs, order, entry]: a module, its items in order, its entry point
  Storage,      \* the names of storage fields
  FuelLimit,    \* inlinings for one function, and clones in all
  DepthLimit,   \* nested inlinings
  WordValues,   \* words are 0 .. WordValues - 1
  RunBound      \* iterations and calls a reference execution may take

VARIABLES
  program,      \* the module before evaluation
  todo,         \* its functions still to evaluate, in order
  ev,           \* the state of the evaluator
  emitted,      \* the names of the functions evaluated so far
  outcome       \* what the source and the residual module did with one input

vars == <<program, todo, ev, emitted, outcome>>

AnyName == "*"

-------------------------------------------------------------------------------
(* A value under a name.                                                       *)
With(value, Body(_)) == Body(value)

Known(e) == e[1] \in {"lit", "bool", "str", "unit"}
Lit(n) == <<"lit", n % WordValues>>
Bool(b) == <<"bool", b>>
Unit == <<"unit">>
Binary == {"add", "lt", "and", "cat"}

(* What a call writes is read off its callee's summary; a callee that is not   *)
(* known may write anything.                                                   *)
RECURSIVE CallEffects(_, _)
CallEffects(effects, e) ==
  CASE e[1] \in Binary -> CallEffects(effects, e[2]) \cup CallEffects(effects, e[3])
    [] e[1] = "call" -> UNION {CallEffects(effects, e[3][i]) : i \in DOMAIN e[3]}
                        \cup (IF e[2] \in DOMAIN effects THEN effects[e[2]] ELSE {AnyName})
    [] OTHER -> {}

RECURSIVE PureExpr(_, _)
PureExpr(e, pure) ==
  CASE e[1] \in Binary -> PureExpr(e[2], pure) /\ PureExpr(e[3], pure)
    [] e[1] = "call" -> e[2] \in pure /\ \A i \in DOMAIN e[3] : PureExpr(e[3][i], pure)
    [] OTHER -> TRUE

PatNames(pats) == {p[2] : p \in {q \in ToSet(pats) : q[1] = "pvar"}}
ParamNames(f) == {f.params[i][1] : i \in DOMAIN f.params}
ParamIsComptime(p) == p[2] \in {"comptime", "string"}

(* Names a sequence declares for what follows it: blocks and arms keep theirs. *)
Lets(stmts) == {s[2] : s \in {t \in ToSet(stmts) : t[1] = "let"}}
RECURSIVE BindingEffects(_)
BindingEffects(stmts) ==
  UNION {LET s == stmts[i]
         IN  CASE s[1] = "let" -> {s[2]}
               [] s[1] = "if" -> BindingEffects(s[3]) \cup BindingEffects(s[4])
               [] s[1] = "for" -> BindingEffects(s[2]) \cup BindingEffects(s[4]) \cup BindingEffects(s[5])
               [] OTHER -> {} : i \in DOMAIN stmts}

(* A function is pure when no statement of it writes storage or calls what is  *)
(* not pure; it may be inlined even if a statement is a call that is not pure. *)
RECURSIVE PureStmts(_, _, _, _)
PureStmts(stmts, locals, pure, inlining) ==
  \/ stmts = <<>>
  \/ LET s == Head(stmts)
         expr(e) == PureExpr(e, pure)
         rest == PureStmts(Tail(stmts), locals \cup (IF s[1] = "let" THEN {s[2]} ELSE {}), pure, inlining)
     IN  /\ CASE s[1] = "let" -> \A i \in DOMAIN s[4] : expr(s[4][i])
              [] s[1] = "return" -> expr(s[2])
              [] s[1] = "expr" -> IF inlining /\ s[2][1] = "call" THEN \A i \in DOMAIN s[2][3] : expr(s[2][3][i]) ELSE expr(s[2])
              [] s[1] \in {"set", "addset"} -> ~(s[2] \in Storage \ locals) /\ expr(s[3])
              [] s[1] = "match" -> /\ \A i \in DOMAIN s[2] : expr(s[2][i])
                                   /\ \A i \in DOMAIN s[3] : PureStmts(s[3][i].body, locals \cup PatNames(s[3][i].pats), pure, inlining)
              [] s[1] = "if" -> expr(s[2]) /\ PureStmts(s[3], locals, pure, inlining) /\ PureStmts(s[4], locals, pure, inlining)
              [] s[1] = "for" -> LET inner == locals \cup Lets(s[2])
                                 IN  /\ PureStmts(s[2], locals, pure, inlining) /\ expr(s[3])
                                     /\ PureStmts(s[4], locals, pure, inlining) /\ PureStmts(s[5], inner, pure, inlining)
              [] s[1] = "block" -> PureStmts(s[2], locals, pure, inlining)
              [] s[1] \in {"sstore", "revert"} -> FALSE
              [] OTHER -> TRUE
         /\ rest

RECURSIVE PureFuns(_, _, _)
PureFuns(funs, inlining, pure) ==
  With({f \in DOMAIN funs : PureStmts(funs[f].body, ParamNames(funs[f]), pure \cup {f}, inlining)}, LAMBDA more :
    IF more \subseteq pure THEN pure ELSE PureFuns(funs, inlining, pure \cup more))

(* What the statements of a function may write in storage, calls included.     *)
RECURSIVE FunctionEffects(_, _, _)
FunctionEffects(stmts, locals, effects) ==
  IF stmts = <<>> THEN {}
  ELSE LET s == Head(stmts)
           expr(e) == CallEffects(effects, e) IN
       With(locals \cup Lets(s[2]), LAMBDA inner :
       LET rest == FunctionEffects(Tail(stmts), locals \cup (IF s[1] = "let" THEN {s[2]} ELSE {}), effects) IN
         rest \cup
         CASE s[1] = "let" -> UNION {expr(s[4][i]) : i \in DOMAIN s[4]}
           [] s[1] \in {"return", "expr"} -> expr(s[2])
           [] s[1] \in {"set", "addset"} -> ({s[2]} \cap (Storage \ locals)) \cup expr(s[3])
           [] s[1] = "match" -> UNION ({expr(s[2][i]) : i \in DOMAIN s[2]}
                                       \cup {FunctionEffects(s[3][i].body, locals \cup PatNames(s[3][i].pats), effects) : i \in DOMAIN s[3]})
           [] s[1] = "if" -> expr(s[2]) \cup FunctionEffects(s[3], locals, effects) \cup FunctionEffects(s[4], locals, effects)
           [] s[1] = "for" -> FunctionEffects(s[2], locals, effects) \cup expr(s[3])
                              \cup FunctionEffects(s[4], inner, effects) \cup FunctionEffects(s[5], inner, effects)
           [] s[1] = "block" -> FunctionEffects(s[2], locals, effects)
           [] s[1] \in {"asm", "sstore", "revert"} -> {AnyName}
           [] OTHER -> {})

RECURSIVE WriteEffects(_, _)
WriteEffects(funs, effects) ==
  With([f \in DOMAIN funs |-> FunctionEffects(funs[f].body, ParamNames(funs[f]), effects)], LAMBDA next :
    IF next = effects THEN effects ELSE WriteEffects(funs, next))

-------------------------------------------------------------------------------
(* A scope: values known for names, names whose value is available when        *)
(* compiling, names declared, and what each declaration of the current lexical *)
(* scope has hidden.                                                           *)
Put(f, k, v) == (k :> v) @@ f
Drop(f, ks) == [x \in DOMAIN f \ ks |-> f[x]]

Declare(sc, name) ==
  [sc EXCEPT !.hidden = IF name \in DOMAIN @ THEN @
                        ELSE Put(@, name, <<IF name \in DOMAIN sc.env THEN <<sc.env[name]>> ELSE <<>>, name \in sc.cenv>>)]

(* Leaving a lexical scope brings back what its declarations have hidden.      *)
Restore(outer, inner) ==
  LET back == DOMAIN inner.hidden
      known == {x \in back : inner.hidden[x][1] # <<>>}
  IN  [outer EXCEPT !.env = [x \in (DOMAIN inner.env \ back) \cup known |->
                               IF x \in back THEN inner.hidden[x][1][1] ELSE inner.env[x]],
                    !.cenv = (inner.cenv \ back) \cup {x \in back : inner.hidden[x][2]}]

Enter(sc, names) == [sc EXCEPT !.types = @ \cup names, !.hidden = <<>>]

Forget(sc, names) == [sc EXCEPT !.env = Drop(@, names), !.cenv = @ \ names]
Invalidate(sc, effects) == Forget(sc, IF AnyName \in effects THEN Storage \ sc.types ELSE effects)

SetComptime(sc, name, yes) == [sc EXCEPT !.cenv = IF yes THEN @ \cup {name} ELSE @ \ {name}]

(* Effects of residual control flow: writes to names the region has not        *)
(* declared before, and what it declares.                                      *)
Shared(types, effects) == IF AnyName \in effects THEN Storage \ types ELSE effects \cap (Storage \ types)
RECURSIVE StmtEffects(_, _, _, _)
StmtEffects(e, types, stmts, start) ==
  FoldLeft(LAMBDA acc, s :
    LET call(x) == Shared(types, CallEffects(e.effects, x))
        calls(xs) == UNION {call(xs[i]) : i \in DOMAIN xs}
        also(names) == [acc EXCEPT !.writes = @ \cup names]
        in(body, a) == StmtEffects(e, types, body, a)
    IN  CASE s[1] = "let" -> [also(calls(s[4])) EXCEPT !.locals = @ \cup {s[2]}]
          [] s[1] \in {"return", "expr"} -> also(call(s[2]))
          [] s[1] \in {"set", "addset"} -> also(({s[2]} \ acc.locals) \cup call(s[3]))
          [] s[1] = "asm" -> also(({s[2]} \ acc.locals) \cup (Storage \ types))
          [] s[1] \in {"sstore", "revert"} -> also(Storage \ types)
          [] s[1] = "block" -> [in(s[2], acc) EXCEPT !.locals = acc.locals]
          [] s[1] = "match" -> also(calls(s[2]) \cup UNION {in(s[3][i].body, [acc EXCEPT !.locals = @ \cup PatNames(s[3][i].pats)]).writes : i \in DOMAIN s[3]})
          [] s[1] = "if" -> in(s[4], in(s[3], also(call(s[2]))))
          [] s[1] = "for" -> With(in(s[2], acc), LAMBDA i :
                               in(s[5], in(s[4], [i EXCEPT !.writes = @ \cup call(s[3])])))
          [] OTHER -> acc,
    start, stmts)
NoEffects(locals) == [writes |-> {}, locals |-> locals]

ControlFlowEnv(sc, effects) ==
  FoldSet(LAMBDA name, acc : Declare(acc, name), Invalidate(sc, effects.writes), effects.locals)

-------------------------------------------------------------------------------
(* A failure to fold is reported once; every other one adds to it.             *)
Report(e, kind) == [e EXCEPT !.diags = @ \cup {kind}]
ReportOnce(e, kind) == IF e.diags \cap {"recursion", "fuel"} = {} THEN Report(e, kind) ELSE e

RECURSIVE IsComptime(_, _, _)
IsComptime(e, cenv, x) ==
  \/ Known(x)
  \/ x[1] = "var" /\ x[2] \in cenv
  \/ x[1] \in Binary /\ IsComptime(e, cenv, x[2]) /\ IsComptime(e, cenv, x[3])
  \/ /\ x[1] = "call"
     /\ x[2] \in e.pure \/ (x[2] \in e.inlinable /\ \E i \in DOMAIN x[3] : ~Known(x[3][i]))
     /\ \A i \in DOMAIN x[3] : IsComptime(e, cenv, x[3][i])

ExprEffects(e, sc, x) ==
  With(CallEffects(e.effects, x), LAMBDA effects :
    IF AnyName \in effects THEN effects ELSE effects \ sc.types)

CheckComptimeParams(e, sc, f, args) ==
  IF f \in DOMAIN e.funs /\ \E i \in DOMAIN e.funs[f].params \cap DOMAIN args :
                              ParamIsComptime(e.funs[f].params[i]) /\ ~IsComptime(e, sc.cenv, args[i])
  THEN Report(e, "failed") ELSE e

EvalBinop(x, l, r) ==
  CASE l[1] = "str" /\ r[1] = "str" /\ x[1] = "cat" -> <<"str", l[2] + r[2]>>
    [] l[1] = "lit" /\ r[1] = "lit" /\ x[1] = "add" -> Lit(l[2] + r[2])
    [] l[1] = "lit" /\ r[1] = "lit" /\ x[1] = "lt" -> Bool(l[2] < r[2])
    [] OTHER -> <<x[1], l, r>>

CloneOf(fn, kept) == [fn EXCEPT !.params = [i \in DOMAIN kept |-> @[kept[i]]] \o <<>>]

CloneMade(e, key) == {i \in DOMAIN e.clones : e.clones[i].key = key}

(* A call with literal strings for comptime parameters calls a clone without   *)
(* them, made once for each callee and strings.                                *)
NoValue == <<"none">>
TryCloneStringCall(e, f, args) ==
  LET fn == e.funs[f] IN
  With({i \in DOMAIN fn.params : fn.params[i][2] = "string"}, LAMBDA erased :
  With(SelectSeq([i \in DOMAIN args |-> i], LAMBDA i : i \notin erased), LAMBDA kept :
  With(<<f, [i \in erased |-> args[i][2]]>>, LAMBDA key :
  With(CloneMade(e, key), LAMBDA at :
  LET name == <<f[1], e.next>>
      clone == CloneOf(fn, kept)
      call(n) == <<"call", n, [i \in DOMAIN kept |-> args[kept[i]]] \o <<>>>>
      inherit(set) == IF f \in set THEN set \cup {name} ELSE set IN
    CASE \/ f \notin DOMAIN e.funs \/ Len(fn.params) # Len(args)
         \/ erased = {} \/ \E i \in erased : args[i][1] # "str" -> [e |-> e, x |-> NoValue]
      [] at # {} -> [e |-> e, x |-> call(e.clones[CHOOSE i \in at : TRUE].name)]
      [] at = {} /\ e.cloneFuel = 0 -> [e |-> ReportOnce(e, "fuel"), x |-> NoValue]
      [] OTHER ->
         [x |-> call(name),
          e |-> [e EXCEPT !.cloneFuel = @ - 1, !.next = @ + 1, !.funs = Put(@, name, clone),
                          !.pure = inherit(@), !.inlinable = inherit(@),
                          !.effects = Put(@, name, IF f \in DOMAIN @ THEN @[f] ELSE {AnyName}),
                          !.clones = Append(@, [key |-> key, name |-> name]),
                          !.pending = Append(@, [name |-> name, env |-> [n \in {fn.params[i][1] : i \in erased} |->
                                        args[CHOOSE i \in erased : fn.params[i][1] = n]]])]]))))

(* Patterns against values that are known: whether they match, and what they   *)
(* bind, the last occurrence of a name.                                        *)
PatFits(p, v) == p[1] # "plit" \/ v = Lit(p[2])
LastAt(pats, n) == CHOOSE i \in DOMAIN pats : pats[i] = <<"pvar", n>> /\ \A j \in DOMAIN pats : pats[j] = <<"pvar", n>> => j <= i
Bindings(pats, vs) == [n \in PatNames(pats) |-> vs[LastAt(pats, n)]]
Extend(env, more) == more @@ env
FirstArm(arms, vs) ==
  With({i \in DOMAIN arms : \A j \in DOMAIN vs : PatFits(arms[i].pats[j], vs[j])}, LAMBDA fits :
    IF fits = {} THEN 0 ELSE CHOOSE i \in fits : \A j \in fits : i <= j)

(* Of branches that are not taken only the declarations are kept.              *)
RECURSIVE SkippedDeclarations(_)
SkippedDeclarations(stmts) ==
  FlattenSeq([i \in DOMAIN stmts |->
    LET s == stmts[i]
    IN  CASE s[1] = "let" -> <<<<"let", s[2], FALSE, <<>>>>>>
          [] s[1] = "if" -> SkippedDeclarations(s[3]) \o SkippedDeclarations(s[4])
          [] s[1] = "for" -> SkippedDeclarations(s[2]) \o SkippedDeclarations(s[4]) \o SkippedDeclarations(s[5])
          [] OTHER -> <<>>] \o <<>>)
SelectSourceBranch(then, else, taken) ==
  IF taken THEN then \o SkippedDeclarations(else) ELSE SkippedDeclarations(then) \o else

RECURSIVE UnavailableIn(_)
UnavailableIn(x) ==
  \/ x[1] = "gone"
  \/ x[1] \in Binary /\ (UnavailableIn(x[2]) \/ UnavailableIn(x[3]))
  \/ x[1] = "call" /\ \E i \in DOMAIN x[3] : UnavailableIn(x[3][i])

RECURSIVE EvalExpr(_, _, _), FoldBody(_, _, _)
EvalAll(e, sc, xs) ==
  FoldLeft(LAMBDA acc, x : With(EvalExpr(acc.e, sc, x), LAMBDA r :
                             [e |-> r.e, xs |-> Append(acc.xs, r.x)]), [e |-> e, xs |-> <<>>], xs)

Budget(e) == e.fuel = 0 \/ Len(e.stack) >= DepthLimit

(* A call is folded when its arguments have no effects, its callee can be      *)
(* inlined, the same call is not being folded already, and there is fuel.      *)
TryInline(e, sc, f, args) ==
  LET fn == e.funs[f]
      none(e2) == [e |-> e2, x |-> NoValue]
      frame == [name |-> f, args |-> args]
      env == [n \in ParamNames(fn) |-> args[CHOOSE i \in DOMAIN args : fn.params[i][1] = n]]
      cenv == {fn.params[i][1] : i \in {j \in DOMAIN args : fn.ret = "comptime" \/ ParamIsComptime(fn.params[j]) \/ Known(args[j])}}
      callee == [env |-> env, cenv |-> cenv, types |-> ParamNames(fn), hidden |-> <<>>]
  IN  CASE \/ f \notin DOMAIN e.funs
           \/ \E i \in DOMAIN args : ExprEffects(e, sc, args[i]) # {} \/ ~PureExpr(args[i], e.pure)
           \/ ~(f \in e.inlinable \/ fn.std) \/ Len(fn.params) # Len(args) -> none(e)
        [] f \in DOMAIN e.funs /\ Contains(e.stack, frame) -> none(ReportOnce(e, "recursion"))
        [] f \in DOMAIN e.funs /\ ~Contains(e.stack, frame) /\ Budget(e) -> none(ReportOnce(e, "fuel"))
        [] OTHER ->
           With(FoldBody([e EXCEPT !.fuel = @ - 1, !.inlined = @ + 1, !.stack = Append(@, frame)], callee, fn.body), LAMBDA r :
           With([r.e EXCEPT !.stack = e.stack], LAMBDA popped :
             IF r.kind = "known" THEN [e |-> popped, x |-> r.x] ELSE none(popped)))

EvalExpr(e, sc, x) ==
  CASE x[1] = "var" -> [e |-> e, x |-> IF x[2] \in DOMAIN sc.env THEN sc.env[x[2]] ELSE x]
    [] x[1] = "and" ->
       With(EvalExpr(e, sc, x[2]), LAMBDA l :
       With(EvalExpr(l.e, sc, x[3]), LAMBDA r :
         CASE l.x = Bool(FALSE) -> l
           [] l.x = Bool(TRUE) /\ r.x[1] = "bool" -> r
           [] OTHER -> [e |-> r.e, x |-> <<"and", l.x, r.x>>]))
    [] x[1] \in Binary \ {"and"} ->
       With(EvalExpr(e, sc, x[2]), LAMBDA l :
       With(EvalExpr(l.e, sc, x[3]), LAMBDA r :
         [e |-> r.e, x |-> EvalBinop(x, l.x, r.x)]))
    [] x[1] = "call" ->
       With(EvalAll(e, sc, x[3]), LAMBDA args :
       LET checked == CheckComptimeParams(args.e, sc, x[2], args.xs) IN
       With(TryInline(checked, sc, x[2], args.xs), LAMBDA inlined :
       With(TryCloneStringCall(inlined.e, x[2], args.xs), LAMBDA cloned :
         CASE inlined.x # NoValue -> inlined
           [] inlined.x = NoValue /\ cloned.x # NoValue -> cloned
           [] OTHER -> [e |-> cloned.e, x |-> <<"call", x[2], args.xs>>])))
    [] OTHER -> [e |-> e, x |-> x]

\* Mutant: what the expression itself writes is not forgotten before it is evaluated.
EvalExprOnce(e, sc, x) ==
  With(EvalExpr(e, sc, x), LAMBDA once :
    [e |-> once.e, x |-> once.x, effects |-> ExprEffects(once.e, sc, once.x)])

(* An expression that turns out to write something is evaluated again without  *)
(* the values it may change.                                                   *)
EvalExprStable(e, sc, x) ==
  With(EvalExpr(e, sc, x), LAMBDA once :
  With(ExprEffects(once.e, sc, once.x), LAMBDA effects :
  With(EvalExpr(once.e, Invalidate(sc, effects), x), LAMBDA again :
    IF effects = {} THEN [e |-> once.e, x |-> once.x, effects |-> {}]
    ELSE [e |-> again.e, x |-> again.x, effects |-> ExprEffects(again.e, sc, again.x)])))

(* Assembly of one assignment: substitute, and interpret if all is known.      *)
RECURSIVE Subst(_, _)
Subst(env, x) ==
  CASE x[1] = "var" /\ x[2] \in DOMAIN env -> IF Known(env[x[2]]) THEN env[x[2]] ELSE x
    [] x[1] = "add" -> <<"add", Subst(env, x[2]), Subst(env, x[3])>>
    [] OTHER -> x
RECURSIVE Yul(_)
Yul(x) ==
  CASE x[1] = "lit" -> x
    [] x[1] = "add" -> IF Yul(x[2])[1] = "lit" /\ Yul(x[3])[1] = "lit" THEN Lit(Yul(x[2])[2] + Yul(x[3])[2]) ELSE NoValue
    [] OTHER -> NoValue

-------------------------------------------------------------------------------
(* Folding the body of a call: it must come to a known value, and no effect    *)
(* may be left behind on the way.                                              *)
FoldBody(e, sc, stmts) ==
  LET s == Head(stmts)
      abort(e2) == [kind |-> "abort", e |-> e2, x |-> NoValue, sc |-> sc]
      go(e2, sc2) == FoldBody(e2, sc2, Tail(stmts))
      then(r) == IF r.kind = "fell" THEN go(r.e, r.sc) ELSE r
      residual(e2, x) == ~Known(x) /\ ~PureExpr(x, e2.pure)
      gone(e2) == <<"gone", e2.gone>>
      bump(e2) == [e2 EXCEPT !.gone = @ + 1]
      bind(e2, sc2, name, x, comptime) ==
        With(PureExpr(x, e2.pure), LAMBDA keep :
          go(IF keep THEN e2 ELSE bump(e2),
             SetComptime([sc2 EXCEPT !.env = Put(@, name, IF keep THEN x ELSE gone(e2)), !.types = @ \cup {name}], name, comptime)))
  IN  IF stmts = <<>> THEN [kind |-> "fell", e |-> e, x |-> NoValue, sc |-> sc]
      ELSE CASE
         s[1] = "let" /\ s[4] # <<>> ->
           With(EvalExpr(e, sc, s[4][1]), LAMBDA r :
             IF residual(r.e, r.x) THEN abort(r.e)
             ELSE bind(r.e, Declare(sc, s[2]), s[2], r.x, s[3] \/ IsComptime(r.e, sc.cenv, r.x)))
      [] s[1] = "let" /\ s[4] = <<>> ->
           go(bump(e), SetComptime([Declare(sc, s[2]) EXCEPT !.env = Put(@, s[2], gone(e)), !.types = @ \cup {s[2]}], s[2], s[3]))
      [] s[1] = "set" ->
           With(EvalExpr(e, sc, s[3]), LAMBDA r :
             IF residual(r.e, r.x) THEN abort(r.e) ELSE bind(r.e, sc, s[2], r.x, IsComptime(r.e, sc.cenv, r.x)))
      [] s[1] = "return" ->
           With(EvalExpr(e, sc, s[2]), LAMBDA r :
             IF Known(r.x) /\ ~UnavailableIn(r.x) THEN [kind |-> "known", e |-> r.e, x |-> r.x, sc |-> sc] ELSE abort(r.e))
      [] s[1] = "expr" ->
           IF PureExpr(s[2], e.pure) THEN go(e, sc)
           ELSE With(EvalExpr(e, sc, s[2]), LAMBDA r :
                  IF residual(r.e, r.x) THEN abort(r.e) ELSE go(r.e, sc))
      [] s[1] = "if" ->
           With(EvalExpr(e, sc, s[2]), LAMBDA c :
             IF c.x[1] # "bool" THEN abort(c.e)
             ELSE then(FoldBody(c.e, sc, SelectSourceBranch(s[3], s[4], c.x[2]))))
      [] s[1] = "match" ->
           With(EvalAll(e, sc, s[2]), LAMBDA vs :
           With(IF \A i \in DOMAIN vs.xs : Known(vs.xs[i]) THEN FirstArm(s[3], vs.xs) ELSE 0, LAMBDA arm :
           With(s[3][arm].pats, LAMBDA pats :
           LET inside == [FoldLeft(Declare, Enter(sc, PatNames(pats)), SetToSeq(PatNames(pats)))
                            EXCEPT !.env = Extend(@, Bindings(pats, vs.xs)),
                                   !.cenv = (@ \ PatNames(pats)) \cup {n \in DOMAIN Extend(sc.env, Bindings(pats, vs.xs)) :
                                                                        Known(Extend(sc.env, Bindings(pats, vs.xs))[n])}] IN
           With(FoldBody(vs.e, inside, s[3][arm].body), LAMBDA r :
             IF arm = 0 THEN abort(vs.e)
             ELSE then(IF r.kind = "fell" THEN [r EXCEPT !.sc = Restore(sc, r.sc)] ELSE r)))))
      [] s[1] = "block" ->
           With(FoldBody(e, Enter(sc, {}), s[2]), LAMBDA r :
             then(IF r.kind = "fell" THEN [r EXCEPT !.sc = Restore(sc, r.sc)] ELSE r))
      [] s[1] = "asm" ->
           With(Yul(Subst(sc.env, s[3])), LAMBDA v :
             IF v = NoValue THEN abort(e)
             ELSE go(e, IF s[2] \in sc.types THEN [sc EXCEPT !.env = Put(@, s[2], v)] ELSE sc))
      [] OTHER -> abort(e)

-------------------------------------------------------------------------------
(* What residual statements use from outside, and the declarations without an  *)
(* initialiser that nothing after them uses.                                   *)
RECURSIVE ExprNames(_)
ExprNames(x) ==
  CASE x[1] = "var" -> {x[2]}
    [] x[1] \in Binary -> ExprNames(x[2]) \cup ExprNames(x[3])
    [] x[1] = "call" -> UNION {ExprNames(x[3][i]) : i \in DOMAIN x[3]}
    [] OTHER -> {}
RECURSIVE Captures(_)
Captures(stmts) ==
  IF stmts = <<>> THEN {}
  ELSE LET s == Head(stmts) IN
       With(Captures(Tail(stmts)), LAMBDA rest :
         CASE s[1] = "let" -> UNION {ExprNames(s[4][i]) : i \in DOMAIN s[4]} \cup (rest \ {s[2]})
           [] s[1] = "for" -> Captures(s[2] \o <<<<"expr", s[3]>>>> \o s[5] \o s[4] \o Tail(stmts))
           [] OTHER -> rest \cup
              CASE s[1] \in {"return", "expr"} -> ExprNames(s[2])
                [] s[1] \in {"set", "addset", "asm"} -> {s[2]} \cup ExprNames(s[3])
                [] s[1] = "sstore" -> ExprNames(s[3])
                [] s[1] = "if" -> ExprNames(s[2]) \cup Captures(s[3]) \cup Captures(s[4])
                [] s[1] = "match" -> UNION ({ExprNames(s[2][i]) : i \in DOMAIN s[2]}
                                            \cup {Captures(s[3][i].body) \ PatNames(s[3][i].pats) : i \in DOMAIN s[3]})
                [] s[1] = "block" -> Captures(s[2])
                [] OTHER -> {})

RECURSIVE Prune(_, _)
Prune(stmts, used) ==
  IF stmts = <<>> THEN [out |-> <<>>, used |-> used]
  ELSE LET s == Last(stmts) IN
       With(Prune(s[4], used), LAMBDA else :
       With(Prune(s[3], else.used), LAMBDA then :
       With(Prune(s[5], used), LAMBDA body :
       With(Prune(s[4], body.used), LAMBDA post :
       With(Prune(s[2], post.used \cup ExprNames(s[3])), LAMBDA init :
       With(CASE s[1] = "if" -> [s |-> <<"if", s[2], then.out, else.out>>, used |-> then.used]
              [] s[1] = "for" -> [s |-> <<"for", init.out, s[3], post.out, body.out>>, used |-> init.used]
              [] s[1] = "let" -> [s |-> s, used |-> used \ {s[2]}]
              [] OTHER -> [s |-> s, used |-> used], LAMBDA now :
       With(s[1] = "let" /\ s[4] = <<>> /\ s[2] \notin used, LAMBDA drop :
       With(Prune(Front(stmts), IF drop THEN used ELSE now.used \cup Captures(<<now.s>>)), LAMBDA front :
         IF drop THEN front ELSE [front EXCEPT !.out = Append(@, now.s)]))))))))
PruneUnused(stmts) == Prune(stmts, {}).out

(* The body of a call that becomes statements of its caller may only return at *)
(* its end.                                                                    *)
RECURSIVE HasReturn(_)
HasReturn(stmts) ==
  \E i \in DOMAIN stmts :
    LET s == stmts[i]
    IN  CASE s[1] = "return" -> TRUE
          [] s[1] = "match" -> \E j \in DOMAIN s[3] : HasReturn(s[3][j].body)
          [] s[1] = "if" -> HasReturn(s[3]) \/ HasReturn(s[4])
          [] s[1] = "for" -> HasReturn(s[2]) \/ HasReturn(s[4]) \/ HasReturn(s[5])
          [] s[1] = "block" -> HasReturn(s[2])
          [] OTHER -> FALSE
RECURSIVE StripTailReturns(_)
StripTailReturns(body) ==
  LET s == Last(body)
      with(last) == Append(Front(body), last) IN
  With([i \in DOMAIN s[3] |-> StripTailReturns(s[3][i].body)], LAMBDA arms :
  With(StripTailReturns(s[3]), LAMBDA then :
  With(StripTailReturns(s[4]), LAMBDA else :
  With(StripTailReturns(s[2]), LAMBDA inner :
    CASE body = <<>> -> [ok |-> TRUE, out |-> body]
      [] body # <<>> /\ HasReturn(Front(body)) -> [ok |-> FALSE, out |-> body]
      [] OTHER ->
         CASE s[1] = "return" -> [ok |-> TRUE, out |-> IF Known(s[2]) THEN Front(body) ELSE with(<<"expr", s[2]>>)]
           [] s[1] = "match" -> [ok |-> \A i \in DOMAIN arms : arms[i].ok,
                                 out |-> with(<<"match", s[2], [i \in DOMAIN arms |-> [s[3][i] EXCEPT !.body = arms[i].out]] \o <<>>>>)]
           [] s[1] = "if" -> [ok |-> then.ok /\ else.ok, out |-> with(<<"if", s[2], then.out, else.out>>)]
           [] s[1] = "block" -> [ok |-> inner.ok, out |-> with(<<"block", inner.out>>)]
           [] OTHER -> [ok |-> ~HasReturn(<<s>>), out |-> body]))))

-------------------------------------------------------------------------------
(* Statements.  Each leaves the evaluator, the scope after it, and what is     *)
(* left of it.                                                                 *)
RECURSIVE EvalStmt(_, _, _, _)
RECURSIVE EvalStmts(_, _, _, _)
EvalStmts(e, sc, stmts, comptime) ==
  IF stmts = <<>> THEN [e |-> e, sc |-> sc, out |-> <<>>]
  ELSE With(EvalStmt(e, sc, Head(stmts), comptime), LAMBDA r :
       With(EvalStmts(r.e, r.sc, Tail(stmts), comptime), LAMBDA rest :
         [out |-> r.out \o rest.out, e |-> rest.e, sc |-> rest.sc]))
EvalBody(e, sc, stmts, comptime) ==
  With(EvalStmts(e, [sc EXCEPT !.hidden = <<>>], stmts, comptime), LAMBDA r :
    [r EXCEPT !.out = PruneUnused(@)])
EvalScoped(e, sc, stmts, comptime) ==
  With(EvalBody(e, sc, stmts, comptime), LAMBDA r :
    [r EXCEPT !.sc = Restore(sc, @)])

EvalLet(e, sc, s) ==
  LET has == s[4] # <<>> IN
  With(IF has THEN EvalExprStable(e, sc, s[4][1]) ELSE [e |-> e, x |-> NoValue, effects |-> {}], LAMBDA r :
  With(has /\ Known(r.x), LAMBDA known :
  With(Invalidate(sc, r.effects), LAMBDA before :
  With(SetComptime([Declare(before, s[2]) EXCEPT !.env = IF known THEN Put(@, s[2], r.x) ELSE Drop(@, {s[2]}),
                                                 !.types = @ \cup {s[2]}],
                   s[2], s[3] \/ (has /\ IsComptime(r.e, before.cenv, r.x))), LAMBDA after :
  LET fails == s[3] /\ ~(has /\ IsComptime(r.e, after.cenv, r.x)) IN
    [e |-> IF fails THEN Report(r.e, "failed") ELSE r.e, sc |-> after,
     out |-> IF s[3] /\ known THEN <<>> ELSE <<<<"let", s[2], s[3], IF has THEN <<r.x>> ELSE <<>>>>>>]))))

EvalAssign(e, sc, s) ==
  With(EvalExprStable(e, sc, s[3]), LAMBDA r :
  With(Invalidate(sc, r.effects), LAMBDA after :
  With(<<<<s[1], s[2], r.x>>>>, LAMBDA out :
    IF s[1] = "addset" THEN [e |-> r.e, sc |-> Forget(after, {s[2]}), out |-> out]
    ELSE [e |-> r.e, out |-> out,
          sc |-> SetComptime([after EXCEPT !.env = IF Known(r.x) THEN Put(@, s[2], r.x) ELSE Drop(@, {s[2]})],
                             s[2], IsComptime(r.e, after.cenv, r.x))])))

(* A call of a unit function of the dispatch library, its arguments known,     *)
(* becomes a block of the caller.                                              *)
TryInlineStmtCall(e, x) ==
  LET f == x[2]
      fn == e.funs[f]
      none(e2) == [e |-> e2, ok |-> FALSE, out |-> <<>>] IN
  With(/\ x[1] = "call" /\ f \in DOMAIN e.funs
       /\ fn.std /\ fn.ret = "unit" /\ Len(fn.params) = Len(x[3])
       /\ \A i \in DOMAIN x[3] : Known(x[3][i])
       /\ StripTailReturns(fn.body).ok, LAMBDA can :
  LET frame == [name |-> f, args |-> x[3]]
      callee == [env |-> [n \in ParamNames(fn) |-> x[3][CHOOSE i \in DOMAIN x[3] : fn.params[i][1] = n]],
                 cenv |-> ParamNames(fn), types |-> ParamNames(fn), hidden |-> <<>>] IN
  With(EvalBody([e EXCEPT !.fuel = @ - 1, !.inlined = @ + 1, !.stack = Append(@, frame)], callee, fn.body, FALSE), LAMBDA r :
  With(StripTailReturns(r.out), LAMBDA body :
    CASE ~can -> none(e)
      [] can /\ Contains(e.stack, frame) -> none(ReportOnce(e, "recursion"))
      [] can /\ ~Contains(e.stack, frame) /\ Budget(e) -> none(ReportOnce(e, "fuel"))
      [] OTHER -> [e |-> [r.e EXCEPT !.stack = e.stack], ok |-> body.ok, out |-> body.out])))

EvalReturn(e, sc, s, comptime) ==
  With(EvalExprStable(e, sc, s[2]), LAMBDA r :
  LET unit == r.x[1] = "call" /\ r.x[2] \in DOMAIN r.e.funs /\ r.e.funs[r.x[2]].ret = "unit" IN
  With(IF unit THEN TryInlineStmtCall(r.e, r.x) ELSE [e |-> r.e, ok |-> FALSE, out |-> <<>>], LAMBDA spliced :
  LET fails == comptime /\ ~IsComptime(spliced.e, sc.cenv, r.x) IN
    IF spliced.ok THEN [e |-> spliced.e, sc |-> sc, out |-> <<<<"block", Append(spliced.out, <<"return", Unit>>)>>>>]
    ELSE [e |-> IF fails THEN Report(spliced.e, "failed") ELSE spliced.e, sc |-> sc, out |-> <<<<"return", r.x>>>>]))

EvalExprStmt(e, sc, s) ==
  With(EvalExprStable(e, sc, s[2]), LAMBDA r :
  With(TryInlineStmtCall(r.e, r.x), LAMBDA spliced :
    IF spliced.ok
    THEN [e |-> spliced.e, sc |-> Invalidate(sc, StmtEffects(spliced.e, sc.types, spliced.out, NoEffects({})).writes),
          out |-> <<<<"block", spliced.out>>>>]
    ELSE [e |-> spliced.e, sc |-> Invalidate(sc, r.effects), out |-> IF Known(r.x) THEN <<>> ELSE <<<<"expr", r.x>>>>]))

(* Each region of residual control flow starts from what no region may have    *)
(* written, and keeps nothing of what another one has learnt.                  *)
Region(e, sc, stmts, comptime) ==
  With(EvalStmts(e, sc, stmts, comptime), LAMBDA r :
    [e |-> r.e, out |-> r.out,
     sc |-> Invalidate([sc EXCEPT !.types = r.sc.types, !.hidden = r.sc.hidden], BindingEffects(stmts))])

EvalIf(e, sc, s, comptime) ==
  With(EvalExprStable(e, sc, s[2]), LAMBDA c :
  With(Invalidate(sc, c.effects), LAMBDA known :
  LET branches == ControlFlowEnv(known, StmtEffects(c.e, sc.types, s[3] \o s[4], NoEffects({}))) IN
  With(Region(c.e, branches, s[3], comptime), LAMBDA then :
  With(Region(then.e, then.sc, s[4], comptime), LAMBDA else :
    IF c.x[1] = "bool" THEN EvalStmts(c.e, known, SelectSourceBranch(s[3], s[4], c.x[2]), comptime)
    ELSE [e |-> else.e, sc |-> else.sc, out |-> <<<<"if", c.x, then.out, else.out>>>>]))))

EvalFor(e, sc, s, comptime) ==
  LET loop == ControlFlowEnv(sc, StmtEffects(e, sc.types, s[2] \o <<<<"expr", s[3]>>>> \o s[4] \o s[5], NoEffects({}))) IN
  With(Region(e, loop, s[2], comptime), LAMBDA init :
  With(EvalExpr(init.e, init.sc, s[3]), LAMBDA c :
  With(Region(c.e, init.sc, s[4], comptime), LAMBDA post :
  With(Region(post.e, post.sc, s[5], comptime), LAMBDA body :
    [e |-> body.e, sc |-> body.sc, out |-> <<<<"for", init.out, c.x, post.out, body.out>>>>]))))

(* An arm whose patterns bind known values: the bindings the rest still uses   *)
(* are declared.                                                               *)
EvalMatchedArm(e, sc, known, body, comptime) ==
  LET names == DOMAIN known
      env == Extend(sc.env, known)
      inside == [FoldLeft(Declare, Enter(sc, names), SetToSeq(names))
                   EXCEPT !.env = env, !.cenv = @ \cup {n \in DOMAIN env : Known(env[n])}] IN
  With(EvalStmts(e, inside, body, comptime), LAMBDA r :
  With(PruneUnused(r.out), LAMBDA out :
  With(SetToSeq(names \cap Captures(out)), LAMBDA used :
    [e |-> r.e, sc |-> Restore(sc, r.sc),
     out |-> [i \in DOMAIN used |-> <<"let", used[i], FALSE, <<known[used[i]]>>>>] \o out])))

(* A match that stays drops the columns that are known and the arms they rule  *)
(* out.                                                                        *)
EvalResidualMatch(e, sc, xs, arms, comptime) ==
  LET static == \E i \in DOMAIN xs : ~Known(xs[i])
      decided(i) == static /\ Known(xs[i]) IN
  With(SelectSeq([i \in DOMAIN xs |-> i], LAMBDA i : ~decided(i)), LAMBDA kept :
  LET columns(seq) == [i \in DOMAIN kept |-> seq[kept[i]]] \o <<>> IN
  With(SelectSeq(arms, LAMBDA a : \A i \in DOMAIN xs : decided(i) => PatFits(a.pats[i], xs[i])), LAMBDA alive :
  LET writes(a) == StmtEffects(e, sc.types, a.body, NoEffects(PatNames(a.pats))).writes
      inArm(a) ==
        With(PatNames(a.pats), LAMBDA names :
        With(Invalidate(sc, writes(a)), LAMBDA masked :
          [masked EXCEPT !.env = Drop(@, names), !.types = @ \cup names,
                         !.cenv = (@ \ names) \cup {n \in names : IsComptime(e, sc.cenv, xs[LastAt(a.pats, n)])}]))
      known(a) == [n \in {m \in PatNames(a.pats) : decided(LastAt(a.pats, m))} |-> xs[LastAt(a.pats, n)]]
      eval(acc, a) ==
        With(IF DOMAIN known(a) = {} THEN EvalBody(acc.e, inArm(a), a.body, comptime)
             ELSE EvalMatchedArm(acc.e, inArm(a), known(a), a.body, comptime), LAMBDA r :
          [e |-> r.e, arms |-> Append(acc.arms, [pats |-> columns(a.pats), body |-> r.out])]) IN
  With(FoldLeft(eval, [e |-> e, arms |-> <<>>], alive), LAMBDA all :
    [e |-> all.e, sc |-> Invalidate(sc, UNION {writes(alive[i]) : i \in DOMAIN alive}),
     out |-> <<<<"match", columns(xs), all.arms>>>>])))

EvalMatch(e, sc, s, comptime) ==
  LET scrutinee(acc, x) ==
        With(EvalExprStable(acc.e, acc.sc, x), LAMBDA r :
          [e |-> r.e, sc |-> Invalidate(acc.sc, r.effects), xs |-> Append(acc.xs, r.x)]) IN
  With(FoldLeft(scrutinee, [e |-> e, sc |-> sc, xs |-> <<>>], s[2]), LAMBDA vs :
  With(IF \A i \in DOMAIN vs.xs : Known(vs.xs[i]) THEN FirstArm(s[3], vs.xs) ELSE 0, LAMBDA arm :
  With(EvalMatchedArm(vs.e, vs.sc, Bindings(s[3][arm].pats, vs.xs), s[3][arm].body, comptime), LAMBDA r :
    IF arm = 0 THEN EvalResidualMatch(vs.e, vs.sc, vs.xs, s[3], comptime)
    ELSE [r EXCEPT !.out = IF BindingEffects(@) = {} THEN @ ELSE <<<<"block", @>>>>])))

EvalStmt(e, sc, s, comptime) ==
  CASE s[1] = "let" -> EvalLet(e, sc, s)
    [] s[1] \in {"set", "addset"} -> EvalAssign(e, sc, s)
    [] s[1] = "return" -> EvalReturn(e, sc, s, comptime)
    [] s[1] = "expr" -> EvalExprStmt(e, sc, s)
    [] s[1] = "if" -> EvalIf(e, sc, s, comptime)
    [] s[1] = "match" -> EvalMatch(e, sc, s, comptime)
    [] s[1] = "for" -> EvalFor(e, sc, s, comptime)
    [] s[1] = "block" -> With(EvalScoped(e, sc, s[2], comptime), LAMBDA r :
                           [r EXCEPT !.out = <<<<"block", @>>>>])
    [] s[1] = "asm" ->
       With(Subst(sc.env, s[3]), LAMBDA x :
       With(Yul(x), LAMBDA v :
         [e |-> e, out |-> <<<<"asm", s[2], x>>>>,
          sc |-> IF v = NoValue THEN Forget(sc, {s[2]} \cup (Storage \ sc.types))
                 ELSE IF s[2] \in sc.types THEN [sc EXCEPT !.env = Put(@, s[2], v)] ELSE sc]))
    [] s[1] = "sstore" -> [e |-> e, sc |-> Forget(sc, Storage \ sc.types), out |-> <<<<"sstore", s[2], Subst(sc.env, s[3])>>>>]
    [] s[1] = "revert" -> [e |-> e, sc |-> Forget(sc, Storage \ sc.types), out |-> <<s>>]
    [] OTHER -> [e |-> e, sc |-> sc, out |-> <<s>>]

-------------------------------------------------------------------------------
(* A reference execution: frames of local names over storage, with a budget.   *)
(* flow is "go", or how the execution has left: ret, brk, cont, rev or out.    *)
At(frames, x) == LET has == {i \in DOMAIN frames : x \in DOMAIN frames[i]} IN IF has = {} THEN 0 ELSE CHOOSE i \in has : \A j \in has : j <= i
Look(st, x) == With(At(st.frames, x), LAMBDA i :
                 IF i = 0 THEN st.sto[x] ELSE st.frames[i][x])
Assign(st, x, v) == With(At(st.frames, x), LAMBDA i :
                      IF i = 0 THEN [st EXCEPT !.sto = Put(@, x, v)] ELSE [st EXCEPT !.frames[i] = Put(@, x, v)])
Bind(st, more) == [st EXCEPT !.frames[Len(st.frames)] = Extend(@, more)]
Leave(st, how) == [st EXCEPT !.flow = how]

RECURSIVE RunStmts(_, _, _)
RECURSIVE RunExpr(_, _, _)
RunAll(funs, st, xs) ==
  FoldLeft(LAMBDA acc, x : With(RunExpr(funs, acc.st, x), LAMBDA r :
                             [st |-> r.st, vs |-> Append(acc.vs, r.v)]), [st |-> st, vs |-> <<>>], xs)
RunCall(funs, st, f, vs) ==
  LET fn == funs[f]
      frame == [n \in ParamNames(fn) |-> vs[CHOOSE i \in DOMAIN vs : fn.params[i][1] = n]] IN
  With(RunStmts(funs, [st EXCEPT !.frames = <<frame>>, !.left = @ - 1, !.val = Unit], fn.body), LAMBDA r :
    IF st.left = 0 THEN [st |-> Leave(st, "out"), v |-> NoValue]
    ELSE [st |-> [r EXCEPT !.frames = st.frames, !.flow = IF @ = "ret" THEN "go" ELSE @], v |-> r.val])
RunExpr(funs, st, x) ==
  With(RunExpr(funs, st, x[2]), LAMBDA l :
  With(RunExpr(funs, l.st, x[3]), LAMBDA r :
  With(RunAll(funs, st, x[3]), LAMBDA args :
    CASE st.flow # "go" -> [st |-> st, v |-> NoValue]
      [] st.flow = "go" /\ Known(x) -> [st |-> st, v |-> x]
      [] st.flow = "go" /\ x[1] = "var" -> [st |-> st, v |-> Look(st, x[2])]
      [] st.flow = "go" /\ x[1] = "call" -> IF args.st.flow = "go" THEN RunCall(funs, args.st, x[2], args.vs) ELSE [st |-> args.st, v |-> NoValue]
      [] st.flow = "go" /\ x[1] = "and" -> IF l.v = Bool(TRUE) THEN r ELSE l
      [] OTHER -> [st |-> r.st, v |-> IF r.st.flow = "go" THEN EvalBinop(x, l.v, r.v) ELSE NoValue])))

RECURSIVE RunLoop(_, _, _)
RunLoop(funs, st, s) ==
  With(RunExpr(funs, st, s[3]), LAMBDA c :
  With(RunStmts(funs, c.st, s[5]), LAMBDA b :
  With(IF b.flow \in {"go", "cont"} THEN RunStmts(funs, Leave(b, "go"), s[4]) ELSE b, LAMBDA after :
    CASE c.st.flow # "go" \/ c.v # Bool(TRUE) -> c.st
      [] c.v = Bool(TRUE) /\ st.left = 0 -> Leave(st, "out")
      [] OTHER -> IF after.flow = "go" THEN RunLoop(funs, [after EXCEPT !.left = @ - 1], s)
                  ELSE IF after.flow = "brk" THEN Leave(after, "go") ELSE after)))

Scoped(st, frame) == [st EXCEPT !.frames = Append(@, frame)]
Unscoped(st) == [st EXCEPT !.frames = Front(@)]
RunStmt(funs, st, s) ==
  With(RunExpr(funs, st, s[2]), LAMBDA first :
  With(RunExpr(funs, st, s[3]), LAMBDA second :
  With(RunExpr(funs, st, s[4][1]), LAMBDA init :
  With(RunAll(funs, st, s[2]), LAMBDA vs :
  With(FirstArm(s[3], vs.vs), LAMBDA arm :
  LET on(r, next) == IF r.st.flow = "go" THEN next ELSE r.st IN
    CASE s[1] = "let" -> IF s[4] = <<>> THEN Bind(st, (s[2] :> Lit(0))) ELSE on(init, Bind(init.st, (s[2] :> init.v)))
      [] s[1] \in {"set", "asm"} -> on(second, Assign(second.st, s[2], second.v))
      [] s[1] = "addset" -> on(second, Assign(second.st, s[2], Lit(Look(second.st, s[2])[2] + second.v[2])))
      [] s[1] = "sstore" -> on(second, [second.st EXCEPT !.sto[s[2]] = second.v])
      [] s[1] = "return" -> on(first, [first.st EXCEPT !.flow = "ret", !.val = first.v])
      [] s[1] = "expr" -> first.st
      [] s[1] = "if" -> on(first, RunStmts(funs, first.st, IF first.v = Bool(TRUE) THEN s[3] ELSE s[4]))
      [] s[1] = "match" -> IF vs.st.flow # "go" THEN vs.st
                           ELSE IF arm = 0 THEN Leave(vs.st, "rev")
                           ELSE Unscoped(RunStmts(funs, Scoped(vs.st, Bindings(s[3][arm].pats, vs.vs)), s[3][arm].body))
      [] s[1] = "block" -> Unscoped(RunStmts(funs, Scoped(st, <<>>), s[2]))
      [] s[1] = "for" -> With(RunStmts(funs, st, s[2]), LAMBDA i :
                           IF i.flow = "go" THEN RunLoop(funs, i, s) ELSE i)
      [] s[1] = "revert" -> Leave(st, "rev")
      [] s[1] = "break" -> Leave(st, "brk")
      [] s[1] = "continue" -> Leave(st, "cont"))))))
RunStmts(funs, st, stmts) ==
  IF stmts = <<>> \/ st.flow # "go" THEN st ELSE RunStmts(funs, RunStmt(funs, st, Head(stmts)), Tail(stmts))

(* What an execution shows: its value and storage, or that it reverted.        *)
RunProgram(funs, entry, args, sto) ==
  With(RunCall(funs, [frames |-> <<>>, sto |-> sto, left |-> RunBound, flow |-> "go", val |-> Unit], entry, args), LAMBDA r :
    IF r.st.flow = "go" THEN <<"done", r.v, r.st.sto>> ELSE <<r.st.flow>>)

-------------------------------------------------------------------------------
RECURSIVE CallsIn(_)
CallsIn(x) ==
  CASE x[1] \in Binary -> CallsIn(x[2]) \cup CallsIn(x[3])
    [] x[1] = "call" -> {<<x[2], Len(x[3])>>} \cup UNION {CallsIn(x[3][i]) : i \in DOMAIN x[3]}
    [] OTHER -> {}
RECURSIVE CallsInStmts(_)
CallsInStmts(stmts) ==
  UNION {LET s == stmts[i]
             all(xs) == UNION {CallsIn(xs[j]) : j \in DOMAIN xs}
         IN  CASE s[1] = "let" -> all(s[4])
               [] s[1] \in {"return", "expr"} -> CallsIn(s[2])
               [] s[1] \in {"set", "addset", "asm", "sstore"} -> CallsIn(s[3])
               [] s[1] = "if" -> CallsIn(s[2]) \cup CallsInStmts(s[3] \o s[4])
               [] s[1] = "match" -> all(s[2]) \cup UNION {CallsInStmts(s[3][j].body) : j \in DOMAIN s[3]}
               [] s[1] = "for" -> CallsIn(s[3]) \cup CallsInStmts(s[2] \o s[4] \o s[5])
               [] s[1] = "block" -> CallsInStmts(s[2])
               [] OTHER -> {} : i \in DOMAIN stmts}

(* Functions no entry point reaches are dropped.                               *)
RECURSIVE Used(_, _)
Used(funs, used) ==
  With({c[1] : c \in UNION {CallsInStmts(funs[f].body) : f \in used}} \cap DOMAIN funs, LAMBDA more :
    IF more \subseteq used THEN used ELSE Used(funs, used \cup more))

NewEvaluator(funs) ==
  [fuel |-> FuelLimit, cloneFuel |-> FuelLimit, funs |-> funs, pure |-> PureFuns(funs, FALSE, {}), inlinable |-> PureFuns(funs, TRUE, {}),
   effects |-> WriteEffects(funs, [f \in DOMAIN funs |-> {}]), stack |-> <<>>, diags |-> {}, clones |-> <<>>, pending |-> <<>>,
   next |-> 1, gone |-> 0, inlined |-> 0]

Init ==
  /\ program \in Programs
  /\ todo = program.order
  /\ ev = NewEvaluator(program.funs)
  /\ emitted = {}
  /\ outcome = <<>>

EvalFunctionWithEnv(e, name, env) ==
  LET fn == e.funs[name]
      comptime == fn.ret = "comptime"
      sc == [env |-> env, types |-> ParamNames(fn) \cup DOMAIN env, hidden |-> <<>>,
             cenv |-> {p[1] : p \in {q \in ToSet(fn.params) : comptime \/ ParamIsComptime(q)}} \cup DOMAIN env] IN
  With(EvalBody([e EXCEPT !.fuel = FuelLimit, !.inlined = 0], sc, fn.body, comptime), LAMBDA r :
    [r.e EXCEPT !.funs[name].body = r.out])

EvalFunction ==
  /\ todo # <<>>
  /\ ev' = EvalFunctionWithEnv(ev, Head(todo), <<>>)
  /\ emitted' = emitted \cup {Head(todo)}
  /\ todo' = Tail(todo)
  /\ UNCHANGED <<program, outcome>>

EvalNextClone ==
  /\ todo = <<>> /\ ev.pending # <<>>
  /\ ev' = EvalFunctionWithEnv([ev EXCEPT !.pending = Tail(@)], Head(ev.pending).name, Head(ev.pending).env)
  /\ emitted' = emitted \cup {Head(ev.pending).name}
  /\ UNCHANGED <<program, todo, outcome>>

(* The module that is left, and one execution of it beside the source's.       *)
Evaluated == todo = <<>> /\ ev.pending = <<>>
Residual == LET funs == [f \in emitted |-> ev.funs[f]] IN [f \in Used(funs, {program.entry}) |-> funs[f]]
Words == {Lit(n) : n \in 0 .. WordValues - 1}
Execute ==
  /\ Evaluated /\ outcome = <<>>
  /\ \E args \in [DOMAIN program.funs[program.entry].params -> Words], sto \in [Storage -> Words] :
       outcome' = [source |-> RunProgram(program.funs, program.entry, args, sto),
                   residual |-> RunProgram(Residual, program.entry, args, sto)]
  /\ UNCHANGED <<program, todo, ev, emitted>>

Next == EvalFunction \/ EvalNextClone \/ Execute
Spec == Init /\ [][Next]_vars

-------------------------------------------------------------------------------
(* Compiling without a diagnostic changes nothing a caller or a later          *)
(* transaction can see: for every argument and storage the module that is left *)
(* returns, reverts and stores what the source does (core.rs:628).             *)
ResidualAgrees ==
  outcome # <<>> /\ ev.diags = {} /\ outcome.source # <<"out">> => outcome.residual = outcome.source

(* The work of one function is bounded whatever its calls unfold to, and so is *)
(* the number of clones of a module, one for each callee and strings           *)
(* (core.rs:378, core.rs:2585).                                                *)
WorkIsBounded ==
  /\ ev.inlined <= FuelLimit
  /\ Len(ev.clones) <= FuelLimit
  /\ \A i, j \in DOMAIN ev.clones : ev.clones[i].key = ev.clones[j].key => i = j

(* Every call of the module that is left, a clone's too, names one of its      *)
(* functions with the arguments it takes (dead_code.rs:8, core.rs:2646).       *)
CallsResolve ==
  Evaluated => \A f \in DOMAIN Residual : \A c \in CallsInStmts(Residual[f].body) :
                 c[1] \in DOMAIN Residual /\ c[2] = Len(Residual[c[1]].params)
=============================================================================
