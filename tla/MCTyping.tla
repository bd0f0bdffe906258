------------------------------- MODULE MCTyping -------------------------------
(***************************************************************************)
(* The checks that give a module its types, each on small programs:        *)
(* unification (InferTable), class obligations (Obligations), the walk     *)
(* over a body (BodyInference), compile-time values (ComptimeCheck),       *)
(* instances (InstanceSoundness) and data types (DataTypes). A behaviour   *)
(* exercises one of them and leaves the variables of the others at Idle.   *)
(***************************************************************************)
EXTENDS Naturals, Sequences, TLC

CONSTANTS
  None,
  EquationTerms, EquationSchemes, EquationTypes,
  ObligedBodies, ObligedInstances, ObligedClosures,
  InferredBodies, InferredSchemes, InferredInstances,
  ComptimePrograms,
  InstancePrograms, InstanceClasses, InstanceTypes,
  DataPrograms

VARIABLES
  part,     \* "equations", "obligations", "bodies", "comptime", "instances", "data"
  table, accepted, refused,
  body, phase, scheduled, deferred, progress, evidence, diagnostics, reported, ambiguous,
  poisoned, rounds,
  program, st, index,
  reports, latent, checked,
  prior, at, diags,
  plans, laid

Equations == INSTANCE InferTable
               WITH Terms <- EquationTerms, Schemes <- EquationSchemes,
                    GroundTypes <- EquationTypes, InitialVars <- 3, MaxEquations <- 2,
                    MaxVars <- 5
Obliged == INSTANCE Obligations
             WITH Bodies <- ObligedBodies, Instances <- ObligedInstances,
                  ClosureSigs <- ObligedClosures, NumVars <- 3
Inferred == INSTANCE BodyInference
              WITH Programs <- InferredBodies, Schemes <- InferredSchemes,
                   Instances <- InferredInstances
Comptime == INSTANCE ComptimeCheck WITH Programs <- ComptimePrograms
Instanced == INSTANCE InstanceSoundness
               WITH Programs <- InstancePrograms, Classes <- InstanceClasses,
                    Ground <- InstanceTypes
Data == INSTANCE DataTypes WITH Programs <- DataPrograms, NodeBudget <- 40, DepthBound <- 6
Types == INSTANCE Unification
Heads == INSTANCE TypeMatch

vars == <<part, table, accepted, refused, body, phase, scheduled, deferred, progress,
          evidence, diagnostics, reported, ambiguous, poisoned, rounds, program, st, index,
          reports, latent, checked, prior, at, diags, plans, laid>>

Idle == "idle"
Init ==
  /\ part \in {"equations", "obligations", "bodies", "comptime", "instances", "data"}
  /\ IF part = "equations" THEN Equations!Init
     ELSE /\ accepted = Idle /\ refused = Idle
  /\ IF part = "obligations" THEN Obliged!Init
     ELSE /\ body = Idle /\ scheduled = Idle /\ deferred = Idle /\ progress = Idle
          /\ evidence = Idle /\ diagnostics = Idle /\ reported = Idle
          /\ ambiguous = Idle /\ poisoned = Idle /\ rounds = Idle
  /\ IF part = "bodies" THEN Inferred!Init
     ELSE /\ st = Idle /\ index = Idle
  /\ IF part = "comptime" THEN Comptime!Init
     ELSE /\ reports = Idle /\ latent = Idle
  /\ IF part = "instances" THEN Instanced!Init
     ELSE /\ prior = Idle /\ at = Idle
  /\ IF part = "data" THEN Data!Init
     ELSE /\ plans = Idle /\ laid = Idle
  /\ IF part \in {"equations", "obligations"} THEN TRUE ELSE table = Idle
  /\ IF part \in {"obligations", "bodies", "instances", "data"} THEN TRUE ELSE phase = Idle
  /\ IF part \in {"bodies", "comptime", "instances", "data"} THEN TRUE ELSE program = Idle
  /\ IF part \in {"comptime", "data"} THEN TRUE ELSE checked = Idle
  /\ IF part \in {"instances", "data"} THEN TRUE ELSE diags = Idle

SolveEquation ==
  /\ part = "equations" /\ Equations!Next
  /\ UNCHANGED <<part, body, phase, scheduled, deferred, progress, evidence, diagnostics,
                 reported, ambiguous, poisoned, rounds, program, st, index, reports, latent,
                 checked, prior, at, diags, plans, laid>>
ProveObligation ==
  /\ part = "obligations" /\ Obliged!Next
  /\ UNCHANGED <<part, accepted, refused, program, st, index, reports, latent, checked,
                 prior, at, diags, plans, laid>>
InferBody ==
  /\ part = "bodies" /\ Inferred!Next
  /\ UNCHANGED <<part, table, accepted, refused, body, scheduled, deferred, progress,
                 evidence, diagnostics, reported, ambiguous, poisoned, rounds, reports,
                 latent, checked, prior, at, diags, plans, laid>>
CheckComptime ==
  /\ part = "comptime" /\ Comptime!Next
  /\ UNCHANGED <<part, table, accepted, refused, body, phase, scheduled, deferred, progress,
                 evidence, diagnostics, reported, ambiguous, poisoned, rounds, st, index,
                 prior, at, diags, plans, laid>>
CheckInstances ==
  /\ part = "instances" /\ Instanced!Next
  /\ UNCHANGED <<part, table, accepted, refused, body, scheduled, deferred, progress,
                 evidence, diagnostics, reported, ambiguous, poisoned, rounds, st, index,
                 reports, latent, checked, plans, laid>>
CheckData ==
  /\ part = "data" /\ Data!Next
  /\ UNCHANGED <<part, table, accepted, refused, body, scheduled, deferred, progress,
                 evidence, diagnostics, reported, ambiguous, poisoned, rounds, st, index,
                 reports, latent, prior, at>>
Next == SolveEquation \/ ProveObligation \/ InferBody \/ CheckComptime \/ CheckInstances \/ CheckData

Spec == Init /\ [][Next]_vars

-------------------------------------------------------------------------------
(* However the equations come, bindings stay acyclic, what was accepted stays  *)
(* solved, what was refused has no solution, and the table says no more than   *)
(* the equations do, rolled-back attempts included (InferTable::unify).        *)
TableIsSolved ==
  part = "equations" =>
    Equations!TypeOK /\ Equations!NoInfiniteTypes /\ Equations!AcceptedStaySolved /\
    Equations!NothingIsGuessed /\ Equations!RefusalsAreJust

(* No obligation sleeps that could be solved, each is answered or reported at  *)
(* most once, and the evidence still fits the types inference ends with        *)
(* (solve_pending_obligations).                                                *)
ObligationsAreAnswered ==
  part = "obligations" =>
    Obliged!TypeOK /\ Obliged!NoMissedWakeup /\ Obliged!RoundsAreBounded /\
    Obliged!OneVerdict /\ Obliged!EvidenceHolds /\ Obliged!OnlyIntegersAreDropped

(* What inference passes has a typing and returns on every path; what has a    *)
(* typing is refused only for what the order of the walk cannot see; one wrong *)
(* leaf is one report (infer_body, infer_expr_impl, poison_expr).              *)
InferenceIsExact ==
  part = "bodies" =>
    Inferred!TypeOK /\ Inferred!PathsReturn /\ Inferred!AcceptedIsTypeable /\
    Inferred!TypeableIsAccepted /\ Inferred!ErrorsDoNotCascade

(* A run-time value in a compile-time place is reported exactly, and one that  *)
(* a callee hands on is reported there or at the call (ComptimeChecker,        *)
(* latent_comptime_params).                                                    *)
ComptimeIsExact ==
  part = "comptime" =>
    Comptime!TypeOK /\ Comptime!LinearReportsAreExact /\ Comptime!ForwardedRuntimeIsReported

(* Over closed types: overlaps are reported exactly, the main type determines  *)
(* the instance, conditions shrink, methods have the type the class promises   *)
(* and no derivation is lost (check_instance and the checks it runs).          *)
InstancesAreSound ==
  part = "instances" =>
    Instanced!TypeOK /\ Instanced!OverlapIsExact /\ Instanced!MainDeterminesArguments /\
    Instanced!ConditionsShrink /\ Instanced!MethodsFit /\ Instanced!DerivesAreAccounted

(* Aliases expand to what unfolding gives, recursion is reported exactly,      *)
(* derived representations and evidence fit, and a layout is given exactly to  *)
(* the types whose unfolding ends (AliasNormalizer, LayoutFiniteness,          *)
(* derived_generic_plan, adt_representation).                                  *)
DataTypesAreExact ==
  part = "data" =>
    Data!TypeOK /\ Data!AliasesExpand /\ Data!MutualDataIsExact /\
    Data!ConstructorsFitTheRepresentation /\ Data!OneGenericPerType /\
    Data!EvidenceMeetsItsAssumption /\ Data!FootprintsAreBounded /\
    Data!FinitenessIsExact /\ Data!LayoutsEnd

-------------------------------------------------------------------------------
(* The programs. *)

(* Two equations over three variables and a few types.                         *)
MCEquationTerms ==
  LET
    Named(c, ts) == Types!Named(c, ts)
    Var(n) == Types!Var(n)
    Word == Named("word", <<>>)
    Box(t) == Named("box", <<t>>)
  IN  {Var(1), Var(2), Box(Var(1)), Box(Box(Var(2))), Types!Comptime(Var(2)),
       Types!Tuple(<<Var(1), Var(3)>>), Types!Tuple(<<Word, Var(2), Var(3)>>),
       Types!Function(<<Var(2)>>, Var(1)), Box(Types!Error)}

MCEquationSchemes ==
  LET
    Named(c, ts) == Types!Named(c, ts)
    BoundVar(n) == Types!BoundVar(n)
    Word == Named("word", <<>>)
    Box(t) == Named("box", <<t>>)
  IN  {[binders |-> 1, ty |-> BoundVar(0), eqs |-> <<<<Box(BoundVar(0)), Box(Box(Types!Unknown))>>>>],
       [binders |-> 1, ty |-> BoundVar(0),
        eqs |-> <<<<BoundVar(0), Word>>, <<Box(BoundVar(0)), Types!Tuple(<<>>)>>, <<BoundVar(1), Word>>>>]}

MCEquationTypes ==
  LET
    Word == Types!Named("word", <<>>)
    Box(t) == Types!Named("box", <<t>>)
  IN  {Word, Box(Word), Box(Box(Word)), Types!Named("pair", <<Word, Word>>)}

(* Three obligations over three variables: conversions that pin a result,      *)
(* literals, a closure, a class with two arguments and a string coercion.      *)
MCObligedInstances ==
  LET
    Ty(c) == Types!Named(c, <<>>)
    Inst(c, t, weak) == [class |-> c, main |-> t, args |-> weak]
  IN  {Inst("Int", Ty("word"), <<>>), Inst("Int", Ty("uint256"), <<>>), Inst("Str", Ty("string"), <<>>),
       Inst("Conv", Ty("uint256"), <<Ty("word")>>), Inst("Conv", Ty("word"), <<Ty("bool")>>),
       Inst("Conv", Ty("bool"), <<Ty("string")>>),
       Inst("Show", Ty("word"), <<>>), Inst("Show", Ty("bool"), <<>>),
       Inst("Mix", Ty("word"), <<Ty("word"), Ty("word")>>), Inst("Mix", Ty("word"), <<Ty("word"), Ty("bool")>>)}

MCObligedClosures == [lambda |-> <<Types!Var(2), Types!Var(2)>>]

MCObligedBodies ==
  LET
    Ty(c) == Types!Named(c, <<>>)
    Var(n) == Types!Var(n)
    O(class, main, weak, source, expr) == [class |-> class, main |-> main, args |-> weak, source |-> source, expr |-> expr]
    Pool ==
      {O("Int", Var(1), <<>>, "literal", 1), O("Int", Var(2), <<>>, "literal", 2), O("Int", Var(3), <<>>, "pattern", 3),
       O("Int", Var(2), <<>>, "call", 4), O("Int", Ty("bool"), <<>>, "literal", 1),
       O("Conv", Var(1), <<Var(2)>>, "call", 1), O("Conv", Var(2), <<Var(3)>>, "call", 2), O("Conv", Var(3), <<Var(1)>>, "call", 3),
       O("Conv", Ty("word"), <<Var(1)>>, "call", 5), O("Conv", Ty("word"), <<Ty("word")>>, "call", 2),
       O("Show", Var(2), <<>>, "call", 5), O("Show", Var(3), <<>>, "call", 6),
       O("Mix", Ty("word"), <<Var(1), Var(3)>>, "call", 7),
       O("Invokable", Ty("lambda"), <<Var(1), Var(3)>>, "call", 8), O("Invokable", Ty("word"), <<Var(1), Var(3)>>, "call", 8),
       O("Str", Var(3), <<>>, "coercion", 9)}
  IN  {[pending |-> p, root |-> r, std |-> s] : p \in [1 .. 3 -> Pool] \cup [1 .. 2 -> Pool], r \in {{}, {2}}, s \in {TRUE}}
      \cup {[pending |-> p, root |-> r, std |-> FALSE] : p \in [1 .. 2 -> Pool], r \in {{1, 2}}}

(* Bodies of one to three statements over five parameters.                     *)
MCInferredSchemes ==
  LET
    Bool == Types!Named("bool", <<>>)
    Opt(a) == Types!Named("Opt", <<a>>)
    Fn(a, b) == Types!Function(<<a>>, b)
    BoundVar(n) == Types!BoundVar(n)
    Function(ps, r) == Types!Function(ps, r)
  IN  [n \in {"id", "app", "add", "eq", "Some", "None"} |->
        LET a == BoundVar(1)
            b == BoundVar(2)
            scheme(k, t, ps) == [binders |-> k, ty |-> t, preds |-> ps, owner |-> "Opt"]
        IN  CASE n = "id" -> scheme(1, Fn(a, a), <<>>)
              [] n = "app" -> scheme(2, Function(<<Fn(a, b), a>>, b), <<>>)
              [] n = "add" -> scheme(1, Function(<<a, a>>, a), <<<<"Add", a>>>>)
              [] n = "eq" -> scheme(1, Function(<<a, a>>, Bool), <<<<"Eq", a>>>>)
              [] n = "Some" -> scheme(1, Fn(a, Opt(a)), <<>>)
              [] n = "None" -> scheme(1, Function(<<>>, Opt(a)), <<>>)]

MCInferredInstances ==
  LET
    Word == Types!Named("word", <<>>)
    Bool == Types!Named("bool", <<>>)
    Uint256 == Types!Named("uint256", <<>>)
  IN  [k \in {"Int", "Add", "Eq"} |-> IF k = "Eq" THEN {Word, Uint256, Bool} ELSE {Word, Uint256}]

MCInferredBodies ==
  LET
    Word == Types!Named("word", <<>>)
    Bool == Types!Named("bool", <<>>)
    Uint256 == Types!Named("uint256", <<>>)
    UnitTy == Types!UnitTy
    NoValue == Types!NoValue
    Opt(a) == Types!Named("Opt", <<a>>)
    Fn(a, b) == Types!Function(<<a>>, b)
    Node(kind, name, parts) == <<kind, name, parts, NoValue>>
    Lit == Node("lit", "", <<>>)
    True == Node("true", "", <<>>)
    V(n) == Node("var", n, <<>>)
    FnVal(n) == Node("fn", n, <<>>)
    Nothing == Node("ctor", "None", <<>>)
    Call(f, args) == Node("call", "", <<f>> \o args)
    CallFn(n, args) == Call(FnVal(n), args)
    Some(e) == Call(Node("ctor", "Some", <<>>), <<e>>)
    DotSome(e) == Node("dot", "Some", <<e>>)
    DotNone == Node("dot", "None", <<>>)
    Add(a, b) == Node("op", "add", <<a, b>>)
    Eq(a, b) == Node("op", "eq", <<a, b>>)
    And(a, b) == Node("op", "and", <<a, b>>)
    If(a, b) == Node("if", "", <<V("c"), a, b>>)
    Pair(a, b) == Node("tuple", "", <<a, b>>)
    Annot(e, t) == <<"annot", "", <<e>>, t>>
    Return(e) == Node("return", "", <<e>>)
    Lambda(e) == Node("lambda", "y", <<Return(e)>>)
    TypedLambda(e) == <<"lambda", "y", <<Return(e)>>, Word>>
    Let(n, e) == Node("let", n, <<e>>)
    Stmts(stmts) == Node("seq", "", stmts)
    Arm(p, stmts) == Node("arm", "", <<p, Stmts(stmts)>>)
    Match(e, arms) == Node("match", "", <<e>> \o arms)
    PVar(n) == Node("pvar", n, <<>>)
    Wild == Node("_", "", <<>>)
    Cond(a, b) == Node("if", "", <<V("c"), Stmts(a), Stmts(b)>>)
    CondOnly(a) == Node("if", "", <<V("c"), Stmts(a)>>)
    Parameters ==
      [n \in {"x", "u", "c", "o", "g"} |->
        CASE n = "x" -> Word [] n = "u" -> Uint256 [] n = "c" -> Bool [] n = "o" -> Opt(Word) [] n = "g" -> Fn(Word, Word)]
    Program(ret, list) == [params |-> Parameters, ret |-> ret, body |-> list]
    Firsts ==
      {Lit, V("x"), V("u"), V("g"), Nothing, FnVal("id"), Some(Lit), CallFn("id", <<Lit>>), CallFn("id", <<Nothing>>), Add(Lit, V("x")), Add(Lit, Lit),
       Eq(Lit, V("u")), Add(V("c"), V("c")), Add(V("x"), V("u")), If(Lit, V("x")), If(Lit, V("u")), If(V("x"), V("u")), If(Nothing, V("o")),
       Lambda(V("y")), Lambda(Add(V("y"), Lit)), TypedLambda(V("y")), Lambda(Call(V("y"), <<V("x")>>)), Annot(Lit, Uint256),
       Call(V("g"), <<Lit>>), Call(V("g"), <<V("u")>>), Call(V("x"), <<Lit>>), Pair(Lit, V("c")), DotSome(V("x"))}
    Seconds ==
      LET h == V("h")
      IN  {h, V("x"), Call(h, <<Lit>>), Call(h, <<V("u")>>), Call(h, <<V("g")>>), Add(h, Lit), Add(V("u"), h), CallFn("id", <<h>>), Some(h), DotSome(h), DotNone, DotSome(Lit),
           If(h, V("x")), If(V("o"), h), If(Lit, h), Call(V("g"), <<h>>), CallFn("app", <<h, V("x")>>), CallFn("app", <<Lambda(V("y")), h>>),
           Eq(h, h), And(h, True), Lambda(h), Lambda(Add(V("y"), h)), Annot(h, Word), Annot(Lambda(V("y")), Fn(Word, Word)),
           Pair(h, True), Call(Lambda(Add(V("y"), h)), <<Lit>>)}
    Values == {Lit, V("x"), V("u"), True, V("o"), Nothing}
    Ends == {<<Return(v)>> : v \in Values} \cup {<<>>, <<Node("expr", "", <<Lit>>)>>, <<Node("assign", "", <<V("x"), Lit>>)>>}
    Picked == Ends \cup {<<Return(V("p"))>>, <<Return(Add(V("p"), Lit))>>}
    Closing ==
      UNION {
        {<<Match(V("o"), <<Arm(Node("pctor", "Some", <<PVar("p")>>), a), Arm(Node("pctor", "None", <<>>), b)>>)>> : a \in Picked, b \in Ends},
        {<<Match(s, <<Arm(Node("pdot", "Some", <<PVar("p")>>), a), Arm(Wild, b)>>)>> : s \in {V("o"), V("x"), Nothing}, a \in Picked, b \in Ends},
        {<<Match(s, <<Arm(Node("plit", "", <<>>), a), Arm(PVar("q"), b)>>)>> : s \in {V("x"), V("u"), V("c"), Lit}, a \in Ends, b \in {<<Return(Lit)>>, <<Return(V("q"))>>}},
        {<<Match(s, <<Arm(Node("ptuple", "", <<PVar("p"), Node("plit", "", <<>>)>>), a), Arm(Wild, b)>>)>> : s \in {Pair(V("u"), V("x")), Pair(Lit, V("o"))}, a \in Picked, b \in {<<Return(Lit)>>}},
        {<<Cond(a, b)>> : a \in Ends, b \in Ends},
        {<<CondOnly(a)>> \o b : a \in Ends, b \in Ends},
        {<<Node("expr", "", <<e>>), Return(Lit)>> : e \in Firsts},
        {<<Node("block", "", a), Node("return", "", <<>>)>> : a \in Ends},
        {<<Let("h", l), Node("assign", "", <<V("h"), v>>)>> \o a : l \in {Lit, Nothing}, v \in Values, a \in {<<Return(V("h"))>>, <<>>}},
        {<<Node("compound", "", <<V(l), v>>)>> \o a : l \in {"x", "u"}, v \in {Lit, V("x"), V("u")}, a \in Ends},
        {<<Node("for", "", <<Stmts(<<Let("i", l)>>), Eq(V("i"), v), Stmts(<<Node("assign", "", <<V("i"), Add(V("i"), Lit)>>)>>), Stmts(a)>>)>> \o b :
           l \in {Lit, V("x")}, v \in {Lit, V("u")}, a \in {<<>>, <<Return(Lit)>>}, b \in {<<>>, <<Return(V("x"))>>}}}
      \ {<<>>}
  IN  {Program(ret, <<Let("h", a), Return(b)>>) : ret \in {Word, Bool, Opt(Word), Fn(Word, Word)}, a \in Firsts, b \in Seconds}
      \cup {Program(ret, list) : ret \in {Word, UnitTy}, list \in Closing}

(* Functions of a few statements around compile-time parameters.               *)
MCComptimePrograms ==
  LET
    Expr(k, name, pieces) == Comptime!Expr(k, name, pieces)
    Stmt(k, name, comptime, es, blocks) == Comptime!Stmt(k, name, comptime, es, blocks)
    Lambda(params, ret, list) == Comptime!Lambda(params, ret, list)
    Lit == Expr("lit", "", <<>>)
    V(name) == Expr("var", name, <<>>)
    Op(a, b) == Expr("all", "", <<a, b>>)
    Parts(k, es) == Expr(k, "", es)
    Array(e) == Expr("array", "", <<e>>)
    Call(f, args) == Expr("call", f, args)
    Let(name, e) == Stmt("let", name, FALSE, <<e>>, <<>>)
    CLet(name, e) == Stmt("let", name, TRUE, <<e>>, <<>>)
    Assign(name, e) == Stmt("assign", "", FALSE, <<V(name), e>>, <<>>)
    AddTo(name, e) == [Assign(name, e) EXCEPT !.compound = TRUE]
    Return(e) == Stmt("return", "", FALSE, <<e>>, <<>>)
    Do(e) == Stmt("expr", "", FALSE, <<e>>, <<>>)
    IfElse(c, t, f) == Stmt("if", "", FALSE, <<c>>, <<t, f>>)
    For(i, c, post, list) == Stmt("for", "", FALSE, <<c>>, <<i, post, list>>)
    Block(list) == Stmt("block", "", FALSE, <<>>, <<list>>)
    Match(e, names, arms) == [Stmt("match", "", FALSE, <<e>>, arms) EXCEPT !.names = names]
    Param(name) == [name |-> name, comptime |-> FALSE, tyvar |-> FALSE]
    CParam(name) == [Param(name) EXCEPT !.comptime = TRUE]
    Fn(params, ret, list) == [params |-> params, ret |-> ret, body |-> list]
    (* need has a compile-time parameter, needs one of open type, ct returns one.  *)
    Library ==
      ("need" :> Fn(<<Param("z"), CParam("a")>>, FALSE, <<>>))
      @@ ("needs" :> Fn(<<[CParam("a") EXCEPT !.tyvar = TRUE]>>, FALSE, <<>>))
      @@ ("ct" :> Fn(<<Param("a")>>, TRUE, <<Return(V("a"))>>))
    Firsts == {Let("x", Lit), Let("x", V("p")), Let("x", Op(V("c"), V("p"))), Let("x", Array(Lit)), CLet("x", V("p")),
               Let("x", Call("ct", <<V("p")>>)), Let("x", Expr("field", "", <<>>))}
    Menu ==
      {CLet("y", V("x")), CLet("y", Op(Lit, V("x"))), Let("c", V("p")), Assign("x", Lit), Assign("x", V("p")), AddTo("x", Lit),
       Do(Call("need", <<V("p"), V("x")>>)), Do(Call("need", <<V("x"), Call("ct", <<V("x")>>)>>)), CLet("y", Call("ct", <<V("c")>>)),
       Return(V("x")), Return(V("p")),
       Block(<<Let("x", Lit), CLet("y", V("x"))>>), Block(<<Let("p", Lit), Assign("x", V("p"))>>),
       IfElse(V("p"), <<Assign("x", V("p"))>>, <<CLet("y", V("x"))>>), IfElse(V("p"), <<CLet("y", V("x"))>>, <<Do(Lit)>>),
       Match(V("x"), <<"w", "">>, <<<<CLet("y", V("w"))>>, <<CLet("y", V("x"))>>>>),
       For(<<Let("i", V("x"))>>, V("i"), <<Assign("i", V("p"))>>, <<CLet("y", V("i"))>>),
       Let("k", Lambda(<<Param("b"), CParam("d")>>, FALSE, <<CLet("y", V("d")), CLet("y", V("x")), Return(V("b"))>>)),
       Let("k", Lambda(<<Param("b")>>, TRUE, <<Return(Op(V("b"), V("x")))>>)),
       Do(Parts("tuple", <<V("x"), Call("need", <<Lit, V("p")>>), Lambda(<<>>, FALSE, <<CLet("y", V("p"))>>)>>)),
       Assign("x", Parts("slice", <<Call("need", <<Lit, V("p")>>), V("c"), Call("need", <<Lit, V("x")>>)>>)),
       CLet("y", Parts("tuple", <<V("c"), Op(V("x"), Call("need", <<Lit, V("p")>>)), Call("need", <<Lit, V("p")>>)>>))}
    Bodies ==
      {Library @@ ("main" :> Fn(<<Param("p"), CParam("c")>>, ret, <<first, s, t>>)) :
         ret \in BOOLEAN, first \in Firsts, s \in Menu, t \in Menu}
    (* fwd passes a parameter on; main calls it.                                   *)
    Forwarders ==
      {<<Do(Call(g, args))>> : g \in {"needs"}, args \in {<<V("u")>>, <<V("v")>>, <<Op(V("u"), V("v"))>>}}
      \cup {<<Do(Call("need", args))>> : args \in {<<V("u"), V("v")>>, <<V("v"), V("u")>>, <<V("u"), Lit>>}}
      \cup {<<Let("u", Lit), Do(Call("needs", <<V("u")>>))>>,
            <<Let("k", Lambda(<<>>, FALSE, <<Do(Op(Lit, Lit)), Do(Call("needs", <<Lit>>))>>))>>}
      \cup {<<Do(Parts("tuple", <<a, Call("needs", <<V("u")>>)>>))>> : a \in {Lit, V("v"), Call("ct", <<V("v")>>)}}
    Arguments == {Lit, Parts("tuple", <<Lit, Op(Lit, Lit)>>), V("p"), V("c"), V("n"), Op(V("p"), Lit), Call("ct", <<Lit>>)}
    Forwards ==
      {Library @@ ("fwd" :> Fn(<<[Param("u") EXCEPT !.tyvar = TRUE], Param("v")>>, FALSE, list))
               @@ ("main" :> Fn(<<Param("p"), CParam("c")>>, FALSE, <<Let("n", Lit), Do(Call("fwd", <<a, b>>))>>)) :
         list \in Forwarders, a \in Arguments, b \in Arguments}
  IN  Bodies \cup Forwards

(* Modules of at most two instances, with what they import and derive.         *)
MCInstanceTypes ==
  LET
    Named(c, ts) == Heads!Named(c, ts)
    Box(t) == Named("Box", <<t>>)
    Base == {Named("word", <<>>), Named("bool", <<>>), Heads!Tuple(<<>>)}
  IN  Base \cup {Box(b) : b \in Base} \cup {Box(Box(Named("word", <<>>)))}

MCInstanceClasses ==
  LET
    InClass(class, main, weak) == Heads!InClass(class, main, weak)
    B0 == Heads!Bound(0)
    B1 == Heads!Bound(1)
    Method(name, vs, params, ret) == [name |-> name, vars |-> vs, params |-> params, ret |-> ret, preds |-> <<>>, typed |-> TRUE]
  IN  ("C" :> [binders |-> 1, head |-> InClass("C", B0, <<>>), methods |-> <<Method("f", 1, <<B0, B1>>, B1)>>])
      @@ ("D" :> [binders |-> 2, head |-> InClass("D", B0, <<B1>>), methods |-> <<Method("get", 0, <<B0>>, B1)>>])
      @@ ("E" :> [binders |-> 1, head |-> InClass("E", B0, <<>>), methods |-> <<>>])

MCInstancePrograms ==
  LET
    Named(c, ts) == Heads!Named(c, ts)
    Bound(n) == Heads!Bound(n)
    InClass(class, main, weak) == Heads!InClass(class, main, weak)
    Tuple(ts) == Heads!Tuple(ts)
    StringTy == Instanced!StringTy
    StdString == Instanced!StdString
    ComptimeOf(t) == Heads!Comptime(t)
    Word == Named("word", <<>>)
    Flag == Named("bool", <<>>)
    Box(t) == Named("Box", <<t>>)
    Pair(a, b) == Named("pair", <<a, b>>)
    B0 == Bound(0)
    B1 == Bound(1)
    B2 == Bound(2)
    Method(name, vs, params, ret) == [name |-> name, vars |-> vs, params |-> params, ret |-> ret, preds |-> <<>>, typed |-> TRUE]
    Instance(head, binders, conditions, methods) ==
      [head |-> head, binders |-> binders, conditions |-> conditions, default |-> FALSE, methods |-> methods, alias |-> FALSE]
    E(t) == InClass("E", t, <<>>)
    Plain(t, binders) == Instance(E(t), binders, <<>>, <<>>)
    Given(t, binders, condition) == Instance(E(t), binders, <<E(condition)>>, <<>>)
    OfC(t, binders, methods) == Instance(InClass("C", t, <<>>), binders, <<>>, methods)
    OfD(t, arg, binders) == Instance(InClass("D", t, <<arg>>), binders, <<>>, <<Method("get", 0, <<t>>, arg)>>)
    OfStr(t, methods) == Instance(InClass("Str", t, <<>>), 0, <<>>, methods)
    Overlapping ==
      {Plain(Word, 0), Plain(ComptimeOf(Word), 0), Plain(Box(B0), 1), Plain(Pair(B0, Word), 1), Plain(Pair(Box(B0), B1), 2),
       Plain(Pair(B0, Box(B0)), 1), Plain(Pair(Box(B0), B0), 1), Plain(Tuple(<<>>), 0), Plain(Named("unit", <<>>), 0),
       [Plain(B0, 1) EXCEPT !.default = TRUE], [Plain(Word, 0) EXCEPT !.default = TRUE], [Plain(Word, 0) EXCEPT !.alias = TRUE],
       Plain(Named("Wrap", <<B0>>), 1), [Plain(Word, 0) EXCEPT !.head = InClass("error", Word, <<>>)]}
    Conditional ==
      {Given(Box(B0), 1, B0), Given(Box(B0), 1, Box(B0)), Given(Box(B0), 1, B1), Given(Box(Box(B0)), 1, Pair(B0, B0)),
       Given(Pair(Box(B0), B1), 2, Pair(B1, B1)),
       [Given(Box(B0), 1, B0) EXCEPT !.conditions = <<InClass("D", B0, <<>>)>>]}
    Methodical ==
      {OfC(Pair(B0, B1), 2, <<Method("f", 1, <<Pair(B0, B1), B2>>, B2)>>),
       OfC(Pair(B0, B1), 2, <<Method("f", 1, <<Pair(B0, B1), B1>>, B1)>>),
       OfC(Word, 0, <<Method("f", 1, <<Word, B0>>, None)>>), OfC(Word, 0, <<>>),
       OfC(Word, 0, <<Method("f", 1, <<Word, B0>>, B0), Method("g", 0, <<>>, Word)>>),
       OfC(Word, 0, <<[Method("f", 1, <<Word, B0>>, B0) EXCEPT !.typed = FALSE]>>),
       OfC(Word, 0, <<[Method("f", 2, <<Word, B0>>, B0) EXCEPT !.preds = <<E(B1)>>]>>),
       OfC(Word, 0, <<[Method("f", 2, <<Word, B0>>, B0) EXCEPT !.preds = <<InClass("D", B0, <<B1>>), E(B1)>>]>>)}
    Functional == {OfD(Box(B0), B0, 1), OfD(Box(B0), B1, 2), OfD(Word, Flag, 0), OfD(Word, Word, 0),
                   [OfD(Word, Flag, 0) EXCEPT !.head = InClass("D", Word, <<>>)]}
    Textual == {OfStr(Word, <<Method("fromString", 0, <<StringTy>>, Word)>>), OfStr(Word, <<Method("fromString", 0, <<Word>>, Word)>>),
                OfStr(StdString, <<Method("fromString", 0, <<StdString>>, None)>>), OfStr(Word, <<Method("text", 0, <<StringTy>>, Word)>>)}
    Menu == Overlapping \cup Conditional \cup Methodical \cup Functional \cup Textual
    Derive(class, params, captures) == [class |-> class, adt |-> "Wrap", params |-> params, captures |-> captures]
    Pragma(name, classes) == [name |-> name, classes |-> classes]
    Module(imported, importedDerives, instances, derives, pragmas) ==
      [broken |-> FALSE, imported |-> imported, importedDerives |-> importedDerives, instances |-> instances,
       derives |-> derives, pragmas |-> pragmas]
    Imports == {<<>>, <<Plain(Pair(B0, Word), 1)>>, <<[Plain(B0, 1) EXCEPT !.default = TRUE], Plain(Word, 0)>>}
    DeriveLists == {<<>>, <<Derive("E", 1, FALSE)>>, <<Derive("E", 1, FALSE), Derive("E", 1, FALSE)>>,
                    <<Derive("D", 1, FALSE)>>, <<Derive("E", 0, TRUE), Derive("E", 1, FALSE)>>}
    PragmaLists == {<<>>, <<Pragma("no-coverage-condition", {})>>, <<Pragma("no-patterson-condition", {"E"})>>,
                    <<Pragma("no-patterson-condition", {"C"}), Pragma("no-bounded-variable-condition", {"E"})>>}
    LocalLists == {<<>>} \cup {<<i>> : i \in Menu} \cup {<<i, j>> : i \in Menu, j \in Menu}
  IN  {Module(im, <<>>, local, <<>>, <<>>) : im \in Imports, local \in LocalLists}
      \cup {Module(<<>>, imd, local, derives, pragmas) :
              imd \in {<<>>, <<Derive("E", 1, FALSE)>>}, local \in {l \in LocalLists : Len(l) <= 1}, derives \in DeriveLists,
              pragmas \in PragmaLists}

(* Modules of a few data types and aliases: recursion through an alias,        *)
(* derivation, recursion in plain sight, and aliases that go wrong.            *)
MCDataPrograms ==
  LET
    Named(c, ts) == Heads!Named(c, ts)
    Bound(n) == Heads!Bound(n)
    Tuple(ts) == Heads!Tuple(ts)
    Unit == Data!Unit
    Word == Named("word", <<>>)
    P0 == Bound(0)
    P1 == Bound(1)
    Box(t) == Named("Box", <<t>>)
    D(t) == Named("D", <<t>>)
    E(a, b) == Named("E", <<a, b>>)
    EA(a, b) == Named("EA", <<a, b>>)
    T == Named("T", <<>>)
    Twice(t) == Named("Twice", <<t>>)
    Loop(t) == Named("Loop", <<t>>)
    Other(t) == Named("Other", <<t>>)
    Adt(params, ctors) == [params |-> params, ctors |-> ctors, excluded |-> FALSE, manual |-> FALSE, captures |-> FALSE]
    Alias(params, t) == [params |-> params, body |-> t]
    BoxAdt == Adt(1, <<<<P0>>>>)
    AllMarkers == {"Generic", "ABIDeriving", "ABIEncode", "SigString", "StorageDeriving"}
    Program(aliases, order, adts, markers, roots) ==
      [aliases |-> aliases, order |-> order, adts |-> adts, markers |-> markers, roots |-> roots]
    NoAliases == [x \in {} |-> Alias(0, Word)]
    (* Recursion through an alias: D names E by EA, E names D directly.            *)
    ThroughAlias == ("EA" :> Alias(2, E(P0, P1)))
    BodiesOfD == {P0, D(P0), D(Box(P0)), EA(P0, Word), EA(P0, P0), EA(Box(P0), P0), Box(D(P0)), Box(Box(P0))}
    BodiesOfE == {P0, E(P1, P0), E(P1, Box(P0)), E(Word, P0), D(P1), D(Box(P1)), D(Box(P0)), E(P0, Word)}
    Recursive ==
      {Program(ThroughAlias, <<"EA">>,
               ("D" :> Adt(1, <<<<>>, <<d>>>>)) @@ ("E" :> Adt(2, <<<<e>>, <<f>>>>)) @@ ("Box" :> BoxAdt),
               {}, {D(Word), E(Word, Unit), Box(Box(Word)), Box(D(Word))}) : d \in BodiesOfD, e \in BodiesOfE, f \in {P0, E(P1, P0), D(P1), E(P0, Word)}}
    (* Derivation: shapes of constructors, flags, and the classes in sight.        *)
    Shapes == {<<>>, <<<<>>>>, <<<<P0>>>>, <<<<P0, Word>>>>, <<<<P0, Box(P0), Word>>, <<>>>>, <<<<P0>>, <<Word, P0>>, <<Unit>>>>,
               <<<<Twice(P0)>>, <<P0>>>>, <<<<Tuple(<<P0, Word>>)>>>>}
    Derivations ==
      {Program(("Twice" :> Alias(1, Tuple(<<P0, P0>>))), <<"Twice">>, ("D" :> [Adt(1, ctors) EXCEPT ![flag] = TRUE]) @@ ("Box" :> BoxAdt),
               markers, {}) :
         ctors \in Shapes, flag \in {"excluded", "manual", "captures"}, markers \in {AllMarkers}}
      \cup {Program(("Twice" :> Alias(1, Tuple(<<P0, P0>>))), <<"Twice">>,
                    ("D" :> Adt(1, ctors)) @@ ("E" :> [Adt(2, <<<<P0>>, <<P1>>>>) EXCEPT !.manual = TRUE, !.excluded = TRUE])
                      @@ ("Box" :> BoxAdt), markers, {D(Word)}) :
              ctors \in Shapes, markers \in {AllMarkers, AllMarkers \ {"SigString"}, AllMarkers \ {"ABIEncode"}, {"Generic"}, {}}}
      \cup {Program(NoAliases, <<>>, ("T" :> Adt(0, ctors)) @@ ("Box" :> BoxAdt), AllMarkers, {T}) :
              ctors \in {<<<<>>, <<Box(T)>>>>, <<<<>>, <<Word, T>>>>, <<<<Box(Box(Word))>>>>}}
    (* Recursion in plain sight, and aliases that go wrong.                        *)
    Cyclic ==
      {Program(NoAliases, <<>>, ("A" :> Adt(0, <<<<a>>>>)) @@ ("B" :> Adt(0, <<<<b>>>>)) @@ ("C" :> Adt(0, <<<<c>>>>)), {}, {}) :
         a \in {Word, Named("B", <<>>), Named("A", <<>>)}, b \in {Word, Named("C", <<>>), Named("A", <<>>)},
         c \in {Word, Named("A", <<>>), Tuple(<<Named("B", <<>>), Word>>)}}
    Aliased ==
      {Program(("Twice" :> Alias(1, Tuple(<<P0, P0>>))) @@ ("Loop" :> Alias(1, l)) @@ ("Other" :> Alias(1, o)),
               <<"Twice", "Loop", "Other">>, ("D" :> Adt(1, <<<<f>>>>)), {}, {}) :
         l \in {P0, Twice(Twice(P0)), Other(P0), Twice(Loop(P0)), Named("Twice", <<>>)},
         o \in {Word, Loop(P0), Twice(P0), Twice(Twice(Twice(Twice(P0))))}, f \in {Loop(P0), Tuple(<<Twice(P0), Other(Word)>>)}}
  IN  Recursive \cup Derivations \cup Cyclic \cup Aliased
===============================================================================
