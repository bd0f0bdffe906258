------------------------------- MODULE Backends -------------------------------
(* The way from a specialised program to its two executables: it is emitted as *)
(* Hull, the Hull is checked, each back end translates it, and what they give  *)
(* is run.  The three executions, of the program itself, of the Yul and of the *)
(* graph of blocks, are the meaning of what the code produces.                 *)
EXTENDS YulLower, SonatinaLower

CONSTANTS
  Programs,   \* index -> a program: its functions, each [name, params, ret, body]
  Inputs,     \* the contents that the storage may have at the start
  RunBound    \* calls and turns of loops that an execution may take

VARIABLES
  program,    \* the index of the program being compiled
  hull,       \* <<>>, or <<the functions emitted>>
  diags,      \* <<>>, or <<what the checker reported>>
  yul,        \* <<>>, or <<what the first back end made>>
  sonatina,   \* <<>>, or <<what the second back end made>>
  runs        \* <<>>, or <<[source, yul, sonatina]>>: how the executions ended
vars == <<program, hull, diags, yul, sonatina, runs>>

-------------------------------------------------------------------------------
(* A machine: variables are names of cells.                                    *)
Machine(storage) == [env |-> <<>>, cells |-> <<>>, storage |-> storage, mode |-> "run", fuel |-> RunBound]
Running(m) == m.mode = "run"
Ends(m, mode) == [m EXCEPT !.mode = mode]
Spend(m) == IF m.fuel = 0 THEN Ends(m, "unfinished") ELSE [m EXCEPT !.fuel = @ - 1]
NewCell(m, x, v) == [m EXCEPT !.cells = Append(@, v), !.env = (x :> Len(m.cells) + 1) @@ @]
SetCell(m, x, v) == IF x \in DOMAIN m.env THEN [m EXCEPT !.cells[m.env[x]] = v] ELSE Ends(m, "stuck")
LeaveBlock(m, inner) == [inner EXCEPT !.env = m.env]
EndLoop(m) == IF m.mode = "break" THEN Ends(m, "run") ELSE m
NextTurn(m) == IF m.mode = "continue" THEN Ends(m, "run") ELSE m
Ran(vals, m) == [vals |-> vals, m |-> m]

RECURSIVE NewCells(_, _, _), SetCells(_, _, _)
NewCells(m, xs, vs) == IF xs = <<>> THEN m ELSE NewCells(NewCell(m, Head(xs), Head(vs)), Tail(xs), Tail(vs))
SetCells(m, xs, vs) == IF xs = <<>> THEN m ELSE SetCells(SetCell(m, Head(xs), Head(vs)), Tail(xs), Tail(vs))
Zeros(n) == [i \in 1 .. n |-> 0]

Truth(p) == IF p THEN 1 ELSE 0
PureBuiltin(f, a) ==
  CASE f = <<"add">> -> (a[1] + a[2]) % WordValues
    [] f = <<"sub">> -> (a[1] + WordValues - a[2]) % WordValues
    [] f = <<"mul">> -> (a[1] * a[2]) % WordValues
    [] f = <<"not">> -> WordValues - 1 - a[1]
    [] f = <<"lt">> -> Truth(a[1] < a[2])
    [] f = <<"gt">> -> Truth(a[1] > a[2])
    [] f \in {<<"eq">>, <<"primEqWord">>} -> Truth(a[1] = a[2])
    [] f = <<"iszero">> -> Truth(a[1] = 0)
RunBuiltin(m, f, args) ==
  CASE f = <<"revert">> -> Ran(<<>>, Ends(m, "revert"))
    [] f = <<"sstore">> -> Ran(<<>>, [m EXCEPT !.storage[args[1]] = args[2]])
    [] f = <<"sload">> -> Ran(<<m.storage[args[1]]>>, m)
    [] f = <<"pop">> -> Ran(<<>>, m)
    [] OTHER -> Ran(<<PureBuiltin(f, args)>>, m)

-------------------------------------------------------------------------------
(* Yul, both the inline assembly of a program and what the back end makes.     *)
RECURSIVE RunYulExpr(_, _, _), RunYulArgs(_, _, _), RunYulSeq(_, _, _), RunYulLoop(_, _, _)
RunYulArgs(m, funs, args) ==
  IF args = <<>> THEN Ran(<<>>, m)
  ELSE With(RunYulExpr(m, funs, args[Len(args)]), LAMBDA last :
       With(RunYulArgs(last.m, funs, Front(args)), LAMBDA front :
         IF Running(last.m) /\ Len(last.vals) = 1 THEN Ran(front.vals \o last.vals, front.m)
         ELSE Ran(<<>>, IF Running(last.m) THEN Ends(m, "stuck") ELSE last.m)))
DeclaredYul(stmts) ==
  LET fs == AsmFunctions(stmts) IN [f \in {fs[i][2] : i \in DOMAIN fs} |-> fs[CHOOSE i \in DOMAIN fs : fs[i][2] = f]]
RunYulBlock(m, funs, stmts) == LeaveBlock(m, RunYulSeq(m, DeclaredYul(stmts) @@ funs, stmts))

RunYulFunction(m, funs, f, args) ==
  With(NewCells([Spend(m) EXCEPT !.env = <<>>], f[3] \o f[4], args \o Zeros(Len(f[4]))), LAMBDA start :
  With(RunYulBlock(start, funs, f[5]), LAMBDA body :
  With([body EXCEPT !.env = m.env, !.mode = IF @ = "leave" THEN "run" ELSE @], LAMBDA done :
    IF Len(args) # Len(f[3]) THEN Ran(<<>>, Ends(m, "stuck"))
    ELSE Ran([i \in DOMAIN f[4] |-> done.cells[start.env[f[4][i]]]] \o <<>>, done))))

RunYulExpr(m, funs, e) ==
  CASE e[1] = "lit" -> Ran(<<e[2]>>, m)
    [] e[1] = "id" -> IF e[2] \in DOMAIN m.env THEN Ran(<<m.cells[m.env[e[2]]]>>, m) ELSE Ran(<<>>, Ends(m, "stuck"))
    [] e[1] = "call" ->
         With(RunYulArgs(m, funs, e[3]), LAMBDA args :
           CASE ~Running(args.m) -> Ran(<<>>, args.m)
             [] e[2] \in DOMAIN AsmBuiltins -> RunBuiltin(args.m, e[2], args.vals)
             [] e[2] \in DOMAIN funs -> RunYulFunction(args.m, funs, funs[e[2]], args.vals)
             [] OTHER -> Ran(<<>>, Ends(m, "stuck")))

RunYulLoop(m, funs, s) ==
  With(RunYulExpr(m, funs, s[3]), LAMBDA test :
  With(NextTurn(RunYulBlock(Spend(test.m), funs, s[5])), LAMBDA body :
  With(RunYulBlock(body, funs, s[4]), LAMBDA post :
    IF ~Running(test.m) \/ test.vals[1] = 0 THEN test.m
    ELSE IF ~Running(body) THEN EndLoop(body)
    ELSE IF ~Running(post) THEN post ELSE RunYulLoop(post, funs, s))))

Bound(m, xs, got, Store(_, _, _)) ==
  IF ~Running(got.m) THEN got.m
  ELSE IF Len(got.vals) # Len(xs) THEN Ends(m, "stuck") ELSE Store(got.m, xs, got.vals)

RunYulStmt(m, funs, s) ==
  With(RunYulExpr(m, funs, s[2]), LAMBDA value :
  With({i \in DOMAIN s[3] : s[3][i][1] = value.vals[1]}, LAMBDA cases :
  With(RunYulSeq(m, DeclaredYul(s[2]) @@ funs, s[2]), LAMBDA init :
    CASE s[1] = "let" -> IF s[3] = <<>> THEN NewCells(m, s[2], Zeros(Len(s[2]))) ELSE Bound(m, s[2], RunYulExpr(m, funs, s[3][1]), NewCells)
      [] s[1] = "assign" -> Bound(m, s[2], RunYulExpr(m, funs, s[3]), SetCells)
      [] s[1] = "expr" -> value.m
      [] s[1] = "block" -> RunYulBlock(m, funs, s[2])
      [] s[1] = "if" -> IF ~Running(value.m) \/ value.vals[1] = 0 THEN value.m ELSE RunYulBlock(value.m, funs, s[3])
      [] s[1] = "switch" ->
           IF ~Running(value.m) THEN value.m
           ELSE IF cases # {} THEN RunYulBlock(value.m, funs, s[3][CHOOSE i \in cases : \A j \in cases : i <= j][2])
           ELSE IF s[4] # <<>> THEN RunYulBlock(value.m, funs, s[4][1]) ELSE value.m
      [] s[1] = "for" -> LeaveBlock(m, IF Running(init) THEN RunYulLoop(init, DeclaredYul(s[2]) @@ funs, s) ELSE init)
      [] s[1] = "function" -> m
      [] OTHER -> Ends(m, s[1]))))
RunYulSeq(m, funs, stmts) ==
  IF stmts = <<>> \/ ~Running(m) THEN m ELSE RunYulSeq(RunYulStmt(m, funs, Head(stmts)), funs, Tail(stmts))

Outcome(ran) ==
  CASE Running(ran.m) -> <<"return", ran.vals, ran.m.storage>>
    [] ran.m.mode = "revert" -> <<"revert">>
    [] OTHER -> <<"error", ran.m.mode>>
RunYul(code, storage) == Outcome(RunYulExpr(Machine(storage), DeclaredYul(code), YulCall(YulFunName(Main), <<>>)))

-------------------------------------------------------------------------------
(* The graph of blocks.  A value is computed once; a variable is a cell.       *)
Operand(r, v) == IF v[1] = "imm" THEN v[2] ELSE r.values[v[2]]
Operands(r, vs) == [i \in DOMAIN vs |-> Operand(r, vs[i])] \o <<>>
Give(r, i, v) == [r EXCEPT !.values = (i[2][1] :> v) @@ @]
Terminators == {"jump", "br", "ret", "revert", "unreachable"}

RECURSIVE RunGraph(_, _, _, _), RunBlock(_, _, _), RunInstrs(_, _, _)
RunInstr(funs, r, i) ==
  With(Operands(r, i[3]), LAMBDA a :
  With(RunBuiltin(r.m, i[4], a), LAMBDA builtin :
  With(RunGraph(funs, i[4], a, r.m), LAMBDA call :
  LET results(ran) == [r EXCEPT !.m = ran.m, !.values = [x \in ToSet(i[2]) |-> ran.vals[CHOOSE k \in DOMAIN i[2] : i[2][k] = x]] @@ @] IN
    CASE i[1] = "def" -> [r EXCEPT !.vars = (i[4][1] :> a[1]) @@ @]
      [] i[1] = "use" -> IF i[4][1] \in DOMAIN r.vars THEN Give(r, i, r.vars[i[4][1]]) ELSE [r EXCEPT !.m = Ends(@, "stuck")]
      [] i[1] = "zext" -> Give(r, i, a[1])
      [] i[1] = "trunc" -> Give(r, i, a[1] % 2)
      [] i[1] = "eq" -> Give(r, i, Truth(a[1] = a[2]))
      [] i[1] = "iszero" -> Give(r, i, Truth(a[1] = 0))
      [] i[1] = "pair" -> Give(r, i, a)
      [] i[1] = "extract" -> Give(r, i, a[1][i[4][1]])
      [] i[1] = "insert" -> Give(r, i, [a[1] EXCEPT ![i[4][1]] = a[2]])
      [] i[1] = "enum" -> Give(r, i, <<i[4][1], a[1]>>)
      [] i[1] = "isvariant" -> Give(r, i, Truth(a[1][1] = i[4][1]))
      [] i[1] = "assert" -> IF a[1][1] = i[4][1] THEN r ELSE [r EXCEPT !.m = Ends(@, "stuck")]
      [] i[1] = "payload" -> Give(r, i, a[1][2])
      [] i[1] = "builtin" -> IF i[2] = <<>> THEN [r EXCEPT !.m = builtin.m] ELSE results(builtin)
      [] i[1] = "call" -> IF Running(call.m) THEN results(call) ELSE [r EXCEPT !.m = call.m]
      [] i[1] = "jump" -> [r EXCEPT !.next = i[4][1]]
      [] i[1] = "br" -> [r EXCEPT !.next = i[4][IF a[1] = 1 THEN 1 ELSE 2]]
      [] i[1] = "ret" -> [r EXCEPT !.next = 0, !.vals = a]
      [] i[1] = "revert" -> [r EXCEPT !.m = Ends(@, "revert")]
      [] i[1] = "unreachable" -> [r EXCEPT !.m = Ends(@, "unreachable")])))
RunInstrs(funs, r, instrs) ==
  IF instrs = <<>> \/ ~Running(r.m) THEN r ELSE RunInstrs(funs, RunInstr(funs, r, Head(instrs)), Tail(instrs))
RunBlock(funs, blocks, r) ==
  With(RunInstrs(funs, [r EXCEPT !.m = Spend(@)], blocks[r.next]), LAMBDA done :
    IF ~Running(done.m) \/ done.next = 0 THEN done ELSE RunBlock(funs, blocks, done))
RunGraph(funs, f, args, m) ==
  LET start == [values |-> <<>>, vars |-> [v \in 0 .. (funs[f].params - 1) |-> args[v + 1]], m |-> m, next |-> 1, vals |-> <<>>] IN
  With(RunBlock(funs, funs[f].blocks, start), LAMBDA done :
    Ran(done.vals, done.m))
RunSonatina(funs, storage) == Outcome(RunGraph(funs, <<"main">>, <<>>, Machine(storage)))

-------------------------------------------------------------------------------
(* The program itself.  A value is a word or <<constructor, fields>>; a tuple  *)
(* has one constructor.  Names are looked up where they stand, operands are    *)
(* computed from left to right, and the first arm that matches is taken.       *)
MonoBool(p) == <<IF p THEN 2 ELSE 1, <<>>>>
IsTrue(v) == v[1] = 2

RECURSIVE MatchPat(_, _), DefaultOf(_), RunExpr(_, _, _), RunExprs(_, _, _), RunStmts(_, _, _), RunLoop(_, _, _, _, _)
MatchPat(p, v) ==
  CASE p[1] = "wild" -> <<<<>>>>
    [] p[1] = "var" -> <<<<<<p[2], v>>>>>>
    [] p[1] = "lit" -> IF p[2] % WordValues = v THEN <<<<>>>> ELSE <<>>
    [] OTHER -> With([i \in DOMAIN p[3] |-> MatchPat(p[3][i], v[2][i])], LAMBDA parts :
                  IF (p[1] = "con" /\ p[2] # v[1]) \/ \E i \in DOMAIN parts : parts[i] = <<>> THEN <<>>
                  ELSE <<FlattenSeq([i \in DOMAIN parts |-> parts[i][1]] \o <<>>)>>)
DefaultOf(ty) ==
  CASE ty[1] = "word" -> 0
    [] IsData(ty) -> <<1, [i \in DOMAIN Constructors(ty)[1] |-> DefaultOf(Constructors(ty)[1][i])] \o <<>>>>
    [] OTHER -> <<1, [i \in DOMAIN ty[2] |-> DefaultOf(ty[2][i])] \o <<>>>>

MonoOp(op, a) ==
  CASE op \in {"add", "sub", "mul"} -> PureBuiltin(<<op>>, a)
    [] op = "lt" -> MonoBool(a[1] < a[2])
    [] op = "gt" -> MonoBool(a[1] > a[2])
    [] op = "le" -> MonoBool(a[1] <= a[2])
    [] op = "ge" -> MonoBool(a[1] >= a[2])
    [] op = "eq" -> MonoBool(a[1] = a[2])
    [] op = "ne" -> MonoBool(a[1] # a[2])

CallMono(m, funs, f, args) ==
  LET params == [i \in DOMAIN f.params |-> f.params[i][1]] \o <<>> IN
  With(RunStmts(NewCells([Spend(m) EXCEPT !.env = <<>>], params, args), funs, f.body), LAMBDA body :
  With([body.m EXCEPT !.env = m.env, !.mode = IF @ = "return" THEN "run" ELSE @], LAMBDA m1 :
    IF Running(body.m) THEN Ran(<<DefaultOf(f.ret)>>, m1) ELSE Ran(body.vals, m1)))

RunExprs(m, funs, es) ==
  IF es = <<>> THEN Ran(<<>>, m)
  ELSE With(RunExpr(m, funs, Head(es)), LAMBDA first :
       With(RunExprs(first.m, funs, Tail(es)), LAMBDA rest :
         IF Running(first.m) THEN Ran(first.vals \o rest.vals, rest.m) ELSE first))
RunExpr(m, funs, e) ==
  With(RunExprs(m, funs, e[4]), LAMBDA parts :
  With(RunExpr(m, funs, e[4][1]), LAMBDA first :
  LET chosen(i) == RunExpr(first.m, funs, e[4][i]) IN
    CASE e[1] = "var" -> Ran(<<m.cells[m.env[e[3]]]>>, m)
      [] e[1] = "lit" -> Ran(<<e[3] % WordValues>>, m)
      [] e[1] = "if" -> IF ~Running(first.m) THEN first ELSE chosen(IF IsTrue(first.vals[1]) THEN 2 ELSE 3)
      [] e[1] = "bin" /\ e[3] \in {"and", "or"} ->
           IF ~Running(first.m) \/ IsTrue(first.vals[1]) # (e[3] = "and") THEN first ELSE chosen(2)
      [] ~Running(parts.m) -> parts
      [] e[1] = "call" -> CallMono(parts.m, funs, funs[e[3]], parts.vals)
      [] e[1] = "tuple" -> Ran(<<<<1, parts.vals>>>>, parts.m)
      [] e[1] = "con" -> Ran(<<<<e[3], parts.vals>>>>, parts.m)
      [] e[1] = "bin" -> Ran(<<MonoOp(e[3], parts.vals)>>, parts.m)
      [] e[1] = "un" -> Ran(<<MonoBool(~IsTrue(parts.vals[1]))>>, parts.m)
      [] e[1] = "field" -> Ran(<<parts.vals[1][2][e[3]]>>, parts.m)))

(* Storing into a field stores the whole with the field replaced; a tuple of   *)
(* places takes a tuple of values.                                             *)
RECURSIVE StoreAt(_, _, _, _), StoreAll(_, _, _, _)
StoreAt(m, funs, lhs, v) ==
  CASE lhs[1] = "var" -> SetCell(m, lhs[3], v)
    [] lhs[1] = "field" -> LET whole == RunExpr(m, funs, lhs[4][1]).vals[1]
                           IN  StoreAt(m, funs, lhs[4][1], [whole EXCEPT ![2][lhs[3]] = v])
    [] lhs[1] = "tuple" -> StoreAll(m, funs, lhs[4], v[2])
StoreAll(m, funs, places, vs) ==
  IF places = <<>> THEN m ELSE StoreAll(StoreAt(m, funs, Head(places), Head(vs)), funs, Tail(places), Tail(vs))

Scoped(m, ran) == Ran(ran.vals, LeaveBlock(m, ran.m))
TakeArm(m, funs, arms, vs) ==
  LET bound(i) == MatchPat(TuplePat(arms[i].pats), <<1, vs>>) IN
  With({i \in DOMAIN arms : bound(i) # <<>>}, LAMBDA fits :
  With(CHOOSE i \in fits : \A j \in fits : i <= j, LAMBDA arm :
  With(bound(arm)[1], LAMBDA names :
    IF fits = {} THEN Ran(<<>>, Ends(m, "revert"))
    ELSE Scoped(m, RunStmts(NewCells(m, [i \in DOMAIN names |-> names[i][1]] \o <<>>, [i \in DOMAIN names |-> names[i][2]] \o <<>>),
                            funs, arms[arm].body)))))

RunLoop(m, funs, cond, post, body) ==
  With(RunExpr(m, funs, cond), LAMBDA test :
  With(RunStmts(Spend(test.m), funs, body), LAMBDA turn :
  With(RunStmts(NextTurn(turn.m), funs, post), LAMBDA after :
    IF ~Running(test.m) \/ ~IsTrue(test.vals[1]) THEN Ran(<<>>, test.m)
    ELSE IF ~Running(NextTurn(turn.m)) THEN Ran(turn.vals, EndLoop(turn.m))
    ELSE IF ~Running(after.m) THEN after ELSE RunLoop(after.m, funs, cond, post, body))))

RunStmt(m, funs, s) ==
  LET expr(e, Then(_)) == With(RunExpr(m, funs, e), LAMBDA got :
                            IF Running(got.m) THEN Then(got) ELSE got)
  IN  CASE s[1] = "let" -> IF s[5] = <<>> THEN Ran(<<>>, NewCell(m, s[3], DefaultOf(s[4])))
                           ELSE expr(s[5][1], LAMBDA got : Ran(<<>>, NewCell(got.m, s[3], got.vals[1])))
        [] s[1] = "set" -> expr(s[3], LAMBDA got : Ran(<<>>, StoreAt(got.m, funs, s[2], got.vals[1])))
        [] s[1] = "op" -> With(RunExprs(m, funs, <<s[3], s[4]>>), LAMBDA got :
                            IF Running(got.m) THEN Ran(<<>>, StoreAt(got.m, funs, s[3], PureBuiltin(s[2], got.vals))) ELSE got)
        [] s[1] = "expr" -> expr(s[2], LAMBDA got : Ran(<<>>, got.m))
        [] s[1] = "return" -> IF s[2] = <<>> THEN Ran(<<<<1, <<>>>>>>, Ends(m, "return"))
                              ELSE expr(s[2][1], LAMBDA got : Ran(got.vals, Ends(got.m, "return")))
        [] s[1] = "if" -> expr(s[2], LAMBDA got : RunStmts(got.m, funs, IF IsTrue(got.vals[1]) THEN s[3] ELSE s[4]))
        [] s[1] = "match" -> With(RunExprs(m, funs, s[2]), LAMBDA got :
                               IF Running(got.m) THEN TakeArm(got.m, funs, s[3], got.vals) ELSE got)
        [] s[1] = "block" -> Scoped(m, RunStmts(m, funs, s[2]))
        [] s[1] = "for" -> With(RunStmts(m, funs, s[2]), LAMBDA init :
                             IF Running(init.m) THEN RunLoop(init.m, funs, s[3], s[4], s[5]) ELSE init)
        [] s[1] = "asm" -> Ran(<<>>, RunYulBlock(m, <<>>, s[2]))
        [] OTHER -> Ran(<<>>, Ends(m, s[1]))
RunStmts(m, funs, stmts) ==
  IF stmts = <<>> THEN Ran(<<>>, m)
  ELSE With(RunStmt(m, funs, Head(stmts)), LAMBDA first :
         IF Running(first.m) THEN RunStmts(first.m, funs, Tail(stmts)) ELSE first)

FunctionNamed(fs, f) == fs[CHOOSE i \in DOMAIN fs : fs[i].name = f]
RunSource(fs, storage) ==
  With([f \in {fs[i].name : i \in DOMAIN fs} |-> FunctionNamed(fs, f)], LAMBDA funs :
    Outcome(CallMono(Machine(storage), funs, funs[Main], <<>>)))

-------------------------------------------------------------------------------
Init ==
  /\ program \in DOMAIN Programs
  /\ hull = <<>> /\ diags = <<>> /\ yul = <<>> /\ sonatina = <<>> /\ runs = <<>>

EmitHull ==
  /\ hull = <<>>
  /\ hull' = <<EmitModule(Programs[program])>>
  /\ UNCHANGED <<program, diags, yul, sonatina, runs>>

CheckHull ==
  /\ hull # <<>> /\ diags = <<>>
  /\ diags' = <<CheckProgram(hull[1])>>
  /\ UNCHANGED <<program, hull, yul, sonatina, runs>>

Accepted == diags = <<{}>>

(* A compilation ends with one back end, the other may be asked for as well.   *)
TranslateToYul ==
  /\ Accepted /\ yul = <<>>
  /\ yul' = <<TranslateProgram(hull[1])>>
  /\ UNCHANGED <<program, hull, diags, sonatina, runs>>

TranslateToSonatina ==
  /\ Accepted /\ sonatina = <<>>
  /\ sonatina' = <<TranslateModule(hull[1])>>
  /\ UNCHANGED <<program, hull, diags, yul, runs>>

Execute(storage) ==
  /\ yul # <<>> /\ sonatina # <<>> /\ runs = <<>>
  /\ ~yul[1].err /\ ~sonatina[1].err
  /\ runs' = <<[source |-> RunSource(Programs[program], storage),
                yul |-> RunYul(yul[1].code, storage),
                sonatina |-> RunSonatina(sonatina[1].funs, storage)]>>
  /\ UNCHANGED <<program, hull, diags, yul, sonatina>>

Next == EmitHull \/ CheckHull \/ TranslateToYul \/ TranslateToSonatina \/ \E storage \in Inputs : Execute(storage)

Spec == Init /\ [][Next]_vars

-------------------------------------------------------------------------------
(* The Hull that is emitted for a well-typed program passes the Hull's own     *)
(* checker: the nested sums and products, the hoisted and the renamed names    *)
(* all have the types that their uses are annotated with.                      *)
EmittedIsWellTyped == diags # <<>> => Accepted

(* What the checker accepts, both back ends translate.                         *)
CheckedIsTranslated ==
  /\ yul # <<>> => ~yul[1].err
  /\ sonatina # <<>> => ~sonatina[1].err

(* The Yul returns the word, leaves the storage or reverts as the program     *)
(* says: the slots of sums and products, the order of effects, the conditions *)
(* computed outside of the loops and the names of assembly survive.           *)
YulAgrees == runs # <<>> => runs[1].yul = runs[1].source

(* So does the graph of blocks, with its variables, enums and edges, and so    *)
(* the two executables agree with each other.                                  *)
SonatinaAgrees == runs # <<>> => runs[1].sonatina = runs[1].source

(* Every block of the graph ends with its only terminator, as the verifier     *)
(* demands, whatever statements leave early in the code it is made from.       *)
OneTerminator ==
  sonatina # <<>> /\ ~sonatina[1].err =>
    \A f \in DOMAIN sonatina[1].funs : \A b \in DOMAIN sonatina[1].funs[f].blocks :
      LET block == sonatina[1].funs[f].blocks[b]
      IN  block # <<>> /\ \A i \in DOMAIN block : (block[i][1] \in Terminators) <=> (i = Len(block))
=============================================================================
