----------------------------- MODULE SonatinaLower -----------------------------
(* The second back end: the Hull becomes a graph of basic blocks.  While it is *)
(* built, each block is known to be reached from the entry or not yet.         *)
(* An instruction is <<operation, results, operands, what>>; an operand is     *)
(* <<"v", value, type>> or <<"imm", constant, type>>.                          *)
EXTENDS HullEmit

I256 == <<"i256">>
I1 == <<"i1">>
Void == <<"void">>
IsIntegral(ty) == ty \in {I256, I1}
LowerTy(ty) ==
  CASE ty = Word -> I256
    [] ty = Unit -> Void
    [] ty = BoolSum -> I1
    [] OTHER -> ty

RECURSIVE ZeroForType(_)
ZeroForType(ty) ==
  CASE ty[1] = "prod" -> <<ZeroForType(ty[2]), ZeroForType(ty[3])>>
    [] ty = BoolSum -> 0
    [] ty[1] = "sum" -> <<0, ZeroForType(ty[2])>>
    [] ty[1] = "unit" -> <<>>
    [] OTHER -> 0
Imm(n, ty) == <<"imm", n, ty>>
TypeOf(value) == value[3]
Undef == Imm(<<>>, Void)

-------------------------------------------------------------------------------
(* The builder.  "out" holds the functions already finished; a lowering gives  *)
(* the value it computed, or whether control has left.                         *)
Builder(funs, out, next) ==
  [blocks |-> <<<<>>>>, cur |-> 1, values |-> 0, vars |-> 0, reached |-> {1}, pending |-> {}, scope |-> <<>>, ret |-> Unit,
   brk |-> <<>>, cont |-> <<>>, yul |-> <<>>, yulReturns |-> <<>>, funs |-> funs, out |-> out, nextYul |-> next, err |-> FALSE]
L(val, b) == [val |-> val, b |-> b]
T(terminated, b) == [terminated |-> terminated, b |-> b]
Fails(b) == [b EXCEPT !.err = TRUE]
Need(b, ok) == IF ok THEN b ELSE Fails(b)

Emit(b, op, results, operands, what) == [b EXCEPT !.blocks[b.cur] = Append(@, <<op, results, operands, what>>)]
Insert(b, op, operands, what, ty) ==
  L(<<"v", b.values, ty>>, Emit([b EXCEPT !.values = @ + 1], op, <<b.values>>, operands, what))
AppendBlocks(b, n) == [b EXCEPT !.blocks = @ \o [i \in 1 .. n |-> <<>>]]
SwitchTo(b, block) == [b EXCEPT !.cur = block]

(* An edge waits until its source is reached.                                  *)
RECURSIVE Propagate(_, _)
Propagate(reached, edges) ==
  LET next == reached \cup {e[2] : e \in {e \in edges : e[1] \in reached}}
  IN  IF next = reached THEN reached ELSE Propagate(next, edges)
AddEdge(b, target) ==
  LET edges == b.pending \cup {<<b.cur, target>>} IN
  With(Propagate(b.reached, edges), LAMBDA reached :
    [b EXCEPT !.reached = reached, !.pending = {e \in edges : e[1] \notin reached}])
EmitJump(b, target) == Emit(AddEdge(b, target), "jump", <<>>, <<>>, <<target>>)
EmitBranch(b, cond, then, else) == Emit(AddEdge(AddEdge(b, then), else), "br", <<>>, <<cond>>, <<then, else>>)
JumpUnless(t, target) == IF t.terminated THEN t.b ELSE EmitJump(t.b, target)

(* A continuation that nothing reaches is closed.                              *)
SwitchToReachableBlock(b, block) ==
  IF block \in b.reached THEN T(FALSE, SwitchTo(b, block))
  ELSE T(TRUE, Emit(SwitchTo(b, block), "unreachable", <<>>, <<>>, <<>>))

DeclareVar(b, x, ty) == [b EXCEPT !.vars = @ + 1, !.scope = (x :> [var |-> b.vars, hullTy |-> ty]) @@ @]
DefVar(b, var, value) == Emit(b, "def", <<>>, <<value>>, <<var>>)
UseVar(b, var, ty) == Insert(b, "use", <<>>, <<var>>, ty)
DeclareBinding(b, x, ty) == DefVar(DeclareVar(b, x, ty), b.vars, Imm(ZeroForType(ty), LowerTy(ty)))
PopScope(b, inner) == [inner EXCEPT !.scope = b.scope, !.yul = b.yul]

Coerce(b, value, ty) ==
  CASE TypeOf(value) = ty -> L(value, b)
    [] IsIntegral(TypeOf(value)) /\ IsIntegral(ty) -> Insert(b, IF ty = I256 THEN "zext" ELSE "trunc", <<value>>, <<>>, ty)
    [] OTHER -> L(value, Fails(b))
BindValue(b, x, ty, value) ==
  LET bound == DeclareBinding(b, x, ty) IN
  With(Coerce(bound, value, LowerTy(ty)), LAMBDA v :
    DefVar(v.b, b.vars, v.val))
ConditionValue(b, value) ==
  CASE TypeOf(value) = I1 -> L(value, b)
    [] TypeOf(value) = I256 -> With(Insert(b, "eq", <<value, Imm(0, I256)>>, <<>>, I1), LAMBDA zero :
                                 Insert(zero.b, "iszero", <<zero.val>>, <<>>, I1))
    [] OTHER -> L(value, Fails(b))

-------------------------------------------------------------------------------
(* Sums of units are bits; the other sums are enums.                           *)
LowerVariant(b, sum, tag, payload) ==
  LET ty == sum[2 + tag] IN
  With(IF ty = Unit THEN L(Undef, b) ELSE Coerce(b, payload, LowerTy(ty)), LAMBDA v :
    IF sum = BoolSum THEN L(Imm(tag, I1), b) ELSE Insert(v.b, "enum", <<v.val>>, <<tag>>, sum))
IsVariant(b, value, sum, tag) ==
  IF sum = BoolSum THEN Insert(b, "eq", <<value, Imm(tag, I1)>>, <<>>, I1) ELSE Insert(b, "isvariant", <<value>>, <<tag>>, I1)
ExtractVariant(b, value, sum, tag) ==
  IF sum[2 + tag] = Unit THEN L(Undef, b)
  ELSE Insert(Emit(b, "assert", <<>>, <<value>>, <<tag>>), "payload", <<value>>, <<tag>>, LowerTy(sum[2 + tag]))

TagOf(pat) == IF pat[1] = "inr" THEN 1 ELSE 0
IsCon(pat) == pat[1] \in {"inl", "inr"}
PatternCondition(b, value, target, pat) ==
  IF IsCon(pat) THEN IsVariant(b, value, target, TagOf(pat)) ELSE Insert(b, "eq", <<value, Imm(pat[2], I256)>>, <<>>, I1)
PatternPayload(b, value, target, pat) == IF IsCon(pat) THEN ExtractVariant(b, value, target, TagOf(pat)) ELSE L(value, b)
BinderTy(target, pat) == IF IsCon(pat) THEN target[2 + TagOf(pat)] ELSE target

(* A built-in function gives a word or a bit, nothing, or never returns.       *)
Bits == Comparisons \cup {<<"iszero">>, <<"primEqWord">>}
LowerEvmBuiltin(b, f, args) ==
  CASE f = <<"revert">> -> L(<<>>, Emit(b, "revert", <<>>, args, <<>>))
    [] f = <<"pop">> -> L(<<>>, b)
    [] f = <<"sstore">> -> L(<<>>, Emit(b, "builtin", <<>>, args, f))
    [] OTHER -> With(Insert(b, "builtin", args, f, IF f \in Bits THEN I1 ELSE I256), LAMBDA v :
                  L(<<v.val>>, v.b))

RECURSIVE LowerExpr(_, _), LowerArgs(_, _), InsertAtPath(_, _, _, _, _)
LowerArgs(b, args) ==
  IF args = <<>> THEN L(<<>>, b)
  ELSE With(LowerExpr(b, Head(args)), LAMBDA first :
       With(LowerArgs(first.b, Tail(args)), LAMBDA rest :
         L(<<first.val>> \o rest.val, rest.b)))

LowerCall(b, e) ==
  With(LowerArgs(b, e[4]), LAMBDA args :
  With(LowerTy(e[2]), LAMBDA ret :
  With(LowerEvmBuiltin(args.b, e[3], args.val), LAMBDA builtin :
    CASE e[3] \in DOMAIN b.funs /\ ret = Void -> L(Undef, Emit(args.b, "call", <<>>, args.val, e[3]))
      [] e[3] \in DOMAIN b.funs -> Insert(args.b, "call", args.val, e[3], ret)
      [] e[3] = <<"wordToInteger">> -> Coerce(args.b, args.val[1], ret)
      [] builtin.val = <<>> -> L(Undef, builtin.b)
      [] OTHER -> Coerce(builtin.b, builtin.val[1], ret))))

LowerPair(b, e) ==
  With(LowerExpr(b, e[4][1]), LAMBDA l :
  With(Coerce(l.b, l.val, LowerTy(e[2][2])), LAMBDA lv :
  With(LowerExpr(lv.b, e[4][2]), LAMBDA r :
  With(Coerce(r.b, r.val, LowerTy(e[2][3])), LAMBDA rv :
    Insert(rv.b, "pair", <<lv.val, rv.val>>, <<>>, LowerTy(e[2]))))))

LowerIfExpr(b, e) ==
  With(LowerTy(e[2]), LAMBDA ty :
  LET n == Len(b.blocks)
      b0 == DefVar(AppendBlocks([b EXCEPT !.vars = @ + 1], 3), b.vars, Imm(ZeroForType(e[2]), ty)) IN
  With(LowerExpr(b0, e[4][1]), LAMBDA cond :
  With(ConditionValue(cond.b, cond.val), LAMBDA test :
  With(LowerExpr(SwitchTo(EmitBranch(test.b, test.val, n + 1, n + 2), n + 1), e[4][2]), LAMBDA then :
  With(Coerce(then.b, then.val, ty), LAMBDA tv :
  With(LowerExpr(SwitchTo(EmitJump(DefVar(tv.b, b.vars, tv.val), n + 3), n + 2), e[4][3]), LAMBDA else :
  With(Coerce(else.b, else.val, ty), LAMBDA ev :
    UseVar(SwitchTo(EmitJump(DefVar(ev.b, b.vars, ev.val), n + 3), n + 3), b.vars, ty))))))))

LowerExpr(b, e) ==
  With(LowerExpr(b, e[4][1]), LAMBDA part :
  LET half(i) == IF e[4][1][2][1] = "prod" THEN Insert(part.b, "extract", <<part.val>>, <<i>>, LowerTy(e[4][1][2][1 + i]))
                 ELSE L(part.val, Fails(part.b)) IN
    CASE e[1] = "word" -> L(Imm(e[3], I256), b)
      [] e[1] = "unit" -> L(Undef, b)
      [] e[1] = "var" -> IF e[3] \in DOMAIN b.scope THEN UseVar(b, b.scope[e[3]].var, LowerTy(b.scope[e[3]].hullTy)) ELSE L(Undef, Fails(b))
      [] e[1] = "pair" -> LowerPair(b, e)
      [] e[1] = "fst" -> half(1)
      [] e[1] = "snd" -> half(2)
      [] e[1] = "inl" -> LowerVariant(part.b, e[2], 0, part.val)
      [] e[1] = "inr" -> LowerVariant(part.b, e[2], 1, part.val)
      [] e[1] = "call" -> LowerCall(b, e)
      [] e[1] = "if" -> LowerIfExpr(b, e))

(* A part of a product is stored by rebuilding the product around it.          *)
RECURSIVE AssignmentPath(_)
AssignmentPath(e) ==
  CASE e[1] = "var" -> [ok |-> TRUE, root |-> e[3], path |-> <<>>]
    [] e[1] \in {"fst", "snd"} -> With(AssignmentPath(e[4][1]), LAMBDA inner :
                                    [inner EXCEPT !.path = Append(@, IF e[1] = "fst" THEN 1 ELSE 2)])
    [] OTHER -> [ok |-> FALSE, root |-> <<>>, path |-> <<>>]

InsertAtPath(b, aggregate, ty, path, value) ==
  IF path = <<>> THEN Coerce(b, value, LowerTy(ty))
  ELSE LET field == ty[1 + path[1]] IN
       With(Insert(b, "extract", <<aggregate>>, <<path[1]>>, LowerTy(field)), LAMBDA old :
       With(IF Len(path) = 1 THEN Coerce(b, value, LowerTy(field)) ELSE InsertAtPath(old.b, old.val, field, Tail(path), value), LAMBDA new :
         Insert(new.b, "insert", <<aggregate, new.val>>, <<path[1]>>, LowerTy(ty))))

Assign(b, lhs, value) ==
  With(AssignmentPath(lhs), LAMBDA at :
  With(b.scope[at.root], LAMBDA binding :
  With(UseVar(b, binding.var, LowerTy(binding.hullTy)), LAMBDA root :
  With(InsertAtPath(IF at.path = <<>> THEN b ELSE root.b, root.val, binding.hullTy, at.path, value), LAMBDA v :
    IF at.ok /\ at.root \in DOMAIN b.scope THEN DefVar(v.b, binding.var, v.val) ELSE Fails(b)))))

-------------------------------------------------------------------------------
(* Inline assembly.                                                            *)
RECURSIVE YulExpr(_, _), YulArgs(_, _), YulStmts(_, _), YulSeq(_, _), CoerceAll(_, _, _)
(* The last argument is computed first.                                        *)
YulArgs(b, args) ==
  IF args = <<>> THEN L(<<>>, b)
  ELSE With(YulExpr(b, args[Len(args)]), LAMBDA last :
       With(YulArgs(Need(last.b, Len(last.val) = 1), Front(args)), LAMBDA front :
         L(front.val \o last.val, front.b)))
CoerceAll(b, values, tys) ==
  IF values = <<>> THEN L(<<>>, b)
  ELSE With(Coerce(b, Head(values), Head(tys)), LAMBDA first :
       With(CoerceAll(first.b, Tail(values), Tail(tys)), LAMBDA rest :
         L(<<first.val>> \o rest.val, rest.b)))

(* Functions of the assembly around come first, then the Hull's, then the      *)
(* built-in ones.                                                              *)
YulCallExpr(b, f, args) ==
  LET decl == b.yul[f] IN
  With([i \in 1 .. decl.returns |-> b.values + i - 1], LAMBDA ids :
  LET name == IF f[1] = "usr" THEN Tail(f) ELSE f IN
  With(b.funs[name], LAMBDA sig :
  With(CoerceAll(b, args, [i \in DOMAIN sig.args |-> LowerTy(sig.args[i])] \o <<>>), LAMBDA passed :
  With(Insert(passed.b, "call", passed.val, name, LowerTy(sig.ret)), LAMBDA result :
  With(Coerce(result.b, result.val, I256), LAMBDA word :
  With(LowerEvmBuiltin(b, f, args), LAMBDA builtin :
  With(Coerce(builtin.b, builtin.val[1], I256), LAMBDA value :
    CASE f \in DOMAIN b.yul ->
           L([i \in DOMAIN ids |-> <<"v", ids[i], I256>>] \o <<>>,
             Emit([Need(b, decl.params = Len(args)) EXCEPT !.values = @ + decl.returns], "call", ids \o <<>>, args, decl.func))
      [] name \in DOMAIN b.funs /\ Len(sig.args) # Len(args) -> L(<<>>, Fails(b))
      [] name \in DOMAIN b.funs /\ sig.ret = Unit -> L(<<>>, Emit(passed.b, "call", <<>>, passed.val, name))
      [] name \in DOMAIN b.funs -> L(<<word.val>>, word.b)
      [] f \notin DOMAIN AsmBuiltins -> L(<<>>, Fails(b))
      [] builtin.val = <<>> -> builtin
      [] OTHER -> L(<<value.val>>, value.b))))))))

YulExpr(b, e) ==
  CASE e[1] = "lit" -> L(<<Imm(e[2], I256)>>, b)
    [] e[1] = "id" -> IF e[2] \notin DOMAIN b.scope THEN L(<<Undef>>, Fails(b))
                      ELSE With(UseVar(b, b.scope[e[2]].var, LowerTy(b.scope[e[2]].hullTy)), LAMBDA used :
                           With(Coerce(used.b, used.val, I256), LAMBDA word :
                             L(<<word.val>>, word.b)))
    [] e[1] = "call" -> With(YulArgs(b, e[3]), LAMBDA args :
                          YulCallExpr(args.b, e[2], args.val))

IsTerminal(b, e) == e[1] = "call" /\ e[2] = <<"revert">> /\ e[2] \notin DOMAIN b.yul
YulCondition(b, e) == With(YulExpr(b, e), LAMBDA v :
                        ConditionValue(Need(v.b, Len(v.val) = 1), v.val[1]))

RECURSIVE BindAll(_, _, _), DefAll(_, _, _), BindWords(_, _), YulFunctions(_, _), YulCases(_, _, _, _), BindParams(_, _)
BindAll(b, xs, values) ==
  IF xs = <<>> THEN b ELSE BindAll(BindValue(b, Head(xs), Word, Head(values)), Tail(xs), Tail(values))
BindWords(b, xs) == IF xs = <<>> THEN b ELSE BindWords(DeclareBinding(b, Head(xs), Word), Tail(xs))
DefAll(b, xs, values) ==
  IF xs = <<>> THEN b
  ELSE With(Coerce(b, Head(values), LowerTy(b.scope[Head(xs)].hullTy)), LAMBDA v :
         DefAll(DefVar(v.b, b.scope[Head(xs)].var, v.val), Tail(xs), Tail(values)))
BindParams(b, xs) == IF xs = <<>> THEN b ELSE BindParams(DeclareVar(b, Head(xs)[1], Head(xs)[2]), Tail(xs))

(* Return what the result variables hold, if this is an assembly function.     *)
RECURSIVE UseVars(_, _)
UseVars(b, vars) ==
  IF vars = <<>> THEN L(<<>>, b)
  ELSE With(UseVar(b, Head(vars), I256), LAMBDA first :
       With(UseVars(first.b, Tail(vars)), LAMBDA rest :
         L(<<first.val>> \o rest.val, rest.b)))
EmitYulReturn(b) ==
  IF b.yulReturns = <<>> THEN Fails(b)
  ELSE With(UseVars(b, b.yulReturns[1]), LAMBDA values :
         Emit(values.b, "ret", <<>>, values.val, <<>>))

(* Functions are declared, and their bodies lowered, where their block begins; *)
(* a body sees no variable and no loop of the code around it.                  *)
DeclareYulFunctions(b, stmts) ==
  LET fs == AsmFunctions(stmts) IN
  With({fs[i][2] : i \in DOMAIN fs}, LAMBDA names :
  LET index(f) == CHOOSE i \in DOMAIN fs : fs[i][2] = f IN
    [Need(b, Cardinality(names) = Len(fs)) EXCEPT
       !.yul = [f \in names |-> [func |-> <<"$yul", b.nextYul + index(f)>>, params |-> Len(fs[index(f)][3]), returns |-> Len(fs[index(f)][4])]] @@ @,
       !.nextYul = @ + Len(fs)])
YulFunctions(b, fs) ==
  IF fs = <<>> THEN b
  ELSE LET f == Head(fs)
           new == [Builder(b.funs, b.out, b.nextYul) EXCEPT !.yul = b.yul] IN
       With(BindParams(new, [i \in DOMAIN f[3] |-> <<f[3][i], Word>>] \o <<>>), LAMBDA params :
       LET bound == [BindWords(params, f[4]) EXCEPT !.yulReturns = <<[i \in DOMAIN f[4] |-> params.vars + i - 1] \o <<>>>>] IN
       With(YulStmts(bound, f[5]), LAMBDA body :
       With(IF body.terminated THEN body.b ELSE EmitYulReturn(body.b), LAMBDA done :
         YulFunctions([b EXCEPT !.out = (b.yul[f[2]].func :> [params |-> Len(f[3]), blocks |-> done.blocks]) @@ done.out,
                                !.nextYul = done.nextYul, !.err = @ \/ done.err], Tail(fs)))))
EnterYul(b, stmts) == YulFunctions(DeclareYulFunctions(b, stmts), AsmFunctions(stmts))

YulStmts(b, stmts) ==
  With(YulSeq(EnterYul(b, stmts), stmts), LAMBDA inner :
    T(inner.terminated, PopScope(b, inner.b)))

(* One test after another; what no case takes goes to the default.             *)
YulCases(b, value, cases, done) ==
  IF cases = <<>> THEN b
  ELSE LET n == Len(b.blocks) IN
       With(Insert(AppendBlocks(b, 2), "eq", <<value, Imm(Head(cases)[1], I256)>>, <<>>, I1), LAMBDA test :
       LET arm == YulStmts(SwitchTo(EmitBranch(test.b, test.val, n + 1, n + 2), n + 1), Head(cases)[2]) IN
         YulCases(SwitchTo(JumpUnless(arm, done), n + 2), value, Tail(cases), done))
YulSwitch(b, s) ==
  With(YulExpr(b, s[2]), LAMBDA v :
  With(Len(v.b.blocks) + 1, LAMBDA done :
  With(YulCases(AppendBlocks(Need(v.b, Len(v.val) = 1), 1), v.val[1], s[3], done), LAMBDA rest :
  LET last == IF s[4] = <<>> THEN T(FALSE, rest) ELSE YulStmts(rest, s[4][1]) IN
    SwitchToReachableBlock(JumpUnless(last, done), done))))

(* The header tests, the body runs before the post block, and the loop is left *)
(* through the block after it.                                                 *)
EnterLoop(b, n, cond) ==
  [SwitchTo(EmitBranch(cond.b, cond.val, n + 2, n + 4), n + 2) EXCEPT !.brk = <<n + 4>> \o @, !.cont = <<n + 3>> \o @]
LeaveLoop(outer, n, body) == [JumpUnless(body, n + 3) EXCEPT !.brk = outer.brk, !.cont = outer.cont]
AfterPost(n, post) == SwitchTo(IF post.terminated THEN post.b ELSE EmitJump(post.b, n + 1), n + 4)

YulFor(b, s) ==
  With(YulSeq(EnterYul(b, s[2]), s[2]), LAMBDA init :
  With(Len(init.b.blocks), LAMBDA n :
  With(SwitchTo(EmitJump(AppendBlocks(init.b, 4), n + 1), n + 1), LAMBDA header :
  LET body == YulStmts(EnterLoop(header, n, YulCondition(header, s[3])), s[5]) IN
  With(SwitchToReachableBlock(LeaveLoop(b, n, body), n + 3), LAMBDA post :
  LET after == IF post.terminated THEN post ELSE YulStmts(post.b, s[4]) IN
    IF init.terminated THEN T(TRUE, PopScope(b, init.b)) ELSE T(FALSE, PopScope(b, AfterPost(n, after)))))))

YulIf(b, s) ==
  LET n == Len(b.blocks) IN
  With(YulCondition(AppendBlocks(b, 2), s[2]), LAMBDA cond :
  LET body == YulStmts(SwitchTo(EmitBranch(cond.b, cond.val, n + 1, n + 2), n + 1), s[3]) IN
    T(FALSE, SwitchTo(JumpUnless(body, n + 2), n + 2)))

JumpTo(b, targets) == IF targets = <<>> THEN T(TRUE, Fails(b)) ELSE T(TRUE, EmitJump(b, targets[1]))

YulStmt(b, s) ==
  LET value(e) == With(YulExpr(b, e), LAMBDA v :
                    L(v.val, Need(v.b, Len(v.val) = Len(s[2]) /\ ~IsTerminal(b, e))))
  IN  CASE s[1] = "block" -> YulStmts(b, s[2])
        [] s[1] = "let" /\ s[3] = <<>> -> T(FALSE, BindWords(b, s[2]))
        [] s[1] = "let" -> With(value(s[3][1]), LAMBDA v :
                             T(FALSE, BindAll(v.b, s[2], v.val)))
        [] s[1] = "assign" -> With(value(s[3]), LAMBDA v :
                                T(FALSE, IF ToSet(s[2]) \subseteq DOMAIN b.scope THEN DefAll(v.b, s[2], v.val) ELSE Fails(b)))
        [] s[1] = "expr" -> With(YulExpr(b, s[2]), LAMBDA v :
                              T(IsTerminal(b, s[2]), Need(v.b, v.val = <<>>)))
        [] s[1] = "if" -> YulIf(b, s)
        [] s[1] = "for" -> YulFor(b, s)
        [] s[1] = "switch" -> YulSwitch(b, s)
        [] s[1] = "function" -> T(FALSE, b)
        [] s[1] = "leave" -> T(TRUE, EmitYulReturn(b))
        [] s[1] = "break" -> JumpTo(b, b.brk)
        [] s[1] = "continue" -> JumpTo(b, b.cont)
YulSeq(b, stmts) ==
  IF stmts = <<>> THEN T(FALSE, b)
  ELSE With(YulStmt(b, Head(stmts)), LAMBDA first :
         IF first.terminated THEN first ELSE YulSeq(first.b, Tail(stmts)))

-------------------------------------------------------------------------------
RECURSIVE LowerStmts(_, _), LowerAlts(_, _, _, _, _)
LowerFor(b, cond, post, body) ==
  LET n == Len(b.blocks) IN
  With(SwitchTo(EmitJump(AppendBlocks(b, 4), n + 1), n + 1), LAMBDA header :
  With(LowerExpr(header, cond), LAMBDA c :
  LET inner == LowerStmts(EnterLoop(header, n, ConditionValue(c.b, c.val)), body) IN
  With(SwitchToReachableBlock(LeaveLoop(b, n, inner), n + 3), LAMBDA entered :
  LET after == IF entered.terminated THEN entered ELSE LowerStmts(entered.b, post) IN
    T(FALSE, PopScope(b, AfterPost(n, after))))))

(* Alternatives are tested in order; a wildcard ends them.                     *)
LowerAlts(b, value, target, alts, done) ==
  IF alts = <<>> THEN EmitJump(b, done)
  ELSE LET alt == Head(alts)
           n == Len(b.blocks) IN
       With(PatternCondition(AppendBlocks(b, 2), value, target, alt.pat), LAMBDA test :
       LET taken == IF alt.pat[1] = "wild" THEN SwitchTo(EmitJump(AppendBlocks(b, 1), n + 1), n + 1)
                    ELSE SwitchTo(EmitBranch(test.b, test.val, n + 1, n + 2), n + 1) IN
       With(PatternPayload(taken, value, target, alt.pat), LAMBDA payload :
       LET arm == LowerStmts(BindValue(payload.b, alt.binder, BinderTy(target, alt.pat), payload.val), alt.body) IN
       With(PopScope(b, JumpUnless(arm, done)), LAMBDA left :
         IF alt.pat[1] = "wild" THEN left ELSE LowerAlts(SwitchTo(left, n + 2), value, target, Tail(alts), done))))

LowerMatch(b, target, e, alts) ==
  With(LowerExpr(b, e), LAMBDA v :
  With(Len(v.b.blocks) + 1, LAMBDA done :
    SwitchToReachableBlock(LowerAlts(AppendBlocks(v.b, 1), v.val, target, alts, done), done)))

LowerReturn(b, e) ==
  With(LowerExpr(b, e), LAMBDA v :
  With(Coerce(v.b, v.val, LowerTy(b.ret)), LAMBDA r :
    T(TRUE, IF b.ret = Unit THEN Emit(v.b, "ret", <<>>, <<>>, <<>>) ELSE Emit(r.b, "ret", <<>>, <<r.val>>, <<>>))))

LowerStmt(b, s) ==
  CASE s[1] = "let" -> T(FALSE, DeclareBinding(b, s[2], s[3]))
    [] s[1] = "assign" -> With(LowerExpr(b, s[3]), LAMBDA v :
                            T(FALSE, Assign(v.b, s[2], v.val)))
    [] s[1] = "expr" -> T(s[2][1] = "call" /\ s[2][3] = <<"revert">> /\ s[2][3] \notin DOMAIN b.funs, LowerExpr(b, s[2]).b)
    [] s[1] = "return" -> LowerReturn(b, s[2])
    [] s[1] = "block" -> With(LowerStmts(b, s[2]), LAMBDA inner :
                           T(inner.terminated, PopScope(b, inner.b)))
    [] s[1] = "for" -> LowerFor(b, s[2], s[3], s[4])
    [] s[1] = "break" -> JumpTo(b, b.brk)
    [] s[1] = "continue" -> JumpTo(b, b.cont)
    [] s[1] = "match" -> LowerMatch(b, s[2], s[3], s[4])
    [] s[1] = "asm" -> YulStmts(b, s[2])
    [] s[1] = "revert" -> T(TRUE, Emit(b, "revert", <<>>, <<>>, <<>>))
(* What follows a statement that leaves is not lowered.                        *)
LowerStmts(b, stmts) ==
  IF stmts = <<>> THEN T(FALSE, b)
  ELSE With(LowerStmt(b, Head(stmts)), LAMBDA first :
         IF first.terminated THEN first ELSE LowerStmts(first.b, Tail(stmts)))

(* A body that ends without returning returns zero.                            *)
Finish(t) ==
  IF ~t.terminated THEN Emit(t.b, "ret", <<>>, IF t.b.ret = Unit THEN <<>> ELSE <<Imm(ZeroForType(t.b.ret), LowerTy(t.b.ret))>>, <<>>)
  ELSE t.b

RECURSIVE LowerFunctions(_, _)
LowerFunctions(b, fs) ==
  IF fs = <<>> THEN b
  ELSE LET f == Head(fs)
           new == [BindParams(Builder(b.funs, b.out, b.nextYul), f.args) EXCEPT !.ret = f.ret] IN
       With(Finish(LowerStmts(new, f.body)), LAMBDA done :
         LowerFunctions([b EXCEPT !.out = (f.name :> [params |-> Len(f.args), blocks |-> done.blocks]) @@ done.out,
                                  !.nextYul = done.nextYul, !.err = @ \/ done.err], Tail(fs)))

(* The entry takes nothing.                                                    *)
TranslateModule(fs) ==
  With([g \in {fs[i].name : i \in DOMAIN fs} |->
          LET f == fs[CHOOSE i \in DOMAIN fs : fs[i].name = g] IN Sig([a \in DOMAIN f.args |-> f.args[a][2]] \o <<>>, f.ret)], LAMBDA sigs :
  With(LowerFunctions(Builder(sigs, <<>>, 0), fs), LAMBDA done :
    [funs |-> done.out, err |-> done.err \/ <<"main">> \notin DOMAIN sigs \/ sigs[<<"main">>].args # <<>>]))
=============================================================================
