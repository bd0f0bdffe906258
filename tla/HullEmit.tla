------------------------------- MODULE HullEmit -------------------------------
(* From the specialised program to the Hull: types become words, products and  *)
(* binary sums, matches become nested switches, and declarations that outlive  *)
(* the branch they stand in are hoisted in front of it; then the type checker  *)
(* of the Hull, the gate between the emitter and the back ends.                *)
(* Expressions, of both languages, are <<kind, type, what, parts>>.            *)
(* A name is a tuple: <<"x">> of the source, <<"$purpose", n>> of the emitter. *)
EXTENDS DecisionTrees, TLC

-------------------------------------------------------------------------------
(* Types.                                                                      *)
Word == <<"word">>
Unit == <<"unit">>
Prod(a, b) == <<"prod", a, b>>
Sum2(a, b) == <<"sum", a, b>>
BoolSum == Sum2(Unit, Unit)

RECURSIVE TupleTy(_), SumOf(_), HullTy(_)
TupleTy(tys) ==
  CASE tys = <<>> -> Unit
    [] Len(tys) = 1 -> tys[1]
    [] OTHER -> Prod(tys[1], TupleTy(Tail(tys)))
SumOf(tys) == IF Len(tys) = 1 THEN tys[1] ELSE Sum2(tys[1], SumOf(Tail(tys)))
HullTys(tys) == [i \in DOMAIN tys |-> HullTy(tys[i])] \o <<>>
PayloadTy(fields) == TupleTy([i \in DOMAIN fields |-> HullTy(fields[i])] \o <<>>)
HullTy(ty) ==
  CASE ty[1] = "word" -> Word
    [] IsData(ty) -> SumOf([c \in DOMAIN Constructors(ty) |-> PayloadTy(Constructors(ty)[c])] \o <<>>)
    [] OTHER -> TupleTy([i \in DOMAIN ty[2] |-> HullTy(ty[2][i])] \o <<>>)

RightTy(ty) == IF ty[1] \in {"prod", "sum"} THEN ty[3] ELSE Unit

-------------------------------------------------------------------------------
(* Expressions.                                                                *)
HWord(n) == <<"word", Word, n, <<>>>>
HUnit == <<"unit", Unit, 0, <<>>>>
HVar(x, ty) == <<"var", ty, x, <<>>>>
HPair(ty, a, b) == <<"pair", ty, 0, <<a, b>>>>
HPart(kind, ty, e) == <<kind, ty, 0, <<e>>>>
HCall(ty, f, args) == <<"call", ty, f, args>>
HIf(ty, c, a, b) == <<"if", ty, 0, <<c, a, b>>>>
HBool(ty, b) == HPart(IF b THEN "inr" ELSE "inl", ty, HUnit)
Retyped(e, ty) == [e EXCEPT ![2] = ty]

RECURSIVE ProductExpr(_, _), ProductFieldExprs(_, _), Encode(_, _, _, _), ExprReadsVar(_, _)
ProductExpr(ty, elems) ==
  CASE elems = <<>> -> HUnit
    [] Len(elems) = 1 -> Retyped(elems[1], ty)
    [] OTHER -> HPair(ty, elems[1], ProductExpr(RightTy(ty), Tail(elems)))

ProductFieldExprs(base, fields) ==
  CASE fields = <<>> -> <<>>
    [] Len(fields) = 1 -> <<Retyped(base, fields[1])>>
    [] OTHER -> <<HPart("fst", fields[1], base)>> \o ProductFieldExprs(HPart("snd", RightTy(base[2]), base), Tail(fields))

Encode(target, index, arity, payload) ==
  IF arity <= 1 THEN Retyped(payload, target)
  ELSE IF index = 1 THEN HPart("inl", target, payload)
  ELSE HPart("inr", target, Encode(RightTy(target), index - 1, arity - 1, payload))

ExprReadsVar(e, x) == (e[1] = "var" /\ e[3] = x) \/ \E i \in DOMAIN e[4] : ExprReadsVar(e[4][i], x)

BinOpName == [add |-> <<"add">>, sub |-> <<"sub">>, mul |-> <<"mul">>, eq |-> <<"primEqWord">>, lt |-> <<"lt">>, gt |-> <<"gt">>,
              bitand |-> <<"and">>, bitor |-> <<"or">>, bitxor |-> <<"xor">>]

RECURSIVE EmitExpr(_, _)
EmitBinOp(env, ty, op, a, b) ==
  CASE op \in {"shl", "shr"} -> HCall(ty, <<op>>, <<EmitExpr(env, b), EmitExpr(env, a)>>)
    [] op = "ne" -> HCall(ty, <<"iszero">>, <<HCall(ty, <<"primEqWord">>, <<EmitExpr(env, a), EmitExpr(env, b)>>)>>)
    [] op = "le" -> HCall(ty, <<"iszero">>, <<HCall(ty, <<"gt">>, <<EmitExpr(env, a), EmitExpr(env, b)>>)>>)
    [] op = "ge" -> HCall(ty, <<"iszero">>, <<HCall(ty, <<"lt">>, <<EmitExpr(env, a), EmitExpr(env, b)>>)>>)
    [] op = "and" -> HIf(ty, EmitExpr(env, a), EmitExpr(env, b), HBool(ty, FALSE))
    [] op = "or" -> HIf(ty, EmitExpr(env, a), HBool(ty, TRUE), EmitExpr(env, b))
    [] OTHER -> HCall(ty, BinOpName[op], <<EmitExpr(env, a), EmitExpr(env, b)>>)

EmitUnaryOp(env, ty, op, a) ==
  IF op = "not" THEN HIf(ty, EmitExpr(env, a), HBool(ty, FALSE), HBool(ty, TRUE))
  ELSE HCall(ty, <<"not">>, <<EmitExpr(env, a)>>)

EmitConstructor(env, ty, index, args) ==
  LET ctors == Constructors(ty)
      payload == ProductExpr(PayloadTy(ctors[index]), [i \in DOMAIN args |-> EmitExpr(env, args[i])] \o <<>>)
  IN  Encode(HullTy(ty), index, Len(ctors), payload)

(* A name stands for what it is bound to, which may have another spelling.     *)
EmitExpr(env, e) ==
  With(HullTy(e[2]), LAMBDA ty :
  With([i \in DOMAIN e[4] |-> EmitExpr(env, e[4][i])] \o <<>>, LAMBDA parts :
    CASE e[1] = "var" -> IF e[3] \in DOMAIN env THEN env[e[3]] ELSE HVar(e[3], ty)
      [] e[1] = "lit" -> HWord(e[3] % WordValues)
      [] e[1] = "tuple" -> ProductExpr(ty, parts)
      [] e[1] = "call" -> HCall(ty, e[3], parts)
      [] e[1] = "con" -> EmitConstructor(env, e[2], e[3], e[4])
      [] e[1] = "bin" -> EmitBinOp(env, ty, e[3], e[4][1], e[4][2])
      [] e[1] = "un" -> EmitUnaryOp(env, ty, e[3], e[4][1])
      [] e[1] = "if" -> HIf(ty, parts[1], parts[2], parts[3])
      [] e[1] = "field" -> ProductFieldExprs(parts[1], HullTys(e[4][1][2][2]))[e[3]]))

-------------------------------------------------------------------------------
(* Statements.  The emitter counts its fresh names, knows what each name is    *)
(* bound to, and which declarations have been hoisted under which name.        *)
HLet(x, ty) == <<"let", x, ty>>
HAssign(lhs, rhs) == <<"assign", lhs, rhs>>
HBlock(body) == <<"block", body>>
HMatch(target, e, alts) == <<"match", target, e, alts>>
Alt(pat, binder, body) == [pat |-> pat, binder |-> binder, body |-> body]
HRevert == <<"revert">>

Emitter == [fresh |-> 0, env |-> <<>>, pre |-> <<>>]
Out(stmts, st) == [stmts |-> stmts, st |-> st]
FreshTemp(st, purpose) == <<purpose, st.fresh>>
Used(st, n) == [st EXCEPT !.fresh = @ + n]
BindExpr(st, x, e) == [st EXCEPT !.env = (x :> e) @@ @]
(* A scope, or a region whose hoisted declarations end with it, is left.       *)
LeaveScope(st, inner) == [st EXCEPT !.fresh = inner.fresh]
LeaveRegion(st, inner) == [inner EXCEPT !.pre = st.pre]

EmitLet(st, id, x, mty, init) ==
  With(HullTy(mty), LAMBDA ty :
  With(EmitExpr(st.env, init[1]), LAMBDA rhs :
  With(HVar(st.pre[id], ty), LAMBDA hoisted :
  With(HVar(x, ty), LAMBDA local :
  LET default == FreshTemp(st, "$let_default")
      temp == FreshTemp(st, "$let_init") IN
    IF id \in DOMAIN st.pre
    THEN IF init # <<>> THEN Out(<<HAssign(hoisted, rhs)>>, BindExpr(st, x, hoisted))
         ELSE Out(<<HLet(default, ty), HAssign(hoisted, HVar(default, ty))>>, BindExpr(Used(st, 1), x, hoisted))
    ELSE IF init = <<>> THEN Out(<<HLet(x, ty)>>, BindExpr(st, x, local))
    ELSE IF ExprReadsVar(rhs, x)
    THEN Out(<<HLet(temp, ty), HAssign(HVar(temp, ty), rhs), HLet(x, ty), HAssign(local, HVar(temp, ty))>>,
             BindExpr(Used(st, 1), x, local))
    ELSE Out(<<HLet(x, ty), HAssign(local, rhs)>>, BindExpr(st, x, local))))))

(* The declarations of a region that are not inside an explicit scope.         *)
RECURSIVE LeakingLets(_)
LeakingLets(stmts) ==
  IF stmts = <<>> THEN <<>>
  ELSE LET s == Head(stmts)
       IN  (CASE s[1] = "let" -> <<s>>
              [] s[1] = "if" -> LeakingLets(s[3]) \o LeakingLets(s[4])
              [] s[1] = "for" -> LeakingLets(s[2]) \o LeakingLets(s[4]) \o LeakingLets(s[5])
              [] OTHER -> <<>>) \o LeakingLets(Tail(stmts))

PredeclareControlFlowLocals(st, bodies) ==
  With(SelectSeq(LeakingLets(FlattenSeq(bodies)), LAMBDA s : s[2] \notin DOMAIN st.pre), LAMBDA lets :
  LET name(i) == <<"$if_local", st.fresh + i - 1>> IN
    Out([i \in DOMAIN lets |-> HLet(name(i), HullTy(lets[i][4]))] \o <<>>,
        [Used(st, Len(lets)) EXCEPT
           !.pre = [id \in {lets[i][2] : i \in DOMAIN lets} |-> name(CHOOSE i \in DOMAIN lets : lets[i][2] = id)] @@ @]))

-------------------------------------------------------------------------------
(* Decision trees.                                                             *)
RECURSIVE NestedMatch(_, _, _), EmitStmts(_, _), TreeToBody(_, _, _, _), Branches(_, _, _, _, _), AtomicAlts(_, _, _, _, _)
NestedMatch(scrutinee, target, branches) ==
  IF Len(branches) = 1 THEN HBlock(branches[1].body)
  ELSE LET right == branches[2].binder
           rest == NestedMatch(HVar(right, RightTy(target)), RightTy(target), Tail(branches))
       IN  HMatch(target, scrutinee, <<Alt(<<"inl">>, branches[1].binder, branches[1].body), Alt(<<"inr">>, right, <<rest>>)>>)

WithChildren(occs, occurrence, exprs) ==
  [o \in {Append(occurrence, i) : i \in DOMAIN exprs} |-> exprs[o[Len(o)]]] @@ occs

(* What is bound is captured before any name of the arm is declared.           *)
LeafToBody(st, occs, leaf, arms) ==
  LET bs == SelectSeq(leaf.bindings, LAMBDA b : b[2] \in DOMAIN occs)
      e(i) == occs[bs[i][2]]
      temp(i) == HVar(<<"$match_bind", st.fresh + i - 1>>, e(i)[2])
      name(i) == HVar(bs[i][1], e(i)[2])
      captured == FlattenSeq([i \in DOMAIN bs |-> <<HLet(temp(i)[3], e(i)[2]), HAssign(temp(i), e(i))>>] \o <<>>)
      declared == FlattenSeq([i \in DOMAIN bs |-> <<HLet(name(i)[3], e(i)[2]), HAssign(name(i), temp(i))>>] \o <<>>)
      env == FoldLeft(LAMBDA env, i : (bs[i][1] :> name(i)) @@ env, st.env, [i \in DOMAIN bs |-> i]) IN
  With(EmitStmts([Used(st, Len(bs)) EXCEPT !.env = env], arms[leaf.arm]), LAMBDA body :
    Out(<<HBlock(captured \o declared \o body.stmts)>>, LeaveScope(st, body.st)))

(* One branch for every constructor from the k-th on, in order.                *)
Branches(st, occs, tree, arms, k) ==
  LET ctors == Constructors(tree.ty)
  IN  IF k > Len(ctors) THEN Out(<<>>, st)
      ELSE LET binder == FreshTemp(st, "$alt")
               payload == HVar(binder, PayloadTy(ctors[k]))
               next == WithChildren(occs, tree.occurrence, ProductFieldExprs(payload, HullTys(ctors[k])))
               sub == IF Contains(tree.heads, k) THEN tree.trees[CHOOSE h \in DOMAIN tree.heads : tree.heads[h] = k]
                      ELSE tree.trees[Len(tree.trees)] IN
           With(TreeToBody(Used(st, 1), next, sub, arms), LAMBDA body :
           With(Branches(body.st, occs, tree, arms, k + 1), LAMBDA rest :
             Out(<<[binder |-> binder, body |-> body.stmts]>> \o rest.stmts, rest.st)))

AtomicAlts(st, occs, tree, arms, k) ==
  IF k > Len(tree.trees) THEN Out(<<>>, st)
  ELSE LET pat == IF k <= Len(tree.heads) THEN <<"lit", tree.heads[k]>> ELSE <<"wild">> IN
       With(TreeToBody(Used(st, 1), occs, tree.trees[k], arms), LAMBDA body :
       With(AtomicAlts(body.st, occs, tree, arms, k + 1), LAMBDA rest :
         Out(<<Alt(pat, FreshTemp(st, "$alt"), body.stmts)>> \o rest.stmts, rest.st)))

TreeToBody(st, occs, tree, arms) ==
  CASE tree.kind = "leaf" -> LeafToBody(st, occs, tree, arms)
    [] tree.kind = "fail" -> Out(<<HRevert>>, st)
    [] tree.occurrence \notin DOMAIN occs -> Out(<<HRevert>>, st)
    [] tree.kind = "product" ->
         TreeToBody(st, WithChildren(occs, tree.occurrence, ProductFieldExprs(occs[tree.occurrence], HullTys(tree.fields))), tree.tree, arms)
    [] tree.kind = "switch" ->
         With(Branches(st, occs, tree, arms, 1), LAMBDA bs :
           Out(<<NestedMatch(occs[tree.occurrence], HullTy(tree.ty), bs.stmts)>>, bs.st))
    [] tree.kind = "atomic" ->
         With(AtomicAlts(st, occs, tree, arms, 1), LAMBDA alts :
           Out(<<HMatch(Word, occs[tree.occurrence], alts.stmts)>>, alts.st))

(* A scrutinee that is neither a literal nor a name is computed once.          *)
EmitMatch(st, scrutinees, arms) ==
  With([i \in DOMAIN scrutinees |-> EmitExpr(st.env, scrutinees[i])], LAMBDA es :
  With({i \in DOMAIN es : es[i][1] \in {"word", "unit", "var"}}, LAMBDA kept :
  LET rank(i) == Cardinality({j \in DOMAIN es \ kept : j < i})
      temp(i) == HVar(<<"$match_scrutinee", st.fresh + rank(i)>>, es[i][2])
      computed == FlattenSeq([i \in DOMAIN es |-> IF i \in kept THEN <<>>
                                ELSE <<HLet(temp(i)[3], es[i][2]), HAssign(temp(i), es[i])>>] \o <<>>)
      occs == [o \in {<<i>> : i \in DOMAIN es} |-> IF o[1] \in kept THEN es[o[1]] ELSE temp(o[1])] IN
  With([i \in DOMAIN scrutinees |-> Column(<<i>>, scrutinees[i][2])] \o <<>>, LAMBDA columns :
  With(SelectSeq([i \in DOMAIN arms |-> Row(i, arms[i].pats)] \o <<>>, LAMBDA row : Len(row.pats) = Len(columns)), LAMBDA rows :
  With(TreeToBody(Used(st, Cardinality(DOMAIN es \ kept)), occs, CompileMatchMatrix(columns, rows).tree,
                  [i \in DOMAIN arms |-> arms[i].body]), LAMBDA body :
    IF columns = <<>> \/ rows = <<>> THEN Out(<<HRevert>>, st) ELSE Out(computed \o body.stmts, body.st))))))

-------------------------------------------------------------------------------
(* The branches of an if share the scope around it; the one for true is first. *)
EmitIf(st, cond, then, else) ==
  With(PredeclareControlFlowLocals(st, <<then, else>>), LAMBDA pre :
  With(EmitStmts(pre.st, then), LAMBDA a :
  With(EmitStmts(a.st, else), LAMBDA b :
  LET alt(n) == <<"$alt", b.st.fresh + n>> IN
    Out(pre.stmts \o <<HMatch(HullTy(cond[2]), EmitExpr(st.env, cond),
                              <<Alt(<<"inr">>, alt(0), a.stmts), Alt(<<"inl">>, alt(1), b.stmts)>>)>>,
        LeaveRegion(st, Used(b.st, 2))))))

(* Resolved in the order of the source: initialiser, condition, post, body.    *)
EmitFor(st, init, cond, post, body) ==
  With(EmitStmts(st, init), LAMBDA i :
  With(PredeclareControlFlowLocals(i.st, <<post, body>>), LAMBDA pre :
  With(EmitStmts(pre.st, post), LAMBDA p :
  With(EmitStmts(p.st, body), LAMBDA b :
    Out(i.stmts \o pre.stmts \o <<<<"for", EmitExpr(pre.st.env, cond), p.stmts, b.stmts>>>>, LeaveRegion(i.st, b.st))))))

-------------------------------------------------------------------------------
(* Inline assembly.  A free name is renamed to what it is bound to; the names  *)
(* an assembly block declares itself, and its functions, are left alone.       *)
Resolved(env, locals, x) ==
  IF x \notin locals /\ x \in DOMAIN env /\ env[x][1] = "var" THEN env[x][3] ELSE x

RECURSIVE ResolveExpr(_, _, _), ResolveSeq(_, _, _)
ResolveExpr(env, locals, e) ==
  CASE e[1] = "id" -> <<"id", Resolved(env, locals, e[2])>>
    [] e[1] = "call" -> <<"call", e[2], [i \in DOMAIN e[3] |-> ResolveExpr(env, locals, e[3][i])] \o <<>>>>
    [] OTHER -> e

YulDeclared(s) == IF s[1] = "let" THEN ToSet(s[2]) ELSE {}
DeclaredBy(stmts) == UNION {YulDeclared(stmts[i]) : i \in DOMAIN stmts}

ResolveStmt(env, locals, s) ==
  LET expr(e) == ResolveExpr(env, locals, e)
      body(b) == ResolveSeq(env, locals, b) IN
  With(locals \cup DeclaredBy(s[2]), LAMBDA inner :
    CASE s[1] = "let" -> <<"let", s[2], [i \in DOMAIN s[3] |-> expr(s[3][i])] \o <<>>>>
      [] s[1] = "assign" -> <<"assign", [i \in DOMAIN s[2] |-> Resolved(env, locals, s[2][i])] \o <<>>, expr(s[3])>>
      [] s[1] = "expr" -> <<"expr", expr(s[2])>>
      [] s[1] = "block" -> <<"block", body(s[2])>>
      [] s[1] = "if" -> <<"if", expr(s[2]), body(s[3])>>
      [] s[1] = "for" -> <<"for", body(s[2]), ResolveExpr(env, inner, s[3]), ResolveSeq(env, inner, s[4]), ResolveSeq(env, inner, s[5])>>
      [] s[1] = "switch" -> <<"switch", expr(s[2]), [i \in DOMAIN s[3] |-> <<s[3][i][1], body(s[3][i][2])>>] \o <<>>,
                              [i \in DOMAIN s[4] |-> body(s[4][i])] \o <<>>>>
      [] OTHER -> s)
ResolveSeq(env, locals, stmts) ==
  IF stmts = <<>> THEN <<>>
  ELSE <<ResolveStmt(env, locals, Head(stmts))>> \o ResolveSeq(env, locals \cup YulDeclared(Head(stmts)), Tail(stmts))

EmitStmt(st, s) ==
  CASE s[1] = "let" -> EmitLet(st, s[2], s[3], s[4], s[5])
    [] s[1] = "return" -> Out(<<<<"return", IF s[2] = <<>> THEN HUnit ELSE EmitExpr(st.env, s[2][1])>>>>, st)
    [] s[1] = "expr" -> Out(<<<<"expr", EmitExpr(st.env, s[2])>>>>, st)
    [] s[1] = "set" -> Out(<<HAssign(EmitExpr(st.env, s[2]), EmitExpr(st.env, s[3]))>>, st)
    [] s[1] = "op" -> With(EmitExpr(st.env, s[3]), LAMBDA lhs :
                        Out(<<HAssign(lhs, HCall(lhs[2], s[2], <<lhs, EmitExpr(st.env, s[4])>>))>>, st))
    [] s[1] = "match" -> EmitMatch(st, s[2], s[3])
    [] s[1] = "if" -> EmitIf(st, s[2], s[3], s[4])
    [] s[1] = "block" -> With(EmitStmts(st, s[2]), LAMBDA b :
                           Out(<<HBlock(b.stmts)>>, LeaveScope(st, b.st)))
    [] s[1] = "asm" -> Out(<<<<"asm", ResolveSeq(st.env, {}, s[2])>>>>, st)
    [] s[1] = "for" -> EmitFor(st, s[2], s[3], s[4], s[5])
    [] OTHER -> Out(<<s>>, st)
EmitStmts(st, stmts) ==
  IF stmts = <<>> THEN Out(<<>>, st)
  ELSE With(EmitStmt(st, Head(stmts)), LAMBDA first :
       With(EmitStmts(first.st, Tail(stmts)), LAMBDA rest :
         Out(first.stmts \o rest.stmts, rest.st)))

(* Parameters are not bound: their names stand for themselves.                 *)
RECURSIVE EmitFunctions(_, _)
EmitFunction(st, f) ==
  With(EmitStmts(st, f.body), LAMBDA body :
    Out(<<[name |-> f.name, args |-> [i \in DOMAIN f.params |-> <<f.params[i][1], HullTy(f.params[i][2])>>] \o <<>>,
           ret |-> HullTy(f.ret), body |-> body.stmts]>>, LeaveScope(st, body.st)))
EmitFunctions(st, fs) ==
  IF fs = <<>> THEN <<>>
  ELSE With(EmitFunction(st, Head(fs)), LAMBDA f :
         f.stmts \o EmitFunctions(f.st, Tail(fs)))

EmitModule(program) == EmitFunctions(Emitter, program)

-------------------------------------------------------------------------------
(* The checker. Diagnostics are kept as a set of kinds.                        *)

Checked(ty, diags) == [ty |-> ty, diags |-> diags]
Sig(args, ret) == [args |-> args, ret |-> ret]
Words(n) == [i \in 1 .. n |-> Word]
Report(wrong, kind) == IF wrong THEN {kind} ELSE {}
Expect(expected, actual) == Report(expected # actual, "typeMismatch")

(* The built-in functions that the programs use, as the Hull and as assembly   *)
(* see them: a comparison is a truth value in the one and a word in the other. *)
WordOps == {<<"add">>, <<"sub">>, <<"mul">>, <<"and">>, <<"or">>, <<"xor">>, <<"shl">>, <<"shr">>}
Comparisons == {<<"lt">>, <<"gt">>, <<"eq">>}
Effects == [x \in {<<"sstore">>, <<"revert">>} |-> Sig(Words(2), Unit)]
Reads == [x \in {<<"sload">>, <<"not">>} |-> Sig(Words(1), Word)]
BuiltinFuns ==
  [f \in WordOps |-> Sig(Words(2), Word)] @@ [f \in Comparisons \cup {<<"primEqWord">>} |-> Sig(Words(2), BoolSum)]
    @@ Effects @@ Reads @@ (<<"iszero">> :> Sig(<<BoolSum>>, BoolSum)) @@ (<<"wordToInteger">> :> Sig(Words(1), Word))
AsmBuiltins ==
  [f \in WordOps \cup Comparisons |-> Sig(Words(2), Word)] @@ Effects @@ Reads
    @@ (<<"iszero">> :> Sig(Words(1), Word)) @@ (<<"pop">> :> Sig(Words(1), Unit))

RECURSIVE ReturnCount(_), NReturns(_)
ReturnCount(ty) ==
  CASE ty[1] = "word" -> 1
    [] ty[1] = "unit" -> 0
    [] ty[1] = "prod" -> ReturnCount(ty[2]) + ReturnCount(ty[3])
    [] ty[1] = "sum" -> 1 + With(ReturnCount(ty[2]), LAMBDA a :
                            With(ReturnCount(ty[3]), LAMBDA b :
                              IF a > b THEN a ELSE b))
NReturns(n) ==
  CASE n = 0 -> Unit
    [] n = 1 -> Word
    [] OTHER -> Prod(Word, NReturns(n - 1))

-------------------------------------------------------------------------------
(* Expressions.  The environment knows variables, functions, the functions of  *)
(* the assembly around, and what the function returns.                         *)
RECURSIVE InferExpr(_, _)
CheckExpr(env, e) ==
  With(InferExpr(env, e), LAMBDA inferred :
    Checked(inferred.ty, inferred.diags \cup Report(e[2] # inferred.ty, "annotation")))

InferExpr(env, e) ==
  With([i \in DOMAIN e[4] |-> CheckExpr(env, e[4][i])], LAMBDA parts :
  With(UNION {parts[i].diags : i \in DOMAIN parts}, LAMBDA diags :
  LET part(kind, i) == IF parts[1].ty[1] = "prod" THEN Checked(parts[1].ty[i], diags) ELSE Checked(e[2], diags \cup {"expectedProduct"})
      inject(i) == IF e[2][1] = "sum" THEN Checked(e[2], diags \cup Expect(e[2][i], parts[1].ty)) ELSE Checked(e[2], {"expectedSum"}) IN
    CASE e[1] = "word" -> Checked(Word, {})
      [] e[1] = "unit" -> Checked(Unit, {})
      [] e[1] = "var" -> IF e[3] \in DOMAIN env.vars THEN Checked(env.vars[e[3]], {}) ELSE Checked(e[2], {"undefinedVariable"})
      [] e[1] = "pair" -> Checked(Prod(parts[1].ty, parts[2].ty), diags)
      [] e[1] = "fst" -> part("fst", 2)
      [] e[1] = "snd" -> part("snd", 3)
      [] e[1] = "inl" -> inject(2)
      [] e[1] = "inr" -> inject(3)
      [] e[1] = "if" -> Checked(e[2], diags \cup Report(parts[1].ty # BoolSum, "expectedBool")
                                        \cup Expect(e[2], parts[2].ty) \cup Expect(e[2], parts[3].ty))
      [] e[1] = "call" /\ e[3] \notin DOMAIN env.funs -> Checked(e[2], {"undefinedFunction"})
      [] e[1] = "call" -> LET sig == env.funs[e[3]]
                          IN  IF Len(sig.args) # Len(e[4]) THEN Checked(sig.ret, {"arity"})
                              ELSE Checked(sig.ret, diags \cup UNION {Expect(sig.args[i], parts[i].ty) : i \in DOMAIN parts})))

-------------------------------------------------------------------------------
(* Inline assembly.                                                            *)
Passed(env, diags) == [env |-> env, diags |-> diags]
Declare(env, xs, ty) == [env EXCEPT !.vars = [x \in ToSet(xs) |-> ty] @@ @]

(* A function is looked up among the built-in ones, in the assembly around,    *)
(* and then among those of the Hull; all its arguments are words.              *)
LookupAsmFun(env, f) ==
  LET of(sig) == <<Sig(Words(Len(sig.args)), NReturns(ReturnCount(sig.ret)))>>
  IN  CASE f[1] = "usr" -> IF Tail(f) \in DOMAIN env.funs THEN of(env.funs[Tail(f)]) ELSE <<>>
        [] f \in DOMAIN AsmBuiltins -> <<AsmBuiltins[f]>>
        [] f \in DOMAIN env.asm -> of(env.asm[f])
        [] f \in DOMAIN env.funs -> of(env.funs[f])
        [] OTHER -> <<>>

RECURSIVE CheckAsmExpr(_, _), CheckAsmSeq(_, _)
CheckAsmArg(env, e) ==
  With(CheckAsmExpr(env, e), LAMBDA actual :
    actual.diags \cup Report(actual.ty # Word, "argument"))
CheckAsmExpr(env, e) ==
  CASE e[1] = "lit" -> Checked(Word, {})
    [] e[1] = "id" -> IF e[2] \in DOMAIN env.vars THEN Checked(env.vars[e[2]], {}) ELSE Checked(Word, {"undefinedVariable"})
    [] e[1] = "call" ->
         With(LookupAsmFun(env, e[2]), LAMBDA found :
         With(IF found = <<>> THEN Sig(<<>>, Unit) ELSE found[1], LAMBDA sig :
         With(Report(found = <<>>, "undefinedFunction"), LAMBDA undefined :
           IF Len(sig.args) # Len(e[3]) THEN Checked(sig.ret, undefined \cup {"arity"})
           ELSE Checked(sig.ret, undefined \cup UNION {CheckAsmArg(env, e[3][i]) : i \in DOMAIN e[3]}))))

AsmFunctions(stmts) == SelectSeq(stmts, LAMBDA s : s[1] = "function")
PredeclareAsmFunctions(env, stmts) ==
  LET fs == AsmFunctions(stmts)
      sig(f) == With(fs[CHOOSE i \in DOMAIN fs : fs[i][2] = f], LAMBDA d :
                  Sig(Words(Len(d[3])), NReturns(Len(d[4])))) IN
  With({fs[i][2] : i \in DOMAIN fs}, LAMBDA names :
    Passed([env EXCEPT !.asm = [f \in names |-> sig(f)] @@ @], Report(Cardinality(names) < Len(fs), "duplicateFunction")))

(* The variables a block declares are the caller's to forget.                  *)
CheckAsmBlock(env, stmts) ==
  With(PredeclareAsmFunctions(env, stmts), LAMBDA declared :
  With(CheckAsmSeq(declared.env, stmts), LAMBDA inner :
    Passed([env EXCEPT !.vars = inner.env.vars], declared.diags \cup inner.diags)))

Counts(n, actual) == Report(ReturnCount(actual) # n, "returnCount")
CheckAsmStmt(env, s) ==
  LET scoped(stmts) == Passed(env, CheckAsmBlock(env, stmts).diags)
      value(e) == CheckAsmExpr(env, e)
  IN  CASE s[1] = "let" ->
             Passed(Declare(env, s[2], Word),
                    IF s[3] = <<>> THEN {} ELSE value(s[3][1]).diags \cup Counts(Len(s[2]), value(s[3][1]).ty))
        [] s[1] = "assign" ->
             Passed(env, value(s[3]).diags \cup Counts(Len(s[2]), value(s[3]).ty)
                           \cup UNION {IF x \notin DOMAIN env.vars THEN {"undefinedVariable"} ELSE Report(env.vars[x] # Word, "wordAssignment") : x \in ToSet(s[2])})
        [] s[1] = "expr" -> Passed(env, value(s[2]).diags \cup Report(value(s[2]).ty # Unit, "notUnit"))
        [] s[1] = "block" -> scoped(s[2])
        [] s[1] = "if" -> With(CheckAsmBlock(env, s[3]), LAMBDA body :
                            Passed(body.env, CheckAsmArg(env, s[2]) \cup body.diags))
        [] s[1] = "for" ->
             With(PredeclareAsmFunctions(env, s[2]), LAMBDA declared :
             With(CheckAsmSeq(declared.env, s[2]), LAMBDA init :
               Passed(env, declared.diags \cup init.diags \cup CheckAsmArg(init.env, s[3])
                             \cup CheckAsmBlock(init.env, s[4]).diags \cup CheckAsmBlock(init.env, s[5]).diags)))
        [] s[1] = "switch" ->
             LET bodies == [i \in DOMAIN s[3] |-> s[3][i][2]] \o s[4]
                 checked == FoldLeft(LAMBDA acc, b : With(CheckAsmBlock(acc.env, b), LAMBDA r :
                                                       Passed(r.env, acc.diags \cup r.diags)),
                                     Passed(env, CheckAsmArg(env, s[2])), bodies)
             IN  checked
        [] s[1] = "function" ->
             LET inner == Declare([env EXCEPT !.vars = <<>>], s[3] \o s[4], Word) IN Passed(env, CheckAsmBlock(inner, s[5]).diags)
        [] OTHER -> Passed(env, {})
CheckAsmSeq(env, stmts) ==
  IF stmts = <<>> THEN Passed(env, {})
  ELSE With(CheckAsmStmt(env, Head(stmts)), LAMBDA first :
       With(CheckAsmSeq(first.env, Tail(stmts)), LAMBDA rest :
         Passed(rest.env, first.diags \cup rest.diags)))

-------------------------------------------------------------------------------
(* Whether control can leave a body at its end.                                *)
RECURSIVE AsmTerminates(_), BodyTerminates(_)
AsmTerminates(stmts) ==
  stmts # <<>> /\
    LET s == stmts[Len(stmts)]
    IN  \/ s[1] = "block" /\ AsmTerminates(s[2])
        \/ s[1] = "expr" /\ s[2][1] = "call" /\ s[2][2] = <<"revert">>
        \/ s[1] = "switch" /\ s[3] # <<>> /\ s[4] # <<>>
             /\ \A i \in DOMAIN s[3] : AsmTerminates(s[3][i][2])
             /\ AsmTerminates(s[4][1])

BodyTerminates(body) ==
  body # <<>> /\
    LET s == body[Len(body)]
    IN  \/ s[1] \in {"return", "revert"}
        \/ s[1] = "block" /\ BodyTerminates(s[2])
        \/ s[1] = "match" /\ s[4] # <<>> /\ \A i \in DOMAIN s[4] : BodyTerminates(s[4][i].body)
        \/ s[1] = "asm" /\ AsmTerminates(s[2])

(* Nothing when the pattern cannot match the type.                             *)
PayloadType(target, pat) ==
  CASE target[1] = "sum" /\ pat[1] = "inl" -> <<target[2]>>
    [] target[1] = "sum" /\ pat[1] = "inr" -> <<target[3]>>
    [] pat[1] = "wild" -> <<target>>
    [] target[1] = "word" /\ pat[1] = "lit" -> <<Word>>
    [] OTHER -> <<>>

RECURSIVE CheckBody(_, _)
CheckAlt(env, target, alt) ==
  With(PayloadType(target, alt.pat), LAMBDA payload :
  LET inner == Declare(env, <<alt.binder>>, IF payload = <<>> THEN Unit ELSE payload[1]) IN
    Report(payload = <<>>, "badPattern") \cup CheckBody(inner, alt.body).diags)

CheckStmt(env, s) ==
  LET expr(e) == CheckExpr(env, e)
  IN  CASE s[1] = "let" -> Passed(Declare(env, <<s[2]>>, s[3]), {})
        [] s[1] = "assign" -> Passed(env, expr(s[2]).diags \cup expr(s[3]).diags \cup Expect(expr(s[2]).ty, expr(s[3]).ty))
        [] s[1] = "expr" -> Passed(env, expr(s[2]).diags)
        [] s[1] = "return" -> Passed(env, expr(s[2]).diags \cup Expect(env.ret, expr(s[2]).ty))
        [] s[1] = "block" -> Passed(env, CheckBody(env, s[2]).diags)
        [] s[1] = "for" ->
             With(CheckBody(env, s[3]), LAMBDA post :
               Passed(env, expr(s[2]).diags \cup Report(expr(s[2]).ty # BoolSum, "expectedBool")
                             \cup post.diags \cup CheckBody(post.env, s[4]).diags))
        [] s[1] = "match" ->
             Passed(env, expr(s[3]).diags \cup Expect(s[2], expr(s[3]).ty) \cup UNION {CheckAlt(env, s[2], s[4][i]) : i \in DOMAIN s[4]})
        [] s[1] = "asm" -> Passed(env, CheckAsmBlock(env, s[2]).diags)
        [] OTHER -> Passed(env, {})
CheckBody(env, body) ==
  IF body = <<>> THEN Passed(env, {})
  ELSE With(CheckStmt(env, Head(body)), LAMBDA first :
       With(CheckBody(first.env, Tail(body)), LAMBDA rest :
         Passed(rest.env, first.diags \cup rest.diags)))

CheckFunction(funs, f) ==
  LET vars == [x \in {f.args[i][1] : i \in DOMAIN f.args} |-> f.args[CHOOSE i \in DOMAIN f.args : f.args[i][1] = x][2]]
  IN  CheckBody([vars |-> vars, funs |-> funs, asm |-> <<>>, ret |-> f.ret], f.body).diags
        \cup Report(ReturnCount(f.ret) > 0 /\ ~BodyTerminates(f.body), "missingTerminator")

CheckProgram(fs) ==
  With([g \in {fs[i].name : i \in DOMAIN fs} |->
          LET f == fs[CHOOSE i \in DOMAIN fs : fs[i].name = g] IN Sig([a \in DOMAIN f.args |-> f.args[a][2]] \o <<>>, f.ret)], LAMBDA own :
    UNION {CheckFunction(own @@ BuiltinFuns, fs[i]) : i \in DOMAIN fs}
      \cup Report((DOMAIN own) \cap (DOMAIN BuiltinFuns) # {} \/ Cardinality(DOMAIN own) < Len(fs), "duplicateFunction"))
=============================================================================
