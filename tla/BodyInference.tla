---------------------------- MODULE BodyInference ----------------------------
(* Inference of a body: one walk over its statements that gives every          *)
(* expression and pattern a type, pushes what is expected of an expression     *)
(* down to it, collects class obligations for the end, and after a mismatch    *)
(* poisons what it has reported and goes on.  A node is <<kind, name, parts,   *)
(* type>>, whether expression, pattern or statement, and is known by its path; *)
(* names are resolved, so a local is known by its name.                        *)
EXTENDS Unification, SequencesExt, TLC

CONSTANTS Programs,    \* the bodies, each with its parameters' types and its result
          Schemes,     \* the type schemes of functions, constructors and class methods
          Instances    \* the types that have an instance of each class

VARIABLES program,     \* [params, ret, body]
          st,          \* the inference context (InferCtx)
          index,       \* the top-level statement to infer next
          phase        \* "body", "solve" or "done"

vars == <<program, st, index, phase>>

Word == Named("word", <<>>)
Bool == Named("bool", <<>>)
Uint256 == Named("uint256", <<>>)
Closure(at) == <<"closure", at, <<>>>>

KindOf(n) == n[1]
NameOf(n) == n[2]
SubsOf(n) == n[3]
TypeOf(n) == n[4]
Params(f) == SubSeq(Parts(f), 1, f[2])
Ret(f) == Parts(f)[f[2] + 1]
At(seq, i) == IF i \in DOMAIN seq THEN seq[i] ELSE NoValue

R(s, ty) == [st |-> s, ty |-> ty]

-------------------------------------------------------------------------------
(* Reports, poison and the table.                                              *)

Poison(s, at) == [s EXCEPT !.poison = @ \cup {at}]
Report(s, kind, at) == [s EXCEPT !.reports = Append(@, <<kind, at>>)]
EmitError(s, kind, at) == Poison(Report(s, kind, at), at)

Fresh(s) == R([s EXCEPT !.tb = FreshVid(@)], Var(Len(s.tb.root) + 1))

UnifyAt(s, at, expected, actual) ==
  With(Unify(s.tb, expected, actual), LAMBDA u :
    IF u.ok THEN [ok |-> TRUE, st |-> [s EXCEPT !.tb = u.table]]
    ELSE [ok |-> FALSE, st |-> Report(s, "mismatch", at)])

(* For an expression or a pattern: what does not fit is poisoned.              *)
UnifyExpr(s, at, expected, actual) ==
  With(UnifyAt(s, at, expected, actual), LAMBDA u :
    IF u.ok THEN u ELSE [u EXCEPT !.st = Poison(@, at)])

RECURSIVE Instantiated(_, _)
Instantiated(t, base) ==
  IF Kind(t) = "bound" THEN Var(base + t[2])
  ELSE <<t[1], t[2], [i \in DOMAIN Parts(t) |-> Instantiated(Parts(t)[i], base)] \o <<>>>>

RECURSIVE FreshMany(_, _)
FreshMany(tb, n) == IF n = 0 THEN tb ELSE FreshMany(FreshVid(tb), n - 1)

(* A scheme with new variables; its class predicates become obligations.       *)
Instantiate(s, name, at) ==
  LET scheme == Schemes[name]
      base == Len(s.tb.root)
      obligations == [i \in DOMAIN scheme.preds |->
                        [class |-> scheme.preds[i][1], main |-> Instantiated(scheme.preds[i][2], base), args |-> <<>>, at |-> at]]
  IN  R([s EXCEPT !.tb = FreshMany(@, scheme.binders), !.pending = @ \o obligations], Instantiated(scheme.ty, base))

(* Result variables of a constructor that its payload cannot fix.              *)
RecordPhantom(s, at, ctor) ==
  With(Resolve(s.tb, ctor), LAMBDA ty :
  With(VarsOf(Ret(ty)) \ UNION {VarsOf(Params(ty)[i]) : i \in DOMAIN Params(ty)}, LAMBDA phantom :
    IF phantom = {} THEN s ELSE [s EXCEPT !.phantom = @ \cup {[at |-> at, vars |-> phantom]}]))

ClosureSig(s, ty) ==
  With(Resolve(s.tb, ty), LAMBDA t :
    IF Kind(t) = "closure" THEN s.sigs[t[2]] ELSE NoValue)
CallableSig(s, ty) ==
  With(Resolve(s.tb, ty), LAMBDA t :
    IF Kind(t) = "function" THEN t ELSE ClosureSig(s, t))

(* Where a function is expected a closure shows its signature, and only there. *)
AdjustClosure(s, expected, actual) ==
  IF Kind(Resolve(s.tb, expected)) = "function" /\ ClosureSig(s, actual) # NoValue
  THEN ClosureSig(s, actual) ELSE actual

CheckExprTy(s, at, expected, actual) ==
  With(AdjustClosure(s, expected, actual), LAMBDA ty :
  With(UnifyExpr(s, at, expected, ty), LAMBDA u :
    R(u.st, IF u.ok THEN ty ELSE Error)))

-------------------------------------------------------------------------------
(* An expression, an argument (which its caller unifies), a pattern or a       *)
(* statement, in one recursion.                                                *)
RECURSIVE Infer(_, _, _, _, _)

InferExpr(s, at, e, expected) == Infer("expr", s, at, e, expected)

IsReturn(n) == KindOf(n) = "return"

(* A sequence of statements has the type of the last.                          *)
InferSeq(s, at, stmts) ==
  FoldLeft(LAMBDA acc, i :
             Infer("stmt", IF i # Len(stmts) /\ IsReturn(stmts[i]) THEN Report(acc.st, "return", Append(at, i)) ELSE acc.st,
                   Append(at, i), stmts[i], NoValue),
           R(s, UnitTy), [i \in DOMAIN stmts |-> i])

(* A body that does not end in a return is held against the result as a whole. *)
InferBody(s, at, stmts) ==
  With(InferSeq(s, at, stmts), LAMBDA r :
    IF stmts # <<>> /\ IsReturn(Last(stmts)) THEN r
    ELSE R(UnifyAt(r.st, Append(at, Len(stmts)), Last(s.returns), r.ty).st, r.ty))

(* The parts from .. Len(parts), each with what is expected of it.             *)
InferEach(s, at, parts, from, expected) ==
  FoldLeft(LAMBDA acc, i : With(InferExpr(acc.st, Append(at, i), parts[i], At(expected, i + 1 - from)), LAMBDA r :
                             [st |-> r.st, tys |-> Append(acc.tys, r.ty)]),
           [st |-> s, tys |-> <<>>], [k \in 1 .. Len(parts) + 1 - from |-> k + from - 1])

(* An argument is unified with its parameter after its own expectation.        *)
InferArg(s, at, e, expected) ==
  IF expected = NoValue THEN InferExpr(s, at, e, NoValue)
  ELSE With(Infer("arg", s, at, e, expected), LAMBDA r :
       With(UnifyExpr(r.st, at, expected, r.ty), LAMBDA u :
         R(u.st, IF u.ok THEN r.ty ELSE Error)))
InferArgs(s, at, parts, from, expected) ==
  FoldLeft(LAMBDA acc, i : With(InferArg(acc.st, Append(at, i), parts[i], At(expected, i + 1 - from)), LAMBDA r :
                             [st |-> r.st, tys |-> Append(acc.tys, r.ty)]),
           [st |-> s, tys |-> <<>>], [k \in 1 .. Len(parts) + 1 - from |-> k + from - 1])

(* A call with another number of arguments than there are parameters.          *)
WrongArity(s, at, parts, from, params) ==
  R(InferEach(EmitError(s, "arity", at), at, parts, from, params).st, Error)

FreshEach(s, n) ==
  [st |-> [s EXCEPT !.tb = FreshMany(@, n)], tys |-> [i \in 1 .. n |-> Var(Len(s.tb.root) + i)] \o <<>>]

(* A constructor and its payload: its result meets the expectation first, so   *)
(* the payload is inferred against the parameters that leaves.                 *)
ApplyCtorExpr(s, at, ctor, parts, from, wanted) ==
  With(RecordPhantom(s, at, ctor), LAMBDA s1 :
  With(Resolve(s1.tb, ctor), LAMBDA ty :
  LET n == Len(parts) + 1 - from IN
  With(FreshEach(s1, n), LAMBDA open :
  LET s2 == UnifyExpr(open.st, at, Function(open.tys, wanted), ctor).st IN
  With(UnifyExpr(s2, at, wanted, Ret(ty)).st, LAMBDA s3 :
  With(InferArgs(s3, at, parts, from, [i \in 1 .. n |-> Resolve(s3.tb, open.tys[i])]), LAMBDA args :
    IF n # Len(Params(ty)) THEN WrongArity(s1, at, parts, from, Params(ty))
    ELSE R(UnifyExpr(args.st, at, Function(args.tys, wanted), ctor).st, wanted))))))

(* A shorthand constructor takes its type from what is expected of it.         *)
InferDotCtor(s, at, e, expected) ==
  With(IF expected = NoValue THEN NoValue ELSE Resolve(s.tb, expected), LAMBDA shape :
  With(Instantiate(s, NameOf(e), at), LAMBDA ctor :
    IF Kind(shape) = "named" /\ shape[2] = Schemes[NameOf(e)].owner
    THEN ApplyCtorExpr(ctor.st, at, ctor.ty, SubsOf(e), 1, expected)
    ELSE R(Report(InferEach(s, at, SubsOf(e), 1, <<>>).st, "shorthand", at), Error)))

InferDirectCall(s, at, callee, params, known, parts, from, expected) ==
  With(InferArgs(s, at, parts, from, params), LAMBDA args :
  With(Fresh(args.st), LAMBDA ret :
  With(UnifyExpr(ret.st, at, Function(args.tys, ret.ty), callee).st, LAMBDA called :
    IF known /\ Len(params) # Len(parts) + 1 - from THEN WrongArity(s, at, parts, from, params)
    ELSE IF expected = NoValue THEN R(called, ret.ty) ELSE CheckExprTy(called, at, expected, ret.ty))))

InferIndirectCall(s, at, callee, parts, expected) ==
  With(CallableSig(s, callee), LAMBDA sig :
  With(IF sig = NoValue THEN <<>> ELSE Params(sig), LAMBDA params :
  With(InferEach(s, at, parts, 2, params), LAMBDA args :
  With(Fresh(args.st), LAMBDA ret :
  With(IF sig = NoValue THEN ret.st ELSE UnifyExpr(ret.st, at, ret.ty, Ret(sig)).st, LAMBDA joined :
  With([joined EXCEPT !.pending = Append(@, [class |-> "Invokable", main |-> callee,
                                             args |-> <<product_infer_ty(args.tys), ret.ty>>, at |-> at])], LAMBDA pushed :
    IF sig # NoValue /\ Len(params) # Len(parts) - 1 THEN WrongArity(s, at, parts, 2, params)
    ELSE IF expected = NoValue THEN R(pushed, ret.ty) ELSE CheckExprTy(pushed, at, expected, ret.ty)))))))

(* A named callee is not itself an inferred expression.                        *)
InferCallee(s, at, e) ==
  CASE KindOf(e) = "fn" -> Instantiate(s, NameOf(e), at)
    [] KindOf(e) = "var" -> R(s, s.locals[NameOf(e)])
    [] OTHER -> InferExpr(s, Append(at, 1), e, NoValue)

InferCall(s, at, e, expected) ==
  LET parts == SubsOf(e) IN
  With(InferCallee(s, at, parts[1]), LAMBDA callee :
  With(Resolve(callee.st.tb, callee.ty), LAMBDA ty :
  With(Instantiate(s, NameOf(parts[1]), at), LAMBDA ctor :
  With(IF expected = NoValue THEN Fresh(ctor.st) ELSE R(ctor.st, expected), LAMBDA wanted :
    CASE KindOf(parts[1]) = "ctor" -> ApplyCtorExpr(wanted.st, at, ctor.ty, parts, 2, wanted.ty)
      [] Kind(ty) = "error" -> R(Poison(InferEach(callee.st, at, parts, 2, <<>>).st, at), Error)
      [] KindOf(parts[1]) = "fn" -> InferDirectCall(callee.st, at, callee.ty, Params(ty), TRUE, parts, 2, expected)
      [] Kind(ty) \in {"var", "unknown"} -> InferDirectCall(callee.st, at, callee.ty, <<>>, FALSE, parts, 2, expected)
      [] OTHER -> InferIndirectCall(callee.st, at, callee.ty, parts, expected)))))

(* An operator is a call of a class method, whose result meets the expectation *)
(* before the operands are inferred.                                           *)
InferOperator(s, at, e, expected) ==
  With(Instantiate(s, NameOf(e), at), LAMBDA callee :
  With(IF expected = NoValue THEN callee.st
       ELSE UnifyExpr(callee.st, at, Function(Params(Resolve(callee.st.tb, callee.ty)), expected), callee.ty).st, LAMBDA met :
    InferDirectCall(met, at, callee.ty, Params(Resolve(met.tb, callee.ty)), TRUE, SubsOf(e), 1, expected)))

InferBinOp(s, at, e, expected) ==
  CASE NameOf(e) = "eq" -> InferOperator(s, at, e, Bool)
    [] NameOf(e) = "and" -> R(InferEach(s, at, SubsOf(e), 1, <<Bool, Bool>>).st, Bool)
    [] OTHER -> InferOperator(s, at, e, expected)

(* The parameter and result a lambda is expected to have.                      *)
ExpectedLambdaParts(s, at, expected) ==
  With(IF expected = NoValue THEN NoValue ELSE Resolve(s.tb, expected), LAMBDA shape :
  With(FreshEach(s, 2), LAMBDA open :
    CASE Kind(shape) = "function" ->
           [st |-> IF Len(Params(shape)) = 1 THEN s ELSE Report(s, "arity", at),
            param |-> At(Params(shape), 1), ret |-> Ret(shape)]
      [] Kind(shape) \in {"var", "unknown"} ->
           [st |-> UnifyAt(open.st, at, shape, Function(<<open.tys[1]>>, open.tys[2])).st,
            param |-> open.tys[1], ret |-> open.tys[2]]
      [] OTHER -> [st |-> s, param |-> NoValue, ret |-> NoValue]))

OrFresh(s, ty) == IF ty = NoValue THEN Fresh(s) ELSE R(s, ty)

InferLambda(s, at, e, expected) ==
  With(ExpectedLambdaParts(s, at, expected), LAMBDA parts :
  With(IF TypeOf(e) = NoValue THEN OrFresh(parts.st, parts.param)
       ELSE R(IF parts.param = NoValue THEN parts.st ELSE UnifyAt(parts.st, at, parts.param, TypeOf(e)).st, TypeOf(e)), LAMBDA param :
  With(OrFresh(param.st, parts.ret), LAMBDA ret :
  With([ret.st EXCEPT !.locals = (NameOf(e) :> param.ty) @@ @, !.returns = Append(@, ret.ty)], LAMBDA inside :
  With([InferBody(inside, at, SubsOf(e)).st EXCEPT !.returns = Front(@)], LAMBDA body :
  With(Function(<<param.ty>>, ret.ty), LAMBDA sig :
    IF expected # NoValue THEN R(body, sig)
    ELSE R([body EXCEPT !.sigs = (at :> sig) @@ @], Closure(at))))))))

HasLiteral(s, at) == \E i \in DOMAIN s.pending : s.pending[i].class = "Int" /\ s.pending[i].at = at
ConcreteNonNumeric(s, ty) ==
  With(Resolve(s.tb, ty), LAMBDA t :
    Kind(t) \notin {"error", "unknown", "var", "bound"} /\ t # Word)

\* Mutant: the branches are not compared.
JoinNothing(s, at, then, else) == s

(* A literal beside a branch that is no number is its own report.              *)
JoinBranches(s, at, then, else) ==
  LET odd(i, ty) == HasLiteral(s, Append(at, i)) /\ ConcreteNonNumeric(s, ty)
  IN  CASE odd(2, else) -> Poison(EmitError(s, "numeric", at), Append(at, 2))
        [] odd(3, then) -> Poison(EmitError(s, "numeric", at), Append(at, 3))
        [] OTHER -> UnifyExpr(s, Append(at, 3), then, else).st

InferIf(s, at, parts, expected) ==
  LET cond == InferExpr(s, Append(at, 1), parts[1], Bool) IN
  With(InferExpr(cond.st, Append(at, 2), parts[2], expected), LAMBDA then :
  With(InferExpr(then.st, Append(at, 3), parts[3], expected), LAMBDA else :
    R(JoinBranches(else.st, at, then.ty, else.ty), then.ty)))

(* The elements a tuple of two is expected to have; an open tail is opened.    *)
TupleExpected(s, at, expected) ==
  With(IF expected = NoValue THEN NoValue ELSE Resolve(s.tb, expected), LAMBDA shape :
  With(FreshEach(s, 2), LAMBDA open :
    CASE Kind(shape) = "named" /\ shape[2] = "pair" -> [st |-> s, tys |-> Parts(shape)]
      [] Kind(shape) = "var" -> [st |-> UnifyAt(open.st, at, shape, product_infer_ty(open.tys)).st, tys |-> open.tys]
      [] OTHER -> [st |-> s, tys |-> <<>>]))

(* What an expression is, before it is held against what is expected.          *)
InferKind(s, at, e, expected) ==
  LET parts == SubsOf(e) IN
  With(Fresh(s), LAMBDA lit :
  With(InferExpr(s, Append(at, 1), parts[1], TypeOf(e)), LAMBDA annotated :
  With(TupleExpected(s, at, expected), LAMBDA elems :
  With(InferEach(elems.st, at, parts, 1, elems.tys), LAMBDA tuple :
  With(Instantiate(s, NameOf(e), at), LAMBDA ctor :
  LET value == RecordPhantom(ctor.st, at, ctor.ty) IN
    CASE KindOf(e) = "lit" ->
           R([lit.st EXCEPT !.pending = Append(@, [class |-> "Int", main |-> lit.ty, args |-> <<>>, at |-> at])], lit.ty)
      [] KindOf(e) = "true" -> R(s, Bool)
      [] KindOf(e) = "var" -> R(s, s.locals[NameOf(e)])
      [] KindOf(e) = "fn" -> Instantiate(s, NameOf(e), at)
      [] KindOf(e) = "ctor" -> R(value, IF Params(ctor.ty) = <<>> THEN Ret(ctor.ty) ELSE ctor.ty)
      [] KindOf(e) = "dot" -> InferDotCtor(s, at, e, expected)
      [] KindOf(e) = "call" -> InferCall(s, at, e, expected)
      [] KindOf(e) = "op" -> InferBinOp(s, at, e, expected)
      [] KindOf(e) = "lambda" -> InferLambda(s, at, e, expected)
      [] KindOf(e) = "annot" -> R(UnifyExpr(annotated.st, Append(at, 1), TypeOf(e), annotated.ty).st, TypeOf(e))
      [] KindOf(e) = "if" -> InferIf(s, at, parts, expected)
      [] KindOf(e) = "tuple" -> R(tuple.st, product_infer_ty(tuple.tys))
      [] KindOf(e) = "hole" -> R(s, Error))))))

InferImpl(s, at, e, expected, check) ==
  With(InferKind(s, at, e, expected), LAMBDA raw :
  With(CASE expected = NoValue -> raw
         [] check -> CheckExprTy(raw.st, at, expected, raw.ty)
         [] OTHER -> R(raw.st, AdjustClosure(raw.st, expected, raw.ty)), LAMBDA held :
  With(IF at \in held.st.poison THEN Error ELSE held.ty, LAMBDA ty :
    R([held.st EXCEPT !.tys = (at :> ty) @@ @], ty))))

-------------------------------------------------------------------------------
(* Patterns, against the type of what they are matched with.                   *)

InferPats(s, at, pats, expected) ==
  FoldLeft(LAMBDA acc, i : With(Infer("pat", acc.st, Append(at, i), pats[i], At(expected, i)), LAMBDA r :
                             [st |-> r.st, tys |-> Append(acc.tys, r.ty)]),
           [st |-> s, tys |-> <<>>], [i \in DOMAIN pats |-> i])

ApplyCtorPat(s, at, ctor, pats, wanted) ==
  With(Resolve(s.tb, ctor), LAMBDA ty :
  With(FreshEach(s, Len(pats)), LAMBDA open :
  LET s2 == UnifyExpr(open.st, at, Function(open.tys, wanted), ctor).st IN
  With(UnifyExpr(s2, at, wanted, Ret(ty)).st, LAMBDA s3 :
  With(InferPats(s3, at, pats, [i \in DOMAIN pats |-> Resolve(s3.tb, open.tys[i])]), LAMBDA args :
    IF Len(pats) # Len(Params(ty)) THEN R(InferPats(EmitError(s, "arity", at), at, pats, Params(ty)).st, Error)
    ELSE R(UnifyExpr(args.st, at, Function(args.tys, wanted), ctor).st, wanted)))))

InferCtorPat(s, at, p, expected) ==
  With(Resolve(s.tb, expected), LAMBDA shape :
  With(Instantiate(s, NameOf(p), at), LAMBDA ctor :
    IF KindOf(p) = "pctor" \/ (Kind(shape) = "named" /\ shape[2] = Schemes[NameOf(p)].owner)
    THEN ApplyCtorPat(ctor.st, at, ctor.ty, SubsOf(p), expected)
    ELSE R(Report(InferPats(s, at, SubsOf(p), <<>>).st, "shorthand", at), Error)))

Numbers == {Word, Uint256}
InferLitPat(s, at, expected) ==
  With(Fresh(s), LAMBDA lit :
  With([lit.st EXCEPT !.pending = Append(@, [class |-> "Int", main |-> lit.ty, args |-> <<>>, at |-> at])], LAMBDA pushed :
  With(Resolve(s.tb, expected), LAMBDA shape :
    IF Kind(shape) \in {"error", "unknown", "var"} \/ shape \in Numbers
    THEN R(UnifyExpr(pushed, at, shape, lit.ty).st, expected)
    ELSE R(EmitError(pushed, "mismatch", at), Error))))

InferTuplePat(s, at, p, expected) ==
  LET shape == Resolve(s.tb, expected) IN
  With(TupleExpected(s, at, expected), LAMBDA elems :
  With(Kind(shape) \notin {"error", "unknown", "var"} /\ elems.tys = <<>>, LAMBDA odd :
  With(InferPats(IF odd THEN EmitError(s, "mismatch", at) ELSE elems.st, at, SubsOf(p), elems.tys), LAMBDA inner :
    IF odd THEN R(inner.st, Error)
    ELSE R(UnifyExpr(inner.st, at, expected, product_infer_ty(inner.tys)).st, product_infer_ty(inner.tys)))))

InferPat(s, at, p, wanted) ==
  With(OrFresh(s, wanted), LAMBDA exp :
  With(CASE KindOf(p) = "_" -> exp
         [] KindOf(p) = "pvar" -> R([exp.st EXCEPT !.locals = (NameOf(p) :> exp.ty) @@ @], exp.ty)
         [] KindOf(p) = "plit" -> InferLitPat(exp.st, at, exp.ty)
         [] KindOf(p) = "ptuple" -> InferTuplePat(exp.st, at, p, exp.ty)
         [] KindOf(p) \in {"pctor", "pdot"} -> InferCtorPat(exp.st, at, p, exp.ty), LAMBDA raw :
  With(UnifyExpr(raw.st, at, exp.ty, raw.ty), LAMBDA u :
  With(IF ~u.ok \/ at \in u.st.poison THEN Error ELSE raw.ty, LAMBDA ty :
    R([u.st EXCEPT !.tys = (at :> ty) @@ @], ty)))))

-------------------------------------------------------------------------------
(* Statements.                                                                 *)

InferLet(s, at, n) ==
  With(OrFresh(s, TypeOf(n)), LAMBDA local :
  LET init == SubsOf(n)[1]
      free == TypeOf(n) = NoValue /\ KindOf(init) = "lambda" IN
  With(InferExpr(local.st, Append(at, 1), init, IF free THEN NoValue ELSE local.ty), LAMBDA r :
  With(UnifyExpr(r.st, Append(at, 1), local.ty, r.ty).st, LAMBDA u :
  LET ty == IF Append(at, 1) \in u.poison THEN Error ELSE local.ty IN
    R([u EXCEPT !.locals = (NameOf(n) :> ty) @@ @], UnitTy))))

InferReturn(s, at, n) ==
  LET expected == Last(s.returns) IN
  With(InferExpr(s, Append(at, 1), SubsOf(n)[1], expected), LAMBDA r :
    IF SubsOf(n) = <<>> THEN R(UnifyAt(s, at, expected, UnitTy).st, UnitTy)
    ELSE R(UnifyExpr(r.st, Append(at, 1), expected, r.ty).st, r.ty))

InferAssign(s, at, n) ==
  With(InferExpr(s, Append(at, 1), SubsOf(n)[1], NoValue), LAMBDA lhs :
  With(InferExpr(lhs.st, Append(at, 2), SubsOf(n)[2], lhs.ty), LAMBDA rhs :
    R(UnifyExpr(rhs.st, Append(at, 2), lhs.ty, rhs.ty).st, UnitTy)))

(* A compound assignment works on words.                                       *)
InferCompound(s, at, n) ==
  With(InferEach(s, at, SubsOf(n), 1, <<>>), LAMBDA parts :
  LET lhs == UnifyExpr(parts.st, Append(at, 1), Word, parts.tys[1]).st IN
    R(UnifyExpr(lhs, Append(at, 2), Word, parts.tys[2]).st, UnitTy))

InferArm(s, at, arm, scrutinee) ==
  With(Infer("pat", s, Append(at, 1), SubsOf(arm)[1], scrutinee), LAMBDA pat :
  LET u == UnifyExpr(pat.st, Append(at, 1), scrutinee, pat.ty).st IN
    InferSeq(u, at \o <<2>>, SubsOf(SubsOf(arm)[2])))

InferMatch(s, at, parts) ==
  LET scrutinee == InferExpr(s, Append(at, 1), parts[1], NoValue) IN
  With(Fresh(scrutinee.st), LAMBDA result :
    R(FoldLeft(LAMBDA acc, i : With(InferArm(acc, Append(at, i), parts[i], scrutinee.ty), LAMBDA arm :
                                 UnifyAt(arm.st, Append(at, i), result.ty, arm.ty).st),
               result.st, [k \in 1 .. Len(parts) - 1 |-> k + 1]),
      result.ty))

(* Without an else the statement has the type of its branch.                   *)
InferIfStmt(s, at, parts) ==
  LET cond == InferExpr(s, Append(at, 1), parts[1], Bool) IN
  With(InferSeq(cond.st, Append(at, 2), SubsOf(parts[2])), LAMBDA then :
  With(IF Len(parts) = 3 THEN InferSeq(then.st, Append(at, 3), SubsOf(parts[3])) ELSE then, LAMBDA else :
    R(UnifyAt(else.st, at, then.ty, else.ty).st, then.ty)))

InferFor(s, at, parts) ==
  LET init == InferSeq(s, Append(at, 1), SubsOf(parts[1]))
      cond == InferExpr(init.st, Append(at, 2), parts[2], Bool)
      post == InferSeq(cond.st, Append(at, 3), SubsOf(parts[3]))
  IN  R(InferSeq(post.st, Append(at, 4), SubsOf(parts[4])).st, UnitTy)

InferStmt(s, at, n) ==
  CASE KindOf(n) = "let" -> InferLet(s, at, n)
    [] KindOf(n) = "return" -> InferReturn(s, at, n)
    [] KindOf(n) = "expr" -> R(InferExpr(s, Append(at, 1), SubsOf(n)[1], NoValue).st, UnitTy)
    [] KindOf(n) = "assign" -> InferAssign(s, at, n)
    [] KindOf(n) = "compound" -> InferCompound(s, at, n)
    [] KindOf(n) = "match" -> InferMatch(s, at, SubsOf(n))
    [] KindOf(n) = "if" -> InferIfStmt(s, at, SubsOf(n))
    [] KindOf(n) = "for" -> InferFor(s, at, SubsOf(n))
    [] KindOf(n) = "block" -> InferSeq(s, at, SubsOf(n))

Infer(what, s, at, n, expected) ==
  CASE what \in {"expr", "arg"} -> InferImpl(s, at, n, expected, what = "expr")
    [] what = "pat" -> InferPat(s, at, n, expected)
    [] what = "stmt" -> InferStmt(s, at, n)

-------------------------------------------------------------------------------
(* The end of a body.  How obligations improve each other is Obligations; here *)
(* one pass settles those whose type is known, literals that matter to another *)
(* obligation get the standard integer, and what stays open is reported.       *)

Dead(s, o) ==
  o.at \in s.poison \/ \E t \in {o.main} \cup Range(o.args) : ContainsError(Resolve(s.tb, t))

SettleInvokable(s, o) ==
  With(CallableSig(s, o.main), LAMBDA sig :
  LET params == UnifyAt(s, o.at, product_infer_ty(Params(sig)), o.args[1]).st IN
    IF sig = NoValue THEN Report(s, "callable", o.at)
    ELSE UnifyAt(params, o.at, o.args[2], Ret(sig)).st)

Settle(s, o) ==
  With(Resolve(s.tb, o.main), LAMBDA main :
    CASE Dead(s, o) -> s
      [] o.class = "Invokable" -> SettleInvokable(s, o)
      [] IsVar(main) \/ main \in Instances[o.class] -> s
      [] OTHER -> EmitError(s, "unsatisfied", o.at))

OpenVars(s, class) ==
  UNION {VarsOf(Resolve(s.tb, s.pending[i].main)) : i \in {j \in DOMAIN s.pending : s.pending[j].class = class /\ ~Dead(s, s.pending[j])}}

(* A literal whose type another obligation or a pattern needs.                 *)
DefaultLiterals(s, patterns) ==
  LET needed == UNION {OpenVars(s, c) : c \in DOMAIN Instances \ {"Int"}}
  IN  FoldLeft(LAMBDA acc, o : IF o.class = "Int" /\ ~Dead(acc, o) /\ (o.at \in patterns \/ VarsOf(Resolve(acc.tb, o.main)) \cap needed # {})
                                  /\ IsVar(Resolve(acc.tb, o.main))
                               THEN UnifyAt(acc, o.at, o.main, Uint256).st ELSE acc,
               s, s.pending)

Finish(s, patterns) ==
  With(DefaultLiterals(FoldLeft(Settle, s, s.pending), patterns), LAMBDA settled :
  With(FoldLeft(Settle, settled, settled.pending), LAMBDA last :
  LET open == UNION {OpenVars(last, c) : c \in DOMAIN Instances \ {"Int"}}
      phantoms == {p \in last.phantom : p.at \notin last.poison /\ \E v \in p.vars : IsVar(Resolve(last.tb, Var(v)))}
      ambiguous == open # {} \/ (last.reports = <<>> /\ (phantoms # {} \/ OpenVars(last, "Int") # {})) IN
    IF ambiguous THEN Report(last, "ambiguous", <<>>) ELSE last))

-------------------------------------------------------------------------------
EmptyContext(p) ==
  [tb |-> EmptyTable("first"), reports |-> <<>>, poison |-> {}, tys |-> <<>> :> NoValue, locals |-> p.params,
   sigs |-> <<>> :> NoValue, phantom |-> {}, pending |-> <<>>, returns |-> <<p.ret>>]

Init ==
  /\ program \in Programs
  /\ st = EmptyContext(program)
  /\ index = 1
  /\ phase = "body"

(* One top-level statement; after the last the body is held against its result.*)
InferNext ==
  /\ phase = "body" /\ index < Len(program.body)
  /\ st' = Infer("stmt", IF IsReturn(program.body[index]) THEN Report(st, "return", <<index>>) ELSE st,
                 <<index>>, program.body[index], NoValue).st
  /\ index' = index + 1
  /\ UNCHANGED <<program, phase>>

InferLast ==
  /\ phase = "body" /\ index = Len(program.body)
  /\ \E r \in {Infer("stmt", st, <<index>>, program.body[index], NoValue)} :
       st' = IF IsReturn(program.body[index]) THEN r.st ELSE UnifyAt(r.st, <<index>>, program.ret, r.ty).st
  /\ phase' = "solve"
  /\ UNCHANGED <<program, index>>

RECURSIVE LitPatterns(_, _)
LitPatterns(n, at) ==
  (IF KindOf(n) = "plit" THEN {at} ELSE {}) \cup UNION {LitPatterns(SubsOf(n)[i], Append(at, i)) : i \in DOMAIN SubsOf(n)}

Solve ==
  /\ phase = "solve"
  /\ st' = Finish(st, UNION {LitPatterns(program.body[i], <<i>>) : i \in DOMAIN program.body})
  /\ phase' = "done"
  /\ UNCHANGED <<program, index>>

Next == InferNext \/ InferLast \/ Solve

Spec == Init /\ [][Next]_vars

-------------------------------------------------------------------------------
(* The reference.                                                              *)
Opt(a) == Named("Opt", <<a>>)
Fn(a, b) == Function(<<a>>, b)
Node(kind, name, parts) == <<kind, name, parts, NoValue>>


Simple == {Word, Uint256, Bool}
Universe ==
  Simple \cup {UnitTy} \cup {Opt(a) : a \in Simple} \cup {Fn(a, b) : a, b \in Simple} \cup {Named("pair", <<a, b>>) : a, b \in Simple}
  \cup {Opt(Opt(Word)), Fn(Fn(Word, Word), Word)}

RECURSIVE Ground(_, _)
Ground(t, inst) ==
  IF Kind(t) = "bound" THEN inst[t[2]]
  ELSE <<t[1], t[2], [i \in DOMAIN Parts(t) |-> Ground(Parts(t)[i], inst)] \o <<>>>>

SchemeTypes ==
  [n \in DOMAIN Schemes |->
    {Ground(Schemes[n].ty, inst) : inst \in {i \in [1 .. Schemes[n].binders -> Universe] :
        \A k \in DOMAIN Schemes[n].preds : Ground(Schemes[n].preds[k][2], i) \in Instances[Schemes[n].preds[k][1]]}}]

Applied(fs, args) ==
  {Ret(f) : f \in {g \in fs : Kind(g) = "function" /\ Len(Params(g)) = Len(args) /\ \A i \in DOMAIN args : Params(g)[i] \in args[i]}}

Extended(env, n, t) == (n :> t) @@ env

RECURSIVE RefTypes(_, _)
RefTypes(env, e) ==
  LET parts == SubsOf(e) IN
  With([i \in DOMAIN parts |-> RefTypes(env, parts[i])], LAMBDA each :
    CASE KindOf(e) = "lit" -> Numbers
      [] KindOf(e) = "true" -> {Bool}
      [] KindOf(e) = "hole" -> Universe
      [] KindOf(e) = "var" -> {env[NameOf(e)]}
      [] KindOf(e) = "fn" -> SchemeTypes[NameOf(e)]
      [] KindOf(e) = "ctor" -> IF NameOf(e) = "None" THEN {Ret(f) : f \in SchemeTypes["None"]} ELSE SchemeTypes[NameOf(e)]
      [] KindOf(e) = "op" /\ NameOf(e) = "and" -> IF Bool \in each[1] \cap each[2] THEN {Bool} ELSE {}
      [] KindOf(e) \in {"dot", "op"} -> Applied(SchemeTypes[NameOf(e)], each)
      [] KindOf(e) = "call" -> Applied(each[1], Tail(each))
      [] KindOf(e) = "annot" -> each[1] \cap {TypeOf(e)}
      [] KindOf(e) = "if" -> IF Bool \in each[1] THEN each[2] \cap each[3] ELSE {}
      [] KindOf(e) = "tuple" -> {Named("pair", <<a, b>>) : a \in each[1], b \in each[2]}
      [] KindOf(e) = "lambda" ->
           UNION {{Fn(a, r) : r \in RefTypes(Extended(env, NameOf(e), a), SubsOf(parts[1])[1])} : a \in IF TypeOf(e) = NoValue THEN Universe ELSE {TypeOf(e)}})

(* The environments a pattern leaves when it is matched with a value of type t.*)
RECURSIVE RefPats(_, _, _)
RefPats(env, p, t) ==
  CASE KindOf(p) = "_" -> {env}
    [] KindOf(p) = "pvar" -> {Extended(env, NameOf(p), t)}
    [] KindOf(p) = "plit" -> IF t \in Numbers THEN {env} ELSE {}
    [] KindOf(p) = "ptuple" -> IF Kind(t) = "named" /\ t[2] = "pair"
                               THEN UNION {RefPats(e, SubsOf(p)[2], Parts(t)[2]) : e \in RefPats(env, SubsOf(p)[1], Parts(t)[1])} ELSE {}
    [] KindOf(p) \in {"pctor", "pdot"} ->
         With({f \in SchemeTypes[NameOf(p)] : Ret(f) = t}, LAMBDA of :
           IF of = {} THEN {} ELSE IF SubsOf(p) = <<>> THEN {env} ELSE UNION {RefPats(env, SubsOf(p)[1], Params(f)[1]) : f \in of})

(* The types of a sequence of statements in a body that returns ret; a return  *)
(* in the middle has none.                                                     *)
RECURSIVE RefSeq(_, _, _)
RefStmt(env, ret, n) ==
  LET parts == SubsOf(n)
      empty(ts) == IF ts = {} THEN {} ELSE {UnitTy}
  IN  CASE KindOf(n) = "return" -> IF parts = <<>> THEN {ret} \cap {UnitTy} ELSE RefTypes(env, parts[1]) \cap {ret}
        [] KindOf(n) = "expr" -> empty(RefTypes(env, parts[1]))
        [] KindOf(n) = "assign" -> empty(RefTypes(env, parts[1]) \cap RefTypes(env, parts[2]))
        [] KindOf(n) = "compound" -> empty({Word} \cap RefTypes(env, parts[1]) \cap RefTypes(env, parts[2]))
        [] KindOf(n) = "block" -> RefSeq(env, ret, parts)
        [] KindOf(n) = "if" -> IF Bool \notin RefTypes(env, parts[1]) THEN {}
                               ELSE {t \in RefSeq(env, ret, SubsOf(parts[2])) : Len(parts) = 3 => t \in RefSeq(env, ret, SubsOf(parts[3]))}
        [] KindOf(n) = "for" ->
             LET inner == SubsOf(parts[1])[1]
                 loops(t) == LET e == Extended(env, NameOf(inner), t)
                             IN  Bool \in RefTypes(e, parts[2]) /\ RefSeq(e, ret, SubsOf(parts[3])) # {} /\ RefSeq(e, ret, SubsOf(parts[4])) # {}
             IN  empty({t \in RefTypes(env, SubsOf(inner)[1]) : loops(t)})
        [] KindOf(n) = "match" ->
             UNION {{t \in Universe : \A i \in 2 .. Len(parts) :
                       \E e \in RefPats(env, SubsOf(parts[i])[1], s) : t \in RefSeq(e, ret, SubsOf(SubsOf(parts[i])[2]))} : s \in RefTypes(env, parts[1])}
RefSeq(env, ret, stmts) ==
  CASE stmts = <<>> -> {UnitTy}
    [] Len(stmts) = 1 /\ KindOf(stmts[1]) # "let" -> RefStmt(env, ret, stmts[1])
    [] KindOf(Head(stmts)) = "let" ->
         UNION {RefSeq(Extended(env, NameOf(Head(stmts)), t), ret, Tail(stmts)) : t \in RefTypes(env, SubsOf(Head(stmts))[1])}
    [] IsReturn(Head(stmts)) -> {}
    [] OTHER -> IF RefStmt(env, ret, Head(stmts)) = {} THEN {} ELSE RefSeq(env, ret, Tail(stmts))

RefBody(ret, body) == ret \in RefSeq(program.params, ret, body)
Typeable == RefBody(program.ret, program.body)

-------------------------------------------------------------------------------
Kinds == {st.reports[i][1] : i \in DOMAIN st.reports}

(* The context: types are recorded for poisoned nodes as errors, and every     *)
(* closure type has its signature.                                             *)
TypeOK ==
  /\ phase \in {"body", "solve", "done"} /\ index \in 1 .. Len(program.body)
  /\ Kinds \subseteq {"mismatch", "arity", "shorthand", "numeric", "return", "callable", "unsatisfied", "ambiguous"}
  /\ Len(st.returns) = 1
  /\ \A at \in DOMAIN st.tys : With(Resolve(st.tb, st.tys[at]), LAMBDA t :
                                 Kind(t) = "closure" => t[2] \in DOMAIN st.sigs)

(* A body that inference passes without a report has a typing (infer_body).    *)
AcceptedIsTypeable == phase = "done" /\ st.reports = <<>> => Typeable

\* Closures are told apart by where they stand; the reference knows functions.
ClosureEscapes ==
  Len(program.body) = 2 /\ KindOf(program.body[1]) = "let" /\ KindOf(SubsOf(program.body[1])[1]) = "lambda"
  /\ KindOf(program.body[2]) = "return" /\ KindOf(SubsOf(program.body[2])[1]) # "call"

(* A body that has a typing is refused for nothing but what the walk's order   *)
(* cannot see yet: a shorthand constructor, an open type, a literal beside a   *)
(* branch (infer_expr_impl, solve_pending_obligations).                        *)
TypeableIsAccepted ==
  phase = "done" /\ Typeable /\ ~ClosureEscapes => Kinds \subseteq {"ambiguous", "shorthand", "numeric"}

RECURSIVE Falls(_)
FallsStmt(n) ==
  CASE IsReturn(n) -> FALSE
    [] KindOf(n) = "block" -> Falls(SubsOf(n))
    [] KindOf(n) = "if" -> Len(SubsOf(n)) = 2 \/ \E i \in 2 .. 3 : Falls(SubsOf(SubsOf(n)[i]))
    [] KindOf(n) = "match" -> \E i \in 2 .. Len(SubsOf(n)) : Falls(SubsOf(SubsOf(SubsOf(n)[i])[2]))
    [] OTHER -> TRUE
Falls(stmts) == \A i \in DOMAIN stmts : FallsStmt(stmts[i])

(* A body with a result that inference passes reaches a return on every path,  *)
(* where it does not end in an if without else (infer_body, infer_stmt).       *)
PathsReturn ==
  phase = "done" /\ st.reports = <<>> /\ program.ret # UnitTy
    /\ ~(KindOf(Last(program.body)) = "if" /\ Len(SubsOf(Last(program.body))) = 2)
  => ~Falls(program.body)

Hole == Node("hole", "", <<>>)
RECURSIVE Holed(_, _)
Holed(n, at) == IF at = <<>> THEN Hole ELSE <<n[1], n[2], [n[3] EXCEPT ![Head(at)] = Holed(@, Tail(at))], n[4]>>

RECURSIVE NodeAt(_, _)
NodeAt(n, at) == IF at = <<>> THEN n ELSE NodeAt(SubsOf(n)[Head(at)], Tail(at))
Leaf(n) == KindOf(n) \in {"lit", "true", "var", "fn", "ctor"}

(* One wrong name or literal is one report: where a hole in its place would leave a *)
(* body with a typing, nothing outside it is reported as wrong (poison_expr).   *)
ErrorsDoNotCascade ==
  phase = "done" /\ st.reports # <<>> /\ st.reports[1][1] = "mismatch" /\ Len(st.reports[1][2]) > 1 =>
    LET at == st.reports[1][2]
        top == Node("seq", "", program.body)
    IN  Leaf(NodeAt(top, at)) /\ RefBody(program.ret, SubsOf(Holed(top, at))) /\ ~ClosureEscapes =>
          \A i \in 2 .. Len(st.reports) : st.reports[i][1] \notin {"ambiguous", "shorthand", "numeric"} => IsPrefix(at, st.reports[i][2])
===============================================================================
