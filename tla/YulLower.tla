------------------------------- MODULE YulLower -------------------------------
(* The first back end: the Hull becomes Yul.  A value of any type is a row of  *)
(* stack slots, and an expression becomes the statements that compute it and   *)
(* the location where it then is.                                              *)
(* A location is <<"word", n>>, <<"slot", name>>, <<"seq", locations>> or      *)
(* <<"empty", slots>>, the padding of the smaller side of a sum.               *)
EXTENDS HullEmit

SizeOfTy(ty) == ReturnCount(ty)
Lit(n) == <<"lit", n>>
Id(x) == <<"id", x>>
YulCall(f, args) == <<"call", f, args>>
YulFunName(f) == <<"usr">> \o f
Nothing == <<"seq", <<>>>>

RECURSIVE FlattenLocs(_), BuildLoc(_, _), Reshape(_, _)
FlattenLocs(loc) ==
  CASE loc[1] = "empty" -> [i \in 1 .. loc[2] |-> <<"empty", 1>>] \o <<>>
    [] loc[1] = "seq" -> FlattenSeq([i \in DOMAIN loc[2] |-> FlattenLocs(loc[2][i])] \o <<>>)
    [] OTHER -> <<loc>>
SizeOfLoc(loc) == Len(FlattenLocs(loc))

(* Fresh slots for a value, counted from n.                                    *)
Slot(n) == <<"slot", <<"_v", n>>>>
BuildLoc(n, ty) ==
  CASE ty[1] = "word" -> Slot(n)
    [] ty[1] = "prod" -> <<"seq", <<BuildLoc(n, ty[2]), BuildLoc(n + SizeOfTy(ty[2]), ty[3])>>>>
    [] OTHER -> <<"seq", [i \in 1 .. SizeOfTy(ty) |-> Slot(n + i - 1)] \o <<>>>>

(* What was never stored reads as 911.                                         *)
LoadLoc(loc) ==
  CASE loc[1] = "word" -> Lit(loc[2])
    [] loc[1] = "slot" -> Id(loc[2])
    [] OTHER -> Lit(911 % WordValues)
FlattenRhs(loc) == With(FlattenLocs(loc), LAMBDA flat :
                     [i \in DOMAIN flat |-> LoadLoc(flat[i])] \o <<>>)
FlattenLhs(loc) == With(FlattenLocs(loc), LAMBDA flat :
                     [i \in DOMAIN flat |-> flat[i][2]] \o <<>>)
Assignable(loc) == With(FlattenLocs(loc), LAMBDA flat :
                     \A i \in DOMAIN flat : flat[i][1] = "slot")
AllocLoc(loc) == With(FlattenLhs(loc), LAMBDA names :
                   [i \in DOMAIN names |-> <<"let", <<names[i]>>, <<>>>>] \o <<>>)

Copyable(lhs, rhs) == Assignable(lhs) /\ SizeOfLoc(lhs) = SizeOfLoc(rhs)
(* One slot after another; padding is not copied.                              *)
CopyLocs(lhs, rhs) ==
  With(FlattenLocs(lhs), LAMBDA to :
  With(FlattenLocs(rhs), LAMBDA from :
    IF ~Copyable(lhs, rhs) THEN <<>>
    ELSE FlattenSeq([i \in DOMAIN to |-> IF from[i][1] = "empty" THEN <<>> ELSE <<<<"assign", <<to[i][2]>>, LoadLoc(from[i])>>>>] \o <<>>)))

NormalizeLoc(loc) ==
  With(FlattenLocs(loc), LAMBDA flat :
    CASE loc[1] # "seq" -> loc
      [] Len(flat) = 1 -> flat[1]
      [] OTHER -> <<"seq", flat>>)

IsPairLoc(loc) == loc[1] = "seq" /\ Len(loc[2]) = 2

PadToSize(loc, size) ==
  IF size <= SizeOfLoc(loc) THEN loc ELSE <<"seq", <<loc, <<"empty", size - SizeOfLoc(loc)>>>>>>

MaxSize(sum) == With(SizeOfTy(sum[2]), LAMBDA a :
                With(SizeOfTy(sum[3]), LAMBDA b :
                  IF a > b THEN a ELSE b))

(* A row of slots seen as a value of the type; it may be longer.               *)
Reshape(ty, slots) ==
  With(SizeOfTy(ty), LAMBDA size :
  With(SubSeq(slots, 1, IF size < Len(slots) THEN size ELSE Len(slots)), LAMBDA here :
    CASE ty[1] = "unit" -> Nothing
      [] ty[1] = "prod" -> <<"seq", <<Reshape(ty[2], slots), Reshape(ty[3], SubSeq(slots, SizeOfTy(ty[2]) + 1, Len(slots)))>>>>
      [] Len(here) = 1 -> here[1]
      [] OTHER -> <<"seq", here>>))

ConPayload(target, pat, payload) ==
  CASE target[1] = "sum" /\ pat[1] = "inl" -> Reshape(target[2], FlattenLocs(payload))
    [] target[1] = "sum" /\ pat[1] = "inr" -> Reshape(target[3], FlattenLocs(payload))
    [] OTHER -> payload

-------------------------------------------------------------------------------
(* The translator counts its fresh names and knows where each variable is; in  *)
(* inline assembly it also knows the names the assembly declared.  Errors are  *)
(* remembered.                                                                 *)
NoAsm == [values |-> <<>>, functions |-> <<>>, outer |-> TRUE]
Translator(funs) == [fresh |-> 0, vars |-> <<>>, funs |-> funs, asm |-> NoAsm, err |-> FALSE]
Gen(stmts, loc, st) == [stmts |-> stmts, loc |-> loc, st |-> st]
Require(st, ok) == [st EXCEPT !.err = @ \/ ~ok]
InsertVar(st, x, loc) == [st EXCEPT !.vars = (x :> loc) @@ @]
WithLocalEnv(st, inner) == [inner EXCEPT !.vars = st.vars]
HullAlloc(st, ty) == With(BuildLoc(st.fresh, ty), LAMBDA loc :
                       Gen(AllocLoc(loc), loc, Used(st, SizeOfTy(ty))))
Result == <<"_result">>

LowerCallee(funs, f) ==
  CASE f \in funs -> YulFunName(f)
    [] f = <<"primEqWord">> -> <<"eq">>
    [] OTHER -> f
IsIdentity(funs, f) == f = <<"wordToInteger">> /\ f \notin funs

RECURSIVE GenExpr(_, _), GenArgs(_, _)
GenArgs(st, args) ==
  IF args = <<>> THEN Gen(<<>>, Nothing, st)
  ELSE With(GenExpr(st, Head(args)), LAMBDA first :
       With(GenArgs(first.st, Tail(args)), LAMBDA rest :
         Gen(first.stmts \o rest.stmts, <<"seq", <<first.loc>> \o rest.loc[2]>>, rest.st)))

GenCall(st, e) ==
  With(GenArgs(st, e[4]), LAMBDA args :
  With(HullAlloc(args.st, e[2]), LAMBDA result :
  With(YulCall(LowerCallee(st.funs, e[3]), FlattenRhs(args.loc)), LAMBDA call :
  LET run == IF SizeOfLoc(result.loc) = 0 THEN <<"expr", call>> ELSE <<"assign", FlattenLhs(result.loc), call>> IN
    IF IsIdentity(st.funs, e[3]) THEN Gen(args.stmts, args.loc[2][1], Require(args.st, Len(e[4]) > 0))
    ELSE Gen(args.stmts \o result.stmts \o <<run>>, result.loc, result.st))))

(* A branch is computed inside the switch, so only the one taken.              *)
GenIf(st, e) ==
  With(HullAlloc(st, e[2]), LAMBDA result :
  With(GenExpr(result.st, e[4][1]), LAMBDA cond :
  With(GenExpr(cond.st, e[4][2]), LAMBDA then :
  With(GenExpr(then.st, e[4][3]), LAMBDA else :
  LET switch == <<"switch", LoadLoc(NormalizeLoc(cond.loc)), <<<<0, else.stmts \o CopyLocs(result.loc, else.loc)>>>>,
                  <<then.stmts \o CopyLocs(result.loc, then.loc)>>>>
      ok == Copyable(result.loc, then.loc) /\ Copyable(result.loc, else.loc) /\ NormalizeLoc(cond.loc)[1] # "seq" IN
    Gen(result.stmts \o cond.stmts \o <<switch>>, result.loc, Require(else.st, ok))))))

GenExpr(st, e) ==
  With(GenExpr(st, e[4][1]), LAMBDA part :
  LET half(i) == Gen(part.stmts, IF IsPairLoc(part.loc) THEN part.loc[2][i] ELSE Nothing, Require(part.st, IsPairLoc(part.loc)))
      inject(tag) == Gen(part.stmts, <<"seq", <<<<"word", tag>>, PadToSize(part.loc, MaxSize(e[2]))>>>>, Require(part.st, e[2][1] = "sum")) IN
    CASE e[1] = "word" -> Gen(<<>>, <<"word", e[3]>>, st)
      [] e[1] = "unit" -> Gen(<<>>, Nothing, st)
      [] e[1] = "var" -> IF e[3] \in DOMAIN st.vars THEN Gen(<<>>, st.vars[e[3]], st) ELSE Gen(<<>>, Nothing, Require(st, FALSE))
      [] e[1] = "pair" -> GenArgs(st, e[4])
      [] e[1] = "fst" -> half(1)
      [] e[1] = "snd" -> half(2)
      [] e[1] = "inl" -> inject(0)
      [] e[1] = "inr" -> inject(1)
      [] e[1] = "call" -> GenCall(st, e)
      [] e[1] = "if" -> GenIf(st, e))

-------------------------------------------------------------------------------
(* Inline assembly.  What a block declares is given a fresh name; another name *)
(* is a variable of the Hull, except inside an assembly function.              *)
SubstAsmExprName(st, x) ==
  With(FlattenRhs(st.vars[x]), LAMBDA flat :
    CASE x \in DOMAIN st.asm.values -> Id(st.asm.values[x])
      [] st.asm.outer /\ x \in DOMAIN st.vars /\ Len(flat) = 1 -> flat[1]
      [] OTHER -> Id(x))
SubstAsmLhsName(st, x) ==
  CASE x \in DOMAIN st.asm.values -> st.asm.values[x]
    [] st.asm.outer /\ x \in DOMAIN st.vars /\ Assignable(st.vars[x]) /\ SizeOfLoc(st.vars[x]) = 1 -> FlattenLhs(st.vars[x])[1]
    [] OTHER -> x

ConvertCallee(st, f) ==
  CASE f[1] = "usr" \/ f \in DOMAIN AsmBuiltins -> f
    [] f \in DOMAIN st.asm.functions -> st.asm.functions[f]
    [] f \in st.funs -> YulFunName(f)
    [] OTHER -> f

RECURSIVE ConvertExpr(_, _), ConvertSeq(_, _)
ConvertExpr(st, e) ==
  CASE e[1] = "lit" -> e
    [] e[1] = "id" -> SubstAsmExprName(st, e[2])
    [] e[1] = "call" -> YulCall(ConvertCallee(st, e[2]), [i \in DOMAIN e[3] |-> ConvertExpr(st, e[3][i])] \o <<>>)

FreshAsmNames(st, xs) == [i \in DOMAIN xs |-> <<"asm", st.fresh + i - 1>>] \o <<>>
DeclareAsm(st, xs) ==
  LET names == FreshAsmNames(st, xs)
  IN  [Used(st, Len(xs)) EXCEPT !.asm.values = [x \in ToSet(xs) |-> names[CHOOSE i \in DOMAIN xs : xs[i] = x]] @@ @]
PredeclareYulFunctions(st, stmts) ==
  LET fs == AsmFunctions(stmts) IN
  With([i \in DOMAIN fs |-> fs[i][2]], LAMBDA names :
  LET fresh == FreshAsmNames(st, names) IN
    [Require(Used(st, Len(fs)), Cardinality(ToSet(names)) = Len(fs)) EXCEPT
       !.asm.functions = [f \in ToSet(names) |-> fresh[CHOOSE i \in DOMAIN names : names[i] = f]] @@ @])

PopAsmScope(st, inner) == [inner EXCEPT !.asm = st.asm]
ConvertBlock(st, stmts) == ConvertSeq(PredeclareYulFunctions(st, stmts), stmts)

RECURSIVE ConvertCases(_, _)
ConvertCases(st, bodies) ==
  IF bodies = <<>> THEN Gen(<<>>, Nothing, st)
  ELSE With(ConvertBlock(st, Head(bodies)), LAMBDA first :
       With(ConvertCases(PopAsmScope(st, first.st), Tail(bodies)), LAMBDA rest :
         Gen(<<first.stmts>> \o rest.stmts, Nothing, rest.st)))

ConvertFor(st, s) ==
  With(ConvertBlock(st, s[2]), LAMBDA init :
  With(ConvertBlock(init.st, s[4]), LAMBDA post :
  With(ConvertBlock(PopAsmScope(init.st, post.st), s[5]), LAMBDA body :
    Gen(<<<<"for", init.stmts, ConvertExpr(init.st, s[3]), post.stmts, body.stmts>>>>, Nothing, PopAsmScope(st, body.st)))))

ConvertFunction(st, s) ==
  LET closed == [st EXCEPT !.asm.values = <<>>, !.asm.outer = FALSE] IN
  With(DeclareAsm(closed, s[3] \o s[4]), LAMBDA bound :
  With(ConvertBlock(bound, s[5]), LAMBDA body :
  LET named(xs) == [i \in DOMAIN xs |-> bound.asm.values[xs[i]]] \o <<>> IN
    Gen(<<<<"function", st.asm.functions[s[2]], named(s[3]), named(s[4]), body.stmts>>>>, Nothing, PopAsmScope(st, body.st))))

(* Yul's initialiser is resolved before the names that it declares.            *)
ConvertStmt(st, s) ==
  LET one(stmt) == Gen(<<stmt>>, Nothing, st)
      bodies == IF s[1] = "switch" THEN [i \in DOMAIN s[3] |-> s[3][i][2]] \o s[4] ELSE <<s[Len(s)]>> IN
  With(ConvertCases(st, bodies), LAMBDA inner :
    CASE s[1] = "let" -> Gen(<<<<"let", FreshAsmNames(st, s[2]), [i \in DOMAIN s[3] |-> ConvertExpr(st, s[3][i])] \o <<>>>>>>, Nothing, DeclareAsm(st, s[2]))
      [] s[1] = "assign" -> one(<<"assign", [i \in DOMAIN s[2] |-> SubstAsmLhsName(st, s[2][i])] \o <<>>, ConvertExpr(st, s[3])>>)
      [] s[1] = "expr" -> one(<<"expr", ConvertExpr(st, s[2])>>)
      [] s[1] = "block" -> Gen(<<<<"block", inner.stmts[1]>>>>, Nothing, inner.st)
      [] s[1] = "if" -> Gen(<<<<"if", ConvertExpr(st, s[2]), inner.stmts[1]>>>>, Nothing, inner.st)
      [] s[1] = "switch" ->
           Gen(<<<<"switch", ConvertExpr(st, s[2]), [i \in DOMAIN s[3] |-> <<s[3][i][1], inner.stmts[i]>>] \o <<>>,
                   SubSeq(inner.stmts, Len(s[3]) + 1, Len(inner.stmts))>>>>, Nothing, inner.st)
      [] s[1] = "for" -> ConvertFor(st, s)
      [] s[1] = "function" -> ConvertFunction(st, s)
      [] OTHER -> one(s))
ConvertSeq(st, stmts) ==
  IF stmts = <<>> THEN Gen(<<>>, Nothing, st)
  ELSE With(ConvertStmt(st, Head(stmts)), LAMBDA first :
       With(ConvertSeq(first.st, Tail(stmts)), LAMBDA rest :
         Gen(first.stmts \o rest.stmts, Nothing, rest.st)))

-------------------------------------------------------------------------------
RECURSIVE GenStmts(_, _), GenAlts(_, _, _, _)
IsAlloc(s) == s[1] = "let" /\ s[3] = <<>>
Allocs(stmts) == SelectSeq(stmts, IsAlloc)
Computes(stmts) == SelectSeq(stmts, LAMBDA s : ~IsAlloc(s))

\* Mutant: the condition is not computed again after the first test.
GenForOnce(st, cond, post, body) ==
  With(GenExpr(st, cond), LAMBDA c :
  With(GenStmts(c.st, post), LAMBDA p :
  With(GenStmts(p.st, body), LAMBDA b :
    Gen(<<<<"for", Allocs(c.stmts) \o Allocs(p.stmts) \o Computes(c.stmts), LoadLoc(NormalizeLoc(c.loc)), Computes(p.stmts), b.stmts>>>>,
        Nothing, WithLocalEnv(st, b.st)))))

(* Yul wants an expression for the condition: it is computed before the loop   *)
(* and again after each turn.                                                  *)
GenFor(st, cond, post, body) ==
  With(GenExpr(st, cond), LAMBDA c :
  With(GenStmts(c.st, post), LAMBDA p :
  With(GenStmts(p.st, body), LAMBDA b :
  With(NormalizeLoc(c.loc), LAMBDA test :
    Gen(<<<<"for", Allocs(c.stmts) \o Allocs(p.stmts) \o Computes(c.stmts), LoadLoc(test), Computes(p.stmts) \o Computes(c.stmts), b.stmts>>>>,
        Nothing, Require(WithLocalEnv(st, b.st), test[1] # "seq"))))))

(* A case for each pattern, in order, and the wildcard's body as the default.  *)
GenAlts(st, target, payload, alts) ==
  IF alts = <<>> THEN [cases |-> <<>>, default |-> <<>>, st |-> st]
  ELSE LET alt == Head(alts) IN
       With(GenStmts(InsertVar(st, alt.binder, ConPayload(target, alt.pat, payload)), alt.body), LAMBDA body :
       With(GenAlts(WithLocalEnv(st, body.st), target, payload, Tail(alts)), LAMBDA rest :
       LET value == IF alt.pat[1] = "lit" THEN alt.pat[2] ELSE IF alt.pat[1] = "inr" THEN 1 ELSE 0 IN
         IF alt.pat[1] = "wild" THEN [rest EXCEPT !.default = IF @ = <<>> THEN <<body.stmts>> ELSE @]
         ELSE [rest EXCEPT !.cases = <<<<value, body.stmts>>>> \o @]))

(* The first slot of the scrutinee is its tag, the others are its payload.     *)
GenMatch(st, target, e, alts) ==
  With(GenExpr(st, e), LAMBDA scrutinee :
  With(FlattenLocs(scrutinee.loc), LAMBDA flat :
  With(GenAlts(Require(scrutinee.st, flat # <<>>), target, <<"seq", Tail(flat)>>, alts), LAMBDA arms :
    Gen(scrutinee.stmts \o <<<<"switch", LoadLoc(flat[1]), arms.cases, arms.default>>>>, Nothing, arms.st))))

GenAssign(st, lhs, rhs) ==
  With(GenExpr(st, lhs), LAMBDA l :
  With(GenExpr(l.st, rhs), LAMBDA r :
    IF SizeOfLoc(l.loc) = 0 THEN Gen(r.stmts, Nothing, r.st)
    ELSE Gen(l.stmts \o r.stmts \o CopyLocs(l.loc, r.loc), Nothing, Require(r.st, Copyable(l.loc, r.loc)))))

GenReturn(st, e) ==
  With(GenExpr(st, e), LAMBDA value :
  LET ok == Result \in DOMAIN st.vars /\ Copyable(st.vars[Result], value.loc) IN
    IF SizeOfLoc(value.loc) = 0 THEN Gen(value.stmts \o <<<<"leave">>>>, Nothing, value.st)
    ELSE Gen(value.stmts \o CopyLocs(st.vars[Result], value.loc) \o <<<<"leave">>>>, Nothing, Require(value.st, ok)))

GenStmt(st, s) ==
  CASE s[1] = "let" -> With(HullAlloc(st, s[3]), LAMBDA slots :
                         Gen(slots.stmts, Nothing, InsertVar(slots.st, s[2], slots.loc)))
    [] s[1] = "assign" -> GenAssign(st, s[2], s[3])
    [] s[1] = "expr" -> GenExpr(st, s[2])
    [] s[1] = "return" -> GenReturn(st, s[2])
    [] s[1] = "block" -> With(GenStmts(st, s[2]), LAMBDA body :
                           Gen(<<<<"block", body.stmts>>>>, Nothing, WithLocalEnv(st, body.st)))
    [] s[1] = "for" -> GenFor(st, s[2], s[3], s[4])
    [] s[1] = "match" -> GenMatch(st, s[2], s[3], s[4])
    [] s[1] = "asm" -> With(ConvertBlock([st EXCEPT !.asm = NoAsm], s[2]), LAMBDA body :
                         Gen(body.stmts, Nothing, PopAsmScope(st, body.st)))
    [] s[1] = "revert" -> Gen(<<<<"expr", YulCall(<<"revert">>, <<Lit(0), Lit(0)>>)>>>>, Nothing, st)
    [] OTHER -> Gen(<<s>>, Nothing, st)
GenStmts(st, stmts) ==
  IF stmts = <<>> THEN Gen(<<>>, Nothing, st)
  ELSE With(GenStmt(st, Head(stmts)), LAMBDA first :
       With(GenStmts(first.st, Tail(stmts)), LAMBDA rest :
         Gen(first.stmts \o rest.stmts, Nothing, rest.st)))

(* Break and continue stand in the body of a loop, or the output is refused.   *)
RECURSIVE Validated(_, _)
Validated(stmts, inBody) ==
  \A i \in DOMAIN stmts :
    LET s == stmts[i]
    IN  CASE s[1] \in {"break", "continue"} -> inBody
          [] s[1] = "block" -> Validated(s[2], inBody)
          [] s[1] = "if" -> Validated(s[3], inBody)
          [] s[1] = "switch" -> (\A k \in DOMAIN s[3] : Validated(s[3][k][2], inBody)) /\ \A k \in DOMAIN s[4] : Validated(s[4][k], inBody)
          [] s[1] = "for" -> Validated(s[2], FALSE) /\ Validated(s[4], FALSE) /\ Validated(s[5], TRUE)
          [] s[1] = "function" -> Validated(s[5], FALSE)
          [] OTHER -> TRUE

-------------------------------------------------------------------------------
(* Functions share the counter of fresh names; each starts with the locations  *)
(* of its parameters and of its result.                                        *)
RECURSIVE PlaceArgs(_, _), TranslateFunctions(_, _)
PlaceArgs(st, args) ==
  IF args = <<>> THEN Gen(<<>>, Nothing, st)
  ELSE With(HullAlloc(st, Head(args)[2]), LAMBDA slots :
       With(PlaceArgs(InsertVar(slots.st, Head(args)[1], slots.loc), Tail(args)), LAMBDA rest :
         Gen(FlattenLhs(slots.loc) \o rest.stmts, Nothing, rest.st)))
TranslateFunction(st, f) ==
  With(PlaceArgs([st EXCEPT !.vars = <<>>], f.args), LAMBDA params :
  With(HullAlloc(params.st, f.ret), LAMBDA result :
  With(GenStmts(IF SizeOfTy(f.ret) = 0 THEN result.st ELSE InsertVar(result.st, Result, result.loc), f.body), LAMBDA body :
    Gen(<<<<"function", YulFunName(f.name), params.stmts, FlattenLhs(result.loc), body.stmts>>>>, Nothing, WithLocalEnv(st, body.st)))))
TranslateFunctions(st, fs) ==
  IF fs = <<>> THEN Gen(<<>>, Nothing, st)
  ELSE With(TranslateFunction(st, Head(fs)), LAMBDA first :
       With(TranslateFunctions(first.st, Tail(fs)), LAMBDA rest :
         Gen(first.stmts \o rest.stmts, Nothing, rest.st)))

(* The entry takes nothing and returns one word, which is what the code gives. *)
Main == <<"main">>
TranslateProgram(fs) ==
  With(TranslateFunctions(Translator({fs[i].name : i \in DOMAIN fs}), fs), LAMBDA code :
  LET entry == {i \in DOMAIN fs : fs[i].name = Main}
      ok == \A i \in entry : fs[i].args = <<>> /\ SizeOfTy(fs[i].ret) = 1 IN
    [code |-> code.stmts, err |-> code.st.err \/ entry = {} \/ ~ok \/ ~Validated(code.stmts, FALSE)])
=============================================================================
