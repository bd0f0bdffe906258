------------------------------ MODULE MCLowering ------------------------------
(***************************************************************************)
(* From checked modules to executables, each pass on small programs:       *)
(* contract dispatch (ContractDispatch), match compilation (MatchCompile), *)
(* compile-time evaluation (Evaluator), and the Hull with its two back     *)
(* ends (Backends). A behaviour exercises one of them and leaves the       *)
(* variables of the others at Idle.                                        *)
(***************************************************************************)
EXTENDS Integers, Sequences, SequencesExt, TLC

CONSTANTS
  None,
  Contracts, ContractData, FourBytes(_), ContractCalls,
  Matches, MatchTypes,
  Modules,
  Specialized, EmittedTypes, Storages

VARIABLES
  part,     \* "dispatch", "match", "evaluate", "emit"
  program, stage, effective, nameTypes, codes, compare, last,
  match, phase, diagnostics, node, input, occurrences, result,
  todo, ev, emitted, outcome,
  hull, diags, yul, sonatina, runs

Dispatch == INSTANCE ContractDispatch
              WITH Programs <- Contracts, AdtRep <- ContractData,
                   Representable <- {"point", "choice", "list"}, Keccak4 <- FourBytes,
                   Calls <- ContractCalls
Matching == INSTANCE MatchCompile WITH Layouts <- MatchTypes, WordValues <- 4
Evaluation == INSTANCE Evaluator
                WITH Programs <- Modules, Storage <- {"s"}, FuelLimit <- 4, DepthLimit <- 3,
                     WordValues <- 3, RunBound <- 12
Emission == INSTANCE Backends
              WITH Programs <- Specialized, Inputs <- Storages, Layouts <- EmittedTypes,
                   WordValues <- 8, RunBound <- 400

ASSUME ContractsAssumption == Dispatch!RepresentableAssumption

vars == <<part, program, stage, effective, nameTypes, codes, compare, last, match, phase,
          diagnostics, node, input, occurrences, result, todo, ev, emitted, outcome, hull,
          diags, yul, sonatina, runs>>

Idle == "idle"
Init ==
  /\ part \in {"dispatch", "match", "evaluate", "emit"}
  /\ IF part = "dispatch" THEN Dispatch!Init
     ELSE /\ stage = Idle /\ effective = Idle /\ nameTypes = Idle /\ codes = Idle
          /\ compare = Idle /\ last = Idle
  /\ IF part = "match" THEN Matching!Init
     ELSE /\ match = Idle /\ phase = Idle /\ diagnostics = Idle /\ node = Idle
          /\ input = Idle /\ occurrences = Idle /\ result = Idle
  /\ IF part = "evaluate" THEN Evaluation!Init
     ELSE /\ todo = Idle /\ ev = Idle /\ emitted = Idle /\ outcome = Idle
  /\ IF part = "emit" THEN Emission!Init
     ELSE /\ hull = Idle /\ diags = Idle /\ yul = Idle /\ sonatina = Idle /\ runs = Idle
  /\ IF part \in {"dispatch", "evaluate", "emit"} THEN TRUE ELSE program = Idle

DispatchCalls ==
  /\ part = "dispatch" /\ Dispatch!Next
  /\ UNCHANGED <<part, match, phase, diagnostics, node, input, occurrences, result, todo,
                 ev, emitted, outcome, hull, diags, yul, sonatina, runs>>
CompileMatch ==
  /\ part = "match" /\ Matching!Next
  /\ UNCHANGED <<part, program, stage, effective, nameTypes, codes, compare, last, todo, ev,
                 emitted, outcome, hull, diags, yul, sonatina, runs>>
EvaluateModule ==
  /\ part = "evaluate" /\ Evaluation!Next
  /\ UNCHANGED <<part, stage, effective, nameTypes, codes, compare, last, match, phase,
                 diagnostics, node, input, occurrences, result, hull, diags, yul, sonatina,
                 runs>>
EmitProgram ==
  /\ part = "emit" /\ Emission!Next
  /\ UNCHANGED <<part, stage, effective, nameTypes, codes, compare, last, match, phase,
                 diagnostics, node, input, occurrences, result, todo, ev, emitted, outcome>>
Next == DispatchCalls \/ CompileMatch \/ EvaluateModule \/ EmitProgram

Spec == Init /\ [][Next]_vars

-------------------------------------------------------------------------------
(* A module without diagnostics answers every call as its published interface  *)
(* says, no value reaches code that is not payable, and preparing it twice is  *)
(* preparing it once (prepare_contract_dispatch, the selector patch of the     *)
(* driver).                                                                    *)
CallsReachTheirMethods ==
  part = "dispatch" =>
    Dispatch!TypeOK /\ Dispatch!CallsMatchInterface /\ Dispatch!ValueNeedsPayable /\
    Dispatch!ArgumentsArriveInOrder /\ Dispatch!PreparationSettles /\
    Dispatch!AcceptedHasEntries /\ Dispatch!DuplicatesAreTheUsers

(* The first matching row runs with its own bindings, whichever column the     *)
(* tree tests first, and missing cases are reported exactly                    *)
(* (compile_match_matrix, tree_to_body).                                       *)
MatchesMeanTheirRows ==
  part = "match" =>
    Matching!FirstMatchWins /\ Matching!ReportedIffIncomplete /\ Matching!NeverLost

(* The module left by compile-time evaluation returns, reverts and stores what *)
(* the source does, its calls resolve, and the work stays within the fuel      *)
(* (Evaluator::eval_function_with_env, dead_code).                             *)
EvaluationKeepsMeaning ==
  part = "evaluate" =>
    Evaluation!ResidualAgrees /\ Evaluation!WorkIsBounded /\ Evaluation!CallsResolve

(* The emitted Hull passes its own checker, and what passes is translated by   *)
(* both back ends. Both executables return the word, leave the storage or      *)
(* revert as the program says, and every block of the graph ends with its only *)
(* terminator (emit_module, check_program, the Yul translator, the Sonatina    *)
(* lowering).                                                                  *)
ExecutablesAgree ==
  part = "emit" =>
    /\ Emission!EmittedIsWellTyped /\ Emission!CheckedIsTranslated
    /\ Emission!YulAgrees /\ Emission!SonatinaAgrees /\ Emission!OneTerminator

-------------------------------------------------------------------------------
(* The programs. *)

(* Modules of one or two contracts. Method names are prefixes of one another   *)
(* and contain underscores; parameter types are the ones whose spelling is not *)
(* their own name; one pair of signatures has the same four bytes.             *)
MCContractData ==
  LET
    Word == Dispatch!Word
    Unit == Dispatch!Unit
    Tuple(ts) == Dispatch!Tuple(ts)
    Adt(n) == Dispatch!Adt(n)
  IN  [point |-> Tuple(<<Word, Word>>),
             choice |-> Dispatch!Sum(Unit, Word),
             list |-> Dispatch!Sum(Unit, Tuple(<<Word, Adt("list")>>)),
             hidden |-> Word]

MCContracts ==
  LET
    Word == Dispatch!Word
    Unit == Dispatch!Unit
    Tuple(ts) == Dispatch!Tuple(ts)
    Adt(n) == Dispatch!Adt(n)
    Item(kind, name, public, payable, params, ret) ==
        [kind |-> kind, name |-> name, public |-> public, payable |-> payable,
         params |-> params, ret |-> ret, made |-> "source"]
    Method(name, payable, params) == Item("function", name, TRUE, payable, params, Unit)
    F == <<"f">>
    FO == <<"f", "o">>
    FX == <<"f", "_", "x">>
    X == <<"x">>
    Pair == Tuple(<<Word, Word>>)
    Functions1 ==
        { Method(F, FALSE, <<Word>>), Method(F, TRUE, <<Pair, Word>>), Method(FO, FALSE, <<Word>>),
          Method(FX, TRUE, <<>>), Method(X, FALSE, <<Adt("choice")>>), Method(F, FALSE, <<Adt("point")>>),
          Method(FO, FALSE, <<Dispatch!CalldataArray(Pair)>>) }
    Functions2 ==
        { Method(F, FALSE, <<Unit>>), Method(X, FALSE, <<Adt("list")>>), Method(X, FALSE, <<Adt("hidden")>>),
          Item("function", F, TRUE, FALSE, <<>>, Dispatch!CalldataArray(Word)),
          Item("function", X, TRUE, FALSE, <<Dispatch!Array(Unit)>>, Tuple(<<Word, Pair>>)),
          Item("function", F, TRUE, FALSE, <<Dispatch!Opaque>>, Unit),
          Item("function", X, FALSE, TRUE, <<>>, Unit),
          Item("function", Dispatch!Main, FALSE, FALSE, <<>>, Unit), Item("function", Dispatch!Main, TRUE, FALSE, <<Word>>, Unit) }
    Specials ==
        { Item("constructor", <<"constructor">>, FALSE, FALSE, <<Word, Pair, Dispatch!Bool>>, Unit),
          Item("constructor", <<"constructor">>, FALSE, TRUE, <<Word>>, Unit),
          Item("constructor", <<"constructor">>, FALSE, FALSE, <<Adt("list")>>, Unit),
          Item("fallback", Dispatch!FallbackName, FALSE, TRUE, <<>>, Unit),
          Item("fallback", Dispatch!FallbackName, FALSE, FALSE, <<>>, Unit),
          Item("fallback", Dispatch!FallbackName, FALSE, FALSE, <<>>, Word) }
    Payable == Item("fallback", Dispatch!FallbackName, FALSE, TRUE, <<>>, Unit)
    Contract(name, items) == [name |-> name, items |-> items]
  IN  {<<Contract(<<"C">>, ms \o ss)>> :
          ms \in {<<>>} \cup {<<m>> : m \in Functions1 \cup Functions2},
          ss \in {<<>>} \cup {<<s>> : s \in Specials}}
      \cup {<<Contract(<<"C">>, <<m, n>> \o ss)>> :
              m \in Functions1, n \in Functions1 \cup Functions2, ss \in {<<>>, <<Payable>>}}
      \cup {<<Contract(<<"C">>, <<Method(F, FALSE, <<Word>>), s, t>>)>> : s \in Specials, t \in Specials}
      \cup {<<Contract(<<"C">>, <<m>>), Contract(n, <<k>>)>> :
              m \in Functions1, k \in Functions1, n \in {<<"C", "_", "f">>, <<"C">>, <<"f">>}}

(* fo(word) and x(sum(,word)) share their first four bytes.                    *)
MCFourBytes(s) ==
  IF s = <<"x", "(", "sum", "(", ",", "word", ")", ")">> THEN <<"f", "o", "(", "word", ")">> ELSE s

MCContractCalls ==
  LET
    F == <<"f">>
    FO == <<"f", "o">>
    FX == <<"f", "_", "x">>
    Selectors == {<<"other">>, F \o <<"(", "word", ")">>, FO \o <<"(", "word", ")">>, FX \o <<"(", ")">>,
                  F \o <<"(", "(", "word", ",", "word", ")", ",", "word", ")">>,
                  F \o <<"(", "word", ",", "word", ",", "word", ")">>,
                  F \o <<"(", "word", ",", "word", ")">>,
                  FO \o <<"(", "(", "word", ",", "word", ")", "[]", ")">>}
  IN  {[sel |-> <<"other">>, words |-> -1, value |-> v] : v \in {0, 1}}
           \cup [sel : Selectors, words : {0, 1, 3}, value : {0}] \cup [sel : Selectors, words : {3}, value : {1}]

(* Two scrutinees of a three-way type with nested fields and of a two-way one, *)
(* and one tuple scrutinee.                                                    *)
MCMatchTypes ==
  LET
    Word == <<"word">>
    Data(name) == <<"data", name>>
  IN  [E |-> <<<<>>, <<Word>>, <<Data("P")>>>>, F |-> <<<<>>, <<>>>>, P |-> <<<<Word, Data("F")>>>>]

MCMatches ==
  LET
    Wild == Matching!Wild
    VarPat(name) == Matching!VarPat(name)
    LitPat(n) == Matching!LitPat(n)
    ConPat(k, args) == Matching!ConPat(k, args)
    TuplePat(elems) == Matching!TuplePat(elems)
    Word == <<"word">>
    Data(name) == <<"data", name>>
    No == ConPat(1, <<>>)
    Yes == ConPat(2, <<>>)
    Mk(a, b) == ConPat(1, <<a, b>>)
    Y == VarPat("y")
    EPats == {Wild, VarPat("x"), ConPat(1, <<>>), ConPat(2, <<LitPat(1)>>), ConPat(2, <<LitPat(5)>>), ConPat(2, <<Y>>),
              ConPat(3, <<Wild>>), ConPat(3, <<Mk(LitPat(1), Yes)>>), ConPat(3, <<Mk(Y, No)>>), ConPat(3, <<Y>>)}
    FPats == {Wild, VarPat("z"), No, Yes}
    EF == {<<e, f>> : e \in EPats, f \in FPats}
    Few == {<<e, f>> : e \in {Wild, ConPat(2, <<LitPat(1)>>), ConPat(2, <<Y>>), ConPat(3, <<Mk(Y, No)>>), ConPat(1, <<>>)}, f \in {VarPat("z"), No}}
           \cup {<<VarPat("x"), Yes>>, <<Matching!Label, No>>, <<ConPat(2, <<Matching!StringPat>>), Wild>>, <<Wild>>}
    Tuples == {<<TuplePat(<<f, p>>)>> : f \in {VarPat("z"), No, Yes}, p \in {Wild, Mk(LitPat(2), Y), Mk(Y, Yes), Mk(LitPat(6), No)}}
              \cup {<<VarPat("x")>>}
  IN  {[types |-> <<Data("E"), Data("F")>>, rows |-> <<a, b>>] : a \in EF, b \in EF}
      \cup {[types |-> <<Data("E"), Data("F")>>, rows |-> <<a, b, c>>] : a \in Few, b \in Few, c \in Few}
      \cup {[types |-> ts, rows |-> <<>>] : ts \in {<<>>, <<Data("E")>>}}
      \cup {[types |-> <<<<"tuple", <<Data("F"), Data("P")>>>>>>, rows |-> <<a, b, c>>] : a \in Tuples, b \in Tuples, c \in Tuples}

(* Entry points of a few statements over functions that are pure, write        *)
(* storage, revert, recurse, take strings or compile-time values, and two of   *)
(* the dispatch library.                                                       *)
MCModules ==
  LET
    V(x) == <<"var", x>>
    F(f) == <<f, 0>>
    Call(f, args) == <<"call", F(f), args>>
    Plus(l, r) == <<"add", l, r>>
    Less(l, r) == <<"lt", l, r>>
    N(n) == <<"lit", n>>
    Set(x, e) == <<"set", x, e>>
    Let(x, e) == <<"let", x, FALSE, <<e>>>>
    Ret(e) == <<"return", e>>
    Do(e) == <<"expr", e>>
    Block(list) == <<"block", list>>
    If(c, then, else) == <<"if", c, <<Block(then)>>, <<Block(else)>>>>
    For(i, from, c, post, body) == Block(<<<<"for", <<Let(i, from)>>, c, <<Block(post)>>, <<Block(body)>>>>>>)
    Arm(pats, body) == [pats |-> pats, body |-> body]
    Fn(params, ret, body) == [params |-> params, ret |-> ret, std |-> FALSE, body |-> body]
    Std(params, body) == [params |-> params, ret |-> "unit", std |-> TRUE, body |-> body]
    W(x) == <<x, "word">>
    Helpers ==
      F("inc") :> Fn(<<W("n")>>, "word", <<Ret(Plus(V("n"), N(1)))>>) @@
      F("bump") :> Fn(<<W("n")>>, "word", <<Set("s", Plus(V("s"), V("n"))), Ret(V("s"))>>) @@
      F("panic") :> Fn(<<>>, "unit", <<<<"revert">>>>) @@
      F("checked") :> Fn(<<W("n")>>, "word", <<If(Less(V("n"), N(1)), <<Do(Call("panic", <<>>))>>, <<>>), Ret(V("n"))>>) @@
      F("count") :> Fn(<<W("n")>>, "word", <<Let("r", N(0)), For("i", N(0), Less(V("i"), V("n")), <<Set("i", Plus(V("i"), N(1)))>>, <<Set("r", V("i"))>>), Ret(V("r"))>>) @@
      F("rec") :> Fn(<<W("n")>>, "word", <<If(Less(N(1), V("n")), <<Ret(V("n"))>>, <<>>), Ret(Call("rec", <<Plus(V("n"), N(1))>>))>>) @@
      F("spin") :> Fn(<<W("n")>>, "word", <<Ret(Call("spin", <<V("n")>>))>>) @@
      F("pick") :> Fn(<<W("n")>>, "word", <<<<"match", <<V("n")>>, <<Arm(<<<<"plit", 0>>>>, <<Ret(N(2))>>), Arm(<<<<"pvar", "m">>>>, <<Set("n", N(0)), Ret(Plus(V("m"), V("n")))>>)>>>>>>) @@
      F("note") :> Fn(<<W("n"), <<"m", "string">>>>, "word", <<Set("s", V("n")), Ret(V("n"))>>) @@
      F("greet") :> Fn(<<W("n"), <<"m", "string">>>>, "word", <<Let("r", Call("note", <<V("n"), <<"cat", V("m"), V("m")>>>>)), Ret(Plus(V("r"), V("n")))>>) @@
      F("grow") :> Fn(<<<<"m", "string">>>>, "word", <<Set("s", N(1)), Ret(Call("grow", <<<<"cat", V("m"), V("m")>>>>))>>) @@
      F("ct") :> Fn(<<<<"k", "comptime">>>>, "comptime", <<Ret(Plus(V("k"), N(1)))>>) @@
      F("done") :> Std(<<W("k")>>, <<If(Less(V("k"), N(1)), <<Ret(Call("touch", <<>>))>>, <<Ret(Evaluation!Unit)>>)>>) @@
      F("early") :> Std(<<W("k")>>, <<If(Less(V("k"), N(1)), <<Ret(Evaluation!Unit)>>, <<>>), Do(Call("touch", <<>>))>>) @@
      F("touch") :> Fn(<<>>, "unit", <<Set("s", N(2))>>)
    Pieces ==
      {Set("s", N(1)), Set("x", V("s")), Set("x", Call("inc", <<V("x")>>)), Set("x", Plus(Call("bump", <<N(1)>>), V("s"))),
       Do(Call("bump", <<V("x")>>)), Set("x", Call("checked", <<V("x")>>)), Set("x", Call("count", <<N(2)>>)), Set("x", Call("rec", <<V("a")>>)),
       Set("x", Call("rec", <<N(0)>>)), Set("x", Call("spin", <<V("x")>>)), Set("x", Call("pick", <<V("x")>>)),
       Set("x", Call("greet", <<V("x"), <<"str", 1>>>>)), Do(Call("note", <<V("a"), <<"str", 2>>>>)), Do(Call("grow", <<<<"str", 1>>>>)),
       Set("x", Call("ct", <<V("x")>>)), <<"let", "k", TRUE, <<Call("inc", <<V("x")>>)>>>>, Do(Call("done", <<N(0)>>)), Do(Call("early", <<N(0)>>)),
       <<"addset", "x", V("s")>>, Let("s", N(2)), Let("x", V("s")),
       If(Less(V("a"), N(1)), <<Set("x", N(2))>>, <<Set("s", N(0))>>),
       If(Less(V("x"), N(2)), <<Let("x", V("a")), Set("s", V("x"))>>, <<Ret(V("s"))>>),
       If(<<"and", Less(V("s"), N(2)), Less(Call("bump", <<N(1)>>), N(2))>>, <<Set("x", V("s"))>>, <<>>),
       If(Less(V("a"), N(2)), <<Ret(Call("bump", <<V("x")>>))>>, <<Let("x", N(0)), Set("x", V("a"))>>),
       For("i", V("x"), Less(V("i"), N(2)), <<Set("i", Plus(V("i"), N(1)))>>, <<Set("s", V("i")), If(Less(V("a"), V("i")), <<<<"break">>>>, <<<<"continue">>>>)>>),
       For("x", N(0), Less(V("x"), V("a")), <<Set("x", Plus(V("x"), N(1)))>>, <<Set("s", V("x"))>>),
       <<"match", <<V("x"), V("a")>>, <<Arm(<<<<"plit", 1>>, <<"pvar", "m">>>>, <<Set("x", V("m"))>>), Arm(<<<<"pvar", "x">>, <<"plit", 1>>>>, <<Set("s", V("x")), <<"asm", "x", V("a")>>>>), Arm(<<<<"wild">>, <<"wild">>>>, <<>>)>>>>,
       Block(<<Set("x", N(2)), Let("x", V("s")), Set("x", N(0))>>),
       <<"asm", "x", Plus(V("x"), N(1))>>, <<"asm", "x", V("a")>>, <<"sstore", "s", V("x")>>}
    Main(pieces) == Fn(<<W("a")>>, "word", <<Let("x", N(1))>> \o pieces \o <<Ret(Plus(V("x"), V("s")))>>)
    ProgramOf(pieces) ==
      LET all == Evaluation!Put(Helpers, F("main"), Main(pieces))
          used == Evaluation!Used(all, {F("main")})
      IN  [funs |-> [f \in used |-> all[f]], entry |-> F("main"), order |-> <<F("main")>> \o SetToSeq(used \ {F("main")})]
    First ==
      {Set("s", N(1)), Let("x", V("s")), <<"asm", "x", V("a")>>, Set("x", Call("greet", <<V("x"), <<"str", 1>>>>)),
       If(Less(V("a"), N(1)), <<Set("x", N(2))>>, <<Set("s", N(0))>>)}
  IN  {ProgramOf(<<f>> \o pieces) : f \in First, pieces \in [1 .. 2 -> Pieces]}

(* Programs of a common shape: main reads two words and makes a pair, an       *)
(* option and a shape of them, runs two statements of a menu, and returns a    *)
(* digest of it all.  The storage shows in which order things happened.        *)
MCEmittedTypes ==
  LET
    W == <<"word">>
    PairT == <<"tuple", <<W, W>>>>
  IN  [bool |-> <<<<>>, <<>>>>, opt |-> <<<<>>, <<W>>>>, shape |-> <<<<>>, <<W>>, <<W, PairT>>>>]

MCStorages == {[k \in 0 .. 7 |-> IF k = 0 THEN i ELSE IF k = 1 THEN j ELSE 0] : i \in {0, 1, 3}, j \in {0, 2}}

MCSpecialized ==
  LET
    Wild == Emission!Wild
    VarPat(name) == Emission!VarPat(name)
    LitPat(n) == Emission!LitPat(n)
    ConPat(k, args) == Emission!ConPat(k, args)
    TuplePat(elems) == Emission!TuplePat(elems)
    W == <<"word">>
    B == <<"data", "bool">>
    Opt == <<"data", "opt">>
    Shape == <<"data", "shape">>
    PairT == <<"tuple", <<W, W>>>>
    V(x, ty) == <<"var", ty, x, <<>>>>
    x1 == <<"x">>
    y1 == <<"y">>
    i1 == <<"i">>
    a == V(<<"a">>, W)
    b == V(<<"b">>, W)
    p == V(<<"p">>, PairT)
    o == V(<<"o">>, Opt)
    s == V(<<"s">>, Shape)
    x == V(x1, W)
    y == V(y1, W)
    i == V(i1, W)
    N(n) == <<"lit", W, n, <<>>>>
    Bin(op, l, r) == <<"bin", IF op \in {"add", "sub", "mul"} THEN W ELSE B, op, <<l, r>>>>
    Not(e) == <<"un", B, "not", <<e>>>>
    Con(ty, k, args) == <<"con", ty, k, args>>
    Tup(l, r) == <<"tuple", PairT, 0, <<l, r>>>>
    Field(e, k) == <<"field", W, k, <<e>>>>
    Part(k, e) == <<"call", W, <<"get", k>>, <<e>>>>
    Call(ty, f, args) == <<"call", ty, <<f>>, args>>
    Bump(k, v) == Call(W, "bump", <<N(k), v>>)
    IfE(ty, c, l, r) == <<"if", ty, 0, <<c, l, r>>>>
    Let(id, v, e) == <<"let", id, v[3], v[2], <<e>>>>
    LetNothing(id, v) == <<"let", id, v[3], v[2], <<>>>>
    Set(l, e) == <<"set", l, e>>
    Ret(e) == <<"return", <<e>>>>
    Blk(stmts) == <<"block", stmts>>
    IfS(c, th, el) == <<"if", c, <<Blk(th)>>, <<Blk(el)>>>>
    For(init, c, post, body) == Blk(<<<<"for", init, c, <<Blk(post)>>, <<Blk(body)>>>>>>)
    Match(es, arms) == <<"match", es, arms>>
    Arm(pats, body) == [pats |-> pats, body |-> body]
    Asm(body) == <<"asm", body>>
    YC(f, args) == <<"call", <<f>>, args>>
    YV(v) == <<"id", v[3]>>
    Read == [name |-> <<"read">>, params |-> <<<<<<"k">>, W>>>>, ret |-> W,
             body |-> <<LetNothing(1, <<"var", W, <<"r">>, <<>>>>), Asm(<<<<"assign", <<<<"r">>>>, YC("sload", <<<<"id", <<"k">>>>>>)>>>>),
                        Ret(V(<<"r">>, W))>>]
    BumpF == [name |-> <<"bump">>, params |-> <<<<<<"k">>, W>>, <<<<"v">>, W>>>>, ret |-> W,
              body |-> <<LetNothing(1, V(<<"r">>, W)),
                         Asm(<<<<"assign", <<<<"r">>>>, YC("sload", <<<<"id", <<"k">>>>>>)>>,
                               <<"expr", YC("sstore", <<<<"id", <<"k">>>>, YC("add", <<<<"id", <<"r">>>>, <<"id", <<"v">>>>>>)>>)>>>>),
                         Ret(V(<<"r">>, W))>>]
    q == V(<<"q">>, PairT)
    PairPat == <<TuplePat(<<VarPat(x1), VarPat(y1)>>)>>
    Get(k, e) == [name |-> <<"get", k>>, params |-> <<<<<<"q">>, PairT>>>>, ret |-> W, body |-> <<Match(<<q>>, <<Arm(PairPat, <<Ret(e)>>)>>)>>]
    Put == [name |-> <<"put">>, params |-> <<<<<<"q">>, PairT>>, <<<<"v">>, W>>>>, ret |-> PairT,
            body |-> <<Match(<<q>>, <<Arm(PairPat, <<Ret(Tup(x, V(<<"v">>, W)))>>)>>)>>]
    Swap == [name |-> <<"swap">>, params |-> <<<<<<"q">>, PairT>>>>, ret |-> PairT,
             body |-> <<Match(<<q>>, <<Arm(PairPat, <<Set(q, Tup(y, x)), Ret(q)>>)>>)>>]
    Minus == [name |-> <<"minus">>, params |-> <<<<x1, W>>, <<y1, W>>>>, ret |-> W, body |-> <<Ret(Bin("sub", x, y))>>]
    Digest == [name |-> <<"digest">>, params |-> <<<<<<"a">>, W>>, <<<<"p">>, PairT>>, <<<<"o">>, Opt>>, <<<<"s">>, Shape>>>>, ret |-> W,
               body |-> <<Match(<<o, s>>,
                 <<Arm(<<ConPat(2, <<VarPat(x1)>>), ConPat(3, <<VarPat(<<"a">>), TuplePat(<<VarPat(y1), Wild>>)>>)>>, <<Ret(Bin("add", x, Bin("mul", a, y)))>>),
                   Arm(<<Wild, ConPat(1, <<>>)>>, <<Ret(Bin("sub", a, Part(1, p)))>>),
                   Arm(<<ConPat(1, <<>>), VarPat(<<"o">>)>>, <<Ret(Bin("sub", Part(2, p), a))>>),
                   Arm(<<Wild, Wild>>, <<Ret(Bin("mul", a, Part(2, p)))>>)>>)>>]
    Start ==
      <<Let(1, a, Call(W, "read", <<N(0)>>)), Let(2, b, Call(W, "read", <<N(1)>>)), Let(3, p, Tup(b, a)),
        Let(4, o, IfE(Opt, Bin("lt", a, b), Con(Opt, 2, <<Bump(0, N(1))>>), Con(Opt, 1, <<>>))),
        Let(5, s, IfE(Shape, Bin("eq", a, N(0)), Con(Shape, 1, <<>>), IfE(Shape, Bin("lt", b, a), Con(Shape, 2, <<b>>), Con(Shape, 3, <<a, p>>))))>>
    End == <<Ret(Call(W, "digest", <<a, p, o, s>>))>>
    Menu == <<
      \* Effects in the operands of a call.
      <<Set(a, Bin("sub", Bump(0, b), Bump(0, N(2))))>>,
      \* A branch hides a name that the other branch means.
      <<IfS(Bin("ge", a, b), <<Let(11, a, Bin("add", b, N(1))), Set(b, a)>>, <<Set(b, Bump(1, a))>>)>>,
      \* A loop with an effect in its test, and both ways out of its body.
      <<For(<<Let(12, i, N(0))>>, Bin("and", Bin("lt", i, N(3)), Bin("ne", Bump(0, N(1)), N(5))), <<<<"op", <<"add">>, i, N(1)>>>>,
            <<IfS(Bin("eq", i, b), <<<<"continue">>>>, <<>>), IfS(Bin("eq", a, i), <<<<"break">>>>, <<>>), Set(a, Bin("add", a, i))>>)>>,
      \* The scrutinee is overwritten while what was bound is in use.
      <<Match(<<o>>, <<Arm(<<ConPat(1, <<>>)>>, <<Set(o, Con(Opt, 2, <<a>>))>>),
                       Arm(<<ConPat(2, <<VarPat(x1)>>)>>, <<Set(o, Con(Opt, 1, <<>>)), Set(a, x)>>)>>)>>,
      \* An arm binds one scrutinee under the name of the other.
      <<Match(<<a, b>>, <<Arm(<<LitPat(0), VarPat(<<"a">>)>>, <<Set(b, a)>>),
                          Arm(<<VarPat(<<"b">>), VarPat(<<"a">>)>>, <<Set(p, Tup(a, b))>>)>>)>>,
      \* A field is stored; a pair is spread over the parameters of a closure.
      <<Set(p, Call(PairT, "put", <<p, Bin("add", Part(1, p), Bump(1, N(1)))>>)), Set(b, Call(W, "minus", <<Field(p, 1), Field(p, 2)>>))>>,
      \* A name is declared again, from its own value; a default stands for nothing.
      <<Let(13, a, Bin("add", a, N(1))), LetNothing(14, o), Set(p, Call(PairT, "swap", <<p>>))>>,
      \* An arm that leaves the function, and a nested option.
      <<Match(<<s>>, <<Arm(<<ConPat(1, <<>>)>>, <<Ret(N(7))>>), Arm(<<ConPat(2, <<VarPat(x1)>>)>>, <<Set(a, x)>>),
                       Arm(<<ConPat(3, <<VarPat(x1), VarPat(<<"p">>)>>)>>, <<Set(s, Con(Shape, 2, <<Bin("sub", x, Part(2, p))>>)), Set(a, Part(1, p))>>)>>)>>,
      \* A body that never reaches its end, one that never comes round.
      <<For(<<>>, Bin("lt", a, N(3)), <<Set(b, Bin("add", b, N(1)))>>,
            <<Set(a, Bin("add", a, N(1))), IfS(Bin("ne", a, b), <<<<"continue">>>>, <<>>), Ret(a)>>)>>,
      <<For(<<>>, Bin("lt", a, b), <<Set(a, Bump(0, N(1)))>>, <<IfS(Not(Bin("gt", b, N(1))), <<<<"break">>>>, <<>>), Ret(b)>>)>>,
      \* Assembly: a loop, a function that leaves, a branch that reverts.
      <<Asm(<<<<"let", <<<<"t">>>>, <<YC("sload", <<<<"lit", 1>>>>)>>>>,
              <<"for", <<<<"let", <<<<"j">>>>, <<>>>>>>, YC("lt", <<<<"id", <<"j">>>>, <<"lit", 3>>>>),
                 <<<<"assign", <<<<"j">>>>, YC("add", <<<<"id", <<"j">>>>, <<"lit", 1>>>>)>>>>,
                 <<<<"if", YC("eq", <<<<"id", <<"j">>>>, YV(a)>>), <<<<"break">>>>>>,
                   <<"assign", <<<<"t">>>>, YC("add", <<<<"id", <<"t">>>>, <<"id", <<"j">>>>>>)>>>>>>,
              <<"assign", <<<<"b">>>>, <<"id", <<"t">>>>>>>>)>>,
      <<Asm(<<<<"assign", <<<<"a">>>>, YC("f", <<YV(b)>>)>>,
              <<"function", <<"f">>, <<<<"a">>>>, <<<<"r">>>>,
                 <<<<"if", <<"id", <<"a">>>>, <<<<"assign", <<<<"r">>>>, <<"lit", 1>>>>, <<"leave">>>>>>,
                   <<"assign", <<<<"r">>>>, <<"lit", 2>>>>>>>>>>)>>,
      <<Asm(<<<<"let", <<<<"b">>>>, <<<<"lit", 6>>>>>>,
              <<"switch", YV(a), <<<<0, <<<<"expr", YC("revert", <<<<"lit", 0>>, <<"lit", 0>>>>)>>>>>>>>,
                 <<<<<<"assign", <<<<"a">>>>, <<"id", <<"b">>>>>>>>>>>>>>)>>,
      \* A loop in a loop; what a turn declares without a value starts again.
      <<For(<<Let(15, i, N(0))>>, Bin("lt", i, N(2)), <<<<"op", <<"add">>, i, N(1)>>>>,
            <<For(<<Let(16, x, N(0))>>, Bin("and", Bin("lt", x, N(3)), Bin("ne", Bump(1, N(1)), N(6))), <<<<"op", <<"add">>, x, N(1)>>>>,
                  <<IfS(Bin("eq", x, i), <<<<"continue">>>>, <<>>), LetNothing(17, y), IfS(Bin("lt", x, b), <<Set(y, x)>>, <<>>), Set(a, Bin("add", a, y))>>),
              IfS(Bin("eq", a, N(4)), <<<<"break">>>>, <<>>)>>)>>,
      \* Effects in the branches of an operand, one of them behind an or.
      <<Set(a, Bin("sub", IfE(W, Bin("lt", a, b), Bump(0, N(1)), IfE(W, Bin("or", Bin("eq", Bump(1, N(1)), N(2)), Not(Bin("eq", a, b))), b, Bump(0, N(3)))),
                          Bump(0, N(1))))>>,
      \* A scrutinee with an effect, against words and an option.
      <<Match(<<Bump(0, a), o>>,
              <<Arm(<<LitPat(1), Wild>>, <<Set(a, N(2))>>),
                Arm(<<VarPat(x1), ConPat(2, <<VarPat(y1)>>)>>, <<IfS(Bin("lt", x, y), <<Ret(x)>>, <<Set(b, y)>>)>>),
                Arm(<<LitPat(3), VarPat(<<"b">>)>>, <<Set(V(<<"b">>, Opt), Con(Opt, 2, <<a>>)), Set(o, V(<<"b">>, Opt))>>),
                Arm(<<Wild, Wild>>, <<<<"expr", Bump(1, a)>>>>)>>)>>,
      \* Assembly: two results, and a switch that goes on with the loop around it.
      <<Asm(<<<<"for", <<<<"let", <<<<"j">>>>, <<<<"lit", 2>>>>>>>>, <<"id", <<"j">>>>,
                 <<<<"assign", <<<<"j">>>>, YC("sub", <<<<"id", <<"j">>>>, <<"lit", 1>>>>)>>>>,
                 <<<<"switch", <<"id", <<"j">>>>, <<<<1, <<<<"continue">>>>>>>>,
                    <<<<<<"let", <<<<"u">>, <<"w">>>>, <<YC("h", <<<<"id", <<"j">>>>>>)>>>>,
                        <<"expr", YC("sstore", <<<<"id", <<"u">>>>, <<"id", <<"w">>>>>>)>>, <<"assign", <<<<"a">>>>, <<"id", <<"w">>>>>>>>>>>>,
                   <<"assign", <<<<"b">>>>, <<"id", <<"j">>>>>>>>>>,
              <<"function", <<"h">>, <<<<"u">>>>, <<<<"r">>, <<"t">>>>,
                 <<<<"assign", <<<<"r">>>>, YC("add", <<<<"id", <<"u">>>>, <<"lit", 1>>>>)>>, <<"assign", <<<<"t">>>>, <<"id", <<"u">>>>>>>>>>>>)>>>>
    Program(stmts) ==
      <<Read, BumpF, Get(1, x), Get(2, y), Put, Swap, Minus, Digest,
        [name |-> <<"main">>, params |-> <<>>, ret |-> W, body |-> Start \o stmts \o End]>>
  IN  [k \in 1 .. Len(Menu) * Len(Menu) |-> Program(Menu[((k - 1) \div Len(Menu)) + 1] \o Menu[((k - 1) % Len(Menu)) + 1])]
===============================================================================
