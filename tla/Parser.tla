------------------------------- MODULE Parser -------------------------------
(* The lexer and parser, crates/parser: first the grammar of the language as   *)
(* data, one definition per parser function of src/parse, with the machine     *)
(* that runs it: ordered choice, greedy repetition, reports that vanish with   *)
(* the branch that made them and recovery by skipping, which is what the       *)
(* chumsky combinators do; then the way from the text of a file to lowered     *)
(* bodies.                                                                     *)
EXTENDS Integers, Sequences, FiniteSets

CONSTANTS MaxSyntaxNesting, MaxExpressionNesting

ASSUME NestingAssumption ==
  /\ MaxSyntaxNesting \in Nat \ {0}
  /\ MaxExpressionNesting \in 1..MaxSyntaxNesting

------------------------------------------------------------------------------
(* A value under a name.                                                       *)
With(value, Body(_)) == Body(value)

(* Tokens are strings; "<&" and ">&" are `<` and `>` with nothing between them *)
(* and the next token. Contextual keywords are ordinary identifiers.           *)

Contextual ==
  {"comptime", "from", "returns", "where", "enum", "struct", "trait", "impl", "mapping", "while", "unchecked", "new", "hiding", "derive", "solcore"}
Identifiers == {"x", "y"} \cup Contextual
Reserved ==
  {"import", "export", "pragma", "type", "contract", "public", "payable", "function", "constructor", "fallback", "default"}
StructuredStarts == {"let", "return", "match", "for", "if", "assembly", "{", "break", "continue"}
CloserOf == [o \in {"(", "[", "{"} |-> CASE o = "(" -> ")" [] o = "[" -> "]" [] o = "{" -> "}"]
Closers == {")", "]", "}"}
Plain(t) == CASE t = "<&" -> "<" [] t = ">&" -> ">" [] OTHER -> t
Glued(t) == IF t = "<" THEN "<&" ELSE ">&"

(* Grammar expressions. *)
T(words) == <<"tok", words>>
One(word) == T({word})
AnyToken == <<"any">>
Adjacent(first, second) == <<"adjacent", first, second>>
Ref(name) == <<"ref", name>>
All(gs) == <<"all", gs>>
Nothing == All(<<>>)
Choice(gs) == <<"choice", gs>>
Unbounded == 64
Rep(g) == <<"rep", g, Unbounded>>
OrNot(g) == <<"rep", g, 1>>
N(kind, g) == <<"node", kind, g>>
Not(g) == <<"not", g>>
Rewind(g) == <<"rewind", g>>
Emit(g) == <<"emit", g>>
Act(name, g) == <<"act", name, g>>
Recover(g, skip) == <<"recover", g, skip>>
Walk == <<"walk">>
Braces == <<"braces">>
Deep(limit, g) == <<"deep", limit, g>>
Fresh(g) == <<"fresh", g>>
LeftAssoc(g, tail, most) == <<"left", g, tail, most>>
Prefixed(ops, g) == <<"prefix", ops, g>>
Conditional(g, tail) == <<"cond", g, tail>>

SepBy(g, sep, least, trailing) ==
  With(All(<<g, Rep(All(<<One(sep), g>>)), IF trailing THEN OrNot(One(sep)) ELSE Nothing>>), LAMBDA list :
    IF least = 0 THEN OrNot(list) ELSE list)
Delim(open, g, close) == All(<<One(open), g, One(close)>>)
ButNot(stop) == All(<<Not(stop), AnyToken>>)
Skip(stop) == All(<<ButNot(stop), Rep(ButNot(stop))>>)

------------------------------------------------------------------------------
(* Names, types and predicates. *)

Name == N("decl", T(Identifiers))
IdentExpr == N("name", T(Identifiers))
QualifiedIdent == SepBy(Name, ".", 1, FALSE)
Type == Fresh(Ref("type"))
TypeList(open, least, close) == Delim(open, SepBy(Ref("type"), ",", least, TRUE), close)

FunctionType ==
  N("tfn", All(<<One("function"), TypeList("(", 0, ")"), OrNot(All(<<One("returns"), TypeList("(", 0, ")")>>))>>))
ComptimeType == N("tcomptime", All(<<One("comptime"), One("<"), Ref("type"), One(">")>>))
MappingType == N("tmap", All(<<One("mapping"), One("("), Ref("type"), One("=>"), Ref("type"), One(")")>>))
ProxyType == N("tproxy", All(<<One("@"), Ref("type")>>))
TupleType == N("ttuple", TypeList("(", 0, ")"))
NamedType == Act("bareMapping", N("tname", All(<<QualifiedIdent, OrNot(TypeList("<", 1, ">"))>>)))
ArraySuffix == Act("sized", N("brackets", All(<<One("["), Rep(ButNot(One("]"))), One("]")>>)))
BaseType == Choice(<<FunctionType, ComptimeType, MappingType, ProxyType, TupleType, NamedType>>)
TypeRule == Deep(MaxSyntaxNesting, Act("arrays", All(<<BaseType, Rep(ArraySuffix)>>)))

Pred == N("pred", All(<<Type, One(":"), Name, OrNot(Delim("<", SepBy(Type, ",", 1, TRUE), ">"))>>))
PredList ==
  With(SepBy(Pred, ",", 1, TRUE), LAMBDA bare :
    Choice(<<Delim("(", bare, ")"), bare>>))

------------------------------------------------------------------------------
(* Expressions and patterns. *)

Literal == N("lit", T({"num", "hex", "str"}))
BooleanValue == N("name", T({"true", "false"}))
Expr == Fresh(Ref("expr"))
Args == SepBy(Ref("expr"), ",", 0, FALSE)
BodySpan == N("body", Braces)

LambdaExpr ==
  N("lambda", All(<<One("lam"), Delim("(", SepBy(Ref("lambdaParam"), ",", 0, TRUE), ")"), OrNot(All(<<One("->"), Type>>)), BodySpan>>))
DotCtor == N("dot", All(<<One("."), T(Identifiers \cup {"true", "false"}), OrNot(Delim("(", Args, ")"))>>))
NewArray == Act("newArray", N("new", All(<<One("new"), Type, Delim("(", Ref("expr"), ")")>>)))
ProxyExpr == N("proxy", All(<<One("@"), Type>>))
ParenExpr == Act("tuple", Delim("(", SepBy(Ref("expr"), ",", 0, TRUE), ")"))
ArrayExpr == N("array", Delim("[", Args, "]"))
AtomRecovery == Skip(T({";", ",", ")", "]", "}", "else", "?", ":", "=>", "|"}))
AtomRule ==
  Recover(Choice(<<Literal, BooleanValue, DotCtor, NewArray, IdentExpr, ProxyExpr, ParenExpr, ArrayExpr, LambdaExpr>>), AtomRecovery)

IndexOp ==
  Act("index", N("index", Delim("[", All(<<OrNot(Ref("expr")), OrNot(N("colon", All(<<One(":"), OrNot(Ref("expr"))>>)))>>), "]")))
CallOp == N("call", Delim("(", Args, ")"))
FieldOp == N("field", All(<<One("."), T(Identifiers)>>))
PostfixRule == LeftAssoc(Ref("atom"), Choice(<<IndexOp, CallOp, FieldOp>>), Unbounded)
UnaryRule == Prefixed(Choice(<<N("not", T({"!", "~"})), N("neg", One("-"))>>), Ref("postfix"))

BinaryTail(kind, op, operand) == N(kind, All(<<op, operand>>))
LeftBinary(kind, op, operand) == LeftAssoc(operand, BinaryTail(kind, op, operand), Unbounded)
MulRule == LeftBinary("mul", T({"*", "/", "%"}), Ref("unary"))
AddRule == LeftBinary("add", T({"+", "-"}), Ref("mul"))
ShiftRule == LeftBinary("shift", Choice(<<Adjacent("<", "<"), Adjacent(">", ">")>>), Ref("add"))
BitAndRule == LeftBinary("bitand", One("&"), Ref("shift"))
BitXorRule == LeftBinary("bitxor", One("^"), Ref("bitand"))
BitOrRule == LeftBinary("bitor", One("|"), Ref("bitxor"))
CompoundShift == Choice(<<Adjacent("<", "<="), Adjacent(">", ">=")>>)
RelRule ==
  LeftAssoc(Ref("bitor"), BinaryTail("rel", All(<<Not(CompoundShift), T({"<", ">", "<=", ">="})>>), Ref("bitor")), 1)
EqRule == LeftAssoc(Ref("rel"), BinaryTail("eq", T({"==", "!="}), Ref("rel")), 1)
AndRule == LeftBinary("and", One("&&"), Ref("eq"))
OrRule == LeftBinary("or", One("||"), Ref("and"))
ConditionalTail == N("cond", All(<<One("?"), Ref("expr"), One(":"), Ref("or")>>))
ExprRule == Deep(MaxExpressionNesting, Conditional(Ref("or"), ConditionalTail))

PatArgs == OrNot(Delim("(", SepBy(Ref("pat"), ",", 1, FALSE), ")"))
PatRecovery == Skip(T({",", ")", "=>", "|", "}"}))
PatRule ==
  Recover(Choice(<<
    N("wild", One("_")), N("plit", T({"num", "hex", "str"})), N("pname", T({"true", "false"})),
    Act("ptuple", Delim("(", SepBy(Ref("pat"), ",", 0, TRUE), ")")),
    N("pdot", All(<<One("."), T(Identifiers \cup {"true", "false"}), PatArgs>>)),
    N("plabel", All(<<One("comptime"), Ref("expr")>>)),
    N("pname", All(<<QualifiedIdent, PatArgs>>))>>), PatRecovery)

------------------------------------------------------------------------------
(* Statements. *)

Block == Delim("{", Rep(Ref("stmt")), "}")
Scope == N("scope", Block)
LetParts == All(<<One("let"), Name, OrNot(All(<<One(":"), Type>>)), OrNot(N("init", All(<<One("="), Expr>>)))>>)
ForLet == N("let", LetParts)
AssignOp ==
  Choice(<<T({"+=", "-=", "*=", "/=", "^=", "&=", "|=", "%="}), CompoundShift>>)
AssignTail ==
  Choice(<<N("assign", All(<<One("="), Expr>>)), N("compound", All(<<AssignOp, Expr>>)), N("bitnot", One("~="))>>)
ForAssignOrExpr == Act("forAssign", All(<<Expr, OrNot(AssignTail)>>))
ForItems == SepBy(Choice(<<ForLet, ForAssignOrExpr>>), ",", 0, FALSE)

LetStmt == N("let", All(<<LetParts, One(";")>>))
ReturnStmt == N("return", All(<<One("return"), OrNot(Expr), One(";")>>))
CaseArm == N("arm", All(<<One("case"), Ref("pat"), Block>>))
DefaultArm == N("default", All(<<One("default"), Block>>))
MatchStmt ==
  Act("match", N("match", All(<<
    One("match"), Delim("(", N("scrutinees", SepBy(Expr, ",", 1, TRUE)), ")"),
    Delim("{", All(<<Rep(CaseArm), OrNot(DefaultArm)>>), "}")>>)))
ForStmt ==
  N("for", All(<<One("for"), Delim("(", All(<<N("items", ForItems), One(";"), Expr, One(";"), N("scope", ForItems)>>), ")"), Scope>>))
WhileStmt ==
  N("for", All(<<One("while"), N("items", Nothing), Delim("(", Expr, ")"), N("scope", Nothing), Scope>>))
IfStmt == N("if", All(<<One("if"), Delim("(", Expr, ")"), Scope, OrNot(All(<<One("else"), Scope>>))>>))
AssemblyStmt == N("assembly", All(<<One("assembly"), Delim("{", Rep(Ref("yulStmt")), "}")>>))
UncheckedStmt == N("unchecked", All(<<One("unchecked"), Block>>))
AssignOrExpr ==
  Act("assign", All(<<Not(T(StructuredStarts)), Expr, OrNot(AssignTail), OrNot(N("semi", One(";")))>>))
Statements ==
  <<LetStmt, ReturnStmt, MatchStmt, ForStmt, WhileStmt, IfStmt, AssemblyStmt, UncheckedStmt, N("block", Block),
    N("break", All(<<One("break"), One(";")>>)), N("continue", All(<<One("continue"), One(";")>>)), AssignOrExpr>>
\* Mutant: a failed statement is skipped to the next `;`, whatever that belongs to.
StmtRuleSkipping == Recover(Choice(Statements), All(<<Rep(ButNot(One(";"))), One(";")>>))
StmtRule == Recover(Choice(Statements), Walk)

(* Inline assembly. *)
YulIdent == T(Identifiers \cup {"$y", "_", "fallback"})
YulLit == N("ylit", T({"num", "hex", "str", "true", "false"}))
YulArgs == Delim("(", SepBy(Ref("yulExpr"), ",", 0, TRUE), ")")
YulExprRule ==
  Recover(Choice(<<YulLit, N("ycall", All(<<YulIdent, OrNot(YulArgs)>>)), Act("meta", N("ymeta", One("$meta")))>>), Skip(T({",", ")", "}"})))
YulNames == SepBy(YulIdent, ",", 1, FALSE)
YulBlock == Delim("{", Rep(Ref("yulStmt")), "}")
YulSwitch ==
  Act("switch", N("yswitch", All(<<
    One("switch"), Ref("yulExpr"), Rep(N("ycase", All(<<One("case"), YulLit, YulBlock>>))),
    OrNot(N("ydefault", All(<<One("default"), YulBlock>>)))>>)))
YulFunction ==
  N("yfun", All(<<One("function"), YulIdent, Delim("(", SepBy(YulIdent, ",", 0, TRUE), ")"), OrNot(All(<<One("->"), YulNames>>)), YulBlock>>))
YulStmtRule ==
  Recover(All(<<Choice(<<
    N("yblock", YulBlock),
    N("ylet", All(<<One("let"), YulNames, OrNot(All(<<One(":="), Ref("yulExpr")>>))>>)),
    N("yif", All(<<One("if"), Ref("yulExpr"), YulBlock>>)),
    N("yfor", All(<<One("for"), YulBlock, Ref("yulExpr"), YulBlock, YulBlock>>)),
    YulSwitch, YulFunction,
    N("yassign", All(<<YulNames, One(":="), Ref("yulExpr")>>)),
    N("yreturn", All(<<One("return"), YulArgs>>)),
    N("yleave", One("leave")), N("ybreak", One("break")), N("ycontinue", One("continue")),
    N("yexpr", Ref("yulExpr"))>>), OrNot(One(";"))>>), Skip(One("}")))

------------------------------------------------------------------------------
(* Declarations. *)

ComptimeParam == All(<<One("comptime"), Name>>)
RuntimeName == Act("runtimeName", Name)
ParamRecovery == Skip(T({",", ")"}))
ParamRule ==
  Recover(Act("comptimeParam", Choice(<<
    All(<<Rewind(All(<<ComptimeParam, One(":")>>)), N("typed", All(<<ComptimeParam, One(":"), Type>>))>>),
    All(<<Rewind(All(<<ComptimeParam, Rewind(T({",", ")"}))>>)), N("cuntyped", ComptimeParam)>>),
    N("typed", All(<<RuntimeName, One(":"), Type>>)),
    N("untyped", RuntimeName)>>)), ParamRecovery)
NamedParam == Act("named", Ref("param"))
LambdaParamRule == Act("lambdaParam", Ref("param"))
Params == N("params", Delim("(", SepBy(NamedParam, ",", 0, TRUE), ")"))

Generics == Delim("<", SepBy(Name, ",", 1, TRUE), ">")
ReturnType == Delim("(", SepBy(Type, ",", 0, TRUE), ")")
WhereClause == OrNot(All(<<One("where"), PredList>>))
PublicPayable == All(<<OrNot(N("public", One("public"))), OrNot(N("payable", One("payable")))>>)
ContractModifiers(context) == IF context = "Module" THEN Act("moduleModifiers", PublicPayable) ELSE PublicPayable
ImplicitPublic == Act("implicitPublic", PublicPayable)
Signature(context) ==
  N("sig", All(<<
    One("function"), Name, OrNot(Generics), Params, ContractModifiers(context),
    OrNot(All(<<One("returns"), ReturnType>>)), WhereClause>>))
FunctionDef(context) == N("fun", All(<<Signature(context), BodySpan>>))
ConstructorDef == N("ctor", All(<<One("constructor"), Params, ImplicitPublic, BodySpan>>))
FallbackDef == N("fallback", All(<<One("fallback"), Act("noParams", Params), ImplicitPublic, BodySpan>>))

TypeAlias ==
  N("alias", All(<<
    One("type"), Name, OrNot(Delim("(", SepBy(Name, ",", 0, TRUE), ")")), One("="), Recover(Type, Skip(One(";"))), One(";")>>))
DataCtor == N("variant", All(<<Name, OrNot(Delim("(", SepBy(Type, ",", 0, FALSE), ")"))>>))
EnumDef ==
  N("adt", All(<<
    One("enum"), Name, OrNot(Generics), Delim("{", OrNot(All(<<DataCtor, Rep(All(<<One(","), DataCtor>>)), OrNot(One(","))>>)), "}")>>))
StructDef ==
  Act("structFields", N("adt", All(<<
    One("struct"), Name, OrNot(Generics), Delim("{", Rep(N("sfield", All(<<Name, One(":"), Type, One(";")>>))), "}")>>)))
Adt == Choice(<<EnumDef, StructDef>>)

ItemStart ==
  T({"#", "import", "export", "pragma", "type", "contract", "function", "default", "enum", "struct", "trait", "impl"})
TopLevelSemicolon == Choice(<<One(";"), Rewind(Emit(ItemStart))>>)

DeriveTarget == SepBy(Act("reserved", T(Identifiers \cup Reserved)), ".", 1, FALSE)
DeclarationBoundary == Choice(<<One("}"), ItemStart, Rewind(All(<<Name, One(":")>>))>>)
DeriveOpen == All(<<One("#"), One("[")>>)
DeriveAttr ==
  Choice(<<
    Act("derived", N("derive", All(<<DeriveOpen, One("derive"), Delim("(", SepBy(N("target", DeriveTarget), ",", 0, FALSE), ")"), One("]")>>))),
    Emit(N("derive", All(<<DeriveOpen, Rep(ButNot(Choice(<<One("]"), DeclarationBoundary>>))), One("]")>>))),
    Emit(N("derive", All(<<DeriveOpen, Rep(ButNot(Choice(<<One("]"), DeclarationBoundary>>)))>>)))>>)

TraitDef ==
  N("trait", All(<<One("trait"), Name, Generics, WhereClause, Delim("{", Rep(N("method", All(<<Signature("Module"), One(";")>>))), "}")>>))
ImplDef ==
  N("impl", All(<<
    OrNot(One("default")), One("impl"), OrNot(Generics), Name, Delim("<", SepBy(Type, ",", 1, TRUE), ">"), WhereClause,
    Delim("{", Rep(FunctionDef("Module")), "}")>>))
FieldDef ==
  N("cfield", All(<<Rewind(All(<<Name, One(":")>>)), Name, One(":"), Type, OrNot(N("init", All(<<One("="), Expr>>))), One(";")>>))
ContractItem ==
  Recover(Choice(<<FunctionDef("Contract"), ConstructorDef, FallbackDef, TypeAlias, Adt>>),
          Skip(T({"#", "function", "constructor", "fallback", "type", "}", "enum", "struct"})))
ContractMember == Act("deriveOn", All(<<OrNot(DeriveAttr), Choice(<<FieldDef, ContractItem>>)>>))
ContractDef == N("contract", All(<<One("contract"), Name, OrNot(Generics), Delim("{", Rep(ContractMember), "}")>>))

Operators == {"->", "=>", "==", "!=", "+", "-", "*", "/", "%", "!", "~", "<", ">", "=", "|", "&", "^", ":", "||", "&&", "<=", ">=", ":="}
OperatorName == Delim("(", All(<<T(Operators), Rep(T(Operators))>>), ")")
ImportName == Choice(<<OperatorName, T(Identifiers)>>)
ImportPath == All(<<OrNot(One("@")), QualifiedIdent>>)
Hiding == OrNot(All(<<One("hiding"), Delim("{", SepBy(ImportName, ",", 1, TRUE), "}")>>))
ImportForms ==
  LET selected == All(<<ImportName, OrNot(All(<<One("as"), T(Identifiers)>>))>>)
  IN  <<All(<<One("*"), One("as"), Name, One("from"), ImportPath>>),
        All(<<One("*"), One("from"), ImportPath, Hiding>>),
        All(<<Delim("{", SepBy(selected, ",", 1, TRUE), "}"), One("from"), ImportPath, Hiding>>),
        ImportPath>>
ImportItem ==
  N("import", Choice([k \in 1..4 |-> All(<<One("import"), ImportForms[k], TopLevelSemicolon>>)]))

Constructors == Delim("(", Choice(<<One("*"), SepBy(T(Identifiers), ",", 1, FALSE)>>), ")")
ExportName == Choice(<<One("*"), OperatorName, All(<<T(Identifiers), OrNot(Constructors)>>)>>)
ExportForms ==
  LET wildcard == All(<<QualifiedIdent, One("."), One("*")>>)
      named == Delim("{", SepBy(ExportName, ",", 0, TRUE), "}")
  IN  <<Delim("{", SepBy(Choice(<<wildcard, ExportName>>), ",", 0, TRUE), "}"),
        All(<<QualifiedIdent, One("."), Choice(<<One("*"), named>>)>>),
        All(<<QualifiedIdent, One("as"), Name>>),
        QualifiedIdent>>
ExportItem == N("export", Choice([k \in 1..4 |-> All(<<One("export"), ExportForms[k], One(";")>>)]))

PragmaName == All(<<T(Identifiers), Rep(All(<<One("-"), T(Identifiers \cup Reserved)>>))>>)
PragmaItem ==
  N("pragma", All(<<One("pragma"), N("pragmaName", PragmaName), N("pargs", SepBy(Name, ",", 0, TRUE)), One(";")>>))

Items == <<ImportItem, ExportItem, PragmaItem, TypeAlias, Adt, TraitDef, ImplDef, ContractDef, FunctionDef("Module")>>
ItemRule == Recover(Act("deriveOn", All(<<OrNot(DeriveAttr), Choice(Items)>>)), Skip(ItemStart))

Rules ==
  [type |-> TypeRule, atom |-> AtomRule, postfix |-> PostfixRule, unary |-> UnaryRule,
   mul |-> MulRule, add |-> AddRule, shift |-> ShiftRule, bitand |-> BitAndRule, bitxor |-> BitXorRule, bitor |-> BitOrRule,
   rel |-> RelRule, eq |-> EqRule, and |-> AndRule, or |-> OrRule, expr |-> ExprRule, pat |-> PatRule,
   stmt |-> StmtRule, yulExpr |-> YulExprRule, yulStmt |-> YulStmtRule, param |-> ParamRule, lambdaParam |-> LambdaParamRule,
   item |-> ItemRule]

Rule(g) == IF g[1] = "ref" THEN Rules[g[2]] ELSE g

------------------------------------------------------------------------------
(* Nodes are <<kind, from, to, parts>>, over the tokens from..to - 1; reports   *)
(* are <<what, from, to>>. A result says where the parse stands, what it made,  *)
(* what it reported, and the furthest token at which anything failed.           *)

Node(kind, from, to, parts) == <<kind, from, to, parts>>
Kind(n) == n[1]
From(n) == n[2]
To(n) == n[3]
Parts(n) == n[4]
Further(a, b) == IF a > b THEN a ELSE b
Ok(at, nodes, errs, far) == [ok |-> TRUE, at |-> at, nodes |-> nodes, errs |-> errs, far |-> far]
Fail(far) == [ok |-> FALSE, at |-> 0, nodes |-> <<>>, errs |-> {}, far |-> far]
Then(r, s) ==
  IF s.ok THEN Ok(s.at, r.nodes \o s.nodes, r.errs \cup s.errs, Further(r.far, s.far)) ELSE Fail(Further(r.far, s.far))
Unexpected(at, toks) == <<"syntax", at, IF at > Len(toks) THEN at ELSE at + 1>>
Errored(r, i) == [r EXCEPT !.nodes = <<Node("error", i, r.at, <<>>)>>]
Broken(r, i) == [r EXCEPT !.errs = @ \cup {<<"rule", i, r.at>>}]
BrokenIf(condition, r, i) == IF condition THEN Broken(r, i) ELSE r

ExprKinds ==
  {"lit", "name", "dot", "new", "proxy", "tuple", "array", "lambda", "error", "index", "slice", "call", "field", "not", "neg", "cond",
   "mul", "add", "shift", "bitand", "bitxor", "bitor", "rel", "eq", "and", "or", "compound"}
Leaves == {"lit", "name", "proxy", "lambda", "error"}
SubExprs(e) == IF Kind(e) \in Leaves THEN {} ELSE {k \in DOMAIN Parts(e) : Kind(Parts(e)[k]) \in ExprKinds}

RECURSIVE ExprDepth(_)
ExprDepth(e) ==
  With({ExprDepth(Parts(e)[k]) : k \in SubExprs(e)}, LAMBDA below :
    IF below = {} THEN 1 ELSE 1 + (CHOOSE n \in below : \A m \in below : m <= n))

LimitExprDepth(r) ==
  LET e == r.nodes[1]
  IN  IF ExprDepth(e) <= MaxSyntaxNesting THEN r
      ELSE [r EXCEPT !.nodes = <<Node("error", From(e), To(e), <<>>)>>, !.errs = @ \cup {<<"limit", From(e), To(e)>>}]

(* What the map, validate and try_map closures of the parsers do to a result.   *)
OnIndex(r, i) ==
  LET parts == Parts(r.nodes[1]) IN
  With({k \in DOMAIN parts : Kind(parts[k]) = "colon"}, LAMBDA colons :
    IF parts = <<>> THEN Fail(r.far)
    ELSE IF colons = {} THEN r
    ELSE With(CHOOSE c \in colons : TRUE, LAMBDA k :
           [r EXCEPT !.nodes = <<Node("slice", i, r.at, SubSeq(parts, 1, k - 1) \o Parts(parts[k]))>>]))

RECURSIVE Suffixed(_, _)
Suffixed(elem, suffixes) ==
  IF suffixes = <<>> THEN elem
  ELSE Suffixed(Node("tarray", From(elem), To(Head(suffixes)), <<elem>>), Tail(suffixes))
OnArrays(r, i, d) ==
  LET suffixes == Tail(r.nodes)
      room == MaxSyntaxNesting - d IN
  With(IF Len(suffixes) > room THEN SubSeq(suffixes, 1, room) ELSE suffixes, LAMBDA kept :
    BrokenIf(kept # suffixes, [r EXCEPT !.nodes = <<Suffixed(Head(r.nodes), kept)>>], i))

OnMatch(r, i) ==
  LET parts == Parts(r.nodes[1]) IN
  With(Len(Parts(parts[1])), LAMBDA arity :
  LET width(p) == IF arity > 1 /\ Kind(p) = "ptuple" THEN Len(Parts(p)) ELSE 1
      wrong == {k \in 2..Len(parts) : Kind(parts[k]) = "arm" /\ width(Parts(parts[k])[1]) # arity} IN
    [r EXCEPT !.errs = @ \cup {<<"rule", From(parts[k]), To(parts[k])>> : k \in wrong}
                         \cup (IF Len(parts) = 1 THEN {<<"rule", i, r.at>>} ELSE {})])

AssignStmtKind(lhs, tail, semi, i, at) ==
  CASE tail = <<>> -> Node(IF semi THEN "expr" ELSE "tail", i, at, <<lhs>>)
    [] tail # <<>> /\ Kind(tail[1]) = "assign" -> Node("assign", i, at, <<lhs, Parts(tail[1])[1]>>)
    [] tail # <<>> /\ Kind(tail[1]) = "compound" ->
         LET rhs == Parts(tail[1])[1] IN Node("assign", i, at, <<lhs, Node("compound", From(lhs), To(rhs), <<lhs, rhs>>)>>)
    [] OTHER -> Node("assign", i, at, <<lhs, Node("not", From(lhs), To(tail[1]), <<lhs>>)>>)
OnAssign(r, i, inFor) ==
  With(inFor \/ Kind(r.nodes[Len(r.nodes)]) = "semi", LAMBDA semi :
  LET tail == SelectSeq(Tail(r.nodes), LAMBDA n : Kind(n) # "semi") IN
    BrokenIf(tail # <<>> /\ ~semi, [r EXCEPT !.nodes = <<AssignStmtKind(Head(r.nodes), tail, semi, i, r.at)>>], i))

OnDerive(r, i) ==
  IF Len(r.nodes) = 1 THEN r
  ELSE LET item == r.nodes[2]
       IN  BrokenIf(Kind(item) # "adt", [r EXCEPT !.nodes = <<Node(Kind(item), i, To(item), Parts(item))>>], i)

FieldName(toks, field) == toks[From(field)]
OnStructFields(r, i, toks) ==
  LET parts == Parts(r.nodes[1])
      fields == {k \in DOMAIN parts : Kind(parts[k]) = "sfield"}
  IN  BrokenIf(\E j, k \in fields : j < k /\ FieldName(toks, parts[j]) = FieldName(toks, parts[k]), r, i)

Effect(name, r, toks, i, d) ==
  CASE name \in {"tuple", "ptuple"} -> IF Len(r.nodes) = 1 THEN r ELSE [r EXCEPT !.nodes = <<Node(name, i, r.at, @)>>]
    [] name = "index" -> OnIndex(r, i)
    [] name = "newArray" -> IF Kind(Parts(r.nodes[1])[1]) = "tarray" THEN r ELSE Fail(r.far)
    [] name = "arrays" -> OnArrays(r, i, d)
    [] name = "sized" -> BrokenIf(r.at > i + 2, r, i)
    [] name = "bareMapping" ->
         BrokenIf(toks[i] = "mapping" /\ Cardinality({k \in DOMAIN Parts(r.nodes[1]) : Kind(Parts(r.nodes[1])[k]) = "decl"}) = 1, r, i)
    [] name = "runtimeName" -> BrokenIf(toks[i] = "comptime", r, i)
    [] name = "comptimeParam" ->
         LET p == r.nodes[1] IN BrokenIf(Kind(p) = "typed" /\ Kind(Parts(p)[2]) = "tcomptime", r, i)
    [] name = "named" -> IF Kind(r.nodes[1]) \in {"untyped", "cuntyped"} THEN Broken(Errored(r, i), i) ELSE r
    [] name = "lambdaParam" -> IF Kind(r.nodes[1]) = "cuntyped" THEN Broken(Errored(r, i), i) ELSE r
    [] name = "noParams" -> BrokenIf(Parts(r.nodes[1]) # <<>>, r, i)
    [] name = "moduleModifiers" -> BrokenIf(r.nodes # <<>>, r, i)
    [] name = "implicitPublic" -> BrokenIf(\E k \in DOMAIN r.nodes : Kind(r.nodes[k]) = "public", r, i)
    [] name = "reserved" -> BrokenIf(toks[i] \notin Identifiers, r, i)
    [] name = "derived" -> BrokenIf(Parts(r.nodes[1]) = <<>>, r, i)
    [] name = "deriveOn" -> OnDerive(r, i)
    [] name = "structFields" -> OnStructFields(r, i, toks)
    [] name = "match" -> OnMatch(r, i)
    [] name = "assign" -> OnAssign(r, i, FALSE)
    [] name = "forAssign" -> OnAssign(r, i, TRUE)
    [] name = "switch" ->
         IF \E k \in DOMAIN Parts(r.nodes[1]) : Kind(Parts(r.nodes[1])[k]) = "ycase" THEN r ELSE Broken(Errored(r, i), i)
    [] name = "meta" -> Broken(Errored(r, i), i)

(* Recovery of a statement: to its `;` or closing brace, over balanced groups,  *)
(* and never past the enclosing brace or the keyword of the next statement.     *)
LastOf(closers, t) ==
  LET at == {k \in DOMAIN closers : closers[k] = t}
  IN  IF at = {} THEN 0 ELSE CHOOSE k \in at : \A j \in at : j <= k
RECURSIVE WalkOn(_, _, _, _)
WalkOn(toks, i, closers, consumed) ==
  IF \/ i > Len(toks)
     \/ toks[i] = "}" /\ LastOf(closers, "}") = 0
     \/ consumed /\ closers = <<>> /\ toks[i] \in StructuredStarts \ {"{"}
  THEN i
  ELSE LET t == toks[i] IN
       With(LastOf(closers, t), LAMBDA last :
       With(IF last = 0 THEN closers ELSE SubSeq(closers, 1, last - 1), LAMBDA rest :
         CASE t \in DOMAIN CloserOf -> WalkOn(toks, i + 1, Append(closers, CloserOf[t]), TRUE)
           [] t = "}" /\ rest = <<>> ->
                IF i < Len(toks) /\ toks[i + 1] = "else" THEN WalkOn(toks, i + 2, rest, FALSE) ELSE i + 1
           [] t \in Closers /\ ~(t = "}" /\ rest = <<>>) -> WalkOn(toks, i + 1, rest, TRUE)
           [] t = ";" /\ closers = <<>> -> i + 1
           [] OTHER -> WalkOn(toks, i + 1, closers, TRUE)))

(* The `{` at i and everything up to the `}` that closes it, or 0.              *)
ClosingBrace(toks, i) ==
  LET count(word, j) == Cardinality({k \in i..j : toks[k] = word}) IN
  With({j \in i..Len(toks) : count("{", j) = count("}", j)}, LAMBDA closed :
    IF closed = {} THEN 0 ELSE CHOOSE j \in closed : \A k \in closed : j <= k)

------------------------------------------------------------------------------
(* The machine. *)

Grown(r, op, i) ==
  LimitExprDepth([r EXCEPT !.nodes = <<Node(Kind(op), i, r.at, @ \o Parts(op))>>])
Conditionals(first, tails) ==
  [k \in 1..Len(tails) |-> <<IF k = 1 THEN first ELSE Parts(tails[k - 1])[2], Parts(tails[k])[1]>>]

RECURSIVE FoldConditional(_, _)
FoldConditional(r, heads) ==
  IF heads = <<>> THEN LimitExprDepth(r)
  ELSE LET head == heads[Len(heads)]
           last == r.nodes[1]
           made == Node("cond", From(head[1]), To(last), <<head[1], head[2], last>>)
       IN  FoldConditional(LimitExprDepth([r EXCEPT !.nodes = <<made>>]), SubSeq(heads, 1, Len(heads) - 1))
OnConditional(r, tails) ==
  IF tails.nodes = <<>> THEN LimitExprDepth([Then(r, tails) EXCEPT !.nodes = r.nodes])
  ELSE FoldConditional([Then(r, tails) EXCEPT !.nodes = <<Parts(tails.nodes[Len(tails.nodes)])[2]>>],
                       Conditionals(r.nodes[1], tails.nodes))

RECURSIVE FoldPrefix(_, _)
FoldPrefix(r, ops) ==
  IF ops = <<>> THEN r
  ELSE LET op == ops[Len(ops)]
       IN  FoldPrefix(LimitExprDepth([r EXCEPT !.nodes = <<Node(Kind(op), From(op), r.at, @)>>]), SubSeq(ops, 1, Len(ops) - 1))

RECURSIVE Parse(_, _, _, _), ManyOf(_, _, _, _, _)

RECURSIVE ParseAll(_, _, _, _)
AndThen(r, gs, toks, d) == IF r.ok THEN Then(r, ParseAll(gs, toks, r.at, d)) ELSE r
ParseAll(gs, toks, i, d) ==
  IF gs = <<>> THEN Ok(i, <<>>, {}, 0) ELSE AndThen(Parse(Head(gs), toks, i, d), Tail(gs), toks, d)

RECURSIVE FirstOf(_, _, _, _)
Farther(s, far) == [s EXCEPT !.far = Further(@, far)]
OrElse(r, gs, toks, i, d) == IF r.ok \/ gs = <<>> THEN r ELSE Farther(FirstOf(gs, toks, i, d), r.far)
FirstOf(gs, toks, i, d) == OrElse(Parse(Head(gs), toks, i, d), Tail(gs), toks, i, d)

(* Up to `most` times, half of them at a time; `more` when none has failed yet. *)
Once(r, i) == [more |-> r.ok, result |-> IF r.ok THEN r ELSE Ok(i, <<>>, {}, r.far)]
Joined(a, b) == [b EXCEPT !.result = Then(a.result, @)]
Continued(a, g, most, toks, d) == IF a.more THEN Joined(a, ManyOf(g, most, toks, a.result.at, d)) ELSE a
ManyOf(g, most, toks, i, d) ==
  IF most = 1 THEN Once(Parse(g, toks, i, d), i)
  ELSE Continued(ManyOf(g, most \div 2, toks, i, d), g, most - most \div 2, toks, d)
Many(g, most, toks, i, d) == ManyOf(g, most, toks, i, d).result

RECURSIVE Grow(_, _, _, _, _, _)
GrowBy(s, r, tail, most, toks, i, d) ==
  IF s.ok THEN Grow(Grown([Then(r, s) EXCEPT !.nodes = r.nodes], s.nodes[1], i), tail, most - 1, toks, i, d) ELSE Farther(r, s.far)
Grow(r, tail, most, toks, i, d) ==
  IF most = 0 \/ ~r.ok THEN r ELSE GrowBy(Parse(tail, toks, r.at, d), r, tail, most, toks, i, d)

Wrapped(kind, r, i) == IF r.ok THEN [r EXCEPT !.nodes = <<Node(kind, i, r.at, @)>>] ELSE r
Ahead(r, i) == IF r.ok THEN Ok(i, <<>>, r.errs, r.far) ELSE r
Emitted(r, i) == IF r.ok THEN Broken(r, i) ELSE r
Acted(name, r, toks, i, d) == IF r.ok THEN Effect(name, r, toks, i, d) ELSE r
Skipped(s, i, far, toks) ==
  IF s.ok THEN Ok(s.at, <<Node("error", i, s.at, <<>>)>>, {Unexpected(far, toks)}, far) ELSE Fail(far)
Recovered(r, skip, toks, i, d) == IF r.ok THEN r ELSE Skipped(Parse(skip, toks, i, d), i, r.far, toks)
Braced(close, toks) == IF close = 0 THEN Fail(Len(toks) + 1) ELSE Ok(close + 1, <<>>, {}, 0)
Signed(ops, r) == IF r.ok THEN FoldPrefix([Then(ops, r) EXCEPT !.nodes = r.nodes], ops.nodes) ELSE Then(ops, r)
SignedBy(ops, g, toks, d) == Signed(ops, Parse(g, toks, ops.at, d))
Conditioned(r, tail, toks, d) == IF r.ok THEN OnConditional(r, Many(tail, Unbounded, toks, r.at, d)) ELSE r

Parse(g, toks, i, d) ==
  CASE g[1] = "tok" -> IF i <= Len(toks) /\ Plain(toks[i]) \in g[2] THEN Ok(i + 1, <<>>, {}, 0) ELSE Fail(i)
    [] g[1] = "any" -> IF i <= Len(toks) THEN Ok(i + 1, <<>>, {}, 0) ELSE Fail(i)
    [] g[1] = "adjacent" ->
         IF i < Len(toks) /\ toks[i] = Glued(g[2]) /\ Plain(toks[i + 1]) = g[3] THEN Ok(i + 2, <<>>, {}, 0) ELSE Fail(i)
    [] g[1] = "ref" -> Parse(Rule(g), toks, i, d)
    [] g[1] = "all" -> ParseAll(g[2], toks, i, d)
    [] g[1] = "choice" -> FirstOf(g[2], toks, i, d)
    [] g[1] = "rep" -> Many(g[2], g[3], toks, i, d)
    [] g[1] = "node" -> Wrapped(g[2], Parse(g[3], toks, i, d), i)
    [] g[1] = "not" -> IF Parse(g[2], toks, i, d).ok THEN Fail(i) ELSE Ok(i, <<>>, {}, 0)
    [] g[1] = "rewind" -> Ahead(Parse(g[2], toks, i, d), i)
    [] g[1] = "emit" -> Emitted(Parse(g[2], toks, i, d), i)
    [] g[1] = "act" -> Acted(g[2], Parse(g[3], toks, i, d), toks, i, d)
    [] g[1] = "recover" -> Recovered(Parse(g[2], toks, i, d), g[3], toks, i, d)
    [] g[1] = "walk" -> IF i > Len(toks) \/ toks[i] = "}" THEN Fail(i) ELSE Ok(WalkOn(toks, i, <<>>, FALSE), <<>>, {}, 0)
    [] g[1] = "braces" ->
         IF i > Len(toks) \/ toks[i] # "{" THEN Fail(i) ELSE Braced(ClosingBrace(toks, i), toks)
    [] g[1] = "deep" -> IF d >= g[2] THEN Fail(i) ELSE Parse(g[3], toks, i, d + 1)
    [] g[1] = "fresh" -> Parse(g[2], toks, i, 0)
    [] g[1] = "left" -> Grow(Parse(Rule(g[2]), toks, i, d), g[3], g[4], toks, i, d)
    [] g[1] = "prefix" -> SignedBy(Many(g[2], Unbounded, toks, i, d), Rule(g[3]), toks, d)
    [] g[1] = "cond" -> Conditioned(Parse(Rule(g[2]), toks, i, d), g[3], toks, d)

------------------------------------------------------------------------------
(* From the text of a file to lowered bodies: tokens, the declarations of the  *)
(* file one by one, the mandatory pragma, then the statements of every body,   *)
(* of every lambda inside it in turn, and what their lowering keeps.           *)
VARIABLES text, phase, toks, at, out, raw, items, pending, body, bodies, reports

vars == <<text, phase, toks, at, out, raw, items, pending, body, bodies, reports>>

(* "bad" is text the lexer rejects, "nl" the end of a line.                    *)
Blank == {"bad", "nl"}
LinesOf(lexemes) ==
  LET upto(k) == Cardinality({j \in 1..k : lexemes[j] = "nl"}) IN [k \in DOMAIN lexemes |-> upto(k)]
Kept == SelectSeq([k \in DOMAIN text |-> k], LAMBDA k : text[k] \notin Blank)
Tokens == [k \in DOMAIN Kept |-> text[Kept[k]]]

(* An unrelated closer does not close anything.                                *)
Nested(state, t) ==
  IF t \in DOMAIN CloserOf THEN [closers |-> Append(state.closers, CloserOf[t]), deep |-> state.deep \/ Len(state.closers) >= MaxSyntaxNesting]
  ELSE IF state.closers # <<>> /\ state.closers[Len(state.closers)] = t THEN [state EXCEPT !.closers = SubSeq(@, 1, Len(@) - 1)]
  ELSE state
RECURSIVE NestedOver(_, _)
NestedOver(state, tokens) ==
  LET half == Len(tokens) \div 2 IN
  With(NestedOver(state, SubSeq(tokens, 1, half)), LAMBDA left :
    IF tokens = <<>> THEN state
    ELSE IF Len(tokens) = 1 THEN Nested(state, tokens[1])
    ELSE IF left.deep THEN left ELSE NestedOver(left, SubSeq(tokens, half + 1, Len(tokens))))
TooDeep(tokens) == NestedOver([closers |-> <<>>, deep |-> FALSE], tokens).deep

SpanContains(outer, inner) == outer[2] <= inner[2] /\ inner[3] <= outer[3]
(* A pass knows the lexical errors of the text that it tokenized itself.       *)
OnBadLine(report, tokenized) ==
  LET place == IF report[2] \in DOMAIN Kept THEN Kept[report[2]] ELSE Len(text) IN
  \E k \in tokenized : text[k] = "bad" /\ LinesOf(text)[k] = LinesOf(text)[place]

(* Reports in the order of their places; one that lies in the last kept one is *)
(* a cascade.                                                                  *)
Earliest(errs) ==
  CHOOSE e \in errs : \A f \in errs : e[2] < f[2] \/ (e[2] = f[2] /\ e[3] <= f[3])
RECURSIVE SuppressCascades(_, _, _)
SuppressCascades(errs, last, kept) ==
  IF errs = {} THEN kept
  ELSE With(Earliest(errs), LAMBDA e :
       LET cascade == \E p \in last : SpanContains(p, e) \/ (p[2] < e[3] /\ e[2] < p[3]) IN
         IF cascade THEN SuppressCascades(errs \ {e}, last, kept) ELSE SuppressCascades(errs \ {e}, {e}, kept \cup {e}))

------------------------------------------------------------------------------
(* The pragma that every file begins with.                                     *)

IsSolcore(item) ==
  Kind(item) = "pragma" /\ To(Parts(item)[1]) = From(Parts(item)[1]) + 1 /\ toks[From(Parts(item)[1])] = "solcore"
StartsWithPragma ==
  LET lexemes == SelectSeq(text, LAMBDA t : t # "nl")
  IN  Len(lexemes) >= 2 /\ lexemes[1] = "pragma" /\ lexemes[2] = "solcore"
PragmaAt(place) == <<"pragma", place, place>>
\* Mutant: any later declaration of the pragma will do.
PragmaAnywhere(output, broken) ==
  IF broken THEN (IF StartsWithPragma THEN {} ELSE {PragmaAt(1)})
  ELSE IF \E k \in DOMAIN output : IsSolcore(output[k]) THEN {} ELSE {PragmaAt(1)}
PragmaProblems(output, broken) ==
  With({k \in DOMAIN output : IsSolcore(output[k])}, LAMBDA solcore :
  With({PragmaAt(From(output[k])) : k \in solcore \ {1}}, LAMBDA repeated :
    IF broken THEN (IF StartsWithPragma THEN {} ELSE {PragmaAt(1)})
    ELSE IF output # <<>> /\ Kind(output[1]) = "error" THEN {}
    ELSE IF 1 \in solcore
    THEN repeated \cup (IF Parts(Parts(output[1])[2]) = <<>> THEN {} ELSE {PragmaAt(From(Parts(output[1])[2]))})
    ELSE IF solcore = {} THEN {PragmaAt(1)} ELSE repeated))

------------------------------------------------------------------------------
(* Lowering: the facts <<kind, from, to, nesting, unchecked>> about the         *)
(* expressions that are kept. Nesting counts through the bodies of lambdas,     *)
(* `unchecked` does not reach into them.                                        *)

Arithmetic == {"mul", "add", "shift", "bitand", "bitxor", "bitor", "rel", "eq", "and", "or", "compound", "neg"}
Fact(e, nesting, unchecked) == <<Kind(e), From(e), To(e), nesting, unchecked>>

RECURSIVE LowerExpr(_, _, _)
LowerExpr(e, nesting, unchecked) ==
  IF nesting >= MaxExpressionNesting THEN {<<"deep", From(e), To(e), nesting, unchecked>>}
  ELSE IF Kind(e) = "lambda"
  THEN LET b == Parts(e)[Len(Parts(e))] IN {<<"lambda", From(b), To(b), nesting + 1, unchecked>>}
  ELSE IF Kind(e) = "neg" /\ Kind(Parts(e)[1]) = "lit" /\ toks[From(Parts(e)[1])] # "str" THEN {<<"lit", From(e), To(e), nesting, unchecked>>}
  ELSE {Fact(e, nesting, unchecked)} \cup UNION {LowerExpr(Parts(e)[k], nesting + 1, unchecked) : k \in SubExprs(e)}

RECURSIVE LowerStmt(_, _, _)
LowerStmts(stmts, nesting, unchecked) == UNION {LowerStmt(stmts[k], nesting, unchecked) : k \in DOMAIN stmts}
LowerStmt(n, nesting, unchecked) ==
  LET nested == Kind(n) = "unchecked" IN
  With(LowerStmts(Parts(n), nesting, unchecked \/ nested), LAMBDA within :
    CASE nested -> within \cup (IF unchecked THEN {<<"nested", From(n), From(n) + 1, nesting, TRUE>>} ELSE {})
      [] Kind(n) \in ExprKinds \ {"error"} -> LowerExpr(n, nesting, unchecked)
      [] Kind(n) \in {"assembly", "error"} -> {}
      [] OTHER -> within)

Lowered(b, stmts) == LowerStmts(stmts, b.nesting, FALSE)
LambdasIn(facts) == {[from |-> f[2], to |-> f[3], tail |-> FALSE, nesting |-> f[4]] : f \in {g \in facts : g[1] = "lambda"}}
LoweringReports(facts) == {<<"lower", f[2], f[3]>> : f \in {g \in facts : g[1] \in {"deep", "nested"}}}

(* Only the last statement of a named function may lack its `;`.                *)
Nestings == {"arm", "default", "for", "scope", "block", "unchecked", "if", "match"}
RECURSIVE Unterminated(_, _)
Unterminated(stmts, allowLast) ==
  UNION {IF Kind(stmts[k]) = "tail"
         THEN IF allowLast /\ k = Len(stmts) THEN {} ELSE {<<"rule", From(stmts[k]), To(stmts[k])>>}
         ELSE IF Kind(stmts[k]) \in Nestings THEN Unterminated(Parts(stmts[k]), FALSE) ELSE {}
         : k \in DOMAIN stmts}

------------------------------------------------------------------------------
NoBody == [from |-> 0, to |-> 0, tail |-> FALSE, nesting |-> 0]

RECURSIVE BodiesIn(_)
BodiesIn(n) ==
  CASE Kind(n) \in {"fun", "ctor", "fallback"} ->
         LET b == Parts(n)[Len(Parts(n))] IN {[from |-> From(b), to |-> To(b), tail |-> Kind(n) = "fun", nesting |-> 0]}
    [] Kind(n) \in {"impl", "contract"} -> UNION {BodiesIn(Parts(n)[k]) : k \in DOMAIN Parts(n)}
    [] Kind(n) = "cfield" -> LambdasIn(LowerStmts(Parts(n), 0, FALSE))
    [] OTHER -> {}

Init ==
  /\ phase = "lex" /\ toks = <<>> /\ at = 1 /\ out = <<>> /\ raw = {} /\ items = <<>>
  /\ pending = {} /\ body = NoBody /\ bodies = {} /\ reports = {}

Tokenize ==
  /\ phase = "lex"
  /\ phase' = "items"
  /\ toks' = IF TooDeep(Tokens) THEN <<>> ELSE Tokens
  /\ reports' = {<<"lex", k, k>> : k \in {j \in DOMAIN text : text[j] = "bad"}} \cup (IF TooDeep(Tokens) THEN {<<"nesting", 1, 1>>} ELSE {})
  /\ UNCHANGED <<text, at, out, raw, items, pending, body, bodies>>

ParseItem ==
  /\ phase = "items"
  /\ \E r \in {Parse(Ref("item"), toks, at, 0)} :
       /\ r.ok
       /\ at' = r.at /\ out' = out \o r.nodes /\ raw' = raw \cup r.errs
  /\ UNCHANGED <<text, phase, toks, items, pending, body, bodies, reports>>

(* The repetition ends at the first declaration that neither parses nor is     *)
(* skipped; if that is not the end of the file there is no output at all.      *)
Output(r, window) ==
  IF at > Len(window) THEN [nodes |-> out, errs |-> raw] ELSE [nodes |-> <<>>, errs |-> raw \cup {Unexpected(r.far, window)}]

EndItems ==
  /\ phase = "items"
  /\ \E r \in {Parse(Ref("item"), toks, at, 0)} :
       /\ ~r.ok
       /\ \E o \in {Output(r, toks)} :
            LET recovered == {<<"item", From(o.nodes[k]), To(o.nodes[k])>> : k \in {j \in DOMAIN o.nodes : Kind(o.nodes[j]) = "error"}}
                shown == {e \in o.errs : ~\E s \in recovered : SpanContains(s, e)} \cup recovered
                errors == reports \cup {e \in shown : ~OnBadLine(e, DOMAIN text)}
            IN  /\ items' = o.nodes
                /\ pending' = UNION {BodiesIn(o.nodes[k]) : k \in DOMAIN o.nodes}
                /\ reports' = errors \cup PragmaProblems(o.nodes, errors # {})
  /\ phase' = "bodies" /\ out' = <<>> /\ raw' = {}
  /\ UNCHANGED <<text, toks, at, body, bodies>>

Window == SubSeq(toks, 1, body.to - 2)
TextOf(b) == (Kept[b.from] + 1)..(Kept[b.to - 1] - 1)

(* A body is lexed again between its braces; the file was within the limit on  *)
(* nesting, so its bodies are.                                                 *)
BeginBody ==
  /\ phase = "bodies" /\ body = NoBody /\ pending # {}
  /\ body' = CHOOSE b \in pending : \A c \in pending : b.from <= c.from
  /\ pending' = pending \ {body'}
  /\ at' = body'.from + 1 /\ out' = <<>> /\ raw' = {}
  /\ UNCHANGED <<text, phase, toks, items, bodies, reports>>

ParseStmt ==
  /\ phase = "bodies" /\ body # NoBody
  /\ \E r \in {Parse(Ref("stmt"), Window, at, 0)} :
       /\ r.ok
       /\ at' = r.at /\ out' = out \o r.nodes /\ raw' = raw \cup r.errs
  /\ UNCHANGED <<text, phase, toks, items, pending, body, bodies, reports>>

EndBody ==
  /\ phase = "bodies" /\ body # NoBody
  /\ \E r \in {Parse(Ref("stmt"), Window, at, 0)} :
       /\ ~r.ok
       /\ \E o \in {Output(r, Window)} : \E facts \in {Lowered(body, o.nodes)} :
         /\ bodies' = bodies \cup {[span |-> body, stmts |-> o.nodes, facts |-> facts, parsed |-> out, upto |-> at]}
         /\ pending' = pending \cup LambdasIn(facts)
         /\ reports' = reports \cup SuppressCascades({e \in o.errs : ~OnBadLine(e, TextOf(body))}, {}, {})
                         \cup Unterminated(o.nodes, body.tail) \cup LoweringReports(facts)
  /\ body' = NoBody /\ out' = <<>> /\ raw' = {}
  /\ UNCHANGED <<text, phase, toks, at, items>>

Finish ==
  /\ phase = "bodies" /\ body = NoBody /\ pending = {}
  /\ phase' = "done"
  /\ UNCHANGED <<text, toks, at, out, raw, items, pending, body, bodies, reports>>

Finished == phase = "done" /\ UNCHANGED vars

\* A file is read once, and everything the program keeps of it is a finite tree.
TypeOK ==
  /\ phase \in {"lex", "items", "bodies", "done"}
  /\ at \in 1..(Len(toks) + 1)
  /\ \A r \in reports \cup raw : r[2] \in 1..(Len(text) + 1) /\ r[2] <= r[3]
  /\ \A b \in pending \cup {s.span : s \in bodies} \cup ({body} \ {NoBody}) :
       toks[b.from] = "{" /\ toks[b.to - 1] = "}" /\ b.nesting \in 0..MaxExpressionNesting

Next == Tokenize \/ ParseItem \/ EndItems \/ BeginBody \/ ParseStmt \/ EndBody \/ Finish \/ Finished
=============================================================================
