------------------------------ MODULE MCParser ------------------------------
(* Short files through the lexer, the declarations, the bodies and their       *)
(* lowering, held against a reading of the same grammar as a set of            *)
(* derivations: no order among alternatives, no greed, nothing ruled out by    *)
(* lookahead and no recovery.                                                  *)
EXTENDS Parser

LOCAL INSTANCE SequencesExt

RECURSIVE Derive(_, _, _, _), DeriveAll(_, _, _, _), DeriveSteps(_, _, _, _, _), DeriveMany(_, _, _, _, _), DeriveGrow(_, _, _, _, _, _)
Sound(S) == {r \in S : r.ok /\ r.errs = {}}
DeriveAll(gs, w, i, d) ==
  IF gs = <<>> THEN {Ok(i, <<>>, {}, 0)}
  ELSE UNION {{Then(r, s) : s \in DeriveAll(Tail(gs), w, r.at, d)} : r \in Derive(Head(gs), w, i, d)}
DeriveSteps(g, n, w, found, d) ==
  IF found.last = {} THEN found
  ELSE IF n = 0
  THEN With(UNION {{Then(r, s) : s \in {q \in Derive(g, w, r.at, d) : q.at > r.at}} : r \in found.last}, LAMBDA next :
         [all |-> found.all \cup next, last |-> next])
  ELSE DeriveSteps(g, n - 1, w, DeriveSteps(g, n - 1, w, found, d), d)
DeriveMany(g, most, w, i, d) ==
  With({Ok(i, <<>>, {}, 0)}, LAMBDA none :
    DeriveSteps(g, IF most = 1 THEN 0 ELSE 6, w, [all |-> none, last |-> none], d).all)
DeriveGrow(r, tail, most, w, i, d) ==
  {r} \cup
  IF most = 0 THEN {}
  ELSE LET grown == {Grown([Then(r, s) EXCEPT !.nodes = r.nodes], s.nodes[1], i) : s \in Derive(tail, w, r.at, d)}
       IN  UNION {DeriveGrow(q, tail, most - 1, w, i, d) : q \in Sound(grown)}
Derive(g, w, i, d) ==
  CASE g[1] \in {"tok", "adjacent", "braces"} -> Sound({Parse(g, w, i, d)})
    [] g[1] \in {"any", "emit", "walk"} -> {}
    [] g[1] = "ref" -> Derive(Rules[g[2]], w, i, d)
    [] g[1] = "all" -> DeriveAll(g[2], w, i, d)
    [] g[1] = "choice" -> UNION {Derive(g[2][k], w, i, d) : k \in DOMAIN g[2]}
    [] g[1] = "rep" -> DeriveMany(g[2], g[3], w, i, d)
    [] g[1] = "node" -> {[r EXCEPT !.nodes = <<Node(g[2], i, r.at, @)>>] : r \in Derive(g[3], w, i, d)}
    [] g[1] = "not" -> {Ok(i, <<>>, {}, 0)}
    [] g[1] = "rewind" -> {Ok(i, <<>>, {}, 0) : r \in Derive(g[2], w, i, d)}
    [] g[1] = "act" -> Sound({Effect(g[2], r, w, i, d) : r \in Derive(g[3], w, i, d)})
    [] g[1] = "recover" -> Derive(g[2], w, i, d)
    [] g[1] = "deep" -> IF d >= g[2] THEN {} ELSE Derive(g[3], w, i, d + 1)
    [] g[1] = "fresh" -> Derive(g[2], w, i, 0)
    [] g[1] = "left" -> UNION {DeriveGrow(r, g[3], g[4], w, i, d) : r \in Derive(g[2], w, i, d)}
    [] g[1] = "prefix" ->
         Sound(UNION {{FoldPrefix([Then(o, r) EXCEPT !.nodes = r.nodes], o.nodes) : r \in Derive(g[3], w, o.at, d)}
                      : o \in DeriveMany(g[2], Unbounded, w, i, d)})
    [] g[1] = "cond" ->
         Sound(UNION {{OnConditional(r, t) : t \in DeriveMany(g[3], Unbounded, w, r.at, d)} : r \in Derive(g[2], w, i, d)})

Trees(rule, w, from) == {r.nodes : r \in {q \in DeriveMany(Ref(rule), Unbounded, w, from, 0) : q.at = Len(w) + 1}}

RECURSIVE BodyIsGrammatical(_)
BodyIsGrammatical(b) ==
  \E stmts \in Trees("stmt", SubSeq(toks, 1, b.to - 2), b.from + 1) :
    With(Lowered(b, stmts), LAMBDA facts :
      /\ Unterminated(stmts, b.tail) = {}
      /\ LoweringReports(facts) = {}
      /\ \A l \in LambdasIn(facts) : BodyIsGrammatical(l))
BeginsWithPragma == Len(Tokens) >= 3 /\ SubSeq(Tokens, 1, 3) = <<"pragma", "solcore", ";">>
FileIsGrammatical ==
  /\ \A k \in DOMAIN text : text[k] # "bad"
  /\ ~TooDeep(Tokens)
  /\ BeginsWithPragma
  /\ \E tree \in Trees("item", toks, 1) :
       /\ \A k \in DOMAIN tree \ {1} : ~IsSolcore(tree[k])
       /\ \A k \in DOMAIN tree : \A b \in BodiesIn(tree[k]) : BodyIsGrammatical(b)

RECURSIVE Within(_)
Within(n) == {n} \cup UNION {Within(Parts(n)[k]) : k \in DOMAIN Parts(n)}
NodesOf(nodes) == UNION {Within(nodes[k]) : k \in DOMAIN nodes}
Errors(nodes) == {n \in NodesOf(nodes) : Kind(n) = "error"}

------------------------------------------------------------------------------
\* A file that is read without a report has a derivation: recovery, lookahead and
\* the reports dropped with an abandoned branch never let a broken file through.
QuietIsGrammatical == phase = "done" /\ reports = {} => FileIsGrammatical

\* A file that has a derivation is read without a report: the order of the
\* alternatives, greedy repetition and the contextual keywords, which are ordinary
\* identifiers elsewhere, never hide the derivation from the parser.
GrammaticalIsQuiet == phase = "done" /\ reports # {} => ~FileIsGrammatical

ItemsCover == items # <<>> /\ To(items[Len(items)]) = Len(toks) + 1
Lost(b) == b.upto < b.span.to - 1
Inside(r, b) == IF r[1] = "lex" THEN r[2] \in TextOf(b.span) ELSE b.span.from <= r[2] /\ r[3] <= b.span.to
\* What was skipped is reported: a file or a body that is lost or holds an error
\* node has a report inside it, be it only the lexical one of its line; filters
\* against cascades always leave the first report.
NothingIsSilent ==
  phase = "done" =>
    /\ Errors(items) # {} \/ ~ItemsCover => reports # {}
    /\ \A b \in bodies : Lost(b) \/ Errors(b.stmts) # {} => \E r \in reports : Inside(r, b)

Start == IF body = NoBody THEN 1 ELSE body.from + 1
\* The declarations of a file and the statements of a body follow one another
\* without gaps or overlaps, each within its parent: rename, formatting and
\* comments rely on every token having one owner, the skipped ones too.
TokensAreOwned ==
  /\ \A k \in DOMAIN out : From(out[k]) = IF k = 1 THEN Start ELSE To(out[k - 1])
  /\ out # <<>> => To(out[Len(out)]) = at
  /\ \A n \in NodesOf(out) : \A k \in DOMAIN Parts(n) : From(n) <= From(Parts(n)[k]) /\ To(Parts(n)[k]) <= To(n)

Level(kind) ==
  CASE kind = "or" -> 1 [] kind = "and" -> 2 [] kind = "eq" -> 3 [] kind = "rel" -> 4 [] kind = "bitor" -> 5 [] kind = "bitxor" -> 6
    [] kind = "bitand" -> 7 [] kind = "shift" -> 8 [] kind = "add" -> 9 [] kind = "mul" -> 10 [] kind = "cond" -> 0 [] OTHER -> 11
\* An operator without parentheses around its operands binds tighter on its right
\* than its own level and at least as tight on its left; comparisons do not chain.
OperatorsBind ==
  \A b \in bodies : \A n \in NodesOf(b.stmts) :
    Level(Kind(n)) \in 1..10 =>
      LET l == Parts(n)[1]
          r == Parts(n)[2]
      IN  /\ From(l) = From(n) => Level(Kind(l)) > Level(Kind(n)) \/ (Kind(l) = Kind(n) /\ Kind(n) \notin {"eq", "rel"})
          /\ toks[From(r) - 1] # "(" => Level(Kind(r)) > Level(Kind(n))

Open(o, from, to) == Cardinality({k \in from..to : toks[k] = o}) - Cardinality({k \in from..to : toks[k] = CloserOf[o]})
BalancedUpTo(from, to) ==
  \A o \in DOMAIN CloserOf : Open(o, from, to) = 0 /\ \A k \in from..to : Open(o, from, k) >= 0
Seams(from, to, starts) ==
  {k \in (from + 1)..to : toks[k] \in starts /\ toks[k - 1] \in {";", "}"} /\ BalancedUpTo(from, k - 1)}
\* In a body that is kept, a statement keyword after a `;` or a `}` outside all
\* brackets begins a statement, whatever is broken before it.
RecoveryIsLocal ==
  \A b \in {c \in bodies : ~Lost(c)} :
    \A k \in Seams(b.span.from + 1, b.span.to - 2, StructuredStarts \ {"{"}) : \E j \in DOMAIN b.stmts : From(b.stmts[j]) = k

\* The same for declarations: in a file whose declarations are kept, an item keyword
\* after a `;` or a `}` outside all brackets begins a declaration.
ItemsSurvive ==
  items # <<>> =>
    \A k \in Seams(1, Len(toks), {"import", "export", "pragma", "type", "contract", "function", "trait", "impl", "#"}) :
      \E j \in DOMAIN items : From(items[j]) = k

Opener(k) == CHOOSE j \in 1..k : Open("{", j, k) = 0 /\ \A i \in j..(k - 1) : Open("{", j, i) > 0
\* Not everything is kept. All statements of a body are lost when it has a `}` whose
\* `{` was passed over in broken text (`lam { x }`: a broken atom is skipped up to
\* the brace) or in the brackets of an array type, and for no other reason; all
\* declarations of a file are lost when one does not parse although it begins with
\* its keyword, which recovery cannot pass, and for no other reason.
LossHasItsCause ==
  /\ \A b \in {c \in bodies : Lost(c)} :
       /\ toks[b.upto] = "}"
       /\ \E n \in NodesOf(b.parsed) : Kind(n) \in {"error", "tarray"} /\ Opener(b.upto) \in From(n)..(To(n) - 1)
  /\ phase \in {"bodies", "done"} /\ toks # <<>> /\ items = <<>> => at \in DOMAIN toks /\ toks[at] \in ItemStart[2]

ExprsOf(nodes) == {n \in NodesOf(nodes) : Kind(n) \in ExprKinds}
\* What later passes recurse over is bounded whatever the length of the file: the
\* depth of every expression tree, the operators folded in a loop included (one
\* more for the right side a compound assignment builds), and the number of bodies
\* one inside another, which are parsed one at a time.
TreesAreBounded ==
  \A b \in bodies :
    /\ \A e \in ExprsOf(b.stmts) : ExprDepth(e) <= MaxSyntaxNesting + (IF Kind(e) \in {"compound", "not"} THEN 1 ELSE 0)
    /\ Cardinality({c \in bodies : c.span.from < b.span.from /\ b.span.to < c.span.to}) <= MaxExpressionNesting

\* Arithmetic wraps exactly inside an `unchecked` block of its own body: not after
\* the block, and not in a lambda written inside it.
UncheckedIsLexical ==
  \A b \in bodies :
    LET blocks == {n \in NodesOf(b.stmts) : Kind(n) = "unchecked"}
    IN  \A f \in b.facts : f[1] \in Arithmetic => f[5] = (\E n \in blocks : From(n) <= f[2] /\ f[3] <= To(n))

\* A parse in progress keeps one finite tree that owns every token it has passed,
\* binds its operators as the table of levels says, stays within the limits on
\* nesting and marks exactly the arithmetic of `unchecked` blocks (exprs.rs, lower).
\* What is broken leaves a report, and the statements and declarations around it are
\* still read, unless the whole body or the whole file is lost, which happens only as
\* LossHasItsCause says (recovery.rs, statement_recovery_parser, top_item_parser).
TreesAreWellFormed ==
  /\ TypeOK /\ TokensAreOwned /\ OperatorsBind /\ TreesAreBounded /\ UncheckedIsLexical
  /\ NothingIsSilent /\ RecoveryIsLocal /\ ItemsSurvive /\ LossHasItsCause

\* A file is reported exactly when the grammar, read as a set of derivations without
\* order, lookahead or recovery, does not derive it (Parser::parse).
ReportsAreExact == QuietIsGrammatical /\ GrammaticalIsQuiet

\* What parse/mod.rs says of every file: an invalid span at the top level becomes an
\* error item, so that the items cover the file.  The code does so only for text that
\* holds no item keyword (top_item_parser).
InvalidSpansBecomeErrorItems == phase \in {"bodies", "done"} /\ toks # <<>> => ItemsCover

------------------------------------------------------------------------------
(* The files. *)

Pragma == <<"pragma", "solcore", ";">>
Fun(b) == Pragma \o <<"function", "x", "(", ")", "{">> \o b \o <<"}">>
Return(e) == Fun(<<"return">> \o e \o <<";">>)
Join(parts) == FlattenSeq(parts)

PairTokens ==
  {"x", "num", "(", ")", "[", "]", "{", "}", ";", ",", "=", "lam", "new", "let", "return", "if", "-", "<&", "<=", "?", ":", "comptime",
   "@", ".", "+=", "match", "unchecked"}
Pairs == {Fun(<<a, b>>) : a, b \in PairTokens}
TripleTokens == {"x", "num", "(", ")", "[", "]", "-", ".", "<&", "<", "?", ":", "new", "lam"}
Triples == {Return(<<a, b, c>>) : a, b, c \in TripleTokens}

BinaryOps ==
  {<<"||">>, <<"&&">>, <<"==">>, <<"<">>, <<"|">>, <<"^">>, <<"&">>, <<"<&", "<">>, <<"+">>, <<"*">>, <<">&", ">=">>, <<">&", ">">>}
Operands == {<<"x">>, <<"(", "x", "+", "x", ")">>, <<"-", "x">>}
Precedence ==
  {Return(Join(<<<<"x">>, o, <<"x">>, p, e>>)) : o, p \in BinaryOps, e \in Operands}
  \cup {Return(Join(<<<<"x", "?", "x">>, o, <<"x", ":", "x">>, p, <<"x">>>>)) : o, p \in BinaryOps}
  \cup {Fun(<<"x">> \o o \o <<"x", ";">>) : o \in {<<"=">>, <<"+=">>, <<"~=">>, <<"<&", "<=">>, <<"<", "<=">>, <<">&", ">=">>}}

Pieces ==
  {<<"let", "x", "=", "num", ";">>, <<"let", "x", ":", "x", "<", "x", ">", "=", "x", ";">>, <<"let", "x", "=", ";">>, <<"let", "num", ";">>,
   <<"return", ";">>, <<"return", "x", "x", ";">>,
   <<"if", "(", "x", ")", "{", "x", ";", "}">>, <<"if", "(", "x", ")", "{", "}", "else", "{", "}">>, <<"if", "x", "{", "}", "else", "{", "x", "}">>,
   <<"match", "(", "x", ")", "{", "case", "x", "{", "}", "default", "{", "}", "}">>, <<"match", "(", "x", ",", "y", ")", "{", "case", "(", "x", ",", "_", ")", "{", "}", "}">>,
   <<"match", "(", "x", ")", "{", "}">>, <<"match", "(", "x", ")", "{", "case", ".", "x", "(", "num", ")", "{", "x", "}", "}">>,
   <<"match", "(", "x", ",", "y", ")", "{", "case", "x", "{", "}", "}">>,
   <<"for", "(", "let", "x", "=", "num", ";", "x", ";", "x", "+=", "num", ")", "{", "break", ";", "}">>, <<"for", "(", "x", ")", "{", "}">>,
   <<"while", "(", "x", ")", "{", "continue", ";", "}">>, <<"while", "{", "}">>,
   <<"unchecked", "{", "x", "+=", "num", ";", "unchecked", "{", "}", "}">>, <<"{", "x", "=", "x", ";", "}">>,
   <<"assembly", "{", "let", "x", ":=", "x", "(", "num", ")", "switch", "x", "case", "num", "{", "leave", "}", "}">>,
   <<"assembly", "{", "x", ",", "y", ":=", "num", "for", "{", "}", "x", "{", "}", "{", "break", "}", "}">>, <<"assembly", "{", "switch", "x", "}">>,
   <<"assembly", "{", "function", "x", "(", ")", "->", "y", "{", "}", "if", "$meta", "{", "}", "return", "(", ")", "}">>, <<"assembly", "{", "=", "}">>,
   <<"x", ".", "y", "(", "x", ")", "=", "new", "x", "[", "]", "(", "x", ")", ";">>, <<"x", "=", "x">>, <<"x">>, <<")">>, <<"else">>, <<"bad">>, <<"nl", "=", "bad">>,
   <<"x", "=", "[", "x", "]", "[", "x", ":", "]", ";">>, <<"x", "=", "lam", "(", "x", ":", "x", ",", "y", ")", "->", "x", "{", "return", "x", ";", "}", ";">>,
   <<"x", "=", "lam", "{", "x", "}", ";">>, <<"let", "x", ":", "x", "[", "{", "]", ";", "}">>, <<"x", "(", "{", ")", "}">>}
Statements2 == {Fun(Join(<<p, q, <<"return", "x", ";">>>>)) : p, q \in Pieces}

TypeTokens == {"x", "y", "<", ">", ",", "(", ")", "[", "]", "comptime", "mapping", "=>", "@", "function"}
Types ==
  {Fun(Join(<<<<"let", "x", ":">>, t, <<";">>>>)) : t \in {<<a, b, c>> : a, b, c \in TypeTokens}
     \cup {<<"mapping", "(", "x", "=>", "x", "[", "]", ")">>, <<"function", "(", "x", ")", "returns", "(", "x", ",", "y", ")">>, <<"comptime", "<", "x", ">">>,
           <<"comptime", "<", "x", "<", "y", ">", ">">>, <<"x", "[", "num", "]">>, <<"mapping", ".", "x">>, <<"x", ".", "y", "<", "x", ",", ">", "[", "]", "[", "]">>}}

Body == <<"{", "x", "}">>
ItemPieces ==
  {<<"import", "x", ";">>, <<"import", "*", "as", "x", "from", "@", "x", ".", "y", ";">>, <<"import", "*", "from", "x", "hiding", "{", "y", "}", ";">>,
   <<"import", "{", "x", "as", "y", ",", "(", "+", ")", "}", "from", "x", ";">>, <<"import", "x">>,
   <<"export", "{", "x", "(", "*", ")", ",", "x", ".", "*", "}", ";">>, <<"export", "x", ".", "{", "y", "}", ";">>, <<"export", "x", "as", "y", ";">>, <<"export", "x", ";">>,
   <<"pragma", "x", "-", "contract", "x", ";">>, Pragma, <<"type", "x", "(", "y", ")", "=", "y", "[", "]", ";">>, <<"type", "x", "=", "num", ";">>,
   <<"enum", "x", "<", "y", ">", "{", "x", "(", "y", ")", ",", "y", "}">>, <<"struct", "x", "{", "x", ":", "y", ";", "y", ":", "y", ";", "}">>,
   <<"struct", "x", "{", "x", ":", "y", ";", "x", ":", "y", ";", "}">>,
   <<"trait", "x", "<", "y", ">", "where", "y", ":", "x", "{", "function", "x", "(", "x", ":", "y", ")", "returns", "(", "y", ")", ";", "}">>,
   <<"impl", "x", "<", "y", ">", "{", "function", "x", "(", ")">> \o Body \o <<"}">>, <<"default", "impl", "<", "x", ">", "x", "<", "x", ">", "where", "(", "x", ":", "y", ")", "{", "}">>,
   <<"function", "x", "(", "comptime", "x", ":", "x", ")", "where", "x", ":", "y", "<", "x", ">">> \o Body, <<"function", "x", "(", "comptime", ":", "x", ")">> \o Body,
   <<"function", "x", "(", "x", ",", "comptime", "y", ")">> \o Body, <<"function", "x", "(", ")", "public">> \o Body, <<"function", "x", "(", "num", ")">> \o Body,
   <<"contract", "x", "{", "x", ":", "y", "=", "lam", "(", ")">> \o Body \o <<";", "constructor", "(", ")", "payable">> \o Body \o <<"fallback", "(", ")", "public">> \o Body \o <<"}">>,
   <<"contract", "x", "{", "function", "x", "(", ")", "public", "payable", "returns", "(", ")">> \o Body \o <<"#", "[", "derive", "(", "x", ")", "]", "enum", "y", "{", "}", "num", "type", "x", "=", "y", ";", "}">>,
   <<"contract", "x", "{", "fallback", "(", "x", ":", "y", ")">> \o Body \o <<"#", "[", "derive", "(", "x", ")", "]", "x", ":", "y", ";", "}">>,
   <<"#", "[", "derive", "(", "x", ".", "type", ",", "y", ")", "]", "enum", "x", "{", "}">>, <<"#", "[", "derive", "(", "y", ")", "]", "struct", "x", "{", "}">>,
   <<"#", "[", "x", "]", "enum", "x", "{", "}">>, <<"#", "[", "derive", "(", "x", "enum", "x", "{", "}">>, <<"#", "[", "derive", "(", ")", "]", "import", "x", ";">>,
   <<"x", "num">>, <<"}">>, <<"bad">>, <<"nl">>}
Broken2 == {<<"function", "x", "{", "}">>, <<"contract", "x", "{", "function", "}">>, <<"type", "x", ";">>}
Files == {<<>>} \cup {Pragma \o p \o q : p, q \in ItemPieces} \cup {p \o Pragma : p \in ItemPieces} \cup {p \o Pragma \o q : p \in {<<"x">>, <<"nl">>, <<"bad">>, <<"import", "x">>}, q \in ItemPieces}
         \cup {Pragma \o p \o q : p \in ItemPieces, q \in Broken2}

RECURSIVE Repeat(_, _)
Repeat(s, n) == IF n = 0 THEN <<>> ELSE s \o Repeat(s, n - 1)
Around(open, inner, close, n) == Join(<<Repeat(open, n), inner, Repeat(close, n)>>)
Depths == 0..4
DeepFiles ==
  {Return(Around(o[1], o[2], o[3], n)) : n \in Depths, o \in {
     <<<<"(">>, <<"x">>, <<")">>>>, <<<<"x", "(">>, <<"x">>, <<")">>>>, <<<<"[">>, <<>>, <<"]">>>>, <<<<"-">>, <<"x">>, <<>>>>, <<<<>>, <<"x">>, <<".", "x">>>>,
     <<<<>>, <<"x">>, <<"+", "x">>>>, <<<<>>, <<"x">>, <<"?", "x", ":", "x">>>>, <<<<>>, <<"x">>, <<"*", "-", "x">>>>, <<<<"(", "x", "+">>, <<"x">>, <<")">>>>,
     <<<<"lam", "(", ")", "{", "return">>, <<"x">>, <<";", "}">>>>, <<<<"x", "+", "lam", "(", ")", "{", "return">>, <<"x">>, <<";", "}">>>>,
     <<<<"(">>, <<"]", "]", "x">>, <<")">>>>}}
  \cup {Fun(Join(<<<<"x", "+=">>, Around(o[1], o[2], o[3], n), <<";">>>>)) : n \in Depths, o \in {<<<<>>, <<"x">>, <<"+", "x">>>>, <<<<"x", "[">>, <<"x">>, <<"]">>>>}}
  \cup {Fun(Join(<<<<"let", "x", ":">>, Around(o[1], o[2], o[3], n), <<";">>>>)) : n \in Depths, o \in {
     <<<<"x", "<">>, <<"x">>, <<">">>>>, <<<<>>, <<"x">>, <<"[", "]">>>>, <<<<"@">>, <<"x">>, <<>>>>, <<<<"(">>, <<>>, <<")">>>>}}
  \cup {Fun(Around(o[1], o[2], o[3], n)) : n \in Depths, o \in {
     <<<<"{">>, <<"x", ";">>, <<"}">>>>, <<<<"unchecked", "{", "x", "+=", "x", ";">>, <<>>, <<"}", "x", "*=", "x", ";">>>>,
     <<<<"unchecked", "{", "x", "=", "lam", "(", ")", "{">>, <<"x", "-=", "x", ";">>, <<"}", ";", "}", "x", "-=", "x", ";">>>>,
     <<<<"if", "(", "-", "x", ")", "{", "unchecked", "{">>, <<"x", "-=", "x", ";">>, <<"}", "}">>>>}}

Texts == Pairs \cup Triples \cup Precedence \cup Statements2 \cup Types \cup DeepFiles \cup Files

MCInit == Init /\ text \in Texts
Spec == MCInit /\ [][Next]_vars
=============================================================================
