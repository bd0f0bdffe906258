---------------------------- MODULE DecisionTrees ----------------------------
(* Matching by a matrix of patterns: the matrix is split on one column after   *)
(* another and becomes a decision tree.                                        *)
(* A constructor is its index in its type; a type is <<"word">>, <<"data", name>>,  *)
(* or <<"tuple", element types>>.                                              *)
EXTENDS Naturals, Sequences, FiniteSets, SequencesExt

CONSTANTS
  Layouts,      \* data type -> its constructors, each the sequence of its field types
  WordValues    \* the word has the values 0 .. WordValues - 1

-------------------------------------------------------------------------------
(* A value under a name.                                                       *)
With(value, Body(_)) == Body(value)

(* Patterns are <<kind, what, parts>>.                                         *)
Wild == <<"wild", 0, <<>>>>
VarPat(name) == <<"var", name, <<>>>>
LitPat(n) == <<"lit", n, <<>>>>
ConPat(i, args) == <<"con", i, args>>
TuplePat(elems) == <<"tuple", 0, elems>>
Label == <<"label", 0, <<>>>>
StringPat == <<"string", 0, <<>>>>

IsVarLike(p) == p[1] \in {"wild", "var", "error"}
IsData(ty) == ty[1] = "data"
Constructors(ty) == Layouts[ty[2]]

(* A literal stands for its word: hexadecimal or too large, it is wrapped.     *)
RECURSIVE MatrixPat(_)
MatrixPat(p) ==
  <<p[1], IF p[1] = "lit" THEN p[2] % WordValues ELSE p[2],
    [i \in DOMAIN p[3] |-> MatrixPat(p[3][i])] \o <<>>>>

(* A row keeps the patterns still to test, what is bound, and which arm it is. *)
Row(arm, pats) == [arm |-> arm, pats |-> [i \in DOMAIN pats |-> MatrixPat(pats[i])] \o <<>>, bindings |-> <<>>]
Column(occurrence, ty) == [occurrence |-> occurrence, ty |-> ty]

Bind(row, name, occurrence) == [row EXCEPT !.bindings = Append(@, <<name, occurrence>>)]
Rest(row) == [row EXCEPT !.pats = Tail(@)]
RowWithPats(row, prefix) == [row EXCEPT !.pats = prefix \o @]
Wildcards(n) == [i \in 1 .. n |-> Wild]

ChildColumns(occurrence, fields) == [i \in DOMAIN fields |-> Column(Append(occurrence, i), fields[i])] \o <<>>

(* What is left of a row in the branch of a constructor: its arguments, or a   *)
(* wildcard for each field.                                                    *)
BindFirst(row, occurrence) ==
  IF Head(row.pats)[1] = "var" THEN Bind(Rest(row), Head(row.pats)[2], occurrence) ELSE Rest(row)

OpenRow(row, occurrence, count) ==
  IF IsVarLike(Head(row.pats)) THEN RowWithPats(BindFirst(row, occurrence), Wildcards(count))
  ELSE RowWithPats(Rest(row), Head(row.pats)[3])

Mapped(rows, Op(_)) == [i \in DOMAIN rows |-> Op(rows[i])] \o <<>>

-------------------------------------------------------------------------------
(* The column with most patterns that test something, and of those the one     *)
(* nearest to a scrutinee, is moved to the front.                              *)
Score(rows, c) == Cardinality({r \in DOMAIN rows : ~IsVarLike(rows[r].pats[c])})
SelectMatchColumn(columns, rows) ==
  LET cs == DOMAIN columns
      better(c, d) == \/ Score(rows, c) > Score(rows, d)
                      \/ Score(rows, c) = Score(rows, d) /\ Len(columns[c].occurrence) < Len(columns[d].occurrence) IN
  With({c \in cs : \A d \in cs : ~better(d, c)}, LAMBDA best :
    CHOOSE c \in best : \A d \in best : c <= d)
ToFront(s, c) == <<s[c]>> \o RemoveAt(s, c)

Tree(t, diags) == [tree |-> t, diags |-> diags]
Fail == [kind |-> "fail"]
Leaf(row) == [kind |-> "leaf", arm |-> row.arm, bindings |-> row.bindings]

(* In order of appearance, each once.                                          *)
Heads(rows, kind) ==
  FoldLeft(LAMBDA seen, row : IF Head(row.pats)[1] = kind /\ ~Contains(seen, Head(row.pats)[2])
                              THEN Append(seen, Head(row.pats)[2]) ELSE seen, <<>>, rows)

(* A row is discarded, and reported, when its pattern does not fit the column. *)
Discards(rows, fitting) == IF \E r \in DOMAIN rows : Head(rows[r].pats)[1] \notin fitting THEN {"unsupported"} ELSE {}

VarLike == {"wild", "var", "error"}

\* Mutant: the rows of the constructor are gathered before the rows that take any.
BranchRowsGathered(rows, i) ==
  SelectSeq(rows, LAMBDA row : Head(row.pats)[1] = "con" /\ Head(row.pats)[2] = i)
    \o SelectSeq(rows, LAMBDA row : IsVarLike(Head(row.pats)))

(* Rows that belong in the branch of constructor i.                            *)
BranchRows(rows, i) ==
  SelectSeq(rows, LAMBDA row : IsVarLike(Head(row.pats)) \/ (Head(row.pats)[1] = "con" /\ Head(row.pats)[2] = i))

LitRows(rows, n) ==
  SelectSeq(rows, LAMBDA row : IsVarLike(Head(row.pats)) \/ (Head(row.pats)[1] = "lit" /\ Head(row.pats)[2] = n))

DefaultRows(rows, occurrence) ==
  Mapped(SelectSeq(rows, LAMBDA row : IsVarLike(Head(row.pats))), LAMBDA row : BindFirst(row, occurrence))

RECURSIVE CompileMatchMatrix(_, _)

(* A branch of its own for a default that has no rows is a failure.            *)
CompileDefault(columns, rows) ==
  IF rows = <<>> THEN Tree(Fail, {"nonExhaustive"}) ELSE CompileMatchMatrix(columns, rows)

CompileProductColumn(test, columns, rows, fields) ==
  LET fits == IF IsData(test.ty) THEN VarLike \cup {"con", "tuple"} ELSE VarLike \cup {"tuple"}
      open == Mapped(SelectSeq(rows, LAMBDA row : Head(row.pats)[1] \in fits),
                     LAMBDA row : OpenRow(row, test.occurrence, Len(fields))) IN
  With(CompileMatchMatrix(ChildColumns(test.occurrence, fields) \o columns, open), LAMBDA sub :
    Tree([kind |-> "product", occurrence |-> test.occurrence, data |-> IsData(test.ty), fields |-> fields, tree |-> sub.tree], sub.diags \cup Discards(rows, fits)))

CompileConstructorSwitch(test, columns, rows, heads) ==
  LET ctors == Constructors(test.ty)
      branch == [k \in DOMAIN heads |->
                   CompileMatchMatrix(ChildColumns(test.occurrence, ctors[heads[k]]) \o columns,
                                      Mapped(BranchRows(rows, heads[k]),
                                             LAMBDA row : OpenRow(row, test.occurrence, Len(ctors[heads[k]]))))] \o <<>>
      default == IF Len(heads) = Len(ctors) THEN <<>>
                 ELSE <<CompileDefault(columns, DefaultRows(rows, test.occurrence))>> IN
  With(branch \o default, LAMBDA all :
    Tree([kind |-> "switch", occurrence |-> test.occurrence, ty |-> test.ty, heads |-> heads,
          trees |-> [k \in DOMAIN all |-> all[k].tree] \o <<>>],
         UNION {all[k].diags : k \in DOMAIN all} \cup Discards(rows, VarLike \cup {"con"})))

CompileAtomicSwitch(test, columns, rows, heads) ==
  LET branch == [k \in DOMAIN heads |->
                   CompileMatchMatrix(columns, Mapped(LitRows(rows, heads[k]), LAMBDA row : BindFirst(row, test.occurrence)))] \o <<>> IN
  With(Append(branch, CompileDefault(columns, DefaultRows(rows, test.occurrence))), LAMBDA all :
    Tree([kind |-> "atomic", occurrence |-> test.occurrence, heads |-> heads,
          trees |-> [k \in DOMAIN all |-> all[k].tree] \o <<>>],
         UNION {all[k].diags : k \in DOMAIN all} \cup Discards(rows, VarLike \cup {"lit"})))

(* The fields of a column that is a product: of a tuple, or of a data type     *)
(* with one constructor.                                                       *)
ProductFields(test, rows) ==
  LET has(kind) == \E r \in DOMAIN rows : Head(rows[r].pats)[1] = kind
  IN  CASE has("tuple") -> <<IF test.ty[1] = "tuple" THEN test.ty[2] ELSE <<test.ty>>>>
        [] has("con") /\ IsData(test.ty) -> IF Len(Constructors(test.ty)) = 1 THEN <<Constructors(test.ty)[1]>> ELSE <<>>
        [] OTHER -> <<>>

(* The tests in the order the code makes them.                                 *)
CompileMatchMatrix(columns, rows) ==
  IF rows = <<>> THEN Tree(Fail, {"nonExhaustive"})
  ELSE IF columns = <<>> THEN Tree(Leaf(rows[1]), {})
  ELSE IF \A c \in DOMAIN columns : IsVarLike(rows[1].pats[c])
  THEN Tree(Leaf(FoldLeft(LAMBDA row, c : BindFirst(row, c.occurrence), rows[1], columns)), {})
  ELSE With(SelectMatchColumn(columns, rows), LAMBDA c :
       With(columns[c], LAMBDA test :
       With(RemoveAt(columns, c), LAMBDA rest :
       With(Mapped(rows, LAMBDA row : [row EXCEPT !.pats = ToFront(@, c)]), LAMBDA sel :
       With(ProductFields(test, sel), LAMBDA product :
       With(IF IsData(test.ty) THEN Heads(sel, "con") ELSE <<>>, LAMBDA ctors :
       With(Heads(sel, "lit"), LAMBDA lits :
         CASE product # <<>> -> CompileProductColumn(test, rest, sel, product[1])
           [] ctors # <<>> -> CompileConstructorSwitch(test, rest, sel, ctors)
           [] lits # <<>> -> CompileAtomicSwitch(test, rest, sel, lits)
           [] \E r \in DOMAIN sel : Head(sel[r].pats)[1] = "label" -> Tree(Fail, {"unsupported"})
           [] OTHER -> With(CompileMatchMatrix(rest, DefaultRows(sel, test.occurrence)), LAMBDA sub :
                         Tree(sub.tree, sub.diags \cup Discards(sel, VarLike))))))))))
=============================================================================
