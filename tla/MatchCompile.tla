---------------------------- MODULE MatchCompile ----------------------------
(* The decision tree of a match over several scrutinees is run on values in    *)
(* the encoding of the Hull, nested sums, and compared with what a match       *)
(* means: the first row whose patterns match.                                  *)
EXTENDS DecisionTrees

CONSTANT Matches   \* [types, rows]: scrutinee types and rows of patterns to compile

VARIABLES
  match,        \* the match being compiled
  phase,        \* "source", "compiled", "running", "leaf" or "revert"
  diagnostics,  \* kinds of diagnostics reported while compiling
  node,         \* the decision tree, and then the part of it still to run
  input,        \* the values of the scrutinees
  occurrences,  \* where in the scrutinees -> the value found there
  result        \* the row taken and what its names are bound to

vars == <<match, phase, diagnostics, node, input, occurrences, result>>

-------------------------------------------------------------------------------
(* Values: a word, or <<constructor, fields>>; a tuple is the sequence of its  *)
(* elements.                                                                   *)
RECURSIVE ValuesOf(_), FieldValues(_)
FieldValues(tys) ==
  IF tys = <<>> THEN {<<>>} ELSE {<<v>> \o vs : v \in ValuesOf(Head(tys)), vs \in FieldValues(Tail(tys))}
ValuesOf(ty) ==
  CASE ty[1] = "word" -> 0 .. WordValues - 1
    [] IsData(ty) -> UNION {{<<i, fs>> : fs \in FieldValues(Constructors(ty)[i])} : i \in DOMAIN Constructors(ty)}
    [] OTHER -> FieldValues(ty[2])

(* The Hull's encoding of constructor index of arity many.                     *)
RECURSIVE EncodeConstructor(_, _, _)
EncodeConstructor(index, arity, payload) ==
  IF arity <= 1 THEN payload
  ELSE IF index = 1 THEN <<"inl", payload>> ELSE <<"inr", EncodeConstructor(index - 1, arity - 1, payload)>>

(* The nested match selects a branch and binds its payload.                    *)
RECURSIVE NestedSumMatch(_, _)
NestedSumMatch(value, n) ==
  IF n = 1 THEN <<1, value>>
  ELSE IF value[1] = "inl" THEN <<1, value[2]>>
  ELSE With(NestedSumMatch(value[2], n - 1), LAMBDA r :
         <<r[1] + 1, r[2]>>)

-------------------------------------------------------------------------------
Init ==
  /\ match \in Matches
  /\ phase = "source"
  /\ diagnostics = {}
  /\ node = Fail
  /\ input = <<>> /\ occurrences = <<>>
  /\ result = [arm |-> 0, bindings |-> {}]

(* An arm with too few or too many patterns is reported and left out; a match  *)
(* without scrutinees or without arms is reported and reverts.                 *)
EmitMatch ==
  /\ phase = "source"
  /\ LET columns == [i \in DOMAIN match.types |-> Column(<<i>>, match.types[i])] \o <<>>
         arms == [i \in DOMAIN match.rows |-> Row(i, match.rows[i])] \o <<>>
         rows == SelectSeq(arms, LAMBDA row : Len(row.pats) = Len(columns))
         arity == IF columns # <<>> /\ Len(rows) < Len(arms) THEN {"unsupported"} ELSE {}
     IN  IF columns = <<>> \/ rows = <<>>
         THEN node' = Fail /\ diagnostics' = {"emptyMatch"} \cup arity
         ELSE \E t \in {CompileMatchMatrix(columns, rows)} : node' = t.tree /\ diagnostics' = t.diags \cup arity
  /\ phase' = "compiled"
  /\ UNCHANGED <<match, input, occurrences, result>>

Enter ==
  /\ phase = "compiled"
  /\ \E vs \in FieldValues(match.types) :
       /\ input' = vs
       /\ occurrences' = [o \in {<<i>> : i \in DOMAIN vs} |-> vs[o[1]]]
  /\ phase' = "running"
  /\ UNCHANGED <<match, diagnostics, node, result>>

Extended(occurrence, fields) ==
  [o \in DOMAIN occurrences \cup {Append(occurrence, i) : i \in DOMAIN fields} |->
     IF o \in DOMAIN occurrences THEN occurrences[o] ELSE fields[o[Len(o)]]]

Go(tree) == node' = tree /\ UNCHANGED <<match, phase, diagnostics, input, result>>
Running(kind) == phase = "running" /\ node.kind = kind
Known == node.occurrence \in DOMAIN occurrences
Scrutinee == occurrences[node.occurrence]
Default == node.trees[Len(node.trees)]

(* Taking a product apart is no test.                                          *)
RunProduct ==
  /\ Running("product") /\ Known
  /\ occurrences' = Extended(node.occurrence, IF node.data THEN Scrutinee[2] ELSE Scrutinee)
  /\ Go(node.tree)

RunSwitch ==
  /\ Running("switch") /\ Known
  /\ LET n == Len(Constructors(node.ty))
         taken == NestedSumMatch(EncodeConstructor(Scrutinee[1], n, Scrutinee[2]), n)
     IN  /\ occurrences' = Extended(node.occurrence, taken[2])
         /\ Go(IF Contains(node.heads, taken[1])
               THEN node.trees[CHOOSE k \in DOMAIN node.heads : node.heads[k] = taken[1]] ELSE Default)

RunAtomic ==
  /\ Running("atomic") /\ Known
  /\ Go(IF Contains(node.heads, Scrutinee)
        THEN node.trees[CHOOSE k \in DOMAIN node.heads : node.heads[k] = Scrutinee] ELSE Default)
  /\ UNCHANGED occurrences

(* A name whose place is not known is left out.                                *)
RunLeaf ==
  /\ Running("leaf")
  /\ result' = [arm |-> node.arm,
                bindings |-> {<<b[1], occurrences[b[2]]>> : b \in {c \in ToSet(node.bindings) : c[2] \in DOMAIN occurrences}}]
  /\ phase' = "leaf"
  /\ UNCHANGED <<match, diagnostics, node, input, occurrences>>

RunFail ==
  /\ Running("fail")
  /\ phase' = "revert"
  /\ UNCHANGED <<match, diagnostics, node, input, occurrences, result>>

Next == EmitMatch \/ Enter \/ RunProduct \/ RunSwitch \/ RunAtomic \/ RunLeaf \/ RunFail

Spec == Init /\ [][Next]_vars

-------------------------------------------------------------------------------
(* What a match means.                                                         *)
RECURSIVE Fits(_, _), Bound(_, _)
Fits(p, v) ==
  CASE p[1] \in {"wild", "var", "error"} -> TRUE
    [] p[1] = "lit" -> p[2] % WordValues = v
    [] p[1] = "con" -> p[2] = v[1] /\ \A i \in DOMAIN p[3] : Fits(p[3][i], v[2][i])
    [] p[1] = "tuple" -> \A i \in DOMAIN p[3] : Fits(p[3][i], v[i])
    [] OTHER -> FALSE
Bound(p, v) ==
  CASE p[1] = "var" -> {<<p[2], v>>}
    [] p[1] = "con" -> UNION {Bound(p[3][i], v[2][i]) : i \in DOMAIN p[3]}
    [] OTHER -> UNION {Bound(p[3][i], v[i]) : i \in DOMAIN p[3]}

Fitting(vs) == {r \in DOMAIN match.rows : Len(match.rows[r]) = Len(vs) /\ \A i \in DOMAIN vs : Fits(match.rows[r][i], vs[i])}
Supported == "unsupported" \notin diagnostics

(* The arm that runs is the first whose patterns match, with every name bound  *)
(* to the part of the value it stands for, whichever column was tested first   *)
(* and however often the row was copied into branches.                         *)
FirstMatchWins ==
  phase = "leaf" /\ Supported =>
    LET arm == result.arm
    IN  /\ arm \in Fitting(input) /\ \A r \in Fitting(input) : arm <= r
        /\ result.bindings = UNION {Bound(match.rows[arm][i], input[i]) : i \in DOMAIN input}

(* A match is reported as not exhaustive exactly when some value reaches no    *)
(* arm: nothing reverts that was not reported, and a complete match, however   *)
(* its rows overlap, compiles quietly.                                         *)
ReportedIffIncomplete ==
  phase = "compiled" /\ Supported =>
    ({"nonExhaustive", "emptyMatch"} \cap diagnostics # {} <=> \E vs \in FieldValues(match.types) : Fitting(vs) = {})

(* A run never asks for a part of the scrutinees it has not reached yet, and   *)
(* only a value no arm fits reverts.                                           *)
NeverLost ==
  /\ phase = "running" /\ node.kind \in {"product", "switch", "atomic"} => Known
  /\ phase = "revert" /\ Supported => Fitting(input) = {}
=============================================================================
