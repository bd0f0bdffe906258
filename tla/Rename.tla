-------------------------------- MODULE Rename --------------------------------
(* Find-references and rename in the language server: which occurrences a      *)
(* symbol has, when it may be renamed with text edits alone, and the check     *)
(* that resolves the edited workspace before the edits are handed out.         *)
EXTENDS BodyResolver

CONSTANTS Programs,     \* sources with their texts and the names a user types
          FreshName,    \* a name no program uses
          MaxRenames

ProgramsAssumption == \A i \in DOMAIN Programs :
  /\ DOMAIN Programs[i].src = {"main", "lib"} /\ Programs[i].texts # {}
  /\ \A x \in Programs[i].texts : FreshName \notin Range(x)

VARIABLES prog,     \* the index of the program
          text,     \* token -> its text now
          renames,  \* the number of renames done
          undo      \* what the last rename did: the token asked for and its old name

vars == <<prog, text, renames, undo>>

P == Programs[prog].src
Frozen == Programs[prog].frozen   \* modules that are not documents of the editor
Tokens == DOMAIN text
FileOf(t) == IF t < Programs[prog].lib THEN "main" ELSE "lib"
Files == {"main", "lib"}

-------------------------------------------------------------------------------
(* Targets: what an occurrence stands for. A target is a resolution, or an     *)
(* import alias, named by the first token that introduces it.                  *)

AliasTokens(p, md) == UNION {{s.as : s \in {n \in Range(im.names) : n.as # 0}} : im \in Range(p[md].imports)}

ImportAlias(p, x, md, name) == Res("alias", Min({t \in AliasTokens(p, md) : x[t] = name}))

(* The items of lib's interface that a name in an import stands for.           *)
ImportNameTargets(p, x, t) == {Res(i.k, i.d) : i \in {j \in PublicItems(p["lib"], x) : x[j.d] = x[t]}}

(* An occurrence spelled like an alias of what it resolves to stands for that  *)
(* alias.                                                                      *)
TargetAtSpan(p, x, md, t, r) ==
  LET through == {s \in UNION {Range(im.names) : im \in Range(p[md].imports)} :
                    s.as # 0 /\ x[s.as] = x[t] /\ r \in ImportNameTargets(p, x, s.name)}
  IN  IF through = {} THEN r ELSE ImportAlias(p, x, md, x[t])

(* What an export names: its items, and what is imported under that name.      *)
ExportNameTargets(p, x, md, e) ==
  LET m == p[md]
      path == <<x[e.name]>>
      found == {Find(Terms(m, x, FALSE), path), Find(Types(m, x, FALSE), path),
                Find(ImportedTerms(p, x, m), path), Find(ImportedTypes(p, x, m), path)} \ {None}
  IN  {TargetAtSpan(p, x, md, e.name, r) : r \in found}

ImportNames(im) == {s.name : s \in Range(im.names)} \cup Range(im.hiding)

(* The methods of impls, as occurrences of the method of the class.            *)
ImplMethods(p, x, md, map) ==
  UNION {UNION {UNION {{<<t, Res("method", d)>> : d \in {e \in Range(k.methods) : x[e] = x[t]}}
                       : k \in {c \in Range(p["main"].classes) \cup Range(p["lib"].classes) : <<i.head, Res("class", c.name)>> \in map}}
                : t \in Range(i.methods)} : i \in Range(p[md].impls)}

-------------------------------------------------------------------------------
(* What is resolved of a module or of one body.                                *)

BodiesOf(p, x, md) == {ResolveBody(p, x, p[md], f) : f \in Range(p[md].fns)}

Workspace(p, x) ==
  [md \in Files |->
     With(ResolveItems(p, x, p[md]), LAMBDA items :
     With(BodiesOf(p, x, md), LAMBDA bodies :
       [map   |-> items.map \cup UNION {b.map : b \in bodies},
        diags |-> ScopeDiagnostics(p[md], x) \cup ImportDiagnostics(p, x, p[md])
                  \cup items.diags \cup UNION {b.diags : b \in bodies}]))]

(* The function a local value belongs to.                                      *)
FunctionOf(p, md, t) == CHOOSE f \in Range(p[md].fns) : t \in Range(f.params) \cup Toks(f.body)
IsLocal(target) == target.k \in {"param", "let", "pat"}

(* Occurrences of names that stand for a target, declarations aside.           *)
BodyOccurrences(p, x, md, map, target) ==
  {q[1] : q \in {r \in map : r[2].k \notin {"err", "true", "word"} /\ TargetAtSpan(p, x, md, r[1], r[2]) = target}}

ImportExportOccurrences(p, x, md, target) ==
  UNION {{t \in ImportNames(im) : target \in ImportNameTargets(p, x, t)} : im \in Range(p[md].imports)}
  \cup {e.name : e \in {f \in Range(p[md].exports) : target \in ExportNameTargets(p, x, md, f)}}

CollectReferences(p, x, w, target) ==
  LET md == FileOf(target.d)
      local == ResolveBody(p, x, p[md], FunctionOf(p, md, target.d))
  IN  {target.d} \cup
      IF IsLocal(target) THEN BodyOccurrences(p, x, md, local.map, target)
      ELSE UNION {BodyOccurrences(p, x, f, w[f].map, target) \cup ImportExportOccurrences(p, x, f, target)
                  \cup {q[1] : q \in {r \in ImplMethods(p, x, f, w[f].map) : r[2] = target}} : f \in Files}

(* The target under the cursor. A name in an import or export that stands for  *)
(* several things is none.                                                     *)
Declarations(p, md) ==
  {Res("fn", f.name) : f \in Range(p[md].fns)} \cup {Res("adt", a.name) : a \in Range(p[md].adts)}
  \cup UNION {{Res("ctor", c) : c \in Range(a.ctors)} : a \in Range(p[md].adts)}
  \cup UNION {{Res("class", c.name)} \cup {Res("method", d) : d \in Range(c.methods)} : c \in Range(p[md].classes)}
  \cup {Res("contract", d) : d \in p[md].contract} \cup {Res("field", d) : d \in Range(p[md].fields)}
  \cup UNION {{Res("param", d) : d \in Range(f.params)} \cup {Res("tvar", d) : d \in Range(f.tvars)} : f \in Range(p[md].fns)}
  \cup {Res("module", ModuleName(im)) : im \in {i \in Range(p[md].imports) : i.sel = "module"}}

TargetsAt(p, x, w, t) ==
  LET md == FileOf(t) IN
  With(p[md], LAMBDA m :
  LET names == UNION {ImportNames(im) : im \in Range(m.imports)}
      here == {d \in Declarations(p, md) : d.d = t}
              \cup {q[2] : q \in {r \in ImplMethods(p, x, md, w[md].map) : r[1] = t}}
              \cup {TargetAtSpan(p, x, md, t, q[2]) : q \in {r \in w[md].map : r[1] = t /\ r[2].k \notin {"err", "true", "word"}}} IN
    CASE t \in names -> ImportNameTargets(p, x, t)
      [] t \in AliasTokens(p, md) -> {ImportAlias(p, x, md, x[t])}
      [] t \in {e.name : e \in Range(m.exports)} ->
           UNION {ExportNameTargets(p, x, md, e) : e \in {f \in Range(m.exports) : f.name = t}}
      [] OTHER -> here)

-------------------------------------------------------------------------------
(* Renames that text edits cannot make.                                        *)

SharedSelector(p, x, target) == \E md \in Files :
  \/ \E im \in Range(p[md].imports) : \E t \in ImportNames(im) :
       target \in ImportNameTargets(p, x, t) /\ Cardinality(ImportNameTargets(p, x, t)) > 1
  \/ \E e \in Range(p[md].exports) :
       target \in ExportNameTargets(p, x, md, e) /\ Cardinality(ExportNameTargets(p, x, md, e)) > 1

PublicAlias(p, x, target) == \E md \in Files : \E im \in Range(p[md].imports) : \E s \in Range(im.names) :
  /\ s.as # 0 /\ \E e \in Range(p[md].exports) : x[e.name] = x[s.as]
  /\ target \in ImportNameTargets(p, x, s.name)

SupportsTextRename(p, x, target) ==
  CASE target.k = "module" -> \E im \in Range(p[FileOf(target.d)].imports) : im.as # 0 /\ x[im.as] = x[target.d]
    [] target.k = "alias" -> \A e \in Range(p[FileOf(target.d)].exports) : x[e.name] # x[target.d]
    [] target.k \in {"fn", "adt", "class", "contract"} -> ~SharedSelector(p, x, target) /\ ~PublicAlias(p, x, target)
    [] OTHER -> TRUE

Editable(locations) == \A t \in locations : FileOf(t) \notin Frozen

-------------------------------------------------------------------------------
(* The proposed workspace must mean what this one means.                       *)

(* An occurrence means the binding it goes through and the declaration behind. *)
Meanings(p, x, md, map) ==
  {<<q[1], [binding |-> TargetAtSpan(p, x, md, q[1], q[2]), definition |-> q[2]]>> : q \in {r \in map : r[2] # Err}}

\* Mutant: a local name is checked against nothing.
SnapshotOfNothing(p, x, w, target) ==
  IF IsLocal(target) THEN [meanings |-> {}, diags |-> {}]
  ELSE [meanings |-> UNION {Meanings(p, x, f, w[f].map) : f \in Files}, diags |-> UNION {w[f].diags : f \in Files}]

Snapshot(p, x, w, target) ==
  LET md == FileOf(target.d) IN
  With(ResolveBody(p, x, p[md], FunctionOf(p, md, target.d)), LAMBDA body :
    IF IsLocal(target) THEN [meanings |-> Meanings(p, x, md, body.map), diags |-> body.diags]
    ELSE [meanings |-> UNION {Meanings(p, x, f, w[f].map) : f \in Files}, diags |-> UNION {w[f].diags : f \in Files}])

PreservesResolutions(p, x, y, w, v, target) ==
  With(Snapshot(p, x, w, target), LAMBDA before :
  With(Snapshot(p, y, v, target), LAMBDA after :
    after.diags \subseteq before.diags /\ before.meanings \subseteq after.meanings))

Edited(x, locations, name) == [t \in DOMAIN x |-> IF t \in locations THEN name ELSE x[t]]

(* What a rename of token t of the text x, resolved as w, to a name would do,  *)
(* as the set of the texts it gives: none or one.                              *)
HandleRename(x, w, t, name) ==
  With(TargetsAt(P, x, w, t), LAMBDA targets :
  With(CHOOSE r \in targets : TRUE, LAMBDA target :
  With(CollectReferences(P, x, w, target), LAMBDA locations :
  With(Edited(x, locations, name), LAMBDA y :
    IF /\ Cardinality(targets) = 1
       /\ SupportsTextRename(P, x, target)
       /\ Editable(locations)
       /\ PreservesResolutions(P, x, y, w, Workspace(P, y), target)
    THEN {y} ELSE {}))))

(* Whether a rename is offered at a token.                                     *)
PrepareRename(x, w, t) ==
  With(TargetsAt(P, x, w, t), LAMBDA targets :
  With(CHOOSE r \in targets : TRUE, LAMBDA target :
  With(CollectReferences(P, x, w, target), LAMBDA locations :
    Cardinality(targets) = 1 /\ SupportsTextRename(P, x, target) /\ Editable(locations) /\ t \in locations)))

Init ==
  /\ prog \in DOMAIN Programs
  /\ text \in Programs[prog].texts
  /\ renames = 0
  /\ undo = [at |-> 0, old |-> "", from |-> text]

RenameSymbol(t, name) ==
  /\ renames < MaxRenames
  /\ name # text[t]
  /\ text' \in HandleRename(text, Workspace(P, text), t, name)
  /\ undo' = [at |-> t, old |-> text[t], from |-> text]
  /\ renames' = renames + 1
  /\ UNCHANGED prog

Next == \E name \in Programs[prog].names \cup {FreshName} : \E t \in Tokens : RenameSymbol(t, name)
Spec == Init /\ [][Next]_vars

-------------------------------------------------------------------------------
(* Completion, from the bindings a body made: the innermost comes first.       *)
Offered(binds, t) ==
  LET inScope(b) == Min(b.scope) <= t /\ t <= Max(b.scope) /\ Max(b.after) < t IN
  With(SelectSeq(Reverse(binds), inScope), LAMBDA shown :
    [n \in {shown[i].name : i \in DOMAIN shown} |-> (SelectSeq(shown, LAMBDA b : b.name = n)[1]).res])

RECURSIVE ValueNames(_)
ValueNames(n) == (IF n.k = "id" THEN Range(n.t) ELSE {}) \cup UNION {ValueNames(n.sub[i]) : i \in DOMAIN n.sub}

-------------------------------------------------------------------------------
(* Every occurrence has one resolution, and it leads to a declaration.         *)
TypeOK ==
  \A md \in Files : With(Workspace(P, text)[md], LAMBDA w :
                      /\ \A q, r \in w.map : q[1] = r[1] => q = r
                      /\ \A q \in w.map : q[2].d \in Tokens \cup {0} /\ q[2] # None)

(* Completion and resolution agree on the locals: at a name used as a value,   *)
(* completion offers a local of that spelling exactly when the name resolves   *)
(* to a local, and it is the same one. The list is computed from spans, the    *)
(* resolution from a stack of scopes.                                          *)
CompletionSeesTheScope ==
  \A md \in Files : \A f \in Range(P[md].fns) :
    With(ResolveBody(P, text, P[md], f), LAMBDA body :
      \A q \in body.map : q[1] \in ValueNames(f.body) =>
        With(Offered(body.binds, q[1]), LAMBDA offered :
          IF text[q[1]] \in DOMAIN offered THEN offered[text[q[1]]] = q[2] ELSE ~IsLocal(q[2])))

(* A rename leaves what every name of every body and signature means as it     *)
(* was, in both modules, although for a local name only its own function is    *)
(* looked at; and it adds no error.                                            *)
RenamePreserves ==
  With(Workspace(P, undo.from), LAMBDA w :
  With(Workspace(P, text), LAMBDA v :
    \A md \in Files :
      /\ {q \in w[md].map : q[2] # Err} \subseteq v[md].map
      /\ v[md].diags \subseteq w[md].diags))

(* A rename in a workspace without errors can be undone by renaming back: no   *)
(* occurrence was left behind, and none was taken in.                          *)
UndoRestores ==
  renames > 0 /\ (\A md \in Files : Workspace(P, undo.from)[md].diags = {}) =>
    HandleRename(text, Workspace(P, text), undo.at, undo.old) = {undo.from}

(* Where a rename is offered, some rename is possible: to a name that nothing  *)
(* in the workspace uses.                                                      *)
OfferedIsPossible ==
  With(Workspace(P, text), LAMBDA w :
    FreshName \notin Range(text) /\ (\A md \in Files : w[md].diags = {}) =>
      \A t \in Tokens : PrepareRename(text, w, t) => HandleRename(text, w, t, FreshName) # {})

===============================================================================
