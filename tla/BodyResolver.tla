----------------------------- MODULE BodyResolver -----------------------------
(* Name resolution in one workspace of two modules, "main" importing "lib":    *)
(* the scopes its items open, the surface of its imports, and the walk over    *)
(* each function body that binds and resolves every name in it.                *)
(*                                                                             *)
(* A source is a tree over name tokens, numbered in source order; x gives each *)
(* token its text. A node is [k, t, sub]: its kind, its own name tokens and    *)
(* its parts in the order they are visited. A resolution is [k, d]: what the   *)
(* name means and the token that declares it.                                  *)
EXTENDS Naturals, Sequences, FiniteSets, FiniteSetsExt, SequencesExt

(* A value under a name.                                                       *)
With(value, Body(_)) == Body(value)

Res(k, d) == [k |-> k, d |-> d]
None == Res("none", 0)
Err == Res("err", 0)

\* The first of several lookups that finds something.
FirstOf(found) == With(SelectSeq(found, LAMBDA r : r # None), LAMBDA hits :
                    IF hits = <<>> THEN None ELSE hits[1])

RECURSIVE Toks(_)
Toks(n) == Range(n.t) \cup UNION {Toks(n.sub[i]) : i \in DOMAIN n.sub}

-------------------------------------------------------------------------------
(* Item scopes. A table is a set of entries [path, n, res]; the entry first in *)
(* source order, by n, answers.                                                *)

Scoped(path, n, res) == [path |-> path, n |-> n, res |-> res]

Find(table, path) ==
  LET hits == {e \in table : e.path = path}
  IN  IF hits = {} THEN None
      ELSE (CHOOSE e \in hits : \A f \in hits : e.n < f.n \/ (e.n = f.n /\ e.res.d <= f.res.d)).res

OwnFns(m, own) == {f \in Range(m.fns) : f.own = own}
OwnAdts(m, own) == {a \in Range(m.adts) : a.own = own}

CtorEntries(m, x, own) ==
  UNION {{Scoped(<<x[a.name], x[c]>>, c, Res("ctor", c)) : c \in Range(a.ctors)} : a \in OwnAdts(m, own)}

MethodEntries(m, x) ==
  UNION {{Scoped(<<x[k.name], x[d]>>, d, Res("method", d)) : d \in Range(k.methods)} : k \in Range(m.classes)}

DeclaredTerms(m, x, own) ==
  {Scoped(<<x[f.name]>>, f.name, Res("fn", f.name)) : f \in OwnFns(m, own)} \cup CtorEntries(m, x, own)

Terms(m, x, own) == DeclaredTerms(m, x, own) \cup (IF own THEN {} ELSE MethodEntries(m, x))

Types(m, x, own) ==
  {Scoped(<<x[a.name]>>, a.name, Res("adt", a.name)) : a \in OwnAdts(m, own)}
  \cup (IF own THEN {} ELSE {Scoped(<<x[k.name]>>, k.name, Res("class", k.name)) : k \in Range(m.classes)}
                            \cup {Scoped(<<x[d]>>, d, Res("contract", d)) : d \in m.contract})

Fields(m, x) == {Scoped(<<x[d]>>, d, Res("field", d)) : d \in Range(m.fields)}

(* An import of a whole module binds its alias, or else the last name of its   *)
(* path.                                                                       *)
ModuleName(im) == IF im.as # 0 THEN im.as ELSE im.leaf

ModuleNames(m, x) ==
  {Scoped(<<x[ModuleName(im)]>>, ModuleName(im), Res("module", ModuleName(im)))
     : im \in {i \in Range(m.imports) : i.sel = "module"}}

BuiltinTerms == {Scoped(<<"true">>, 0, Res("true", 0))}
BuiltinTypes == {Scoped(<<"word">>, 0, Res("word", 0))}

(* Two declarations of one name; the later one is reported with the first.     *)
Duplicates(table) ==
  {<<"duplicate", {e.n, Min({f.n : f \in {g \in table : g.path = e.path}})}>>
     : e \in {h \in table : \E g \in table : g.path = h.path /\ g.n < h.n}}

ScopeDiagnostics(m, x) ==
  UNION {Duplicates(DeclaredTerms(m, x, own)) \cup Duplicates(Types(m, x, own)) : own \in BOOLEAN}

-------------------------------------------------------------------------------
(* The import surface.                                                         *)

(* The items of a module others may import, and the ones its export list names.*)
Items(m) ==
  {[k |-> "fn", d |-> f.name, ctors |-> {}, methods |-> {}] : f \in OwnFns(m, FALSE)}
  \cup {[k |-> "adt", d |-> a.name, ctors |-> Range(a.ctors), methods |-> {}] : a \in OwnAdts(m, FALSE)}
  \cup {[k |-> "class", d |-> c.name, ctors |-> {}, methods |-> Range(c.methods)] : c \in Range(m.classes)}

PublicItems(m, x) ==
  LET shows(e, i) == x[e.name] = x[i.d] /\ (e.ctors => i.k = "adt")
      opened(i) == \E e \in Range(m.exports) : shows(e, i) /\ e.ctors
  IN  {[i EXCEPT !.ctors = IF opened(i) THEN @ ELSE {}]
         : i \in {j \in Items(m) : \E e \in Range(m.exports) : shows(e, j)}}

LocalName(s) == IF s.as # 0 THEN s.as ELSE s.name
Hidden(im, x, i) == \E h \in Range(im.hiding) : x[h] = x[i.d]

(* What an import binds: items under paths.                                    *)
Bound(p, x, im) ==
  With(PublicItems(p["lib"], x), LAMBDA public :
    CASE im.sel = "names" ->
           UNION {{[path |-> <<x[LocalName(s)]>>, n |-> LocalName(s), item |-> i]
                     : i \in {j \in public : x[j.d] = x[s.name] /\ ~Hidden(im, x, j)}} : s \in Range(im.names)}
      [] im.sel = "all" ->
           {[path |-> <<x[i.d]>>, n |-> im.leaf, item |-> i] : i \in {j \in public : ~Hidden(im, x, j)}}
      [] im.sel = "module" ->
           {[path |-> <<x[ModuleName(im)], x[i.d]>>, n |-> im.leaf, item |-> i] : i \in public})

AllBound(p, x, m) == UNION {Bound(p, x, im) : im \in Range(m.imports)}

ImportedTerms(p, x, m) ==
  UNION {(IF b.item.k = "fn" THEN {Scoped(b.path, b.n, Res("fn", b.item.d))} ELSE {})
         \cup {Scoped(b.path \o <<x[c]>>, b.n, Res("ctor", c)) : c \in b.item.ctors}
         \cup {Scoped(b.path \o <<x[d]>>, b.n, Res("method", d)) : d \in b.item.methods}
         : b \in AllBound(p, x, m)}

ImportedTypes(p, x, m) ==
  {Scoped(b.path, b.n, Res(b.item.k, b.item.d)) : b \in {c \in AllBound(p, x, m) : c.item.k # "fn"}}

Unavailable(p, x, t) == \A i \in PublicItems(p["lib"], x) : x[i.d] # x[t]
MissingNames(p, x, im) == {s \in Range(im.names) : Unavailable(p, x, s.name)}

(* Names an import asked for in vain: their uses are not reported again.       *)
UnknownNames(p, x, m) ==
  UNION {{x[LocalName(s)] : s \in MissingNames(p, x, im)} : im \in Range(m.imports)}

(* What validation and the import surface report of a module.                  *)
ImportDiagnostics(p, x, m) ==
  LET own(b) == IF b.item.k = "fn" THEN Terms(m, x, FALSE) ELSE Types(m, x, FALSE)
      same(b) == {e.n : e \in {f \in own(b) : f.path = b.path}} IN
  With(UNION {Bound(p, x, im) : im \in {i \in Range(m.imports) : i.sel # "module"}}, LAMBDA selected :
  LET pairs(im) == {q \in Range(im.names) \X Range(im.names) : q[1].name < q[2].name}
      unqualified == Terms(m, x, FALSE) \cup {Scoped(b.path, b.n, None) : b \in {c \in selected : c.item.k = "fn"}} IN
    UNION {{<<"unknown import", {s.name}>> : s \in MissingNames(p, x, im)}
           \cup {<<"unknown import", {h}>> : h \in {g \in Range(im.hiding) : Unavailable(p, x, g)}}
           \cup {<<"duplicate selector", {q[1].name, q[2].name}>> : q \in {r \in pairs(im) :
                   x[r[1].name] = x[r[2].name] \/ x[LocalName(r[1])] = x[LocalName(r[2])]}}
           : im \in Range(m.imports)}
    \cup {<<"conflict", {Max(same(b)), b.n}>> : b \in {c \in selected : same(c) # {}}}
    \cup {<<"module conflict", {e.n}>> : e \in {f \in ModuleNames(m, x) : \E u \in unqualified : u.path = f.path}}
    \cup {<<"unknown export", {e.name}>> : e \in {f \in Range(m.exports) :
            /\ x[f.name] \notin UnknownNames(p, x, m)
            /\ \A i \in Items(m) : x[i.d] = x[f.name] => f.ctors /\ i.k # "adt"
            /\ \A b \in selected : b.path = <<x[f.name]>> => f.ctors /\ b.item.k # "adt"}})

-------------------------------------------------------------------------------
(* The walk over a body. c is what the items and imports say to the function;  *)
(* s holds the scopes, the resolutions and diagnostics found, and the bindings *)
(* made, each with the tokens of its scope and of what introduces it.          *)

Context(p, x, m, f) ==
  [x       |-> x,
   terms   |-> <<IF f.own THEN Terms(m, x, TRUE) ELSE {}, Terms(m, x, FALSE), ImportedTerms(p, x, m), BuiltinTerms>>,
   types   |-> <<IF f.own THEN Types(m, x, TRUE) ELSE {}, Types(m, x, FALSE), ImportedTypes(p, x, m), BuiltinTypes>>,
   fields  |-> IF f.own THEN Fields(m, x) ELSE {},
   modules |-> ModuleNames(m, x),
   tvars   |-> f.tvars,
   unknown |-> UnknownNames(p, x, m)]

Through(tables, path) == FirstOf([i \in DOMAIN tables |-> Find(tables[i], path)])

LookupLocal(s, name) ==
  FirstOf([i \in DOMAIN s.scopes |-> With(s.scopes[Len(s.scopes) + 1 - i].vars, LAMBDA vars :
                                       IF name \in DOMAIN vars THEN vars[name] ELSE None)])

LookupTerm(c, path) == Through(c.terms, path)
LookupField(c, name) == Find(c.fields, <<name>>)
LookupModule(c, path) == Find(c.modules, path)

LookupType(c, path) ==
  With(SelectSeq(Reverse(c.tvars), LAMBDA v : path = <<c.x[v]>>), LAMBDA tvar :
  LET unknown == IF path[1] \in c.unknown /\ Len(path) = 1 THEN Err ELSE None IN
    IF tvar # <<>> THEN Res("tvar", tvar[1]) ELSE FirstOf(<<Through(c.types, path), unknown>>))

(* A method without its class: the one entry of this module with that name.    *)
LookupMethod(c, name) ==
  With({e \in c.terms[2] : Last(e.path) = name /\ e.res.k = "method"}, LAMBDA hits :
    IF Cardinality(hits) = 1 THEN (CHOOSE e \in hits : TRUE).res ELSE None)

(* The one method of that name that this module or an import of it shows.      *)
LookupVisibleMethod(c, name) ==
  With({e.res : e \in {f \in c.terms[2] \cup c.terms[3] : Last(f.path) = name /\ f.res.k = "method"}}, LAMBDA hits :
    IF Cardinality(hits) = 1 THEN CHOOSE r \in hits : TRUE ELSE None)

LookupCtor(c, path) == With(LookupTerm(c, path), LAMBDA r :
                         IF r.k \in {"ctor", "true"} THEN r ELSE None)
SameNameCtor(c, name) == LookupCtor(c, <<name, name>>)
UserCtorLeaf(c, name) == \E i \in 1..3 : \E e \in c.terms[i] : e.res.k = "ctor" /\ Last(e.path) = name
BuiltinCtor(name) == <<name>> \in {e.path : e \in BuiltinTerms}

Record(s, t, r) == [s EXCEPT !.map = @ \cup {<<t, r>>}]
Report(s, code, t) == Record([s EXCEPT !.diags = @ \cup {<<code, {t}>>}], t, Err)

AddLocal(s, name, r, after) ==
  LET top == Last(s.scopes)
      bind == [name |-> name, res |-> r, scope |-> top.span, after |-> after]
  IN  [s EXCEPT !.binds = Append(@, bind), !.scopes[Len(s.scopes)].vars = (name :> r) @@ @]

AddParams(s, params, x) ==
  FoldLeft(LAMBDA t, d : AddLocal(t, x[d], Res("param", d), {d}), s, params)

Push(s, span) == [s EXCEPT !.scopes = Append(@, [vars |-> <<>>, span |-> span])]
Pop(s) == [s EXCEPT !.scopes = Front(@)]

ResolveIdent(c, s, t) ==
  LET name == c.x[t] IN
  With(FirstOf(<<LookupLocal(s, name), LookupField(c, name), LookupTerm(c, <<name>>), LookupMethod(c, name),
                 SameNameCtor(c, name), LookupType(c, <<name>>), LookupModule(c, <<name>>)>>), LAMBDA r :
    CASE r # None -> Record(s, t, r)
      [] r = None /\ name \in c.unknown -> Record(s, t, Err)
      [] r = None /\ name \notin c.unknown /\ UserCtorLeaf(c, name) -> Report(s, "unqualified constructor", t)
      [] OTHER -> Report(s, "undefined", t))

(* In a call a function beats a field of the same name.                        *)
ResolveCallIdent(c, s, t) ==
  LET name == c.x[t] IN
  With(FirstOf(<<LookupLocal(s, name), LookupTerm(c, <<name>>), LookupField(c, name), LookupMethod(c, name),
                 SameNameCtor(c, name)>>), LAMBDA r :
    IF r # None THEN Record(s, t, r) ELSE ResolveIdent(c, s, t))

RECURSIVE ExprPath(_, _)
ExprPath(e, x) ==
  CASE e.k = "id" -> <<x[e.t[1]]>>
    [] e.k = "field" -> With(ExprPath(e.sub[1], x), LAMBDA base :
                          IF base = <<>> THEN <<>> ELSE Append(base, x[e.t[1]]))
    [] OTHER -> <<>>

IsNamespaceQualifier(c, s, e) ==
  With(ExprPath(e, c.x), LAMBDA path :
  With(path[1], LAMBDA first :
    /\ path # <<>>
    /\ LookupLocal(s, first) = None
    /\ Len(path) = 1 => LookupField(c, first) = None
    /\ \/ LookupType(c, <<first>>) # None
       \/ LookupModule(c, <<first>>) # None
       \/ FirstOf(<<LookupField(c, first), LookupTerm(c, <<first>>), LookupMethod(c, first), SameNameCtor(c, first)>>) = None))

(* A dotted name: nothing to say of it when its base is a value.               *)
FieldIsName(c, s, e) ==
  With(ExprPath(e.sub[1], c.x), LAMBDA base :
  With(Append(base, c.x[e.t[1]]), LAMBDA path :
    /\ base # <<>>
    /\ LookupLocal(s, base[1]) = None
    /\ \/ FirstOf(<<LookupTerm(c, path), LookupType(c, path), LookupModule(c, base)>>) # None
       \/ LookupType(c, base).k \in {"adt", "class", "contract", "word"}))

ResolveField(c, s, e) ==
  With(Append(ExprPath(e.sub[1], c.x), c.x[e.t[1]]), LAMBDA path :
  With(FirstOf(<<LookupTerm(c, path), LookupType(c, path)>>), LAMBDA r :
    IF ~FieldIsName(c, s, e) THEN s
    ELSE IF r # None THEN Record(s, e.t[1], r) ELSE Report(s, "undefined", e.t[1])))

(* Inline assembly: the tokens that name a variable of the source, under the   *)
(* names the assembly declares itself. A Yul function sees neither.            *)
RECURSIVE AsmNames(_, _, _)
AsmNames(x, declared, ns) ==
  IF ns = <<>> THEN {}
  ELSE LET n == Head(ns)
           shown == {t \in Range(n.t) : x[t] \notin declared}
       IN  CASE n.k = "ylet" -> AsmNames(x, declared, n.sub) \cup AsmNames(x, declared \cup {x[t] : t \in Range(n.t)}, Tail(ns))
             [] n.k = "yfn" -> AsmNames(x, declared, Tail(ns))
             [] n.k \in {"yname", "yblock"} -> shown \cup AsmNames(x, declared, n.sub) \cup AsmNames(x, declared, Tail(ns))

Assembly(c, s, ns) ==
  [s EXCEPT !.map = @ \cup {<<t, LookupLocal(s, c.x[t])>> : t \in {u \in AsmNames(c.x, {}, ns) : LookupLocal(s, c.x[u]) # None}}]

(* The module a qualified type or constructor starts with.                     *)
ModuleQualifier(c, s, t) ==
  With(LookupModule(c, <<c.x[t[1]]>>), LAMBDA r :
    IF Len(t) > 1 /\ r # None THEN Record(s, t[1], r) ELSE s)

Spelling(c, t) == [i \in DOMAIN t |-> c.x[t[i]]] \o <<>>

ResolveType(c, s, t) ==
  With(LookupType(c, Spelling(c, t)), LAMBDA r :
  With(ModuleQualifier(c, s, t), LAMBDA seen :
    IF r = None THEN Report(seen, "undefined type", Last(t)) ELSE Record(seen, Last(t), r)))

(* A name alone in a pattern: a constructor if it can be one, else a variable. *)
PatVar(c, s, t) ==
  LET name == c.x[t] IN
  With(IF BuiltinCtor(name) THEN Find(BuiltinTerms, <<name>>) ELSE SameNameCtor(c, name), LAMBDA r :
    CASE r # None -> Record(s, t, r)
      [] r = None /\ UserCtorLeaf(c, name) -> Report(s, "unqualified constructor", t)
      [] OTHER -> Record(AddLocal(s, name, Res("pat", t), {t}), t, Res("pat", t)))

(* A constructor pattern, after its arguments.                                 *)
PatCtor(c, s, n) ==
  LET name == c.x[Last(n.t)]
      qualified == Len(n.t) > 1 IN
  With(ModuleQualifier(c, s, n.t), LAMBDA seen :
  With(IF qualified THEN LookupCtor(c, Spelling(c, n.t)) ELSE SameNameCtor(c, name), LAMBDA r :
    CASE ~qualified /\ name \in c.unknown -> Record(s, n.t[1], Err)
      [] (qualified \/ name \notin c.unknown) /\ r # None -> Record(seen, Last(n.t), r)
      [] qualified /\ r = None -> Report(seen, "undefined", Last(n.t))
      [] ~qualified /\ name \notin c.unknown /\ r = None ->
           CASE UserCtorLeaf(c, name) -> Report(s, "unqualified constructor", n.t[1])
             [] ~UserCtorLeaf(c, name) /\ n.sub = <<>> ->
                  Record(AddLocal(s, name, Res("pat", n.t[1]), {n.t[1]}), n.t[1], Res("pat", n.t[1]))
             [] OTHER -> Report(s, "invalid pattern", n.t[1])))

RECURSIVE Visit(_, _, _), Qualifier(_, _, _)
VisitAll(c, s, ns) == FoldLeft(LAMBDA seen, n : Visit(c, seen, n), s, ns)

(* The base of a dotted name that is not a value.                              *)
Qualifier(c, s, e) ==
  CASE e.k = "id" ->
         LET name == c.x[e.t[1]] IN
         With(FirstOf(<<LookupType(c, <<name>>), LookupModule(c, <<name>>), LookupTerm(c, <<name>>)>>), LAMBDA r :
           CASE r # None -> Record(s, e.t[1], r)
             [] r = None /\ name \in c.unknown -> Record(s, e.t[1], Err)
             [] OTHER -> Report(s, "undefined", e.t[1]))
    [] e.k = "field" -> ResolveField(c, Qualifier(c, s, e.sub[1]), e)
    [] OTHER -> Visit(c, s, e)

(* The callee of a call: a name, a method of a value, or any expression.       *)
Callee(c, s, e) ==
  LET base == e.sub[1] IN
  With(IF base.k = "id" THEN ResolveIdent(c, s, base.t[1]) ELSE Visit(c, s, base), LAMBDA seen :
  LET value == base.k # "id" \/ \E q \in seen.map : q[1] = base.t[1] /\ q[2].k \in {"field", "let", "pat", "param"} IN
  With(LookupVisibleMethod(c, c.x[e.t[1]]), LAMBDA method :
    CASE e.k = "id" -> ResolveCallIdent(c, s, e.t[1])
      [] e.k = "field" /\ IsNamespaceQualifier(c, s, base) -> Visit(c, s, e)
      [] e.k = "field" /\ ~IsNamespaceQualifier(c, s, base) /\ FieldIsName(c, s, e) ->
           ResolveField(c, Qualifier(c, s, base), e)
      [] e.k = "field" /\ ~IsNamespaceQualifier(c, s, base) /\ ~FieldIsName(c, s, e) ->
           IF ~value THEN seen
           ELSE IF method = None THEN Report(seen, "undefined", e.t[1]) ELSE Record(seen, e.t[1], method)
      [] OTHER -> Visit(c, s, e)))

Let(c, s, n) ==
  Record(AddLocal(VisitAll(c, s, n.sub), c.x[n.t[1]], Res("let", n.t[1]), Toks(n)), n.t[1], Res("let", n.t[1]))

Visit(c, s, n) ==
  CASE n.k = "let" -> Let(c, s, n)
    [] n.k = "all" -> VisitAll(c, s, n.sub)     \* the parts, in order; no scope of its own
    [] n.k \in {"block", "arm"} -> Pop(VisitAll(c, Push(s, Toks(n)), n.sub))
    [] n.k = "lambda" ->                        \* sub: the types of its parameters, its body
         LET typed == Visit(c, s, n.sub[1])
         IN  Pop(Visit(c, AddParams(Push(typed, Toks(n.sub[2])), n.t, c.x), n.sub[2]))
    [] n.k = "id" -> ResolveIdent(c, s, n.t[1])
    [] n.k = "call" -> VisitAll(c, Callee(c, s, Head(n.sub)), Tail(n.sub))
    [] n.k = "field" ->
         ResolveField(c, IF IsNamespaceQualifier(c, s, n.sub[1]) THEN Qualifier(c, s, n.sub[1]) ELSE Visit(c, s, n.sub[1]), n)
    [] n.k = "type" -> ResolveType(c, s, n.t)
    [] n.k = "pvar" -> PatVar(c, s, n.t[1])
    [] n.k = "pctor" -> PatCtor(c, VisitAll(c, s, n.sub), n)
    [] n.k = "asm" -> Assembly(c, s, n.sub)

NothingSeen == [scopes |-> <<>>, map |-> {}, diags |-> {}, binds |-> <<>>]

ResolveBody(p, x, m, f) ==
  LET c == Context(p, x, m, f)
  IN  Visit(c, AddParams(Push(NothingSeen, Toks(f.body)), f.params, x), f.body)

(* Types in signatures, and the classes that impls and derives name.           *)
ResolveItems(p, x, m) ==
  LET sig(f) == FoldLeft(LAMBDA s, t : ResolveType(Context(p, x, m, f), s, t), NothingSeen, f.sig)
      top == [own |-> FALSE, tvars |-> <<>>]
      class(s, t) == With(LookupType(Context(p, x, m, top), <<x[t]>>), LAMBDA r :
                       IF r.k \in {"class", "err"} THEN Record(s, t, r) ELSE Report(s, "undefined class", t))
      heads == FoldLeft(class, NothingSeen, [i \in DOMAIN m.impls |-> m.impls[i].head] \o <<>>)
      derives == FoldLeft(class, NothingSeen, FlattenSeq([i \in DOMAIN m.adts |-> m.adts[i].derives] \o <<>>)) IN
  With({sig(f) : f \in Range(m.fns)} \cup {heads}, LAMBDA all :
    [map |-> UNION {s.map : s \in all}, diags |-> derives.diags \cup UNION {s.diags : s \in all}])
===============================================================================
