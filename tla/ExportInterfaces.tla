--------------------------- MODULE ExportInterfaces ---------------------------
(* Import and export resolution: the public interface of every module as a     *)
(* fixed point over re-exports that may be cyclic, its strict validation, and  *)
(* the names a module suppresses because something else is already reported.   *)
(* An interface is an ordered list of item references; a reference is a name,  *)
(* where it was defined and which constructors may be seen through it.         *)
EXTENDS Naturals, Sequences, FiniteSets, SequencesExt

CONSTANTS Modules,
          Names,      \* the item names, in their order
          Programs    \* see ProgramsAssumption

Namespaces == <<"Term", "Type", "Class">>
NameSet == Range(Names)

(* A constructor selector: absent, "(..)" or a list of names.                  *)
Selects(sel, c) == sel.given /\ (sel.all \/ c \in sel.names)

ProgramsAssumption == \A p \in Programs : \A m \in Modules :
  /\ p[m].broken \in BOOLEAN
  /\ \A i \in DOMAIN p[m].locals : LET d == p[m].locals[i] IN
       d.name \in NameSet /\ d.ns \in Range(Namespaces) /\ (d.ctors # {} => d.data)
  /\ \A i \in DOMAIN p[m].imports : p[m].imports[i].from \in Modules
  /\ \A i \in DOMAIN p[m].exports : p[m].exports[i].kind \in {"star", "name", "from"}

VARIABLES program,   \* module -> its items, imports, exports and parse errors
          iface,     \* module -> the interface last computed
          pending    \* the modules whose interface is to be computed (again)

vars == <<program, iface, pending>>

-------------------------------------------------------------------------------
(* Item references.                                                            *)

Ref(m, d, ctors) ==
  [ns |-> d.ns, pub |-> d.name, src |-> d.name, origin |-> m, data |-> d.data, ctors |-> ctors]

LocalImportableRefs(m) == [i \in DOMAIN program[m].locals |-> Ref(m, program[m].locals[i], {})]

Called(refs, name) == SelectSeq(refs, LAMBDA r : r.pub = name)
Map(f(_), seq) == [i \in DOMAIN seq |-> f(seq[i])] \o <<>>
First(seq) == IF seq = <<>> THEN <<>> ELSE <<seq[1]>>
Restricted(r, sel) == [r EXCEPT !.ctors = {c \in @ : Selects(sel, c)}]

\* Mutant: a name exported without constructors keeps the ones it had.
KeepConstructorVisibility(r) == r

StripConstructorVisibility(r) == [r EXCEPT !.ctors = {}]

(* A local data type, or the first visible one, with the selected constructors.*)
LocalData(m, name, sel) ==
  LET data == SelectSeq(program[m].locals, LAMBDA d : d.name = name /\ d.data)
  IN  Map(LAMBDA d : Restricted(Ref(m, d, d.ctors), sel), First(data))

VisibleData(refs, name, sel) ==
  Map(LAMBDA r : Restricted(r, sel), First(SelectSeq(Called(refs, name), LAMBDA r : r.data)))

-------------------------------------------------------------------------------
(* Imports: the references a selective import binds, one per namespace and name.*)

UniqueImportBindings(refs) ==
  LET first(i) == \A j \in 1..i-1 : <<refs[j].ns, refs[j].pub>> # <<refs[i].ns, refs[i].pub>>
  IN  Map(LAMBDA i : refs[i], SelectSeq([i \in DOMAIN refs |-> i], first))

Bind(r, selected) ==
  LET named == [r EXCEPT !.pub = selected.as]
  IN  IF selected.sel.given /\ r.data THEN Restricted(named, selected.sel) ELSE named

SelectImportRefs(available, import) ==
  LET shown == SelectSeq(import.names, LAMBDA s : s.name \notin import.hiding)
  IN  UniqueImportBindings(
        IF import.wild THEN SelectSeq(available, LAMBDA r : r.pub \notin import.hiding)
        ELSE FlattenSeq(Map(LAMBDA s : Map(LAMBDA r : Bind(r, s), Called(available, s.name)), shown)))

SelectedImportedRefs(m, ifs) ==
  FlattenSeq(Map(LAMBDA im : SelectImportRefs(ifs[im.from], im), program[m].imports))

-------------------------------------------------------------------------------
(* Exports.                                                                    *)

ExpandExportedName(m, e, selected) ==
  IF e.sel.given
  THEN LET local == LocalData(m, e.name, e.sel)
       IN  IF local # <<>> THEN local ELSE VisibleData(selected, e.name, e.sel)
  ELSE Map(StripConstructorVisibility, Called(LocalImportableRefs(m), e.name) \o Called(selected, e.name))

ExpandReexportItem(available, item) ==
  CASE item.name = "*" -> available
    [] item.name # "*" /\ item.sel.given -> VisibleData(available, item.name, item.sel)
    [] OTHER -> Map(StripConstructorVisibility, Called(available, item.name))

\* Mutant: an item is passed on only while the last interface does not have it.
ExpandExportOnce(m, e, selected, ifs) ==
  IF e.kind = "from"
  THEN SelectSeq(FlattenSeq(Map(LAMBDA n : ExpandReexportItem(ifs[e.from], n), e.items)),
                 LAMBDA r : \A k \in DOMAIN ifs[m] : ifs[m][k].pub # r.pub)
  ELSE IF e.kind = "name" THEN ExpandExportedName(m, e, selected) ELSE LocalImportableRefs(m)

ExpandExport(m, e, selected, ifs) ==
  CASE e.kind = "star" -> LocalImportableRefs(m)
    [] e.kind = "name" -> ExpandExportedName(m, e, selected)
    [] e.kind = "from" -> FlattenSeq(Map(LAMBDA n : ExpandReexportItem(ifs[e.from], n), e.items))

ExpandModuleExports(m, selected, ifs) ==
  FlattenSeq(Map(LAMBDA e : ExpandExport(m, e, selected, ifs), program[m].exports))

(* References to one item under one name are merged, their constructors        *)
(* united; the list is sorted by namespace and names, and stays as it is       *)
(* between references that differ in their origin only.                        *)
SortKeys ==
  LET n == Len(Names)
      key(k) == <<Namespaces[1 + (k \div (n * n))], Names[1 + ((k \div n) % n)], Names[1 + (k % n)]>>
  IN  [k \in 1..3 * n * n |-> key(k - 1)]

SameItem(r, s) == [r EXCEPT !.ctors = {}] = [s EXCEPT !.ctors = {}]

NormalizeItemRefs(refs) ==
  LET first == {i \in DOMAIN refs : \A j \in 1..i-1 : ~SameItem(refs[j], refs[i])}
      united(i) == [refs[i] EXCEPT !.ctors = UNION {refs[j].ctors : j \in {k \in DOMAIN refs : SameItem(refs[k], refs[i])}}]
      key(i) == <<refs[i].ns, refs[i].pub, refs[i].src>>
      keys == {key(i) : i \in first}
      with(k) == Map(united, SelectSeq([i \in DOMAIN refs |-> i], LAMBDA i : i \in first /\ key(i) = k))
  IN  FlattenSeq(Map(with, SelectSeq(SortKeys, LAMBDA k : k \in keys)))

-------------------------------------------------------------------------------
Init ==
  /\ program \in Programs
  /\ iface = [m \in Modules |-> <<>>]
  /\ pending = Modules

(* One evaluation of the query, on whatever the others are at that moment. The *)
(* library decides where a cycle is entered and which query runs next; a query *)
(* is run again when a value that it read has changed.                         *)
Reads(m) == {program[m].imports[i].from : i \in DOMAIN program[m].imports}
            \cup {e.from : e \in {x \in Range(program[m].exports) : x.kind = "from"}}

PublicInterface(m) ==
  /\ m \in pending
  /\ \E selected \in {SelectedImportedRefs(m, iface)} :
     \E raw \in {ExpandModuleExports(m, selected, iface)} :
     \E new \in {NormalizeItemRefs(raw)} :
       /\ iface' = [iface EXCEPT ![m] = new]
       /\ pending' = (pending \ {m}) \cup (IF new = iface[m] THEN {} ELSE {r \in Modules : m \in Reads(r)})
  /\ UNCHANGED program

Next == \E m \in Modules : PublicInterface(m)
Spec == Init /\ [][Next]_vars /\ WF_vars(Next)

Stable == pending = {}

-------------------------------------------------------------------------------
(* Validation, on the stable interfaces.                                       *)

Pairs(seq) == {p \in (1..Len(seq)) \X (1..Len(seq)) : p[1] < p[2]}

DuplicateSelectors(m) == \E k \in DOMAIN program[m].imports :
  LET names == program[m].imports[k].names
  IN  ~program[m].imports[k].wild
      /\ \E p \in Pairs(names) : names[p[1]].name = names[p[2]].name \/ names[p[1]].as = names[p[2]].as

AmbiguousSelectedImports(m) == \E p \in Pairs(program[m].imports) :
  LET left == program[m].imports[p[1]]
      right == program[m].imports[p[2]]
  IN  /\ left.from # right.from
      /\ \E r \in Range(SelectImportRefs(iface[left.from], left)) :
         \E s \in Range(SelectImportRefs(iface[right.from], right)) : r.pub = s.pub

DuplicateExports(m) ==
  LET raw == ExpandModuleExports(m, SelectedImportedRefs(m, iface), iface)
  IN  \E r, s \in Range(raw) : r.pub = s.pub /\ <<r.origin, r.src>> # <<s.origin, s.src>>

(* An imported name that is also declared here; types and classes share a      *)
(* namespace.                                                                  *)
SelectedConflicts(m) ==
  \E r \in Range(SelectedImportedRefs(m, iface)), d \in Range(program[m].locals) :
    r.pub = d.name /\ ((r.ns = "Term") <=> (d.ns = "Term"))

InterfaceNames(m) == {r.pub : r \in Range(iface[m])}

(* A selected or hidden name the target does not have, unless the target does  *)
(* not parse.                                                                  *)
ImportItemsExist(m, im) ==
  \/ program[im.from].broken
  \/ /\ im.wild \/ \A s \in Range(im.names) : s.name \in InterfaceNames(im.from)
     /\ im.hiding \subseteq InterfaceNames(im.from)

AllImportsExist(m) == \A im \in Range(program[m].imports) : ImportItemsExist(m, im)

SelectedImportMayBeUnknown(m, name) == \E im \in Range(program[m].imports) :
  program[im.from].broken /\ (im.wild \/ \E s \in Range(im.names) : s.as = name)

(* The exports of m that name nothing, or a constructor that is not there.     *)
Missing(refs, item) ==
  IF item.name = "*" THEN FALSE
  ELSE refs = <<>> \/ (item.sel.given /\ ~item.sel.all /\ ~(item.sel.names \subseteq refs[1].ctors))

UnknownExports(m) ==
  LET selected == SelectedImportedRefs(m, iface)
  IN  {i \in DOMAIN program[m].exports :
         LET e == program[m].exports[i]
         IN  \/ /\ e.kind = "name" /\ ~SelectedImportMayBeUnknown(m, e.name)
                /\ Missing(ExpandExportedName(m, e, selected), e)
             \/ /\ e.kind = "from" /\ ~program[e.from].broken
                /\ \E n \in Range(e.items) : Missing(ExpandReexportItem(iface[e.from], n), n)}

Ambiguous(m) == DuplicateSelectors(m) \/ AmbiguousSelectedImports(m) \/ DuplicateExports(m) \/ SelectedConflicts(m)
Reported(m) == Ambiguous(m) \/ ~AllImportsExist(m) \/ UnknownExports(m) # {}

(* The import surface: names a use of which is not reported although they      *)
(* resolve to nothing.                                                         *)
UnknownUnqualifiedNames(m) ==
  UNION {LET im == program[m].imports[i]
         IN  {s.as : s \in {n \in Range(im.names) :
                ~im.wild /\ (program[im.from].broken \/ n.name \notin InterfaceNames(im.from))}}
         : i \in DOMAIN program[m].imports}

-------------------------------------------------------------------------------
(* The reference: what the declarations mean, as the least set of facts "this  *)
(* module exports this item under this name" and "... with this constructor",  *)
(* with no order and no first match.  The empty constructor stands for the     *)
(* item itself.                                                                *)
Fact(m, pub, d, origin, c) == [at |-> m, ns |-> d.ns, pub |-> pub, src |-> d.name, origin |-> origin, data |-> d.data, ctor |-> c]

Declared(m) == {Fact(m, d.name, d, m, c) : <<d, c>> \in
                  UNION {{<<d, c>> : c \in d.ctors \cup {""}} : d \in Range(program[m].locals)}}

(* What passes a name with a selector.                                         *)
Passes(f, item) ==
  /\ f.pub = item.name
  /\ IF item.sel.given THEN f.data /\ (f.ctor = "" \/ Selects(item.sel, f.ctor)) ELSE f.ctor = ""

Imported(m, facts) ==
  UNION {LET here == {f \in facts : f.at = im.from /\ f.pub \notin im.hiding}
         IN  IF im.wild THEN {[f EXCEPT !.at = m] : f \in here}
             ELSE UNION {{[f EXCEPT !.at = m, !.pub = s.as] :
                            f \in {g \in here : g.pub = s.name /\ (~s.sel.given \/ g.ctor = "" \/ Selects(s.sel, g.ctor))}}
                         : s \in Range(im.names)}
         : im \in Range(program[m].imports)}

Exported(m, facts) ==
  UNION {CASE e.kind = "star" -> {f \in Declared(m) : f.ctor = ""}
           [] e.kind = "name" -> {f \in Declared(m) \cup Imported(m, facts) : Passes(f, e)}
           [] e.kind = "from" -> {[f EXCEPT !.at = m] :
                f \in {g \in facts : g.at = e.from /\ \E n \in Range(e.items) : n.name = "*" \/ Passes(g, n)}}
         : e \in Range(program[m].exports)}

Derive[n \in Nat] ==
  IF n = 0 THEN {}
  ELSE LET facts == Derive[n - 1] IN UNION {Exported(m, facts) : m \in Modules}

Meaning == Derive[Cardinality(Modules) * Len(Names) + 1]

Facts(m) == UNION {{[at |-> m, ns |-> r.ns, pub |-> r.pub, src |-> r.src, origin |-> r.origin, data |-> r.data, ctor |-> c]
                      : c \in r.ctors \cup {""}} : r \in Range(iface[m])}

-------------------------------------------------------------------------------
(* Interfaces hold references to declared items, sorted and without repeats.   *)
TypeOK ==
  /\ \A m \in Modules : \A r \in Range(iface[m]) : \E d \in Range(program[r.origin].locals) :
       r.src = d.name /\ r.ns = d.ns /\ r.ctors \subseteq d.ctors
  /\ \A m \in Modules : \A p \in Pairs(iface[m]) : ~SameItem(iface[m][p[1]], iface[m][p[2]])

(* Wherever a reader stands, a constructor is visible only if the module that  *)
(* declares the type exports it itself: no chain or cycle of re-exports opens  *)
(* an opaque type, not even in a provisional interface.                        *)
ConstructorsStayPrivate ==
  \A m \in Modules : \A r \in Range(iface[m]) : \A c \in r.ctors :
    \E e \in Range(program[r.origin].exports) : e.kind = "name" /\ e.name = r.src /\ Selects(e.sel, c)

(* Once stable, and if no module's validation finds an ambiguity, the          *)
(* interfaces are what the declarations mean: from whichever query a cycle was *)
(* entered, no name supports itself around the cycle and none is lost.         *)
StableIsMeaning ==
  Stable /\ (\A m \in Modules : ~Ambiguous(m)) =>
    UNION {Facts(m) : m \in Modules} = Meaning

(* A use of a name that is kept quiet always has an error to go with it: the   *)
(* import is reported, or the module imported from does not parse.             *)
NothingIsSilentlyUnknown ==
  Stable => \A m \in Modules : UnknownUnqualifiedNames(m) # {} =>
    Reported(m) \/ \E im \in Range(program[m].imports) : program[im.from].broken

=============================================================================
