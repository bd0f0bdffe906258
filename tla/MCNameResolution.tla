-------------------------- MODULE MCNameResolution --------------------------
(***************************************************************************)
(* The three passes that give names a meaning, each on small workspaces:   *)
(* the order of modules (ModuleGraph), their public interfaces             *)
(* (ExportInterfaces), and renaming over resolved bodies (Rename).  They   *)
(* hand nothing on but finished values, so a behaviour exercises one of    *)
(* them: it leaves the variables of the others at Idle, or the search of   *)
(* the graph where it begins.                                              *)
(***************************************************************************)
EXTENDS ModuleGraph

CONSTANTS Interfaces, Workspaces

VARIABLES
  part,     \* "graph", "exports" or "rename"
  program, iface, pending,
  prog, text, renames, undo

Iface == INSTANCE ExportInterfaces
             WITH Modules <- {"a", "b", "c"}, Names <- <<"T", "U", "x">>, Programs <- Interfaces
Renaming == INSTANCE Rename WITH Programs <- Workspaces, FreshName <- "fresh", MaxRenames <- 1

ASSUME WorkspacesAssumption == Iface!ProgramsAssumption /\ Renaming!ProgramsAssumption

exportVars == <<program, iface, pending>>
renameVars == <<prog, text, renames, undo>>

Idle == "idle"
GraphIdle == graph = [m \in Modules |-> [imports |-> <<>>, exports |-> <<>>]] /\ Init
ExportsIdle == program = Idle /\ iface = Idle /\ pending = Idle
RenameIdle == prog = Idle /\ text = Idle /\ renames = Idle /\ undo = Idle

NamesInit ==
  \/ part = "graph" /\ Init /\ ExportsIdle /\ RenameIdle
  \/ part = "exports" /\ GraphIdle /\ Iface!Init /\ RenameIdle
  \/ part = "rename" /\ GraphIdle /\ Renaming!Init /\ ExportsIdle

GraphNext == part = "graph" /\ Next /\ UNCHANGED <<part, exportVars, renameVars>>
ExportsNext == part = "exports" /\ Iface!Next /\ UNCHANGED <<part, vars, renameVars>>
RenameNext == part = "rename" /\ Renaming!Next /\ UNCHANGED <<part, vars, exportVars>>
NamesNext == GraphNext \/ ExportsNext \/ RenameNext

NamesSpec ==
  NamesInit /\ [][NamesNext]_<<part, vars, exportVars, renameVars>> /\ WF_vars(GraphNext) /\ WF_exportVars(ExportsNext)

-----------------------------------------------------------------------------
(* From whichever query a cycle of re-exports is entered, the interfaces end   *)
(* as what the declarations mean; on the way no constructor of an opaque type  *)
(* gets out, and a name kept quiet always has an error to go with it           *)
(* (public_interface, validate_imports). A rename leaves what every name in    *)
(* both modules means as it was and can be undone; completion offers the local *)
(* a name resolves to; and where a rename is offered one is possible           *)
(* (handle_rename, prepare_rename, completions).                               *)
NamesAreExact ==
  /\ part = "exports" =>
       /\ Iface!TypeOK /\ Iface!ConstructorsStayPrivate
       /\ Iface!StableIsMeaning /\ Iface!NothingIsSilentlyUnknown
  /\ part = "rename" =>
       /\ Renaming!TypeOK /\ Renaming!CompletionSeesTheScope
       /\ Renaming!RenamePreserves /\ Renaming!UndoRestores /\ Renaming!OfferedIsPossible

(* Cycles of imports keep no search busy, and the interfaces of every          *)
(* workspace below reach a fixed point: those of a cycle of re-exports between *)
(* a and b, between b and c or over all three, from whichever query it is      *)
(* entered, ambiguous ones included (strong_connect, public_interface).        *)
NamesSettle ==
  <>(\/ part = "rename"
     \/ part = "graph" /\ phase = "done"
     \/ part = "exports" /\ pending = {})

-----------------------------------------------------------------------------
(* The workspaces. *)

(* Every graph of imports and re-exports over three modules, and every graph   *)
(* of imports over four in which neither c nor d leads straight back to a; of  *)
(* loops of a single module only that of b, in the former.                     *)
MCModules == {"a", "b", "c", "d"}
MCGraphs ==
  LET
    InOrder(edges, m) == SelectSeq(<<"a", "b", "c", "d">>, LAMBDA t : <<m, t>> \in edges)
    GraphOf(imports, exports) == [m \in MCModules |-> [imports |-> InOrder(imports, m), exports |-> InOrder(exports, m)]]
    Three == {"a", "b", "c"}
    Small == {p \in Three \X Three : p[1] # p[2] \/ p[1] = "b"}
    Large == {p \in MCModules \X MCModules : p[1] # p[2] /\ (p[2] = "a" => p[1] = "b")}
  IN  {GraphOf(i, {}) : i \in SUBSET Large} \cup UNION {{GraphOf(i, e) : e \in SUBSET (Small \ i)} : i \in SUBSET Small}

(* Two modules and a third, each with a few declarations, at most one          *)
(* selective import and up to two exports: cycles of re-exports with renaming, *)
(* wildcards, hidden names and constructors, some ambiguous.                   *)
MCInterfaces ==
  LET
    None == [given |-> FALSE, all |-> FALSE, names |-> {}]
    AllCtors == [given |-> TRUE, all |-> TRUE, names |-> {}]
    Ctors(cs) == [given |-> TRUE, all |-> FALSE, names |-> cs]
    Data(cs) == [name |-> "T", ns |-> "Type", data |-> TRUE, ctors |-> cs]
    Alias == [name |-> "T", ns |-> "Type", data |-> FALSE, ctors |-> {}]
    Fun(n) == [name |-> n, ns |-> "Term", data |-> FALSE, ctors |-> {}]
    Sel(n, as, sel) == [name |-> n, as |-> as, sel |-> sel]
    Import(m, names, hiding) == [from |-> m, wild |-> FALSE, names |-> names, hiding |-> hiding]
    Wild(m, hiding) == [from |-> m, wild |-> TRUE, names |-> <<>>, hiding |-> hiding]
    Star == [kind |-> "star"]
    Name(n, sel) == [kind |-> "name", name |-> n, sel |-> sel]
    FromModule(m, items) == [kind |-> "from", from |-> m, items |-> items]
    All(m) == FromModule(m, <<Sel("*", "*", None)>>)
    Mod(locals, imports, exports) == [locals |-> locals, imports |-> imports, exports |-> exports, broken |-> FALSE]
    (* What a module may import from and export of its neighbour n.                *)
    ImportsOf(n) ==
      {<<>>, <<Wild(n, {})>>, <<Wild(n, {"x"})>>, <<Import(n, <<Sel("T", "T", None)>>, {})>>,
       <<Import(n, <<Sel("T", "U", Ctors({"c"})), Sel("x", "T", None)>>, {})>>}
    Exports(n) ==
      {<<All(n)>>, <<Star, All(n)>>, <<Name("T", AllCtors), All(n)>>, <<Name("U", AllCtors)>>, <<Name("x", None), Name("T", None)>>,
       <<FromModule(n, <<Sel("T", "T", AllCtors)>>), Name("x", None)>>, <<Name("T", Ctors({"c"})), FromModule(n, <<Sel("U", "U", None)>>)>>}
    Around(n, locals) == {Mod(locals, i, e) : i \in ImportsOf(n), e \in Exports(n)}
    Open(n, locals) == {m \in Around(n, locals) : m.imports = <<>> \/ m.imports[1] = Wild(n, {})}
    Beside(n, locals) == Open(n, locals) \cup {m \in Around(n, locals) : m.imports # <<>> /\ Len(m.imports[1].names) = 2}
    Broken(n) == {[Mod(<<>>, <<Wild(n, {})>>, <<All(n)>>) EXCEPT !.broken = TRUE]}
  IN  {[m \in {"a", "b", "c"} |-> CASE m = "a" -> pa [] m = "b" -> pb [] OTHER -> pc] :
         pa \in Around("b", <<Data({"c", "d"}), Fun("x")>>),
         pb \in Beside("a", <<>>) \cup Open("c", <<Fun("U")>>),
         pc \in {Mod(<<Fun("x")>>, <<>>, <<Star, All("a")>>), Mod(<<Data({"c"})>>, <<>>, <<Name("T", AllCtors), All("b")>>),
                 Mod(<<Alias>>, <<>>, <<All("b"), Star>>)} \cup Broken("a")}

(* Scopes and captures in one function, a contract with fields and functions,  *)
(* and two modules with imports.                                               *)
MCWorkspaces ==
  LET
    Node(k, t, sub) == [k |-> k, t |-> t, sub |-> sub]
    Id(t) == Node("id", <<t>>, <<>>)
    Dot(e, t) == Node("field", <<t>>, <<e>>)
    Apply(f, args) == Node("call", <<>>, <<f>> \o args)
    LetIs(t, e) == Node("let", <<t>>, e)
    Stmts(ns) == Node("all", <<>>, ns)
    Block(ns) == Node("block", <<>>, ns)
    Lambda(params, e) == Node("lambda", params, <<Stmts(<<>>), e>>)
    Arm(pat, e) == Node("arm", <<>>, <<pat, e>>)
    Ty(ts) == Node("type", ts, <<>>)
    Asm(ns) == Node("asm", <<>>, ns)
    Yul(t) == Node("yname", <<t>>, <<>>)
    YulLet(t, ns) == Node("ylet", <<t>>, ns)
    Fn(name, params, body) == [name |-> name, tvars |-> <<>>, params |-> params, sig |-> <<>>, body |-> Stmts(body), own |-> FALSE]
    Method(name, params, body) == [Fn(name, params, body) EXCEPT !.own = TRUE]
    Adt(name, ctors) == [name |-> name, ctors |-> ctors, derives |-> <<>>, own |-> FALSE]
    Class(name, methods) == [name |-> name, methods |-> methods]
    Impl(head, methods) == [head |-> head, methods |-> methods]
    Pick(names) == [sel |-> "names", names |-> names, hiding |-> <<>>, leaf |-> 0, as |-> 0]
    Named(name, as) == [name |-> name, as |-> as]
    Whole(leaf, as) == [sel |-> "module", names |-> <<>>, hiding |-> <<>>, leaf |-> leaf, as |-> as]
    AllBut(leaf, hidden) == [sel |-> "all", names |-> <<>>, hiding |-> hidden, leaf |-> leaf, as |-> 0]
    Show(name, ctors) == [name |-> name, ctors |-> ctors]
    Empty == [fns |-> <<>>, adts |-> <<>>, classes |-> <<>>, impls |-> <<>>, contract |-> {}, fields |-> <<>>,
              imports |-> <<>>, exports |-> <<>>]
    \* All texts that give the tokens of `some` the spellings in `names`, and the rest those of `fixed`.
    Spelled(fixed, some, names) == {[t \in DOMAIN fixed |-> IF t \in some THEN g[t] ELSE fixed[t]] : g \in [some -> names]}
    (* function f(a) { let b = a; { let c = b; c(b); } lam(d) { d(b) };            *)
    (*   match a { e => e } assembly { y := b; let z := b; z } }                   *)
    Locals ==
      [src |-> [main |-> [Empty EXCEPT !.fns = <<Fn(1, <<2>>,
          <<LetIs(3, <<Id(4)>>),
            Block(<<LetIs(5, <<Id(6)>>), Apply(Id(7), <<Id(8)>>)>>),
            Lambda(<<9>>, Apply(Id(10), <<Id(11)>>)),
            Id(12), Arm(Node("pvar", <<13>>, <<>>), Id(14)),
            Asm(<<Yul(15), YulLet(16, <<Yul(17)>>), Yul(18)>>)>>)>>],
         lib |-> Empty],
       texts |-> Spelled(<<"f", "a", "b", "a", "c", "b", "c", "b", "d", "d", "b", "a", "e", "e", "b", "z", "b", "z">>,
                         {5, 9, 11, 13}, {"a", "b"}),
       frozen |-> {}, lib |-> 19, names |-> {"a", "b"}]
    (* contract c { g; function h(p) { g(p); let l = g; l.m; l.m(); h }            *)
    (*   function k() { h(g) } } class K { m } function t() { h }                  *)
    Contract ==
      [src |-> [main |-> [Empty EXCEPT !.contract = {1}, !.fields = <<2>>, !.classes = <<Class(13, <<14>>)>>,
          !.impls = <<Impl(15, <<16>>)>>,
          !.fns = <<Method(3, <<4>>, <<Apply(Id(5), <<Id(6)>>), LetIs(7, <<Id(8)>>),
                                        Apply(Dot(Id(9), 10), <<>>), Id(11)>>),
                    Method(12, <<>>, <<Apply(Id(19), <<Id(20)>>)>>),
                    Fn(17, <<>>, <<Id(18)>>)>>],
         lib |-> Empty],
       texts |-> Spelled(<<"c", "g", "h", "p", "h", "p", "l", "g", "l", "m", "h", "k", "K", "m", "K", "m", "t", "t", "h", "g">>,
                         {2, 4, 7}, {"g", "h"}),
       frozen |-> {}, lib |-> 21, names |-> {"g", "h"}]
    (* import lib.{g as h, T, K}; import lib as q; data S = E | D; impl K { m }    *)
    (* function f(p : T) -> S { h(T.C); q.g(S.D); match .. { r => p.m() }          *)
    (*   let v : S = p; let w : q.T = q.T.C; }                                     *)
    TwoModules ==
      [src |-> [main |-> [Empty EXCEPT
          !.imports = <<Pick(<<Named(1, 2), Named(3, 0), Named(4, 0)>>), Whole(5, 6)>>,
          !.adts = <<Adt(7, <<8, 9>>)>>, !.impls = <<Impl(10, <<11>>)>>,
          !.fns = <<[Fn(12, <<13>>, <<Apply(Id(16), <<Dot(Id(17), 18)>>), Apply(Dot(Id(19), 20), <<Dot(Id(21), 22)>>),
                                      Arm(Node("pvar", <<23>>, <<>>), Apply(Dot(Id(24), 25), <<>>)),
                                      LetIs(26, <<Ty(<<27>>), Id(28)>>),
                                      LetIs(29, <<Ty(<<30, 31>>), Dot(Dot(Id(32), 33), 34)>>)>>)
                      EXCEPT !.sig = <<<<14>>, <<15>>>>]>>],
         lib |-> [Empty EXCEPT !.fns = <<Fn(35, <<36>>, <<Id(37)>>)>>, !.adts = <<Adt(38, <<39>>)>>,
          !.classes = <<Class(40, <<41>>)>>, !.exports = <<Show(42, FALSE), Show(43, TRUE), Show(44, FALSE)>>]],
       texts |-> Spelled(<<"g", "h", "T", "K", "lib", "q", "S", "E", "D", "K", "m", "f", "p", "T", "S",
                           "h", "T", "C", "q", "g", "S", "D", "r", "p", "m", "v", "S", "p", "w", "q", "T", "q", "T", "C",
                           "g", "a", "a", "T", "C", "K", "m", "g", "T", "K">>,
                         {26}, {"v", "p"}),
       frozen |-> {}, lib |-> 35, names |-> {"p", "g"}]
  IN  <<Locals, Contract, TwoModules>>
=============================================================================
