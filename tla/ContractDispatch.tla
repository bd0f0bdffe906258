-------------------------- MODULE ContractDispatch --------------------------
(***************************************************************************)
(* From a contract's declarations to the calls its deployed code answers.  *)
(* Three passes look at the same declarations and must agree: the dispatch *)
(* surface (hir-ty contract/dispatch.rs, contract/abi.rs) that checks them *)
(* and publishes names and selectors; the overlay (hir-ty prepare.rs) that *)
(* adds the deployment and runtime entries before type checking; and the   *)
(* specializer, which writes the published selectors into the comparison   *)
(* functions of std.dispatch, found by the spelling of their names.        *)
(*                                                                         *)
(* A name is a sequence of letters, because the overlay's generated names  *)
(* are searched for inside other names. A type is a record with fields k   *)
(* (its form), parts and name; the hash of a signature is a parameter.     *)
(***************************************************************************)
EXTENDS Integers, Sequences, FiniteSets, SequencesExt

CONSTANTS
    Programs,      \* the modules considered: sequences of contracts
    AdtRep,        \* the Generic representation of each data type
    Representable, \* data types whose derived evidence the module sees
    Keccak4(_),    \* the first four bytes of the hash of a signature
    Calls,         \* [sel, words, value]; words = -1 below four bytes
    None

RepresentableAssumption == Representable \subseteq DOMAIN AdtRep

VARIABLES
    program,   \* the parsed module
    stage,     \* "source", "prepared", "checked" or "built"
    effective, \* the overlay: the module the later passes work on
    nameTypes, \* the phantom name types the overlay declares
    codes,     \* the diagnostic codes of the module
    compare,   \* the selector each specialized comparison tests for
    last       \* the last transaction and what it did

vars == <<program, stage, effective, nameTypes, codes, compare, last>>

-----------------------------------------------------------------------------
(* Types and their ABI spelling *)

Word == [k |-> "word", parts |-> <<>>, name |-> None]
Bool == [k |-> "bool", parts |-> <<>>, name |-> None]
Opaque == [k |-> "function", parts |-> <<>>, name |-> None]
Tuple(parts) == [k |-> "tuple", parts |-> parts, name |-> None]
Sum(l, r) == [k |-> "sum", parts |-> <<l, r>>, name |-> None]
Array(t) == [k |-> "array", parts |-> <<t>>, name |-> None]
CalldataArray(t) == [k |-> "calldata", parts |-> <<t>>, name |-> None]
Adt(n) == [k |-> "adt", parts |-> <<>>, name |-> n]
Unit == Tuple(<<>>)

RECURSIVE FlattenTuple(_), MembersValid(_), Mentions(_, _)
FlattenTuple(parts) ==
    IF parts = <<>> THEN <<>>
    ELSE (IF Head(parts).k = "tuple" THEN FlattenTuple(Head(parts).parts) ELSE <<Head(parts)>>)
         \o FlattenTuple(Tail(parts))

MembersValid(parts) ==
    \A i \in DOMAIN parts :
        /\ parts[i] # Unit
        /\ parts[i].k = "tuple" => MembersValid(parts[i].parts)

Mentions(t, n) == \/ t.k = "adt" /\ t.name = n
                  \/ \E i \in DOMAIN t.parts : Mentions(t.parts[i], n)

(* A data type is spelled through its representation; one that is recursive, *)
(* hand-represented or not visible has no external form. `open` holds the    *)
(* data types being spelled.                                                 *)
RECURSIVE GenericOK(_, _), AdtOK(_, _)
AdtOK(n, open) ==
    /\ n \notin open
    /\ n \in Representable
    /\ ~Mentions(AdtRep[n], n)
    /\ GenericOK(AdtRep[n], open \cup {n})

GenericOK(t, open) ==
    CASE t.k \in {"word", "bool"} -> TRUE
      [] t.k \in {"tuple", "sum"} -> \A i \in DOMAIN t.parts : GenericOK(t.parts[i], open)
      [] t.k \in {"array", "calldata"} ->
            /\ GenericOK(t.parts[1], open)
            /\ t.parts[1].k = "tuple" => MembersValid(t.parts[1].parts)
      [] t.k = "adt" -> AdtOK(t.name, open)
      [] OTHER -> FALSE

RECURSIVE SignatureOK(_)
SignatureOK(t) ==
    CASE t.k \in {"word", "bool"} -> TRUE
      [] t.k = "tuple" -> /\ t # Unit
                          /\ MembersValid(t.parts)
                          /\ \A i \in DOMAIN FlattenTuple(t.parts) : SignatureOK(FlattenTuple(t.parts)[i])
      [] OTHER -> GenericOK(t, {}) /\ t.k # "sum"

(* The published form of a parameter is decided separately from its spelling *)
RECURSIVE ParamOK(_, _)
ParamOK(t, element) ==
    CASE t = Unit -> element
      [] t.k \in {"word", "bool"} -> TRUE
      [] t.k = "tuple" -> /\ MembersValid(t.parts)
                          /\ \A i \in DOMAIN FlattenTuple(t.parts) : ParamOK(FlattenTuple(t.parts)[i], FALSE)
      [] t.k \in {"array", "calldata"} -> ParamOK(t.parts[1], TRUE)
      [] t.k = "adt" -> AdtOK(t.name, {})
      [] OTHER -> FALSE

Joined(pieces) == IF pieces = <<>> THEN <<>>
                  ELSE Head(pieces) \o FlattenSeq([i \in 1 .. Len(pieces) - 1 |-> <<",">> \o pieces[i + 1]] \o <<>>)
Parenthesised(s) == <<"(">> \o s \o <<")">>

RECURSIVE GenericSig(_)
AbiTypeSig(t, s) == IF t.k = "tuple" THEN Parenthesised(s) ELSE s
GenericSig(t) ==
    CASE t.k \in {"word", "bool"} -> <<t.k>>
      [] t.k = "tuple" -> Joined([i \in DOMAIN t.parts |-> GenericSig(t.parts[i])] \o <<>>)
      [] t.k = "sum" -> <<"sum">> \o Parenthesised(GenericSig(t.parts[1]) \o <<",">> \o GenericSig(t.parts[2]))
      [] t.k \in {"array", "calldata"} -> AbiTypeSig(t.parts[1], GenericSig(t.parts[1])) \o <<"[]">>
      [] t.k = "adt" -> GenericSig(AdtRep[t.name])

RECURSIVE SignatureType(_)
SignatureType(t) ==
    IF t.k = "tuple"
    THEN LET flat == FlattenTuple(t.parts)
         IN  Parenthesised(Joined([i \in DOMAIN flat |-> SignatureType(flat[i])] \o <<>>))
    ELSE GenericSig(t)

MethodSignature(f) ==
    IF \A i \in DOMAIN f.params : SignatureOK(f.params[i])
    THEN f.name \o Parenthesised(Joined([i \in DOMAIN f.params |-> SignatureType(f.params[i])] \o <<>>))
    ELSE f.name \o <<"(", "<unsupported>", ")">>

-----------------------------------------------------------------------------
(* The dispatch surface *)

Main == <<"main">>
FallbackName == <<"fallback">>

OfKind(c, kind) == SelectSeq(c.items, LAMBDA f : f.kind = kind /\ f.made = "source")
PublicMethods(c) == SelectSeq(OfKind(c, "function"), LAMBDA f : f.public /\ f.name # FallbackName)
Constructors(c) == OfKind(c, "constructor")
Fallbacks(c) == OfKind(c, "fallback")
HasRuntimeMain(c) == \E i \in DOMAIN c.items : c.items[i].kind = "function" /\ c.items[i].name = Main

ImplicitConstructor == [kind |-> "constructor", name |-> None, public |-> FALSE, payable |-> FALSE,
                        params |-> <<>>, ret |-> Unit, made |-> "source"]
DefaultFallback == [ImplicitConstructor EXCEPT !.kind = "fallback"]
FirstOr(fs, default) == IF fs = <<>> THEN default ELSE Head(fs)

Surface(c) ==
    LET ms == PublicMethods(c)
    IN  [methods |-> [i \in DOMAIN ms |-> [function |-> ms[i], signature |-> MethodSignature(ms[i]),
                                           selector |-> Keccak4(MethodSignature(ms[i])),
                                           known |-> \A p \in DOMAIN ms[i].params : ParamOK(ms[i].params[p], FALSE)]] \o <<>>,
         constructor |-> FirstOr(Constructors(c), ImplicitConstructor),
         fallback |-> FirstOr(Fallbacks(c), DefaultFallback)]

(* An array that stays in the call data can be read but not returned *)
RECURSIVE HasCalldataArray(_)
HasCalldataArray(t) ==
    \/ t.k = "calldata"
    \/ \E i \in DOMAIN t.parts : HasCalldataArray(t.parts[i])
    \/ t.k = "adt" /\ ~Mentions(AdtRep[t.name], t.name) /\ HasCalldataArray(AdtRep[t.name])

OutputsOK(t) ==
    t = Unit \/ LET flat == IF t.k = "tuple" THEN FlattenTuple(t.parts) ELSE <<t>>
                IN  /\ t.k = "tuple" => MembersValid(t.parts)
                    /\ \A i \in DOMAIN flat : ~HasCalldataArray(flat[i]) /\ ParamOK(flat[i], FALSE)

(* SC0231: the constructor's own complaints survive a source `main` *)
ConstructorUnsupported(c) ==
    \E i \in DOMAIN Surface(c).constructor.params : ~ParamOK(Surface(c).constructor.params[i], FALSE)
Unsupported(c) ==
    \/ ConstructorUnsupported(c)
    \/ \E i \in DOMAIN Surface(c).methods :
          LET m == Surface(c).methods[i]
          IN  ~m.known \/ ~OutputsOK(m.function.ret) \/ \E p \in DOMAIN m.function.params : ~SignatureOK(m.function.params[p])
    \/ Surface(c).fallback.params # <<>>
    \/ Surface(c).fallback.ret # Unit

Clashes(c) ==
    {IF Surface(c).methods[p[1]].signature = Surface(c).methods[p[2]].signature THEN "SC0230" ELSE "SC0235" :
        p \in {q \in (DOMAIN Surface(c).methods) \X (DOMAIN Surface(c).methods) :
            LET a == Surface(c).methods[q[1]] b == Surface(c).methods[q[2]]
            IN  q[1] < q[2] /\ a.known /\ b.known /\ a.selector = b.selector}}

ContractDiagnostics(c) ==
    (IF IF HasRuntimeMain(c) THEN ConstructorUnsupported(c) ELSE Unsupported(c) THEN {"SC0231"} ELSE {})
    \cup Clashes(c)
    \cup (IF Len(Constructors(c)) > 1 THEN {"SC0232"} ELSE {})
    \cup (IF Len(Fallbacks(c)) > 1 THEN {"SC0233"} ELSE {})
    \cup (IF \E i \in DOMAIN OfKind(c, "function") : OfKind(c, "function")[i].name = Main /\ OfKind(c, "function")[i].params # <<>>
          THEN {"SC0236"} ELSE {})

(* Two functions of one name, or two declarations of one type, clash in name *)
(* resolution, which sees the overlay's declarations as well.                *)
Twice(s) == \E i, j \in DOMAIN s : i < j /\ s[i] = s[j]
DuplicateNames(p, types) ==
    IF \/ Twice(types)
       \/ Twice([i \in DOMAIN p |-> p[i].name] \o <<>>)
       \/ \E i \in DOMAIN p : Twice([j \in DOMAIN OfKind(p[i], "function") |-> OfKind(p[i], "function")[j].name] \o <<>>)
    THEN {"SC0108"} ELSE {}

-----------------------------------------------------------------------------
(* The overlay *)

NameType(contract, method) ==
    <<"DispatchNameTy_">> \o contract \o <<"_">> \o method
    \o (IF "_" \in ToSet(contract) \cup ToSet(method)
        THEN <<"__", ToString(Len(contract)), "_", ToString(Len(method))>> ELSE <<>>)

RECURSIVE ProductTy(_)
ProductTy(ts) == CASE ts = <<>> -> Unit
                   [] Len(ts) = 1 -> ts[1]
                   [] OTHER -> Tuple(<<ts[1], ProductTy(Tail(ts))>>)

Made(how, f) == [f EXCEPT !.kind = "function", !.name = <<how>>, !.public = FALSE, !.made = how]
Prepared(c, how) == \E i \in DOMAIN c.items : c.items[i].made = how

PrepareConstructor(c) ==
    IF Prepared(c, "start") \/ Len(Constructors(c)) > 1 THEN c
    ELSE LET k == FirstOr(Constructors(c), ImplicitConstructor)
         IN  [c EXCEPT !.items = SelectSeq(@, LAMBDA f : f.kind # "constructor")
                                 \o <<Made("init", k), Made("copy", k), Made("start", k)>>]

NeedsDispatch(c) == ~HasRuntimeMain(c) /\ ~Prepared(c, "dispatch")
PrepareDispatch(c) ==
    IF NeedsDispatch(c) THEN [c EXCEPT !.items = Append(@, Made("dispatch", ImplicitConstructor))] ELSE c

RECURSIVE FirstOccurrences(_)
FirstOccurrences(s) == IF s = <<>> THEN <<>>
                       ELSE LET r == FirstOccurrences(Front(s))
                            IN  IF Last(s) \in ToSet(r) THEN r ELSE Append(r, Last(s))
DeclaredNames(c) ==
    IF ~NeedsDispatch(c) THEN <<>>
    ELSE LET ns == FirstOccurrences([i \in DOMAIN PublicMethods(c) |-> PublicMethods(c)[i].name] \o <<>>)
         IN  [i \in DOMAIN ns |-> NameType(c.name, ns[i])] \o <<>>

PrepareModule(p) == [i \in DOMAIN p |-> PrepareDispatch(PrepareConstructor(p[i]))] \o <<>>
GeneratedNames(p) == FlattenSeq([i \in DOMAIN p |-> DeclaredNames(p[i])] \o <<>>)

(* The methods the generated main lists, by position, and its fallback: the *)
(* last one declared                                                        *)
DispatchedMethods(c) == PublicMethods(c)
DispatchedFallback(c) == IF Fallbacks(c) = <<>> THEN DefaultFallback ELSE Last(Fallbacks(c))

-----------------------------------------------------------------------------
(* The specializer: published selectors replace the compared ones *)

(* What std.dispatch itself would compare with: the name and the argument   *)
(* product spelled as one list                                              *)
OwnSelector(f) == Keccak4(f.name \o Parenthesised(GenericSig(ProductTy(f.params))))

ComparisonName(c, f) == <<"selector_matches$Method", "L">> \o NameType(c.name, f.name) \o <<"_d", "#">>

Positions(marker, name) ==
    {i \in 1 .. Len(name) : /\ i + Len(marker) - 1 <= Len(name)
                            /\ SubSeq(name, i, i + Len(marker) - 1) = marker}
Overrides(p) ==
    FlattenSeq([i \in DOMAIN p |->
        IF HasRuntimeMain(p[i]) THEN <<>>
        ELSE [j \in DOMAIN Surface(p[i]).methods |->
                [marker |-> NameType(p[i].name, Surface(p[i]).methods[j].function.name),
                 selector |-> Surface(p[i]).methods[j].selector]] \o <<>>] \o <<>>)

(* The earliest match wins, the longest of those *)
\* Mutant: the first override whose marker occurs wins.
FirstMarker(overrides, name, own) ==
    LET hits == {i \in DOMAIN overrides : Positions(overrides[i].marker, name) # {}}
    IN  IF hits = {} THEN own ELSE overrides[CHOOSE i \in hits : \A j \in hits : i <= j].selector
PatchedSelector(overrides, name, own) ==
    LET hits == {i \in DOMAIN overrides : Positions(overrides[i].marker, name) # {}}
        First(i) == CHOOSE x \in Positions(overrides[i].marker, name) : \A y \in Positions(overrides[i].marker, name) : x <= y
        Better(i, j) == \/ First(i) < First(j)
                        \/ First(i) = First(j) /\ Len(overrides[i].marker) > Len(overrides[j].marker)
    IN  IF hits = {} THEN own
        ELSE overrides[CHOOSE i \in hits : \A j \in hits \ {i} : ~Better(j, i) /\ (Better(i, j) \/ i < j)].selector

Comparisons(p) ==
    [i \in DOMAIN p |->
        [j \in DOMAIN DispatchedMethods(p[i]) |->
            PatchedSelector(Overrides(p), ComparisonName(p[i], DispatchedMethods(p[i])[j]),
                            OwnSelector(DispatchedMethods(p[i])[j]))]]

-----------------------------------------------------------------------------
(* What the code does when called: std.dispatch and the deployment entry *)

RECURSIVE Static(_), HeadWords(_)
Static(t) == /\ t.k \notin {"array", "calldata"}
             /\ \A i \in DOMAIN t.parts : Static(t.parts[i])
             /\ t.k = "adt" => Static(AdtRep[t.name])
HeadWords(t) ==
    CASE t.k = "tuple" -> FoldLeft(LAMBDA n, u : n + HeadWords(u), 0, t.parts)
      [] t.k = "adt" -> HeadWords(AdtRep[t.name])
      [] t.k = "sum" /\ Static(t) -> 1 + Max({HeadWords(t.parts[1]), HeadWords(t.parts[2])})
      [] OTHER -> 1

Ran(f) == [did |-> "ran", what |-> f]
Revert(why) == [did |-> "revert", what |-> why]

ExecMethod(f, call) ==
    IF call.value > 0 /\ ~f.payable THEN Revert("value")
    ELSE IF call.words < HeadWords(ProductTy(f.params)) THEN Revert("truncated") ELSE Ran(f)

ExecFallback(f, call) ==
    IF call.value > 0 /\ ~f.payable THEN Revert("value")
    ELSE IF f = DefaultFallback THEN Revert("no method") ELSE Ran(f)

(* The methods are compared in the order of the generated product *)
RunContract(c, selectors, call) ==
    LET matching == {i \in DOMAIN selectors : selectors[i] = call.sel}
    IN  IF call.words < 0 \/ matching = {} THEN ExecFallback(DispatchedFallback(c), call)
        ELSE ExecMethod(DispatchedMethods(c)[CHOOSE i \in matching : \A j \in matching : i <= j], call)

UserMain(c) == CHOOSE f \in ToSet(c.items) : f.kind = "function" /\ f.name = Main
Execute(c, selectors, call) ==
    IF HasRuntimeMain(c) THEN Ran(UserMain(c)) ELSE RunContract(c, selectors, call)

(* Constructor arguments travel as one nested product and are taken apart   *)
(* again; args[i] stands for the value given for parameter i                *)
RECURSIVE ProductValue(_), TakeApart(_, _)
ProductValue(args) == CASE args = <<>> -> <<>>
                        [] Len(args) = 1 -> args[1]
                        [] OTHER -> <<args[1], ProductValue(Tail(args))>>
TakeApart(value, n) == CASE n = 0 -> <<>>
                         [] n = 1 -> <<value>>
                         [] OTHER -> <<value[1]>> \o TakeApart(value[2], n - 1)

Start(start, args, value, truncated) ==
    IF truncated THEN Revert("truncated")
    ELSE IF value > 0 /\ ~start.payable THEN Revert("value")
    ELSE [did |-> "init", what |-> TakeApart(ProductValue(args), Len(start.params))]

EntryOf(c, how) == CHOOSE f \in ToSet(c.items) : f.made = how

-----------------------------------------------------------------------------

Init ==
    /\ program \in Programs
    /\ effective = program
    /\ stage = "source"
    /\ nameTypes = <<>>
    /\ codes = {}
    /\ compare = <<>>
    /\ last = None

(* Preparing may be asked for again: a consumer may hold the overlay already *)
Prepare ==
    /\ stage \in {"source", "prepared"}
    /\ stage' = "prepared"
    /\ effective' = PrepareModule(effective)
    /\ nameTypes' = GeneratedNames(effective) \o nameTypes
    /\ UNCHANGED <<program, codes, compare, last>>

(* The surface reads the parsed module; name resolution reads the overlay *)
Check ==
    /\ stage = "prepared"
    /\ stage' = "checked"
    /\ codes' = DuplicateNames(effective, nameTypes) \cup UNION {ContractDiagnostics(program[i]) : i \in DOMAIN program}
    /\ UNCHANGED <<program, effective, nameTypes, compare, last>>

Build ==
    /\ stage = "checked"
    /\ codes = {}
    /\ stage' = "built"
    /\ compare' = Comparisons(effective)
    /\ UNCHANGED <<program, effective, nameTypes, codes, last>>

Deploy(i, value, truncated) ==
    /\ stage = "built"
    /\ LET start == EntryOf(effective[i], "start")
           args == [j \in DOMAIN start.params |-> j] \o <<>>
       IN  last' = [at |-> i, call |-> [value |-> value, truncated |-> truncated],
                    out |-> Start(start, args, value, truncated)]
    /\ UNCHANGED <<program, stage, effective, nameTypes, codes, compare>>

Transact(i, call) ==
    /\ stage = "built"
    /\ last' = [at |-> i, call |-> call, out |-> Execute(effective[i], compare[i], call)]
    /\ UNCHANGED <<program, stage, effective, nameTypes, codes, compare>>

(* A rejected module goes no further *)
Rejected ==
    /\ stage = "checked"
    /\ codes # {}
    /\ UNCHANGED vars

Next ==
    \/ Prepare
    \/ Check
    \/ Build
    \/ Rejected
    \/ \E i \in DOMAIN program, value \in {0, 1}, truncated \in BOOLEAN : Deploy(i, value, truncated)
    \/ \E i \in DOMAIN program, call \in Calls : Transact(i, call)

Spec == Init /\ [][Next]_vars

-----------------------------------------------------------------------------
(* Properties *)

(* The overlay adds functions of four kinds to the parsed ones, and leaves  *)
(* a constructor only where there are several (prepare.rs).                 *)
TypeOK ==
    /\ program \in Programs
    /\ stage \in {"source", "prepared", "checked", "built"}
    /\ DOMAIN effective = DOMAIN program
    /\ \A i \in DOMAIN effective : \A j \in DOMAIN effective[i].items :
          effective[i].items[j].made \in {"source", "init", "copy", "start", "dispatch"}
    /\ stage # "source" => \A i \in DOMAIN program : Len(Constructors(program[i])) <= 1 =>
          \A j \in DOMAIN effective[i].items : effective[i].items[j].kind # "constructor"
    /\ codes \subseteq {"SC0108", "SC0230", "SC0231", "SC0232", "SC0233", "SC0235", "SC0236"}

(* What the published interface of a contract promises for a call: the one  *)
(* method with the call's selector runs, if it takes the value and the data *)
(* is long enough; anything else is the fallback's.                         *)
Promised(c, call) ==
    LET named == {m \in ToSet(Surface(c).methods) : m.selector = call.sel}
    IN  IF call.words < 0 \/ named = {}
        THEN {ExecFallback(Surface(c).fallback, call)}
        ELSE {ExecMethod(m.function, call) : m \in named}

(* A module without diagnostics answers every call the way its published    *)
(* interface says, although the selectors compared at run time were put     *)
(* there by searching generated names (driver.rs patch_runtime_dispatch_... *)
(* and prepare.rs prepare_contract_dispatch).                               *)
CallsMatchInterface ==
    (last # None /\ "sel" \in DOMAIN last.call /\ ~HasRuntimeMain(program[last.at])) =>
        Promised(program[last.at], last.call) = {last.out}

(* No call that sends value reaches code whose declaration is not payable,  *)
(* the constructor included (prepare.rs nonpayable_constructor_yul).        *)
ValueNeedsPayable ==
    (last # None /\ last.call.value > 0) =>
        /\ last.out.did = "init" => Surface(program[last.at]).constructor.payable
        /\ (last.out.did = "ran" /\ ~HasRuntimeMain(program[last.at])) => last.out.what.payable

(* The source constructor receives every argument in its place.             *)
ArgumentsArriveInOrder ==
    (last # None /\ last.out.did = "init") =>
        last.out.what = [j \in DOMAIN Surface(program[last.at]).constructor.params |-> j] \o <<>>

(* Preparing an overlay changes nothing, and keeps what the user declared.  *)
PreparationSettles ==
    stage # "source" =>
        /\ PrepareModule(effective) = effective
        /\ GeneratedNames(effective) = <<>>
        /\ \A i \in DOMAIN program :
              SelectSeq(effective[i].items, LAMBDA f : f.made = "source" /\ f.kind # "constructor")
                = SelectSeq(program[i].items, LAMBDA f : f.kind # "constructor")

(* A module without diagnostics has one deployment entry and one runtime    *)
(* entry per contract, the ones Hull emission looks for (emit/contract.rs). *)
AcceptedHasEntries ==
    (stage = "built" \/ (stage = "checked" /\ codes = {})) =>
        \A i \in DOMAIN effective :
            /\ Cardinality({j \in DOMAIN effective[i].items : effective[i].items[j].made = "start"}) = 1
            /\ Cardinality({j \in DOMAIN effective[i].items :
                   \/ effective[i].items[j].made = "dispatch"
                   \/ effective[i].items[j].kind = "function" /\ effective[i].items[j].name = Main}) = 1

(* The generated names of different methods never clash, so only the user's *)
(* own declarations can be reported as duplicates.                          *)
DuplicatesAreTheUsers ==
    ("SC0108" \in codes) =>
        DuplicateNames(program, <<>>) # {}
=============================================================================
