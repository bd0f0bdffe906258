------------------------------ MODULE DataTypes ------------------------------
(* Data types from their declarations to their run-time layout: type aliases   *)
(* are expanded, mutual recursion is reported, the Generic representation and  *)
(* the ABI and storage instances built on it are derived, and the back end     *)
(* decides whether expanding a type ends before it lays it out.                *)
EXTENDS TypeMatch

CONSTANTS Programs,    \* the modules: [aliases, adts, order, markers, roots]
          NodeBudget,  \* type nodes one alias expansion may visit (16384 in the code)
          DepthBound,  \* types nested deeper than this only occur in growing expansions
          None         \* nothing: no plan, no givens

(* An alias is [params, body]; a data type [params, ctors, excluded, manual,   *)
(* captures], each constructor the sequence of its field types, the flags for  *)
(* the no-generic-instance-for pragma, a Generic instance written by hand, and *)
(* a type variable captured from an enclosing contract.  order lists aliases   *)
(* as declared; markers are the deriving classes the module sees.              *)
VARIABLES program, diags, plans, checked, laid, phase
vars == <<program, diags, plans, checked, laid, phase>>

Unit == Named("unit", <<>>)
PairTy(a, b) == Named("pair", <<a, b>>)
SumTy(a, b) == Named("sum", <<a, b>>)
IsNamed(t) == Kind(t) = "named"
IsAlias(t) == IsNamed(t) /\ t[2] \in DOMAIN program.aliases
IsAdt(t) == IsNamed(t) /\ t[2] \in DOMAIN program.adts
ErrorTy == Named("error", <<>>)
Adts == DOMAIN program.adts

RECURSIVE SubstTy(_, _)
SubstTy(t, args) ==
  IF IsBound(t) THEN IF t[2] < Len(args) THEN args[t[2] + 1] ELSE t
  ELSE LET F(part) == SubstTy(part, args) IN MapParts(t, F)

-------------------------------------------------------------------------------
(* Expanding aliases: the ones being expanded form a stack, and every node     *)
(* visited is paid for from one budget.                                        *)

Normalizer(expanding) == [ty |-> ErrorTy, expanding |-> expanding, errors |-> {}, left |-> NodeBudget]
Fault(kind, name) == [kind |-> kind, name |-> name]

RECURSIVE NormalizeTy(_, _)
RECURSIVE NormalizeAll(_, _, _)
RECURSIVE ExpandAlias(_, _, _)

NormalizeAll(ts, n, done) ==
  IF ts = <<>> THEN [n EXCEPT !.ty = done]
  ELSE \* the first type is expanded before the rest, with what is left of the budget
       LET first == NormalizeTy(Head(ts), n) IN NormalizeAll(Tail(ts), first, Append(done, first.ty))

NormalizeTy(t, n) ==
  IF n.left = 0 THEN [n EXCEPT !.ty = ErrorTy, !.errors = @ \cup {Fault("ExpansionLimit", "")}]
  ELSE LET parts == NormalizeAll(Parts(t), [n EXCEPT !.left = @ - 1], <<>>)
       IN  IF IsAlias(t) THEN ExpandAlias(t[2], parts.ty, parts)
           ELSE [parts EXCEPT !.ty = <<t[1], t[2], parts.ty>>]

ExpandAlias(name, args, n) ==
  LET alias == program.aliases[name]
      body == NormalizeTy(SubstTy(alias.body, args), [n EXCEPT !.expanding = @ \cup {name}])
  IN  IF name \in n.expanding THEN [n EXCEPT !.ty = ErrorTy, !.errors = @ \cup {Fault("AliasCycle", name)}]
      ELSE IF alias.params # Len(args) THEN [n EXCEPT !.ty = ErrorTy, !.errors = @ \cup {Fault("AliasArity", name)}]
      ELSE [body EXCEPT !.expanding = n.expanding]

Normalized(t) == NormalizeTy(t, Normalizer({})).ty

(* Every declared alias is expanded once; the first that runs out of budget    *)
(* ends the walk.                                                              *)
RECURSIVE AliasErrors(_)
AliasErrors(names) ==
  IF names = <<>> THEN {}
  ELSE LET errors == NormalizeTy(program.aliases[Head(names)].body, Normalizer({Head(names)})).errors
       IN  errors \cup IF Fault("ExpansionLimit", "") \in errors THEN {} ELSE AliasErrors(Tail(names))

-------------------------------------------------------------------------------
(* Mutual recursion, seen in the types as they are written.                    *)

RECURSIVE Mentions(_)
Mentions(t) == (IF IsAdt(t) THEN {t[2]} ELSE {}) \cup UNION {Mentions(Parts(t)[i]) : i \in DOMAIN Parts(t)}
FieldTypes(adt) == UNION {{program.adts[adt].ctors[i][j] : j \in DOMAIN program.adts[adt].ctors[i]} : i \in DOMAIN program.adts[adt].ctors}
DataCycleEdges == {<<from, to>> \in Adts \X Adts : from # to /\ \E t \in FieldTypes(from) : to \in Mentions(t)}

RECURSIVE ReachFrom(_, _)
ReachFrom(nodes, edges) ==
  LET more == nodes \cup {e[2] : e \in {d \in edges : d[1] \in nodes}}
  IN  IF more = nodes THEN nodes ELSE ReachFrom(more, edges)

DataPathExists(from, to, edges) == to \in ReachFrom({from}, edges)

(* One report for each group of at least two types that reach one another.     *)
MutualDataComponents ==
  {{d \in Adts : DataPathExists(e[1], d, DataCycleEdges) /\ DataPathExists(d, e[1], DataCycleEdges)} :
     e \in {f \in DataCycleEdges : DataPathExists(f[2], f[1], DataCycleEdges)}}

-------------------------------------------------------------------------------
(* The Generic representation: constructors are a right-nested sum of right-   *)
(* nested products.                                                            *)

RECURSIVE ProductRep(_)
ProductRep(fields) ==
  IF fields = <<>> THEN Unit ELSE IF Len(fields) = 1 THEN fields[1] ELSE PairTy(Head(fields), ProductRep(Tail(fields)))
RECURSIVE SumRep(_)
SumRep(reps) == IF reps = <<>> THEN Unit ELSE IF Len(reps) = 1 THEN reps[1] ELSE SumTy(Head(reps), SumRep(Tail(reps)))

GenericSumWrapping(index, total) ==
  IF total <= 1 THEN [inr |-> 0, inl |-> FALSE]
  ELSE IF index + 1 = total THEN [inr |-> total - 1, inl |-> FALSE] ELSE [inr |-> index, inl |-> TRUE]

DerivedGenericPlan(adt) ==
  LET ctors == program.adts[adt].ctors
      products == [i \in DOMAIN ctors |-> ProductRep([j \in DOMAIN ctors[i] |-> Normalized(ctors[i][j])] \o <<>>)] \o <<>>
  IN  [rep |-> SumRep(products),
       arms |-> [i \in DOMAIN ctors |-> [product |-> products[i], fields |-> Len(ctors[i]),
                                         wrap |-> GenericSumWrapping(i - 1, Len(ctors))]] \o <<>>]

DerivesGeneric(adt) ==
  /\ program.adts[adt].ctors # <<>> /\ ~program.adts[adt].captures
  /\ ~program.adts[adt].excluded /\ ~program.adts[adt].manual

GenericConflicts ==
  {adt \in Adts : "Generic" \in program.markers /\ program.adts[adt].manual /\ ~program.adts[adt].excluded}

-------------------------------------------------------------------------------
(* Instances built on the representation.  The method bodies behind them are   *)
(* checked later with the clause's conditions as assumptions, paired by place. *)

Params(adt) == [i \in 1..program.adts[adt].params |-> Bound(i - 1)] \o <<>>
Clause(kind, head, conditions) == [kind |-> kind, head |-> head, conditions |-> conditions]
Is(class, t) == InClass(class, t, <<>>)
Storage(t) == Named("storage", <<t>>)
Decoder(t, reader) == Named("ABIDecoder", <<t, reader>>)
CanStore(t) == InClass("CanStore", Storage(t), <<t>>)
CanDecode(t, reader) == InClass("ABIDecode", Decoder(t, reader), <<t>>)

RECURSIVE Flatten(_)
Flatten(seqs) == IF seqs = <<>> THEN <<>> ELSE Head(seqs) \o Flatten(Tail(seqs))
ForEach(ts, F(_)) == Flatten([i \in DOMAIN ts |-> F(ts[i])] \o <<>>)

RECURSIVE MentionsAdt(_, _)

MentionsAdt(t, adt) ==
  \/ IsNamed(t) /\ t[2] = adt
  \/ \E i \in DOMAIN Parts(t) : MentionsAdt(Parts(t)[i], adt)

VariantCodec(adt) == Len(program.adts[adt].ctors) >= 2 /\ "ABIEncode" \in program.markers
HasSig == "SigString" \in program.markers

EncodeContext(t) == <<Is("ABIAttribs", t), Is("ABIEncode", t)>> \o IF HasSig THEN <<Is("SigString", t)>> ELSE <<>>

DecodeContext(t, reader, variant) ==
  <<CanDecode(t, reader)>> \o IF variant /\ HasSig THEN <<Is("SigString", t), Is("ABIAttribs", t)>> ELSE <<>>

DerivedAbiClauses(adt) ==
  LET params == Params(adt)
      main == Named(adt, params)
      reader == Bound(Len(params))
      attribs(t) == <<Is("ABIAttribs", t)>>
      decode(t) == DecodeContext(t, reader, VariantCodec(adt))
  IN  IF "ABIDeriving" \notin program.markers \/ MentionsAdt(plans[adt].rep, adt) THEN {}
      ELSE {Clause("AbiAttribs", Is("ABIAttribs", main), ForEach(params, attribs)),
            Clause("AbiDecode", CanDecode(main, reader), <<Is("WordReader", reader)>> \o ForEach(params, decode))}
           \cup IF VariantCodec(adt) THEN {Clause("AbiEncode", Is("ABIEncode", main), ForEach(params, EncodeContext))} ELSE {}

DerivedStorageClauses(adt) ==
  LET params == Params(adt)
      main == Named(adt, params)
      sizes(t) == <<Is("StorageSize", t)>>
      stores(t) == <<CanStore(t)>>
  IN  IF "StorageDeriving" \notin program.markers \/ MentionsAdt(plans[adt].rep, adt) THEN {}
      ELSE {Clause("StorageSize", Is("StorageSize", main), ForEach(params, sizes)),
            Clause("CanStore", CanStore(main), ForEach(params, stores) \o ForEach(params, sizes))}

DerivedClauses(adt) ==
  IF "Generic" \notin program.markers \/ plans[adt] = None THEN {}
  ELSE {Clause("Generic", InClass("Generic", Named(adt, Params(adt)), <<plans[adt].rep>>), <<>>)}
       \cup DerivedAbiClauses(adt) \cup DerivedStorageClauses(adt)

(* The assumptions under which a selected instance's body is solved again, for *)
(* type arguments args; None when they cannot match what was proved.           *)
DelegatedGivens(kind, args, reader, proved) ==
  LET variants == proved = 1 + Len(args) * 3
      decode(t) == <<CanDecode(t, reader)>> \o IF variants THEN <<Is("SigString", t), Is("ABIAttribs", t)>> ELSE <<>>
      encode(t) == <<Is("ABIAttribs", t), Is("ABIEncode", t), Is("SigString", t)>>
      attribs(t) == <<Is("ABIAttribs", t)>>
      stores(t) == <<CanStore(t)>>
      sizes(t) == <<Is("StorageSize", t)>>
      givens == CASE kind = "AbiDecode" -> <<Is("WordReader", reader)>> \o ForEach(args, decode)
                  [] kind = "AbiEncode" -> ForEach(args, encode)
                  [] kind = "AbiAttribs" -> ForEach(args, attribs)
                  [] OTHER -> ForEach(args, stores) \o ForEach(args, sizes)
  IN  IF Len(givens) # proved THEN None ELSE givens

-------------------------------------------------------------------------------
(* Does expanding a type reach finitely many types?  Parameters are followed   *)
(* through the recursive uses of a type: a cycle that wraps one grows.         *)

NoEnv == [some |-> FALSE, args |-> <<>>]
Env(args) == [some |-> TRUE, args |-> args]
RepOf(adt) == DerivedGenericPlan(adt).rep

RECURSIVE ArgumentFlows(_, _, _, _)
ArgumentFlows(t, env, target, wrapped) ==
  IF IsBound(t)
  THEN IF ~env.some THEN {<<t[2], target, wrapped>>}
       ELSE IF t[2] < Len(env.args)
       THEN LET arg == env.args[t[2] + 1] IN ArgumentFlows(arg.ty, arg.env, target, wrapped) ELSE {}
  ELSE UNION {ArgumentFlows(Parts(t)[i], env, target, TRUE) : i \in DOMAIN Parts(t)}

NoFacts == [flows |-> {}, reached |-> {}]
Merge(facts) == [flows |-> UNION {f.flows : f \in facts}, reached |-> UNION {f.reached : f \in facts}]

(* Arguments are looked at where they are used, with the path of the place     *)
(* they were written at.                                                       *)
RECURSIVE TyFacts(_, _, _, _)
TyFacts(t, env, path, root) ==
  IF IsBound(t)
  THEN IF env.some /\ t[2] < Len(env.args)
       THEN LET arg == env.args[t[2] + 1] IN TyFacts(arg.ty, arg.env, arg.path, root) ELSE NoFacts
  ELSE IF IsAdt(t)
  THEN LET adt == t[2]
           args == [i \in DOMAIN Parts(t) |-> [ty |-> Parts(t)[i], env |-> env, path |-> path]] \o <<>>
           here == [flows |-> IF adt = root /\ adt \in path
                              THEN UNION {ArgumentFlows(Parts(t)[i], env, i - 1, FALSE) : i \in DOMAIN Parts(t)} ELSE {},
                    reached |-> {adt}]
       IN  IF adt \in path THEN here ELSE Merge({here, TyFacts(RepOf(adt), Env(args), path \cup {adt}, root)})
  ELSE Merge({NoFacts} \cup {TyFacts(Parts(t)[i], env, path, root) : i \in DOMAIN Parts(t)})

DefinitionFacts(adt) ==
  LET own == [i \in 1..program.adts[adt].params |-> [ty |-> Bound(i - 1), env |-> NoEnv, path |-> {}]] \o <<>>
  IN  TyFacts(RepOf(adt), Env(own), {adt}, adt)

\* Mutant: only a parameter that comes back to its own place can grow.
GrowsInPlace(flows) == \E f \in flows : f[3] /\ f[1] = f[2]

HasGrowingCycle(flows) ==
  LET edges == {<<f[1], f[2]>> : f \in flows} IN \E f \in flows : f[3] /\ f[1] \in ReachFrom({f[2]}, edges)

(* The types a query looks at: it does not go on below one already decided.    *)
RECURSIVE Explored(_)
Explored(seen) ==
  LET more == seen \cup UNION {DefinitionFacts(d).reached : d \in seen \ DOMAIN checked}
  IN  IF more = seen THEN seen ELSE Explored(more)

-------------------------------------------------------------------------------
(* Lowering a finite type: an instantiation inside itself has no layout.       *)

IsOnLayoutStack(adt, args, stack) == <<adt, args>> \in stack

RECURSIVE HullFaults(_, _)
HullFaults(t, stack) ==
  CASE IsAdt(t) ->
         IF t[2] \notin DOMAIN checked THEN {Fault("Undecided", t[2])}
         ELSE IF ~checked[t[2]] THEN {Fault("NonRegularRecursiveType", t[2])}
         ELSE IF IsOnLayoutStack(t[2], Parts(t), stack) THEN {Fault("UnsupportedRecursiveType", t[2])}
         ELSE IF program.adts[t[2]].ctors = <<>> THEN {Fault("UnsupportedType", t[2])}
         ELSE HullFaults(SubstTy(RepOf(t[2]), Parts(t)), stack \cup {<<t[2], Parts(t)>>})
    [] IsBound(t) \/ (IsNamed(t) /\ ~IsAdt(t) /\ t[2] \notin {"word", "unit", "bool", "pair", "sum", "error"}) ->
         {Fault("UnsupportedType", "")}
    [] OTHER -> UNION {HullFaults(Parts(t)[i], stack) : i \in DOMAIN Parts(t)}

RECURSIVE ProductFieldsExact(_, _)
ProductFieldsExact(product, arity) ==
  IF arity = 0 THEN IF product = Unit THEN <<>> ELSE None
  ELSE IF arity = 1 THEN <<product>>
  ELSE IF ~(IsNamed(product) /\ product[2] = "pair") THEN None
  ELSE LET tail == ProductFieldsExact(Parts(product)[2], arity - 1)
       IN  IF tail = None THEN None ELSE <<Parts(product)[1]>> \o tail

-------------------------------------------------------------------------------
Init ==
  /\ program \in Programs
  /\ diags = {} /\ plans = <<>> /\ checked = <<>> /\ laid = {} /\ phase = "declared"

(* One pass over the declarations; an alias that runs out of budget ends it.   *)
CheckDeclarations ==
  /\ phase = "declared"
  /\ LET aliases == AliasErrors(program.order)
         mutual == {Fault("MutualRecursiveData", c) : c \in MutualDataComponents}
         conflicts == IF Fault("ExpansionLimit", "") \in aliases THEN {}
                      ELSE {Fault("GenericDeriveConflict", a) : a \in GenericConflicts}
     IN  diags' = aliases \cup mutual \cup conflicts
  /\ phase' = "checked"
  /\ UNCHANGED <<program, plans, checked, laid>>

DeriveInstances ==
  /\ phase = "checked"
  /\ plans' = [adt \in Adts |-> IF DerivesGeneric(adt) THEN DerivedGenericPlan(adt) ELSE None]
  /\ phase' = "derived"
  /\ UNCHANGED <<program, diags, checked, laid>>

(* Only a program without errors is lowered; its types are asked about in any  *)
(* order and the answers are kept.                                             *)
IsFinite(root) ==
  /\ phase = "derived" /\ diags = {} /\ root \notin DOMAIN checked
  /\ LET seen == Explored({root})
         growing == {d \in seen : IF d \in DOMAIN checked THEN ~checked[d] ELSE HasGrowingCycle(DefinitionFacts(d).flows)}
     IN  IF growing = {} THEN checked' = checked @@ [d \in seen |-> TRUE]
         ELSE \E d \in growing : checked' = checked @@ [e \in {d, root} |-> FALSE]
  /\ UNCHANGED <<program, diags, plans, laid, phase>>

(* A type that would grow for ever is reported and never expanded; lowering    *)
(* asks about every data type it meets before it expands it, so it ends once   *)
(* IsFinite has decided them all.                                              *)
HullTy(t) ==
  /\ phase = "derived" /\ diags = {} /\ \A l \in laid : l.ty # t
  /\ LET faults == HullFaults(t, {})
     IN  /\ \A f \in faults : f.kind # "Undecided"
         /\ laid' = laid \cup {[ty |-> t, faults |-> faults]}
  /\ UNCHANGED <<program, diags, plans, checked, phase>>

Next ==
  \/ CheckDeclarations \/ DeriveInstances
  \/ \E root \in Adts : IsFinite(root)
  \/ \E t \in program.roots : HullTy(t)

Spec == Init /\ [][Next]_vars

-------------------------------------------------------------------------------
(* The reference: aliases unfolded outermost first, instantiations enumerated. *)

RECURSIVE AliasMentions(_)
AliasMentions(t) == (IF IsAlias(t) THEN {t[2]} ELSE {}) \cup UNION {AliasMentions(Parts(t)[i]) : i \in DOMAIN Parts(t)}
AliasEdges == {<<a, b>> \in (DOMAIN program.aliases) \X (DOMAIN program.aliases) : b \in AliasMentions(program.aliases[a].body)}
OnCycle(n, edges) == n \in ReachFrom({e[2] : e \in {d \in edges : d[1] = n}}, edges)

RECURSIVE Unfold(_)
Unfold(t) == IF IsAlias(t) THEN Unfold(SubstTy(program.aliases[t[2]].body, Parts(t)))
             ELSE LET F(part) == Unfold(part) IN MapParts(t, F)

ExpandedEdges == {<<a, b>> \in Adts \X Adts : a # b /\ \E t \in FieldTypes(a) : b \in Mentions(Unfold(t))}

RECURSIVE Uses(_)
Uses(t) == IF IsAdt(t) THEN {t} ELSE UNION {Uses(Parts(t)[i]) : i \in DOMAIN Parts(t)}
UsedBy(t) == Uses(SubstTy(RepOf(t[2]), Parts(t)))
RECURSIVE Depth(_)
Depth(t) == 1 + (IF Parts(t) = <<>> THEN 0 ELSE SetMax({Depth(Parts(t)[i]) : i \in DOMAIN Parts(t)}))
RECURSIVE Instantiations(_, _)
Instantiations(seen, frontier) ==
  LET found == UNION {UsedBy(t) : t \in {u \in frontier : Depth(u) <= DepthBound}} \ seen
  IN  IF found = {} THEN seen ELSE Instantiations(seen \cup found, found)
InstantiationsOf(t) == Instantiations(Uses(t), Uses(t))
Bounded(ts) == \A t \in ts : Depth(t) <= DepthBound
Reoccurs(ts) == \E t \in ts : OnCycle(t, {<<u, v>> \in ts \X ts : v \in UsedBy(u)})
Declared(adt) == Named(adt, Params(adt))

RECURSIVE Navigate(_, _)
Navigate(t, wrap) ==
  IF wrap.inr > 0 THEN IF IsNamed(t) /\ t[2] = "sum" THEN Navigate(Parts(t)[2], [wrap EXCEPT !.inr = @ - 1]) ELSE None
  ELSE IF ~wrap.inl THEN t
  ELSE IF IsNamed(t) /\ t[2] = "sum" THEN Parts(t)[1] ELSE None

Checked == phase # "declared"
Derived == phase = "derived"
Reported(kind) == {f.name : f \in {g \in diags : g.kind = kind}}

(* The phases, and a cache and layouts for declared types only.                *)
TypeOK ==
  /\ phase \in {"declared", "checked", "derived"}
  /\ DOMAIN checked \subseteq Adts
  /\ \A d \in DOMAIN checked : checked[d] \in BOOLEAN
  /\ (checked # <<>> \/ laid # {}) => diags = {}

(* An alias is reported as cyclic exactly when its declaration leads back to   *)
(* itself, and when nothing is reported every field is what unfolding gives    *)
(* (AliasNormalizer, type_alias_normalization_errors).                         *)
AliasesExpand ==
  (Checked /\ Reported("AliasArity") = {} /\ Reported("ExpansionLimit") = {}) =>
    /\ Reported("AliasCycle") = {a \in DOMAIN program.aliases : OnCycle(a, AliasEdges)}
    /\ Reported("AliasCycle") = {} => \A a \in Adts : \A t \in FieldTypes(a) : Normalized(t) = Unfold(t)

(* Where no alias is involved, the types reported as mutually recursive are    *)
(* the ones that reach one another (mutual_data_diagnostics).                  *)
MutualDataIsExact ==
  (Checked /\ DOMAIN program.aliases = {}) =>
    Reported("MutualRecursiveData") =
      {{d \in Adts : d = a \/ (OnCycle(d, ExpandedEdges) /\ a \in ReachFrom({d}, ExpandedEdges) /\ d \in ReachFrom({a}, ExpandedEdges))} :
         a \in {b \in Adts : OnCycle(b, ExpandedEdges)}}

(* Every constructor is injected at its own place of the representation, and   *)
(* that place holds exactly its fields (derived_generic_plan with              *)
(* adt_layout's sem_product_fields_exact).                                     *)
ConstructorsFitTheRepresentation ==
  (Derived /\ diags = {}) => \A adt \in {a \in Adts : plans[a] # None} :
    LET plan == plans[adt]
        ctors == program.adts[adt].ctors
    IN  /\ \A i \in DOMAIN ctors :
             /\ Navigate(plan.rep, plan.arms[i].wrap) = plan.arms[i].product
             /\ ProductFieldsExact(plan.arms[i].product, plan.arms[i].fields) = [j \in DOMAIN ctors[i] |-> Unfold(ctors[i][j])] \o <<>>
        /\ \A i, j \in DOMAIN ctors : i # j => plan.arms[i].wrap # plan.arms[j].wrap

(* A data type has at most one Generic instance: a hand-written one replaces   *)
(* the derived one, and without the pragma it is reported                      *)
(* (derived_generic_instance_plan, generic_derivation_diagnostics).            *)
OneGenericPerType ==
  Derived => \A adt \in Adts :
    program.adts[adt].manual =>
      /\ \A c \in DerivedClauses(adt) : c.kind # "Generic"
      /\ (program.adts[adt].excluded \/ adt \in Reported("GenericDeriveConflict") \/ Reported("ExpansionLimit") # {})

(* The body behind a derived instance is solved with the assumptions the       *)
(* clause was proved from, in the same order: evidence is paired with the      *)
(* assumption it was found for (derived_abi_delegated_evidence,                *)
(* derived_can_store_implementation_goal, push_derived_*_clauses).             *)
EvidenceMeetsItsAssumption ==
  (Derived /\ diags = {}) => \A adt \in Adts : \A c \in {d \in DerivedClauses(adt) : d.kind \notin {"Generic", "StorageSize"}} :
    LET args == [i \in 1..program.adts[adt].params |-> IF i = 1 THEN Unit ELSE PairTy(Unit, Unit)] \o <<>>
        reader == Named("CalldataReader", <<>>)
        F(t) == SubstTy(t, Append(args, reader))
        proved == [i \in DOMAIN c.conditions |-> MapPred(c.conditions[i], F)] \o <<>>
        givens == DelegatedGivens(c.kind, args, reader, Len(proved))
    IN  IF givens = None THEN c.kind = "AbiEncode" /\ ~HasSig ELSE givens = proved

(* A derived storage instance is for a type of bounded size: unfolding it      *)
(* comes to an end unless types are mutually recursive                         *)
(* (push_derived_storage_clauses skips a recursive representation).            *)
FootprintsAreBounded ==
  (Derived /\ diags = {} /\ \A a \in Adts : ~OnCycle(a, ExpandedEdges)) =>
    \A adt \in Adts : (\E c \in DerivedClauses(adt) : c.kind = "StorageSize") =>
      LET all == InstantiationsOf(Named(adt, [i \in 1..program.adts[adt].params |-> Unit] \o <<>>))
      IN  Bounded(all) /\ ~Reoccurs(all)

(* The answer kept for a type, whichever was asked about first, is whether     *)
(* expanding it meets finitely many types (LayoutFiniteness).                  *)
FinitenessIsExact ==
  \A d \in DOMAIN checked : checked[d] <=> Bounded(InstantiationsOf(Declared(d)))

(* A type is laid out without complaint exactly when unfolding it ends: it     *)
(* never meets the same instantiation again and never grows                    *)
(* (adt_representation, unsupported_recursive_layout).                         *)
LayoutsEnd ==
  \A l \in laid : (l.faults = {}) <=>
    LET all == InstantiationsOf(l.ty) IN Bounded(all) /\ ~Reoccurs(all) /\ \A t \in all : program.adts[t[2]].ctors # <<>>
===============================================================================
