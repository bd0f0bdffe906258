-------------------------- MODULE InstanceSoundness --------------------------
(* The checks a module's instances and derivations pass before the trait       *)
(* solver may rely on them: no two heads overlap, weak arguments follow from   *)
(* the main type, conditions are smaller than heads, methods have the types    *)
(* the class promises.  The module is walked in source order; what was seen    *)
(* before is what a head is compared with.                                     *)
EXTENDS TypeMatch

CONSTANTS Programs,   \* the modules checked, with what they import
          Classes,    \* user classes: [binders, head, methods]
          Ground,     \* the closed types the checks' promises are held against
          None        \* an absent return type or arity

(* program: [broken, imported, importedDerives, instances, derives, pragmas].  *)
(* An instance is [head, binders, conditions, default, methods, alias]; a      *)
(* method [name, vars, params, ret, preds, typed], its types over the binders  *)
(* of its instance or class and then its own.                                  *)
VARIABLES program, prior, at, diags, phase
vars == <<program, prior, at, diags, phase>>

StringTy == Named("string", <<>>)
StdString == Named("std.string", <<>>)
IsErrorPred(pred) == pred.class = "error"
Diagnostic(kind, place) == [kind |-> kind, place |-> place]

-------------------------------------------------------------------------------
(* Derived instances: one clause per data type parameter and derivable class.  *)

ClassArity(class) ==
  CASE class = "Invokable" -> 2
    [] class \in {"Int", "Str"} -> 0
    [] class \in DOMAIN Classes -> Len(Classes[class].head.args)
    [] OTHER -> None

UserClassSupportsDeriving(class) == ClassArity(class) = 0

DerivedClassPlan(derive) ==
  [head |-> InClass(derive.class, Named(derive.adt, [i \in 1..derive.params |-> Bound(i - 1)] \o <<>>), <<>>),
   conditions |-> [i \in 1..derive.params |-> InClass(derive.class, Bound(i - 1), <<>>)] \o <<>>]
HasPlan(derive) == UserClassSupportsDeriving(derive.class) /\ ~derive.captures
DerivedClassPlans(derives) ==
  LET planned(d) == HasPlan(d)
      chosen == SelectSeq(derives, planned)
  IN  [i \in DOMAIN chosen |-> DerivedClassPlan(chosen[i])] \o <<>>

(* A class of more parameters is reported before a captured type variable.     *)
ClassDerivationDiagnostics(derives) ==
  {Diagnostic("InvalidDerive", <<"derive", i>>) : i \in
     {j \in DOMAIN derives : ClassArity(derives[j].class) # 0 \/ derives[j].captures}}

-------------------------------------------------------------------------------
(* What a head is compared with before any local instance is seen.             *)

ImportedNonDefaultHeads(p) ==
  {p.imported[i].head : i \in {j \in DOMAIN p.imported : ~p.imported[j].default /\ ~IsErrorPred(p.imported[j].head)}}
  \cup {DerivedClassPlans(p.importedDerives)[i].head : i \in DOMAIN DerivedClassPlans(p.importedDerives)}

BuiltinStrHeads == {InClass("Str", t, <<>>) : t \in {StringTy, StdString, Named("memory", <<StdString>>)}}

(* A pragma without names switches a check off for every class.                *)
Disables(p, name, class) ==
  \E i \in DOMAIN p.pragmas : p.pragmas[i].name = name /\ (p.pragmas[i].classes = {} \/ class \in p.pragmas[i].classes)

Init ==
  /\ program \in Programs /\ prior = {} /\ at = 0 /\ diags = {} /\ phase = "start"

(* A module with parse or resolution errors, or with nothing to check, is not  *)
(* looked at.                                                                  *)
Skip ==
  /\ phase = "start"
  /\ program.broken \/ (program.instances = <<>> /\ program.derives = <<>>)
  /\ phase' = "derivations"
  /\ UNCHANGED <<program, prior, at, diags>>

Begin ==
  /\ phase = "start"
  /\ ~program.broken /\ (program.instances # <<>> \/ program.derives # <<>>)
  /\ prior' = ImportedNonDefaultHeads(program) \cup BuiltinStrHeads
  /\ phase' = "instances" /\ at' = 1
  /\ UNCHANGED <<program, diags>>

-------------------------------------------------------------------------------
(* Overlap: the mains unify once the variables of one side are renamed.        *)

\* Mutant: both heads share one numbering of variables.
HeadsOverlapAsWritten(lhs, rhs) == Unify(lhs.main, rhs.main, NoBindings, PredVars(lhs) \cup PredVars(rhs)).ok

InstanceHeadsOverlap(lhs, rhs) ==
  LET offset == NextVar(PredVars(lhs))
      apart == RenamePred(rhs, [v \in PredVars(rhs) |-> v + offset])
  IN  Unify(lhs.main, apart.main, NoBindings, PredVars(lhs) \cup PredVars(apart)).ok

OverlapsPrior(head) == \E other \in prior : other.class = head.class /\ InstanceHeadsOverlap(head, other)

-------------------------------------------------------------------------------
(* Methods: the class's signature at the instance's head.                      *)

RECURSIVE BindTyVars(_, _, _)
RECURSIVE BindAllVars(_, _, _)
BindTyVars(pattern, value, s) ==
  IF IsComptime(pattern) THEN BindTyVars(Parts(pattern)[1], IF IsComptime(value) THEN Parts(value)[1] ELSE value, s)
  ELSE IF IsComptime(value) THEN BindTyVars(pattern, Parts(value)[1], s)
  ELSE IF IsBound(pattern)
  THEN IF Binds(s, pattern[2]) THEN IF TyEqual(s[pattern[2]], value) THEN Ok(s) ELSE Failed
       ELSE Ok((pattern[2] :> value) @@ s)
  ELSE IF Kind(pattern) = Kind(value) /\ pattern[2] = value[2] /\ Len(Parts(pattern)) = Len(Parts(value))
  THEN BindAllVars(Parts(pattern), Parts(value), s)
  ELSE Failed
BindAllVars(ps, vs, s) ==
  IF ps = <<>> THEN Ok(s)
  ELSE LET first == BindTyVars(Head(ps), Head(vs), s)
       IN  IF first.ok THEN BindAllVars(Tail(ps), Tail(vs), first.s) ELSE Failed

BindClassHeadVars(classHead, head) ==
  IF classHead.class = head.class /\ Len(classHead.args) = Len(head.args)
  THEN BindAllVars(TypesOf(classHead), TypesOf(head), NoBindings) ELSE Failed

RECURSIVE SubstituteBoundVars(_, _)
SubstituteBoundVars(t, s) ==
  IF IsBound(t) THEN IF Binds(s, t[2]) THEN s[t[2]] ELSE t
  ELSE LET F(part) == SubstituteBoundVars(part, s) IN MapParts(t, F)

SignatureTy(method, ret) == Function(method.params, ret)
ReturnOf(fn) == Parts(fn)[Len(Parts(fn))]

(* The method's own variables follow those of the instance, not of the class.  *)
ExpectedTy(class, method, instance, s) ==
  LET own == [v \in {class.binders + k : k \in 0..(method.vars - 1)} |-> Bound(instance.binders + (v - class.binders))]
  IN  SubstituteBoundVars(SignatureTy(method, method.ret), own @@ s)
ActualTy(method, expected) ==
  SignatureTy(method, IF method.ret = None THEN ReturnOf(expected) ELSE method.ret)

(* A predicate is determined when its variables are reached from the type      *)
(* through predicates that share one.                                          *)
RECURSIVE ReachableVars(_, _)
ReachableVars(preds, reached) ==
  LET more == reached \cup UNION {PredVars(preds[i]) : i \in {j \in DOMAIN preds : PredVars(preds[j]) \cap reached # {}}}
  IN  IF more = reached THEN reached ELSE ReachableVars(preds, more)
SchemeIsAmbiguous(preds, ty) ==
  \E i \in DOMAIN preds : ~(PredVars(preds[i]) \subseteq ReachableVars(preds, TyVars(ty)))

MethodNames(methods) == {methods[i].name : i \in DOMAIN methods}
MethodNamed(methods, name) == methods[CHOOSE i \in DOMAIN methods : methods[i].name = name /\ \A j \in 1..(i - 1) : methods[j].name # name]

MethodSignatureFaults(class, method, instance, own) ==
  IF ~method.typed \/ method.ret = None \/ ~own.typed THEN {"InvalidMethodSignature"}
  ELSE LET bound == BindClassHeadVars(class.head, instance.head)
       IN  IF ~bound.ok THEN {}
           ELSE LET expected == ExpectedTy(class, method, instance, bound.s)
                    actual == ActualTy(own, expected)
                IN  (IF SchemeIsAmbiguous(own.preds, actual) THEN {"AmbiguousType"} ELSE {})
                    \cup (IF TyEqual(expected, actual) THEN {} ELSE {"InvalidMethodSignature"})

NameFaults(methods, required) ==
  (IF MethodNames(methods) \subseteq required THEN {} ELSE {"UnknownMethod"})
  \cup (IF required \subseteq MethodNames(methods) THEN {} ELSE {"IncompleteInstance"})

IsSourceString(t) == LET inner == IF IsComptime(t) THEN Parts(t)[1] ELSE t IN inner \in {StringTy, StdString}

(* The built-in class Str has one method: fromString, from text to the main.   *)
StrMethodFaults(instance) ==
  LET own == MethodNamed(instance.methods, "fromString")
      actual == ActualTy(own, Function(<<StringTy>>, instance.head.main))
      fits == own.typed /\ Len(own.params) = 1 /\ IsSourceString(own.params[1]) /\ TyEqual(instance.head.main, ReturnOf(actual))
  IN  NameFaults(instance.methods, {"fromString"})
      \cup IF "fromString" \notin MethodNames(instance.methods) THEN {}
           ELSE (IF fits THEN {} ELSE {"InvalidMethodSignature"})
                \cup (IF own.typed /\ SchemeIsAmbiguous(own.preds, actual) THEN {"AmbiguousType"} ELSE {})

InstanceMethodFaults(instance) ==
  LET name == instance.head.class
      class == Classes[name]
      required == MethodNames(class.methods)
  IN  CASE name = "Str" -> StrMethodFaults(instance)
        [] name \in DOMAIN Classes ->
             NameFaults(instance.methods, required)
             \cup UNION {MethodSignatureFaults(class, MethodNamed(class.methods, m), instance, MethodNamed(instance.methods, m)) :
                           m \in required \cap MethodNames(instance.methods)}
        [] OTHER -> {}

-------------------------------------------------------------------------------
(* The three conditions on the shape of an instance.                           *)

ArgVars(pred) == UNION {TyVars(pred.args[i]) : i \in DOMAIN pred.args}

CoverageCondition(head) == ArgVars(head) \subseteq TyVars(head.main)

PattersonCondition(head, conditions) == \A i \in DOMAIN conditions : Measure(conditions[i]) < Measure(head)
BoundedVariableCondition(head, conditions) == \A i \in DOMAIN conditions : PredVars(conditions[i]) \subseteq PredVars(head)

ShapeFaults(instance) ==
  LET off(name) == Disables(program, name, instance.head.class)
  IN  (IF off("no-coverage-condition") \/ CoverageCondition(instance.head) THEN {} ELSE {"CoverageCondition"})
      \cup (IF off("no-patterson-condition") \/ PattersonCondition(instance.head, instance.conditions) THEN {}
            ELSE {"PattersonCondition"})
      \cup (IF off("no-bounded-variable-condition") \/ BoundedVariableCondition(instance.head, instance.conditions) THEN {}
            ELSE {"BoundedVariableCondition"})

ArityFaults(pred) ==
  IF ClassArity(pred.class) = None \/ ClassArity(pred.class) = Len(pred.args) THEN {} ELSE {"ClassArity"}

(* A default instance must leave something open in its main type.              *)
DefaultFaults(instance) ==
  IF instance.default /\ TyVars(instance.head.main) = {} THEN {"InvalidDefault"} ELSE {}

InstanceFaults(instance) ==
  (IF instance.alias THEN {"AliasError"} ELSE {})
  \cup IF IsErrorPred(instance.head) THEN {}
       ELSE ArityFaults(instance.head)
            \cup UNION {ArityFaults(instance.conditions[i]) : i \in DOMAIN instance.conditions}
            \cup DefaultFaults(instance)
            \cup (IF ~instance.default /\ OverlapsPrior(instance.head) THEN {"OverlappingInstance"} ELSE {})
            \cup InstanceMethodFaults(instance)
            \cup ShapeFaults(instance)

CheckInstance ==
  /\ phase = "instances" /\ at \in DOMAIN program.instances
  /\ LET instance == program.instances[at]
     IN  /\ diags' = diags \cup {Diagnostic(kind, <<"instance", at>>) : kind \in InstanceFaults(instance)}
         /\ prior' = IF instance.default \/ IsErrorPred(instance.head) THEN prior ELSE prior \cup {instance.head}
  /\ at' = at + 1
  /\ UNCHANGED <<program, phase>>

InstancesDone ==
  /\ phase = "instances" /\ at \notin DOMAIN program.instances
  /\ phase' = "derived" /\ at' = 1
  /\ UNCHANGED <<program, prior, diags>>

CheckDerived ==
  /\ phase = "derived"
  /\ at \in DOMAIN DerivedClassPlans(program.derives)
  /\ LET head == DerivedClassPlans(program.derives)[at].head
     IN  /\ diags' = diags \cup (IF OverlapsPrior(head) THEN {Diagnostic("OverlappingInstance", <<"plan", at>>)} ELSE {})
         /\ prior' = prior \cup {head}
  /\ at' = at + 1
  /\ UNCHANGED <<program, phase>>

DerivedDone ==
  /\ phase = "derived" /\ at \notin DOMAIN DerivedClassPlans(program.derives)
  /\ phase' = "derivations"
  /\ UNCHANGED <<program, prior, at, diags>>

(* Derivations that have no clause are reported whatever the rest of the       *)
(* module looked like.                                                         *)
CheckDerivations ==
  /\ phase = "derivations"
  /\ diags' = diags \cup ClassDerivationDiagnostics(program.derives)
  /\ phase' = "done"
  /\ UNCHANGED <<program, prior, at>>

Next == Skip \/ Begin \/ CheckInstance \/ InstancesDone \/ CheckDerived \/ DerivedDone \/ CheckDerivations

Spec == Init /\ [][Next]_vars

-------------------------------------------------------------------------------
(* The reference: closed types, wrappers and the spellings of unit removed.    *)
Done == phase = "done" /\ ~program.broken

RECURSIVE Canon(_)
Canon(t) == IF IsComptime(t) THEN Canon(Parts(t)[1])
            ELSE IF IsUnit(t) THEN Tuple(<<>>) ELSE LET F(part) == Canon(part) IN MapParts(t, F)
Close(t, g) == Canon(SubstituteBoundVars(t, g))
GroundMains(pred) == {Close(pred.main, g) : g \in [TyVars(pred.main) -> Ground]}
ClosePred(pred, g) == LET F(t) == Close(t, g) IN MapPred(pred, F)

Faults(i) == {d.kind : d \in {e \in diags : e.place = <<"instance", i>>}}
Comparable(instance) == ~instance.default /\ ~IsErrorPred(instance.head)
Before(i) == {program.imported[j].head : j \in {k \in DOMAIN program.imported : Comparable(program.imported[k])}}
             \cup {DerivedClassPlan(program.importedDerives[j]).head : j \in DOMAIN program.importedDerives}
             \cup BuiltinStrHeads
             \cup {program.instances[j].head : j \in {k \in 1..(i - 1) : Comparable(program.instances[k])}}
Clashes(head, heads) == \E h \in heads : h.class = head.class /\ GroundMains(h) \cap GroundMains(head) # {}

(* One fixed vocabulary of diagnostics, and places that exist.                 *)
TypeOK ==
  /\ phase \in {"start", "instances", "derived", "derivations", "done"}
  /\ at \in 0..3
  /\ \A d \in diags : d.place[2] \in 1..2
  /\ \A h \in prior : ~IsErrorPred(h)

(* An overlap is reported exactly when some closed type is an instance of both *)
(* mains, whatever their variables are numbered and whatever else is wrong     *)
(* with the earlier instance (instance_heads_overlap, prior_heads).            *)
OverlapIsExact ==
  Done => /\ \A i \in DOMAIN program.instances :
               Comparable(program.instances[i]) =>
                 (("OverlappingInstance" \in Faults(i)) <=> Clashes(program.instances[i].head, Before(i)))
          /\ LET plans == DerivedClassPlans(program.derives)
             IN  \A i \in DOMAIN plans :
                   (Diagnostic("OverlappingInstance", <<"plan", i>>) \in diags) <=>
                     Clashes(plans[i].head, Before(Len(program.instances) + 1) \cup {plans[j].head : j \in 1..(i - 1)})

(* In a module without faults the main type of a closed goal determines the    *)
(* clause and its weak arguments: two answers never compete                    *)
(* (check_overlapping_instance with check_coverage_condition).                 *)
MainDeterminesArguments ==
  (Done /\ diags = {} /\ \A c \in {"C", "D", "E"} : ~Disables(program, "no-coverage-condition", c)) =>
    \A i, j \in {k \in DOMAIN program.instances : Comparable(program.instances[k])} :
      LET a == program.instances[i].head
          b == program.instances[j].head
      IN  a.class = b.class =>
            \A g \in [PredVars(a) -> Ground], h \in [PredVars(b) -> Ground] :
              Close(a.main, g) = Close(b.main, h) => i = j /\ ClosePred(a, g) = ClosePred(b, h)

RECURSIVE Occurrences(_, _)
RECURSIVE OccurrencesIn(_, _)
OccurrencesIn(v, ts) == IF ts = <<>> THEN 0 ELSE Occurrences(v, Head(ts)) + OccurrencesIn(v, Tail(ts))
Occurrences(v, t) == IF IsBound(t) THEN IF t[2] = v THEN 1 ELSE 0 ELSE OccurrencesIn(v, Parts(t))
Linear(condition, head) == \A v \in PredVars(condition) : OccurrencesIn(v, TypesOf(condition)) <= OccurrencesIn(v, TypesOf(head))

(* A closed goal leads to closed, strictly smaller goals through an accepted   *)
(* instance, as long as its condition repeats no variable more often than the  *)
(* head does (check_patterson_condition, check_bounded_variable_condition).    *)
ConditionsShrink ==
  Done => \A i \in DOMAIN program.instances :
    LET instance == program.instances[i]
        name == instance.head.class
    IN  (Faults(i) = {} /\ ~IsErrorPred(instance.head) /\ ~Disables(program, "no-patterson-condition", name)
           /\ ~Disables(program, "no-bounded-variable-condition", name)) =>
        \A k \in DOMAIN instance.conditions :
          LET condition == instance.conditions[k]
          IN  (PredVars(condition) \subseteq PredVars(instance.head)) /\
              (Linear(condition, instance.head) =>
                \A g \in [PredVars(instance.head) -> Ground] :
                  Measure(ClosePred(condition, g)) < Measure(ClosePred(instance.head, g)))

ClosedClassMethod(class, head, method, own) ==
  LET at0 == [v \in 0..(class.binders - 1) |-> TypesOf(head)[v + 1]]
      its == [v \in {class.binders + k : k \in DOMAIN own} |-> own[v - class.binders]]
  IN  Close(SignatureTy(method, method.ret), its @@ at0)

(* A method of an accepted instance has, at every closed instance of the head  *)
(* and every choice of its own type arguments, the type the class promises     *)
(* there: a call through the class is a call of that method                    *)
(* (check_instance_method_signature, check_builtin_str_method_signature).      *)
MethodsFit ==
  Done => \A i \in DOMAIN program.instances :
    LET instance == program.instances[i]
        name == instance.head.class
    IN  /\ (Faults(i) = {} /\ name \in DOMAIN Classes) =>
             \A k \in DOMAIN Classes[name].methods :
               LET method == Classes[name].methods[k]
                   own == MethodNamed(instance.methods, method.name)
               IN  \A g \in [0..(instance.binders - 1) -> Ground], h \in [0..(method.vars - 1) -> Ground] :
                     LET its == [v \in {instance.binders + n : n \in DOMAIN h} |-> h[v - instance.binders]]
                         promised == ClosedClassMethod(Classes[name], ClosePred(instance.head, g), method, h)
                         given == Close(SignatureTy(own, IF own.ret = None THEN Tuple(<<>>) ELSE own.ret), its @@ g)
                     IN  IF own.ret = None THEN SubSeq(Parts(promised), 1, Len(Parts(promised)) - 1)
                                                  = SubSeq(Parts(given), 1, Len(Parts(given)) - 1)
                         ELSE promised = given
        /\ (Faults(i) = {} /\ name = "Str") =>
             LET own == MethodNamed(instance.methods, "fromString")
             IN  own.params[1] \in {StringTy, StdString} /\ own.ret \in {None, instance.head.main}

(* A derivation yields a clause of the class's own arity or it is reported:    *)
(* none is dropped in silence and none makes a goal no class can pose          *)
(* (derived_class_plans_with_resolutions, class_derivation_diagnostics).       *)
DerivesAreAccounted ==
  phase = "done" =>
    /\ \A i \in DOMAIN program.derives :
         HasPlan(program.derives[i]) <=> Diagnostic("InvalidDerive", <<"derive", i>>) \notin diags
    /\ \A i \in DOMAIN DerivedClassPlans(program.derives) :
         LET plan == DerivedClassPlans(program.derives)[i]
         IN  Len(plan.head.args) = Len(Classes[plan.head.class].head.args)
===============================================================================
