----------------------------- MODULE Unification -----------------------------
(* The types of inference and the algorithms on them: resolving through the    *)
(* bindings, the occurs check, unification and the instantiation of a scheme.  *)
(* A type is <<kind, name, parts>>; the parts of a function type are its       *)
(* parameters and then its result.                                             *)
EXTENDS Naturals, Sequences, FiniteSets

(* A value under a name.                                                       *)
With(value, Body(_)) == Body(value)

Error == <<"error", 0, <<>>>>
Unknown == <<"unknown", 0, <<>>>>
Var(v) == <<"var", v, <<>>>>
BoundVar(i) == <<"bound", i, <<>>>>
Named(ctor, args) == <<"named", ctor, args>>
Function(params, ret) == <<"function", Len(params), Append(params, ret)>>
Tuple(elems) == <<"tuple", Len(elems), elems>>
Comptime(inner) == <<"comptime", 0, <<inner>>>>

Kind(t) == t[1]
Parts(t) == t[3]
IsVar(t) == Kind(t) = "var"
UnitTy == Named("unit", <<>>)

(* A tuple is the right-nested product of its elements.                        *)
RECURSIVE product_infer_ty(_)
product_infer_ty(elems) ==
  CASE elems = <<>> -> UnitTy
    [] Len(elems) = 1 -> elems[1]
    [] OTHER -> Named("pair", <<elems[1], product_infer_ty(Tail(elems))>>)

-------------------------------------------------------------------------------
(* The table: every variable's root and, at a root, what it is bound to.  Which*)
(* of two roots survives a union is the library's choice (by rank); keep says  *)
(* which one it is here.                                                       *)

NoValue == <<"none", 0, <<>>>>

EmptyTable(keep) == [root |-> <<>>, value |-> <<>>, keep |-> keep]
Vids(tb) == DOMAIN tb.root
Roots(tb) == {v \in Vids(tb) : tb.root[v] = v}

FreshVid(tb) ==
  [tb EXCEPT !.root = Append(@, Len(@) + 1), !.value = Append(@, NoValue)]

Union(tb, a, b) ==
  LET new == IF tb.keep = "first" THEN a ELSE b
      old == IF tb.keep = "first" THEN b ELSE a
  IN  [tb EXCEPT !.root = [v \in DOMAIN @ |-> IF @[v] = old THEN new ELSE @[v]] \o <<>>]

UnionValue(tb, v, t) == [tb EXCEPT !.value[v] = t]

RECURSIVE Resolve(_, _)
Resolve(tb, t) ==
  IF IsVar(t)
  THEN LET root == tb.root[t[2]]
       IN  IF tb.value[root] = NoValue THEN Var(root) ELSE Resolve(tb, tb.value[root])
  ELSE <<t[1], t[2], [i \in DOMAIN Parts(t) |-> Resolve(tb, Parts(t)[i])] \o <<>>>>

RECURSIVE VarsOf(_)
VarsOf(t) == IF IsVar(t) THEN {t[2]} ELSE UNION {VarsOf(Parts(t)[i]) : i \in DOMAIN Parts(t)}

(* The variables a type still leaves open.                                     *)
CollectInferVars(tb, t) == VarsOf(Resolve(tb, t))

RECURSIVE ContainsError(_)
ContainsError(t) == Kind(t) = "error" \/ \E i \in DOMAIN Parts(t) : ContainsError(Parts(t)[i])

-------------------------------------------------------------------------------
Done(tb) == [ok |-> TRUE, why |-> <<"none", 0, NoValue>>, table |-> tb]
Fail(tb, why) == [ok |-> FALSE, why |-> why, table |-> tb]

\* Mutant: the occurs check looks no further than the parts of the type.
OccursInParts(tb, v, t) == \E i \in DOMAIN Parts(t) : Parts(t)[i] = Var(v)

Occurs(tb, v, t) == v \in CollectInferVars(tb, t)

(* A variable that reaches this point is unbound, so a value it already has    *)
(* needs no second look.                                                       *)
BindVar(tb, v, t) ==
  LET root == tb.root[v] IN
  With(Resolve(tb, t), LAMBDA ty :
    CASE ty = Var(root) -> Done(tb)
      [] Occurs(tb, root, ty) -> Fail(tb, <<"occurs", root, ty>>)
      [] IsVar(ty) -> Done(Union(tb, root, ty[2]))
      [] OTHER -> Done(UnionValue(tb, root, ty)))

(* The first alternative that fits decides, and the first pair that fails ends *)
(* the attempt with the bindings made so far.                                  *)
RECURSIVE UnifyInner(_, _, _), UnifyEach(_, _, _)
UnifyInner(tb, expected, actual) ==
  With(Resolve(tb, expected), LAMBDA l :
  With(Resolve(tb, actual), LAMBDA r :
  LET kinds == {Kind(l), Kind(r)} IN
    CASE kinds \cap {"error", "unknown"} # {} -> Done(tb)
      [] IsVar(l) -> BindVar(tb, l[2], r)
      [] IsVar(r) -> BindVar(tb, r[2], l)
      [] Kind(l) = "tuple" -> UnifyInner(tb, product_infer_ty(Parts(l)), r)
      [] Kind(r) = "tuple" -> UnifyInner(tb, l, product_infer_ty(Parts(r)))
      [] Kind(l) = Kind(r) /\ l[2] = r[2] /\ Len(Parts(l)) = Len(Parts(r)) -> UnifyEach(tb, Parts(l), Parts(r))
      [] Kind(l) = "comptime" -> UnifyInner(tb, Parts(l)[1], r)
      [] Kind(r) = "comptime" -> UnifyInner(tb, l, Parts(r)[1])
      [] OTHER -> Fail(tb, <<"mismatch", 0, NoValue>>)))
UnifyEach(tb, ls, rs) ==
  IF ls = <<>> THEN Done(tb)
  ELSE With(UnifyInner(tb, Head(ls), Head(rs)), LAMBDA head :
         IF head.ok THEN UnifyEach(head.table, Tail(ls), Tail(rs)) ELSE head)

(* All or nothing: a failed attempt is rolled back.                            *)
Unify(tb, expected, actual) ==
  With(UnifyInner(tb, expected, actual), LAMBDA attempt :
    IF attempt.ok THEN attempt ELSE [attempt EXCEPT !.table = tb])
=============================================================================
