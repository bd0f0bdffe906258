----------------------------- MODULE InferTable -----------------------------
(* The unification table of one inference: what the rest of inference does to  *)
(* it is unify two types and instantiate a scheme, whose equality predicates   *)
(* are unified on the way.  The equations tried are kept beside the table so   *)
(* that the bindings can be compared with what the equations mean.             *)
EXTENDS Unification

CONSTANTS
  InitialVars,   \* variables allocated before the first equation
  Terms,         \* the types an equation may relate
  Schemes,       \* [binders, ty, eqs]: a scheme and its equality predicates
  GroundTypes,   \* ground types that solutions are looked for among
  MaxEquations,  \* bound on the equations tried
  MaxVars        \* bound on the variables allocated

VARIABLES
  table,         \* the bindings
  accepted,      \* the equations that have been accepted
  refused        \* the equations that have been refused, each with the reason
                 \* and the equations accepted before it

vars == <<table, accepted, refused>>

RECURSIVE Fresh(_, _)
Fresh(tb, n) == IF n = 0 THEN tb ELSE Fresh(FreshVid(tb), n - 1)

Init ==
  /\ \E keep \in {"first", "second"} : table = Fresh(EmptyTable(keep), InitialVars)
  /\ accepted = {}
  /\ refused = {}

(* The outcome of a sequence of equations, each a transaction of its own.      *)
RECURSIVE Try(_, _)
Try(s, eqs) ==
  IF eqs = <<>> THEN s
  ELSE LET eq == Head(eqs)
           res == Unify(s.table, eq[1], eq[2])
       IN  Try(IF res.ok THEN [s EXCEPT !.table = res.table, !.accepted = @ \cup {eq}]
               ELSE [s EXCEPT !.table = res.table, !.refused = @ \cup {<<eq, res.why, s.accepted>>}],
               Tail(eqs))

Apply(tb, eqs) ==
  \E s \in {Try([table |-> tb, accepted |-> accepted, refused |-> refused], eqs)} :
    /\ table' = s.table
    /\ accepted' = s.accepted
    /\ refused' = s.refused

Room == Cardinality(accepted) + Cardinality(refused) < MaxEquations

UnifyTypes ==
  /\ Room
  /\ \E l \in Terms, r \in Terms : Apply(table, <<<<l, r>>>>)

(* The type with fresh variables for its binders; a binder the scheme does not *)
(* have is an error, and each unknown becomes a variable of its own, numbered  *)
(* from next on in the order they are met.                                     *)
RECURSIVE Unknowns(_)
Unknowns(t) ==
  LET in[i \in 0 .. Len(Parts(t))] == IF i = 0 THEN 0 ELSE in[i - 1] + Unknowns(Parts(t)[i])
  IN  IF Kind(t) = "unknown" THEN 1 ELSE in[Len(Parts(t))]

RECURSIVE InstantiateTy(_, _, _)
InstantiateTy(t, fresh, next) ==
  LET before[i \in 1 .. Len(Parts(t))] == IF i = 1 THEN next ELSE before[i - 1] + Unknowns(Parts(t)[i - 1])
  IN  CASE Kind(t) = "bound" -> IF t[2] < Len(fresh) THEN fresh[t[2] + 1] ELSE Error
        [] Kind(t) = "unknown" -> Var(next)
        [] OTHER -> <<t[1], t[2], [i \in DOMAIN Parts(t) |-> InstantiateTy(Parts(t)[i], fresh, before[i])] \o <<>>>>

(* The body first and then the predicates; the body's type is not needed here. *)
InstantiateScheme ==
  /\ Room
  /\ \E s \in Schemes :
       LET n == Len(table.root)
           fresh == [i \in 1 .. s.binders |-> Var(n + i)]
           k0 == n + s.binders + Unknowns(s.ty) + 1
           kl[i \in 1 .. Len(s.eqs) + 1] ==
             IF i = 1 THEN k0 ELSE kl[i - 1] + Unknowns(s.eqs[i - 1][1]) + Unknowns(s.eqs[i - 1][2])
           eqs == [i \in DOMAIN s.eqs |->
                     <<InstantiateTy(s.eqs[i][1], fresh, kl[i]),
                       InstantiateTy(s.eqs[i][2], fresh, kl[i] + Unknowns(s.eqs[i][1]))>>] \o <<>>
       IN  /\ kl[Len(s.eqs) + 1] - 1 <= MaxVars
           /\ Apply(Fresh(table, kl[Len(s.eqs) + 1] - 1 - n), eqs)

Next == UnifyTypes \/ InstantiateScheme

Spec == Init /\ [][Next]_vars

-------------------------------------------------------------------------------
(* What the equations mean, apart from any table: types without comptime and   *)
(* with tuples as products, where an error agrees with everything.             *)

RECURSIVE Meaning(_)
Meaning(t) ==
  CASE Kind(t) = "comptime" -> Meaning(Parts(t)[1])
    [] Kind(t) = "tuple" -> Meaning(product_infer_ty(Parts(t)))
    [] OTHER -> <<t[1], t[2], [i \in DOMAIN Parts(t) |-> Meaning(Parts(t)[i])] \o <<>>>>

RECURSIVE Agree(_, _)
Agree(l, r) ==
  \/ {Kind(l), Kind(r)} \cap {"error", "unknown"} # {}
  \/ /\ Kind(l) = Kind(r) /\ l[2] = r[2] /\ Len(Parts(l)) = Len(Parts(r))
     /\ \A i \in DOMAIN Parts(l) : Agree(Parts(l)[i], Parts(r)[i])

RECURSIVE Under(_, _)
Under(sigma, t) ==
  IF IsVar(t) THEN sigma[t[2]]
  ELSE <<t[1], t[2], [i \in DOMAIN Parts(t) |-> Under(sigma, Parts(t)[i])] \o <<>>>>

Solves(sigma, eqs) == \A eq \in eqs : Agree(Meaning(Under(sigma, eq[1])), Meaning(Under(sigma, eq[2])))
Solutions(eqs) == {sigma \in [Vids(table) -> GroundTypes] : Solves(sigma, eqs)}

Mentions(v) == {table.root[w] : w \in VarsOf(table.value[v])}
RECURSIVE ReachVars(_)
ReachVars(vs) == LET more == vs \cup UNION {Mentions(v) : v \in vs}
                 IN  IF more = vs THEN vs ELSE ReachVars(more)

-------------------------------------------------------------------------------
(* A root is its own root, only roots are bound, and what they are bound to    *)
(* mentions allocated variables only (InferTable.table).                       *)
TypeOK ==
  /\ Len(table.value) = Len(table.root)
  /\ \A v \in Vids(table) : table.root[v] \in Roots(table)
  /\ \A v \in Vids(table) \ Roots(table) : table.value[v] = NoValue
  /\ \A v \in Vids(table) : VarsOf(table.value[v]) \subseteq Vids(table)

(* However the equations came, no variable is bound, through however many      *)
(* others, to a type that contains it: the occurs check sees through unions    *)
(* and earlier bindings, and every walk over a type ends.                      *)
NoInfiniteTypes == \A v \in Roots(table) : v \notin ReachVars(Mentions(v))

(* An accepted equation stays solved: later equations, refused ones included,  *)
(* never pull the two types apart again.                                       *)
AcceptedStaySolved ==
  \A eq \in accepted : Agree(Meaning(Resolve(table, eq[1])), Meaning(Resolve(table, eq[2])))

(* The table commits to nothing the accepted equations do not force: each of   *)
(* their ground solutions is a solution of the bindings, so an attempt that    *)
(* was rolled back has left nothing behind.                                    *)
NothingIsGuessed ==
  \A sigma \in Solutions(accepted) :
    \A v \in Vids(table) :
      /\ Agree(Meaning(sigma[v]), Meaning(sigma[table.root[v]]))
      /\ table.value[v] # NoValue => Agree(Meaning(sigma[v]), Meaning(Under(sigma, table.value[v])))

(* An equation is refused only when no ground types solve it along with those  *)
(* accepted before; the one exception is a variable equated with itself under  *)
(* comptime, which the occurs check counts as an infinite type.                *)
RefusalsAreJust ==
  \A r \in refused :
    \/ r[2][1] = "occurs" /\ r[2][3] # Var(r[2][2]) /\ Meaning(r[2][3]) = Var(r[2][2])
    \/ Solutions(r[3] \cup {r[1]}) = {}
=============================================================================
