------------------------- MODULE WorldStateProofs -------------------------
(***************************************************************************)
(* Proofs about WorldState: that every state of the server is consistent,  *)
(* that no folder, scan or disk event touches a buffer, and that paths are *)
(* stable while the roots are.                                             *)
(*                                                                         *)
(* MappingsInverse and CompilerSeesDocuments are not inductive alone: two  *)
(* documents must never be given one virtual path, and nothing in the      *)
(* maps says where a document may be given one later.  The invariant Good  *)
(* adds that (InPlace): a file is where the present roots put it, or where *)
(* some earlier roots detached it while it was open; any other document    *)
(* has a number already used.  Apart shows that places so described are    *)
(* never shared, so that the operations that place documents - one at a    *)
(* time (AddFacts), all real ones at once (ReplaceFacts) or a folder at a  *)
(* time (LoadFacts) - store each under a path of its own.                  *)
(*                                                                         *)
(* The handlers compose operations on worlds, so the lemmas are about      *)
(* operations and any world.  Between a close and what follows it the      *)
(* closed document may still be detached: that is the second parameter of  *)
(* Good.  Between a change of the roots and the choice of a new entry      *)
(* there is no entry to speak of: that is Settled.                         *)
(***************************************************************************)
EXTENDS WorldState, FiniteSetTheorems, WellFoundedInduction, TLAPS

-----------------------------------------------------------------------------
(* Numbers and sequences. *)

\* A set of naturals that is not empty has a least member.
LEMMA LeastMember ==
    ASSUME NEW T \in SUBSET Nat, T # {}
    PROVE  \E n \in T : \A m \in T : n <= m
  <1>1. IsWellFoundedOn(OpToRel(<, Nat), Nat)
    BY NatLessThanWellFounded
  <1>2. PICK n \in T : \A m \in T : ~(<<m, n>> \in OpToRel(<, Nat))
    BY <1>1, WFMin
  <1>3. \A m \in T : ~(m < n)
    BY <1>2 DEF OpToRel
  <1> QED
    BY <1>3

\* What the assumption says of one URI.
LEMMA UriFacts ==
    ASSUME NEW u \in Uris
    PROVE  /\ u.path \in Seq(STRING) /\ u.path # << >>
           /\ Len(u.path) \in Nat /\ Len(u.path) >= 1
           /\ u.path[Len(u.path)] \in STRING
           /\ u.scheme \in {"file", "untitled"}
  <1>1. u \in [scheme : {"file", "untitled"}, path : Seq(STRING), enc : {"server", "client"}]
    BY UrisAssumption
  <1>2. u.path \in Seq(STRING) /\ u.scheme \in {"file", "untitled"} /\ u.path # << >>
    BY <1>1, UrisAssumption
  <1> DEFINE p == u.path
  <1>3. p \in Seq(STRING) /\ p # << >>
    BY <1>2
  <1> HIDE DEF p
  <1>4. Len(p) \in Nat /\ Len(p) >= 1 /\ p[Len(p)] \in STRING
    BY <1>3
  <1> QED
    BY <1>2, <1>4 DEF p

\* A sequence is its beginning and the rest.
LEMMA SplitFacts ==
    ASSUME NEW a \in Seq(STRING), NEW b \in Seq(STRING), NEW n \in Nat,
           n <= Len(a), n <= Len(b),
           SubSeq(a, 1, n) = SubSeq(b, 1, n),
           SubSeq(a, n + 1, Len(a)) = SubSeq(b, n + 1, Len(b))
    PROVE  a = b
  <1> DEFINE s == SubSeq(a, 1, n)
             t == SubSeq(b, 1, n)
             x == SubSeq(a, n + 1, Len(a))
             y == SubSeq(b, n + 1, Len(b))
  <1>1. Len(a) \in Nat /\ Len(b) \in Nat
    OBVIOUS
  <1>2. Len(x) = Len(a) - n /\ Len(y) = Len(b) - n
    BY <1>1
  <1>3. Len(a) = Len(b)
    BY <1>1, <1>2
  <1>4. \A i \in 1 .. n : s[i] = a[i] /\ t[i] = b[i]
    BY <1>1
  <1>5. \A i \in 1 .. Len(a) - n : x[i] = a[n + i] /\ y[i] = b[n + i]
    <2> SUFFICES ASSUME NEW i \in 1 .. Len(a) - n PROVE x[i] = a[n + i] /\ y[i] = b[n + i]
      OBVIOUS
    <2>1. x[i] = a[(n + 1) + i - 1] /\ y[i] = b[(n + 1) + i - 1]
      BY <1>1, <1>3
    <2>2. (n + 1) + i - 1 = n + i
      OBVIOUS
    <2> QED
      BY <2>1, <2>2
  <1>6. ASSUME NEW i \in 1 .. Len(a) PROVE a[i] = b[i]
    <2>1. CASE i <= n
      <3>1. i \in 1 .. n
        BY <2>1
      <3>2. s = t
        OBVIOUS
      <3> HIDE DEF s, t
      <3> QED
        BY <1>4, <3>1, <3>2
    <2>2. CASE ~(i <= n)
      <3> DEFINE j == i - n
      <3>1. j \in 1 .. Len(a) - n /\ n + j = i
        BY <2>2, <1>1
      <3>2. x = y
        OBVIOUS
      <3> HIDE DEF j, x, y
      <3>3. x[j] = a[n + j] /\ y[j] = b[n + j]
        BY <1>5, <3>1
      <3> QED
        BY <3>1, <3>2, <3>3
    <2> QED
      BY <2>1, <2>2
  <1> QED
    BY <1>1, <1>3, <1>6

-----------------------------------------------------------------------------
(* Where documents may be. *)

\* Roots are sequences of segments.
LEMMA RootsAreSequences ==
    ASSUME NEW root \in Roots
    PROVE  root \in Seq(STRING) /\ Len(root) \in Nat
  <1>1. ASSUME NEW u \in Files PROVE Folder(u) \in Seq(STRING)
    <2> DEFINE p == u.path
    <2>1. p \in Seq(STRING) /\ Len(p) \in Nat /\ Len(p) >= 1
      BY UriFacts DEF Files
    <2> HIDE DEF p
    <2>2. SubSeq(p, 1, Len(p) - 1) \in Seq(STRING)
      BY <2>1
    <2> QED
      BY <2>2 DEF Folder, p
  <1>2. root \in Seq(STRING)
    BY <1>1, FoldersAssumption DEF Roots
  <1> QED
    BY <1>2

\* Files below a root are told apart by what follows it.
LEMMA BelowEqual ==
    ASSUME NEW u \in Uris, NEW v \in Uris, NEW root \in Roots,
           IsBelow(u, root), IsBelow(v, root), Relative(u, root) = Relative(v, root)
    PROVE  u.path = v.path
  <1> DEFINE a == u.path
             b == v.path
             n == Len(root)
  <1>1. a \in Seq(STRING) /\ b \in Seq(STRING) /\ Len(a) \in Nat /\ Len(b) \in Nat
    BY UriFacts
  <1>2. n \in Nat
    BY RootsAreSequences
  <1>3. n < Len(a) /\ n < Len(b) /\ SubSeq(a, 1, n) = SubSeq(b, 1, n)
        /\ SubSeq(a, n + 1, Len(a)) = SubSeq(b, n + 1, Len(b))
    BY DEF IsBelow, Relative
  <1> HIDE DEF a, b, n
  <1>4. n <= Len(a) /\ n <= Len(b)
    BY <1>1, <1>2, <1>3
  <1>5. a = b
    BY <1>1, <1>2, <1>3, <1>4, SplitFacts
  <1> QED
    BY <1>5 DEF a, b

\* A file below some root is below the innermost one.
LEMMA InnermostFacts ==
    ASSUME NEW u \in Uris, NEW roots \in SUBSET Roots, IsBelowAny(u, roots)
    PROVE  InnermostRoot(u, roots) \in roots /\ IsBelow(u, InnermostRoot(u, roots))
  <1> DEFINE over == {root \in roots : IsBelow(u, root)}
             n == Len(u.path)
             T == {m \in Nat : \E root \in over : m = n - Len(root)}
  <1>1. n \in Nat /\ \A root \in over : Len(root) \in Nat /\ Len(root) < n
    BY UriFacts, RootsAreSequences DEF IsBelow
  <1>2. T \in SUBSET Nat /\ T # {}
    <2>1. PICK root \in over : TRUE
      BY DEF IsBelowAny
    <2>2. n - Len(root) \in Nat
      BY <1>1
    <2> QED
      BY <2>1, <2>2
  <1>3. PICK m \in T : \A k \in T : m <= k
    <2> HIDE DEF T
    <2> QED
      BY <1>2, LeastMember
  <1>4. PICK root \in over : m = n - Len(root)
    OBVIOUS
  <1>5. \A other \in over : Len(other) <= Len(root)
    <2> SUFFICES ASSUME NEW other \in over PROVE Len(other) <= Len(root)
      OBVIOUS
    <2> DEFINE k == n - Len(other)
    <2>1. Len(other) \in Nat /\ Len(other) < n /\ Len(root) \in Nat /\ Len(root) < n
      BY <1>1
    <2>2. k \in Nat
      BY <1>1, <2>1
    <2>3. m <= k
      BY <1>3, <2>2
    <2> HIDE DEF n
    <2> QED
      BY <1>1, <1>4, <2>1, <2>3
  <1>6. \E r \in roots : IsBelow(u, r) /\ \A other \in roots : IsBelow(u, other) => Len(other) <= Len(r)
    BY <1>5
  <1> QED
    BY <1>6 DEF InnermostRoot

\* The fields of a virtual path.
LEMMA VPathFields ==
    ASSUME NEW area, NEW ns, NEW rel, NEW id
    PROVE  /\ VPath(area, ns, rel, id).area = area /\ VPath(area, ns, rel, id).ns = ns
           /\ VPath(area, ns, rel, id).rel = rel /\ VPath(area, ns, rel, id).id = id
  BY DEF VPath

\* The virtual paths there are.
LEMMA VPathsMembers ==
    ASSUME NEW u \in Uris
    PROVE  /\ \A root \in Roots : IsBelow(u, root) =>
                /\ VPath("main", << >>, Relative(u, root), 0) \in VPaths
                /\ VPath("workspace", root, Relative(u, root), 0) \in VPaths
                /\ VPath("detached", root, Relative(u, root), 0) \in VPaths
           /\ VPath("detached", u.path, <<u.path[Len(u.path)]>>, 0) \in VPaths
           /\ UriToVfsPath(u) # None => UriToVfsPath(u) \in VPaths
           /\ \A id \in 0 .. MaxVirtual : VPath("virtual", << >>, << >>, id) \in VPaths
           /\ None \notin VPaths
  <1> DEFINE below == {pair \in Uris \X Roots : IsBelow(pair[1], pair[2])}
  <1>1. ASSUME NEW root \in Roots, IsBelow(u, root)
        PROVE  /\ VPath("main", << >>, Relative(u, root), 0) \in VPaths
               /\ VPath("workspace", root, Relative(u, root), 0) \in VPaths
               /\ VPath("detached", root, Relative(u, root), 0) \in VPaths
    <2> DEFINE pair == <<u, root>>
    <2>1. pair \in below /\ pair[1] = u /\ pair[2] = root
      BY <1>1
    <2> HIDE DEF pair, below
    <2>2. /\ VPath("main", << >>, Relative(pair[1], pair[2]), 0) \in
               {VPath("main", << >>, Relative(p[1], p[2]), 0) : p \in below}
          /\ VPath("workspace", pair[2], Relative(pair[1], pair[2]), 0) \in
               {VPath("workspace", p[2], Relative(p[1], p[2]), 0) : p \in below}
          /\ VPath("detached", pair[2], Relative(pair[1], pair[2]), 0) \in
               {VPath("detached", p[2], Relative(p[1], p[2]), 0) : p \in below}
      BY <2>1
    <2> QED
      BY <2>1, <2>2 DEF VPaths, below
  <1>2. VPath("detached", u.path, <<u.path[Len(u.path)]>>, 0) \in VPaths
    BY DEF VPaths
  <1>3. UriToVfsPath(u) # None => UriToVfsPath(u) \in VPaths
    BY DEF VPaths
  <1>4. \A id \in 0 .. MaxVirtual : VPath("virtual", << >>, << >>, id) \in VPaths
    BY DEF VPaths
  <1> QED
    BY <1>1, <1>2, <1>3, <1>4, NoneAssumption

\* What a change of the URI scheme gives.
LEMMA UriToVfsPathFacts ==
    ASSUME NEW u \in Uris, UriToVfsPath(u) # None
    PROVE  /\ u \in Files /\ UriToVfsPath(u) \in VPaths
           /\ UriToVfsPath(u) = VPath("main", << >>, Tail(u.path), 0)
           /\ Len(u.path) > 1 /\ u.path[1] = "main"
  BY VPathsMembers DEF UriToVfsPath, Files

\* Two files of /main are told apart by what follows it.
LEMMA MainEqual ==
    ASSUME NEW u \in Uris, NEW v \in Uris, UriToVfsPath(u) # None,
           UriToVfsPath(u) = UriToVfsPath(v)
    PROVE  u = v
  <1>1. /\ u \in Files /\ v \in Files /\ Len(u.path) > 1 /\ Len(v.path) > 1
        /\ u.path[1] = "main" /\ v.path[1] = "main"
        /\ UriToVfsPath(u) = VPath("main", << >>, Tail(u.path), 0)
        /\ UriToVfsPath(v) = VPath("main", << >>, Tail(v.path), 0)
    BY UriToVfsPathFacts
  <1>2. Tail(u.path) = Tail(v.path)
    <2> DEFINE x == Tail(u.path)
               y == Tail(v.path)
    <2>1. VPath("main", << >>, x, 0) = VPath("main", << >>, y, 0)
      BY <1>1
    <2> HIDE DEF x, y
    <2>2. x = y
      BY <2>1, VPathFields
    <2> QED
      BY <2>2 DEF x, y
  <1>3. u.path = v.path
    <2> DEFINE a == u.path
               b == v.path
    <2>1. a \in Seq(STRING) /\ b \in Seq(STRING) /\ a # << >> /\ b # << >> /\ a[1] = b[1] /\ Tail(a) = Tail(b)
      BY <1>1, <1>2, UriFacts
    <2> HIDE DEF a, b
    <2>2. Len(a) = Len(b)
      <3> DEFINE s == Tail(a)
                 t == Tail(b)
      <3>1. Len(s) = Len(a) - 1 /\ Len(t) = Len(b) - 1 /\ Len(a) \in Nat /\ Len(b) \in Nat
        BY <2>1
      <3>2. s = t
        BY <2>1
      <3> HIDE DEF s, t
      <3> QED
        BY <3>1, <3>2
    <2>3. ASSUME NEW i \in 1 .. Len(a) PROVE a[i] = b[i]
      <3>1. CASE i = 1
        BY <2>1, <3>1
      <3>2. CASE i # 1
        <4> DEFINE j == i - 1
                   s == Tail(a)
                   t == Tail(b)
        <4>0. Len(a) \in Nat
          BY <2>1
        <4>1. j \in 1 .. Len(a) - 1 /\ j + 1 = i
          BY <3>2, <4>0
        <4>2. \A k \in 1 .. Len(a) - 1 : s[k] = a[k + 1]
          BY <2>1
        <4>3. \A k \in 1 .. Len(b) - 1 : t[k] = b[k + 1]
          BY <2>1
        <4>4. s = t
          BY <2>1
        <4> HIDE DEF j, s, t
        <4> QED
          BY <2>2, <4>1, <4>2, <4>3, <4>4
      <3> QED
        BY <3>1, <3>2
    <2>4. a = b
      BY <2>1, <2>2, <2>3
    <2> QED
      BY <2>4 DEF a, b
  <1> QED
    BY <1>1, <1>3, PathsAssumption

\* Where the roots of a world and the URI put a document; where it may have
\* been put when it was detached; and both.
Placed(w, u) == FirstOf(WorkspaceRelativeVfsPath(w, u), UriToVfsPath(u))
DetachedHome(u, p) ==
    \/ \E root \in Roots : IsBelow(u, root) /\ p = VPath("detached", root, Relative(u, root), 0)
    \/ p = VPath("detached", u.path, <<u.path[Len(u.path)]>>, 0)
Home(w, u, p) == p # None /\ (p = Placed(w, u) \/ DetachedHome(u, p))

HasRoots(w) == w.workspace_roots \in SUBSET Roots /\ IsFiniteSet(w.workspace_roots)

\* Where the roots put a document.
LEMMA RelativeFacts ==
    ASSUME NEW w, HasRoots(w), NEW u \in Uris,
           WorkspaceRelativeVfsPath(w, u) # None
    PROVE  LET p == WorkspaceRelativeVfsPath(w, u)
           IN  /\ u \in Files /\ p \in VPaths
               /\ \E root \in w.workspace_roots :
                     /\ IsBelow(u, root)
                     /\ \/ p = VPath("workspace", root, Relative(u, root), 0)
                        \/ /\ p = VPath("main", << >>, Relative(u, root), 0)
                           /\ w.workspace_roots = {root}
  <1> DEFINE p == WorkspaceRelativeVfsPath(w, u)
             root == InnermostRoot(u, w.workspace_roots)
  <1>1. IsBelowAny(u, w.workspace_roots)
    BY DEF WorkspaceRelativeVfsPath
  <1>2. root \in w.workspace_roots /\ root \in Roots /\ IsBelow(u, root)
    BY <1>1, InnermostFacts DEF HasRoots
  <1>3. u \in Files
    BY <1>2 DEF IsBelow, Files
  <1>4. \/ p = VPath("workspace", root, Relative(u, root), 0)
        \/ /\ p = VPath("main", << >>, Relative(u, root), 0)
           /\ Cardinality(w.workspace_roots) = 1
    BY <1>1 DEF WorkspaceRelativeVfsPath
  <1>5. ASSUME Cardinality(w.workspace_roots) = 1 PROVE w.workspace_roots = {root}
    <2> DEFINE S == w.workspace_roots
    <2>1. IsFiniteSet(S) /\ Cardinality(S) = 1 /\ root \in S
      BY <1>2, <1>5 DEF HasRoots
    <2> HIDE DEF S, root
    <2>2. \E x : S = {x}
      BY <2>1, FS_Singleton
    <2> QED
      BY <2>1, <2>2 DEF S
  <1>6. p \in VPaths
    BY <1>2, <1>4, VPathsMembers
  <1> HIDE DEF root, p
  <1> QED
    BY <1>2, <1>3, <1>4, <1>5, <1>6 DEF p

\* No two files are ever put in one place.
LEMMA Apart ==
    ASSUME NEW w, HasRoots(w), NEW u \in Uris, NEW v \in Uris, u \in Files, v \in Files,
           NEW p, Home(w, u, p), Home(w, v, p)
    PROVE  u = v
  <1>1. SUFFICES u.path = v.path
    BY PathsAssumption
  <1>2. \A x \in Uris : x \in Files /\ p = Placed(w, x) =>
            \/ UriToVfsPath(x) # None /\ p = UriToVfsPath(x)
            \/ \E root \in w.workspace_roots : IsBelow(x, root)
                  /\ \/ p = VPath("workspace", root, Relative(x, root), 0)
                     \/ p = VPath("main", << >>, Relative(x, root), 0) /\ w.workspace_roots = {root}
    <2> SUFFICES ASSUME NEW x \in Uris, x \in Files, p = Placed(w, x)
                 PROVE  \/ UriToVfsPath(x) # None /\ p = UriToVfsPath(x)
                        \/ \E root \in w.workspace_roots : IsBelow(x, root)
                              /\ \/ p = VPath("workspace", root, Relative(x, root), 0)
                                 \/ p = VPath("main", << >>, Relative(x, root), 0) /\ w.workspace_roots = {root}
      OBVIOUS
    <2>1. CASE WorkspaceRelativeVfsPath(w, x) # None
      BY <2>1, RelativeFacts DEF Placed, FirstOf
    <2>2. CASE WorkspaceRelativeVfsPath(w, x) = None
      BY <2>2 DEF Placed, FirstOf, Home
    <2> QED
      BY <2>1, <2>2
  <1>3. \A x \in Uris : UriToVfsPath(x) # None =>
            UriToVfsPath(x) = VPath("main", << >>, Tail(x.path), 0)
    BY UriToVfsPathFacts
  <1>4. p.area \in {"main", "workspace", "detached"}
    BY <1>2, <1>3, VPathFields DEF Home, DetachedHome
  <1>5. CASE p.area = "detached"
    <2>1. DetachedHome(u, p) /\ DetachedHome(v, p)
      BY <1>2, <1>3, <1>5, VPathFields DEF Home
    <2>2. CASE p.ns \in Roots
      <3>1. p.ns # u.path /\ p.ns # v.path
        BY <2>2, PathsAssumption
      <3>2. /\ IsBelow(u, p.ns) /\ p.rel = Relative(u, p.ns)
            /\ IsBelow(v, p.ns) /\ p.rel = Relative(v, p.ns)
        BY <2>1, <3>1, VPathFields DEF DetachedHome
      <3> QED
        BY <2>2, <3>2, BelowEqual
    <2>3. CASE p.ns \notin Roots
      BY <2>1, <2>3, VPathFields DEF DetachedHome
    <2> QED
      BY <2>2, <2>3
  <1>6. CASE p.area = "workspace"
    <2>1. /\ p.ns \in Roots
          /\ IsBelow(u, p.ns) /\ p.rel = Relative(u, p.ns)
          /\ IsBelow(v, p.ns) /\ p.rel = Relative(v, p.ns)
      BY <1>2, <1>3, <1>6, VPathFields DEF Home, DetachedHome, HasRoots
    <2> QED
      BY <2>1, BelowEqual
  <1>7. CASE p.area = "main"
    <2> DEFINE Sole(x) == \E root \in w.workspace_roots :
                  /\ IsBelow(x, root) /\ p = VPath("main", << >>, Relative(x, root), 0)
                  /\ w.workspace_roots = {root}
               Own(x) == UriToVfsPath(x) # None /\ p = UriToVfsPath(x)
    <2>1. (Sole(u) \/ Own(u)) /\ (Sole(v) \/ Own(v))
      BY <1>2, <1>7, VPathFields DEF Home, DetachedHome
    <2>2. CASE Sole(u) /\ Sole(v)
      <3>1. PICK root \in w.workspace_roots :
                /\ IsBelow(u, root) /\ p = VPath("main", << >>, Relative(u, root), 0)
                /\ IsBelow(v, root) /\ p = VPath("main", << >>, Relative(v, root), 0)
        BY <2>2
      <3>2. Relative(u, root) = Relative(v, root) /\ root \in Roots
        BY <3>1, VPathFields DEF HasRoots
      <3> QED
        BY <3>1, <3>2, BelowEqual
    <2>3. CASE Own(u) /\ Own(v)
      BY <2>3, MainEqual
    <2>4. CASE Sole(u) /\ Own(v)
      BY <2>4, PathsAssumption DEF HasRoots
    <2>5. CASE Own(u) /\ Sole(v)
      BY <2>5, PathsAssumption DEF HasRoots
    <2> QED
      BY <2>1, <2>2, <2>3, <2>4, <2>5
  <1> QED
    BY <1>4, <1>5, <1>6, <1>7

\* The places of a file are virtual paths, but none of those of other documents.
LEMMA HomeFacts ==
    ASSUME NEW w, HasRoots(w), NEW u \in Uris, NEW p, Home(w, u, p), u \in Files
    PROVE  p \in VPaths /\ p.area # "virtual"
  <1>1. CASE p = Placed(w, u)
    <2>1. CASE WorkspaceRelativeVfsPath(w, u) # None
      BY <1>1, <2>1, RelativeFacts, VPathFields DEF Placed, FirstOf
    <2>2. CASE WorkspaceRelativeVfsPath(w, u) = None
      <3>1. p = UriToVfsPath(u) /\ UriToVfsPath(u) # None
        BY <1>1, <2>2 DEF Placed, FirstOf, Home
      <3> QED
        BY <3>1, UriToVfsPathFacts, VPathFields
    <2> QED
      BY <2>1, <2>2
  <1>2. CASE DetachedHome(u, p)
    BY <1>2, VPathsMembers, VPathFields DEF DetachedHome
  <1> QED
    BY <1>1, <1>2 DEF Home

\* A document that is no file is put nowhere by the roots.
LEMMA NoFileFacts ==
    ASSUME NEW w, HasRoots(w), NEW u \in Uris, u \notin Files
    PROVE  Placed(w, u) = None /\ WorkspaceRelativeVfsPath(w, u) = None
  BY RelativeFacts, UriToVfsPathFacts DEF Placed, FirstOf

-----------------------------------------------------------------------------
(* Worlds. *)

\* A world has the fields of a WorldState.
IsWorld(w) ==
    w = [documents |-> w.documents, open_documents |-> w.open_documents,
         client_to_vfs |-> w.client_to_vfs, vfs_to_client |-> w.vfs_to_client,
         workspace_roots |-> w.workspace_roots, workspace_namespaced |-> w.workspace_namespaced,
         next_virtual_document_id |-> w.next_virtual_document_id,
         entry_uri |-> w.entry_uri, files |-> w.files, entry_path |-> w.entry_path]

Typed(w) ==
    /\ IsWorld(w)
    /\ w.documents \in [Uris -> Texts \cup {None}]
    /\ w.open_documents \in SUBSET Uris
    /\ w.client_to_vfs \in [Uris -> VPaths \cup {None}]
    /\ w.vfs_to_client \in [VPaths -> Uris \cup {None}]
    /\ HasRoots(w)
    /\ w.workspace_namespaced \in BOOLEAN
    /\ w.next_virtual_document_id \in 0 .. MaxVirtual
    /\ w.entry_uri \in Uris \cup {None}
    /\ w.files \in [VPaths -> Texts \cup {None}]
    /\ w.entry_path \in VPaths \cup {None}

Known(w) == {u \in Uris : w.client_to_vfs[u] # None}

\* The conjuncts of MappingsInverse and CompilerSeesDocuments for any world.
Mapped(w) ==
    /\ \A u \in Uris : w.documents[u] # None <=> w.client_to_vfs[u] # None
    /\ \A u \in Uris : w.client_to_vfs[u] # None => w.vfs_to_client[w.client_to_vfs[u]] = u
    /\ \A p \in VPaths : w.vfs_to_client[p] # None => w.client_to_vfs[w.vfs_to_client[p]] = p

Seen(w) ==
    \A p \in VPaths :
        w.files[p] = IF w.vfs_to_client[p] = None THEN None
                     ELSE w.documents[w.vfs_to_client[p]]

\* Open documents are known, and one of them is the entry.
Entered(w) ==
    /\ w.open_documents \subseteq Known(w)
    /\ w.entry_uri = None <=> w.open_documents = {}
    /\ w.entry_uri # None => /\ w.entry_uri \in w.open_documents
                             /\ w.entry_path = w.client_to_vfs[w.entry_uri]

\* A file is where the roots put it, or was detached while open (or is among
\* the ones about to be forgotten); any other document has a number used up.
InPlace(w, u, leaving) ==
    IF u \in Files
    THEN \/ w.client_to_vfs[u] = Placed(w, u)
         \/ DetachedHome(u, w.client_to_vfs[u]) /\ u \in w.open_documents \cup leaving
    ELSE \E id \in Nat : /\ id < w.next_virtual_document_id
                         /\ w.client_to_vfs[u] = VPath("virtual", << >>, << >>, id)

Good(w, leaving) ==
    /\ Typed(w) /\ Mapped(w) /\ Seen(w) /\ Entered(w)
    /\ \A u \in Known(w) : InPlace(w, u, leaving)

\* All fields but some are the same.
Same(w, m, fields) ==
    /\ IsWorld(m)
    /\ "documents" \in fields \/ m.documents = w.documents
    /\ "open_documents" \in fields \/ m.open_documents = w.open_documents
    /\ "client_to_vfs" \in fields \/ m.client_to_vfs = w.client_to_vfs
    /\ "vfs_to_client" \in fields \/ m.vfs_to_client = w.vfs_to_client
    /\ "workspace_roots" \in fields \/ m.workspace_roots = w.workspace_roots
    /\ "workspace_namespaced" \in fields \/ m.workspace_namespaced = w.workspace_namespaced
    /\ "next_virtual_document_id" \in fields \/ m.next_virtual_document_id = w.next_virtual_document_id
    /\ "entry_uri" \in fields \/ m.entry_uri = w.entry_uri
    /\ "files" \in fields \/ m.files = w.files
    /\ "entry_path" \in fields \/ m.entry_path = w.entry_path

\* What an update of one field does.
OneField(w, m, x) ==
    /\ m = [w EXCEPT !.documents = x] => Same(w, m, {"documents"}) /\ m.documents = x
    /\ m = [w EXCEPT !.open_documents = x] => Same(w, m, {"open_documents"}) /\ m.open_documents = x
    /\ m = [w EXCEPT !.client_to_vfs = x] => Same(w, m, {"client_to_vfs"}) /\ m.client_to_vfs = x
    /\ m = [w EXCEPT !.vfs_to_client = x] => Same(w, m, {"vfs_to_client"}) /\ m.vfs_to_client = x
    /\ m = [w EXCEPT !.workspace_roots = x] => Same(w, m, {"workspace_roots"}) /\ m.workspace_roots = x
    /\ m = [w EXCEPT !.workspace_namespaced = x] => Same(w, m, {"workspace_namespaced"}) /\ m.workspace_namespaced = x
    /\ m = [w EXCEPT !.next_virtual_document_id = x] => Same(w, m, {"next_virtual_document_id"}) /\ m.next_virtual_document_id = x
    /\ m = [w EXCEPT !.entry_uri = x] => Same(w, m, {"entry_uri"}) /\ m.entry_uri = x
    /\ m = [w EXCEPT !.files = x] => Same(w, m, {"files"}) /\ m.files = x
    /\ m = [w EXCEPT !.entry_path = x] => Same(w, m, {"entry_path"}) /\ m.entry_path = x

\* It changes that field and no other.
LEMMA FieldFacts ==
    ASSUME NEW w, IsWorld(w), NEW x, NEW m
    PROVE  OneField(w, m, x)
  <1>1. m = [w EXCEPT !.documents = x] => Same(w, m, {"documents"}) /\ m.documents = x
    BY DEF IsWorld, Same
  <1>2. m = [w EXCEPT !.open_documents = x] => Same(w, m, {"open_documents"}) /\ m.open_documents = x
    BY DEF IsWorld, Same
  <1>3. m = [w EXCEPT !.client_to_vfs = x] => Same(w, m, {"client_to_vfs"}) /\ m.client_to_vfs = x
    BY DEF IsWorld, Same
  <1>4. m = [w EXCEPT !.vfs_to_client = x] => Same(w, m, {"vfs_to_client"}) /\ m.vfs_to_client = x
    BY DEF IsWorld, Same
  <1>5. m = [w EXCEPT !.workspace_roots = x] => Same(w, m, {"workspace_roots"}) /\ m.workspace_roots = x
    BY DEF IsWorld, Same
  <1>6. m = [w EXCEPT !.workspace_namespaced = x] => Same(w, m, {"workspace_namespaced"}) /\ m.workspace_namespaced = x
    BY DEF IsWorld, Same
  <1>7. m = [w EXCEPT !.next_virtual_document_id = x] => Same(w, m, {"next_virtual_document_id"}) /\ m.next_virtual_document_id = x
    BY DEF IsWorld, Same
  <1>8. m = [w EXCEPT !.entry_uri = x] => Same(w, m, {"entry_uri"}) /\ m.entry_uri = x
    BY DEF IsWorld, Same
  <1>9. m = [w EXCEPT !.files = x] => Same(w, m, {"files"}) /\ m.files = x
    BY DEF IsWorld, Same
  <1>10. m = [w EXCEPT !.entry_path = x] => Same(w, m, {"entry_path"}) /\ m.entry_path = x
    BY DEF IsWorld, Same
  <1> QED
    BY <1>1, <1>2, <1>3, <1>4, <1>5, <1>6, <1>7, <1>8, <1>9, <1>10, Zenon DEF OneField

\* Other roots.
LEMMA RootsField ==
    ASSUME NEW w, IsWorld(w), NEW r, NEW m,
           m = [w EXCEPT !.workspace_roots = r]
    PROVE  /\ IsWorld(m)
           /\ m.documents = w.documents
           /\ m.open_documents = w.open_documents
           /\ m.client_to_vfs = w.client_to_vfs
           /\ m.vfs_to_client = w.vfs_to_client
           /\ m.workspace_roots = r
           /\ m.workspace_namespaced = w.workspace_namespaced
           /\ m.next_virtual_document_id = w.next_virtual_document_id
           /\ m.entry_uri = w.entry_uri
           /\ m.files = w.files
           /\ m.entry_path = w.entry_path
  BY DEF IsWorld

\* A document is mapped.
WithMapping(w, u, p, i) ==
    [w EXCEPT !.client_to_vfs[u] = p, !.vfs_to_client[p] = u, !.next_virtual_document_id = i]

\* It has a path, and the path it.
IsMapped(w, m, u, p, i) ==
    /\ IsWorld(m)
    /\ m.documents = w.documents
    /\ m.open_documents = w.open_documents
    /\ m.client_to_vfs = [w.client_to_vfs EXCEPT ![u] = p]
    /\ m.vfs_to_client = [w.vfs_to_client EXCEPT ![p] = u]
    /\ m.workspace_roots = w.workspace_roots
    /\ m.workspace_namespaced = w.workspace_namespaced
    /\ m.next_virtual_document_id = i
    /\ m.entry_uri = w.entry_uri
    /\ m.files = w.files
    /\ m.entry_path = w.entry_path

\* The fields then.
LEMMA MappingFields ==
    ASSUME NEW w, IsWorld(w), NEW u, NEW p, NEW i, NEW m,
           m = WithMapping(w, u, p, i)
    PROVE  IsMapped(w, m, u, p, i)
  <1> DEFINE x1 == [w.client_to_vfs EXCEPT ![u] = p]
             x2 == [w.vfs_to_client EXCEPT ![p] = u]
             w1 == [w EXCEPT !.client_to_vfs = x1]
             w2 == [w1 EXCEPT !.vfs_to_client = x2]
             w3 == [w2 EXCEPT !.next_virtual_document_id = i]
  <1>0. m = w3
    BY DEF WithMapping
  <1> HIDE DEF x1, x2
  <1>a1. w1 = [w EXCEPT !.client_to_vfs = x1]
    OBVIOUS
  <1> HIDE DEF w1
  <1>1. Same(w, w1, {"client_to_vfs"}) /\ w1.client_to_vfs = x1 /\ IsWorld(w1)
    BY <1>a1, FieldFacts DEF Same, OneField
  <1>a2. w2 = [w1 EXCEPT !.vfs_to_client = x2]
    OBVIOUS
  <1> HIDE DEF w2
  <1>2. Same(w1, w2, {"vfs_to_client"}) /\ w2.vfs_to_client = x2 /\ IsWorld(w2)
    BY <1>a2, <1>1, FieldFacts DEF Same, OneField
  <1>a3. w3 = [w2 EXCEPT !.next_virtual_document_id = i]
    OBVIOUS
  <1> HIDE DEF w3
  <1>3. Same(w2, w3, {"next_virtual_document_id"}) /\ w3.next_virtual_document_id = i /\ IsWorld(w3)
    BY <1>a3, <1>2, FieldFacts DEF Same, OneField
  <1> QED
    BY <1>0, <1>1, <1>2, <1>3 DEF Same, x1, x2, IsMapped

\* A document gets a text.
WithText(w, u, p, text) ==
    [w EXCEPT !.files[p] = text, !.documents[u] = text]

\* It has the text, and so has its path.
HasText(w, m, u, p, text) ==
    /\ IsWorld(m)
    /\ m.documents = [w.documents EXCEPT ![u] = text]
    /\ m.open_documents = w.open_documents
    /\ m.client_to_vfs = w.client_to_vfs
    /\ m.vfs_to_client = w.vfs_to_client
    /\ m.workspace_roots = w.workspace_roots
    /\ m.workspace_namespaced = w.workspace_namespaced
    /\ m.next_virtual_document_id = w.next_virtual_document_id
    /\ m.entry_uri = w.entry_uri
    /\ m.files = [w.files EXCEPT ![p] = text]
    /\ m.entry_path = w.entry_path

\* The fields then.
LEMMA TextFields ==
    ASSUME NEW w, IsWorld(w), NEW u, NEW p, NEW text, NEW m,
           m = WithText(w, u, p, text)
    PROVE  HasText(w, m, u, p, text)
  <1> DEFINE x1 == [w.files EXCEPT ![p] = text]
             x2 == [w.documents EXCEPT ![u] = text]
             w1 == [w EXCEPT !.files = x1]
             w2 == [w1 EXCEPT !.documents = x2]
  <1>0. m = w2
    BY DEF WithText
  <1> HIDE DEF x1, x2
  <1>a1. w1 = [w EXCEPT !.files = x1]
    OBVIOUS
  <1> HIDE DEF w1
  <1>1. Same(w, w1, {"files"}) /\ w1.files = x1 /\ IsWorld(w1)
    BY <1>a1, FieldFacts DEF Same, OneField
  <1>a2. w2 = [w1 EXCEPT !.documents = x2]
    OBVIOUS
  <1> HIDE DEF w2
  <1>2. Same(w1, w2, {"documents"}) /\ w2.documents = x2 /\ IsWorld(w2)
    BY <1>a2, <1>1, FieldFacts DEF Same, OneField
  <1> QED
    BY <1>0, <1>1, <1>2 DEF Same, x1, x2, HasText

\* A document is forgotten.
Without(w, u, p) ==
    [w EXCEPT !.client_to_vfs[u] = None, !.vfs_to_client[p] = None, !.documents[u] = None, !.files[p] = None]

\* Nothing is left of it.
Lacks(w, m, u, p) ==
    /\ IsWorld(m)
    /\ m.documents = [w.documents EXCEPT ![u] = None]
    /\ m.open_documents = w.open_documents
    /\ m.client_to_vfs = [w.client_to_vfs EXCEPT ![u] = None]
    /\ m.vfs_to_client = [w.vfs_to_client EXCEPT ![p] = None]
    /\ m.workspace_roots = w.workspace_roots
    /\ m.workspace_namespaced = w.workspace_namespaced
    /\ m.next_virtual_document_id = w.next_virtual_document_id
    /\ m.entry_uri = w.entry_uri
    /\ m.files = [w.files EXCEPT ![p] = None]
    /\ m.entry_path = w.entry_path

\* The fields then.
LEMMA ForgetFields ==
    ASSUME NEW w, IsWorld(w), NEW u, NEW p, NEW m,
           m = Without(w, u, p)
    PROVE  Lacks(w, m, u, p)
  <1> DEFINE x1 == [w.client_to_vfs EXCEPT ![u] = None]
             x2 == [w.vfs_to_client EXCEPT ![p] = None]
             x3 == [w.documents EXCEPT ![u] = None]
             x4 == [w.files EXCEPT ![p] = None]
             w1 == [w EXCEPT !.client_to_vfs = x1]
             w2 == [w1 EXCEPT !.vfs_to_client = x2]
             w3 == [w2 EXCEPT !.documents = x3]
             w4 == [w3 EXCEPT !.files = x4]
  <1>0. m = w4
    BY DEF Without
  <1> HIDE DEF x1, x2, x3, x4
  <1>a1. w1 = [w EXCEPT !.client_to_vfs = x1]
    OBVIOUS
  <1> HIDE DEF w1
  <1>1. Same(w, w1, {"client_to_vfs"}) /\ w1.client_to_vfs = x1 /\ IsWorld(w1)
    BY <1>a1, FieldFacts DEF Same, OneField
  <1>a2. w2 = [w1 EXCEPT !.vfs_to_client = x2]
    OBVIOUS
  <1> HIDE DEF w2
  <1>2. Same(w1, w2, {"vfs_to_client"}) /\ w2.vfs_to_client = x2 /\ IsWorld(w2)
    BY <1>a2, <1>1, FieldFacts DEF Same, OneField
  <1>a3. w3 = [w2 EXCEPT !.documents = x3]
    OBVIOUS
  <1> HIDE DEF w3
  <1>3. Same(w2, w3, {"documents"}) /\ w3.documents = x3 /\ IsWorld(w3)
    BY <1>a3, <1>2, FieldFacts DEF Same, OneField
  <1>a4. w4 = [w3 EXCEPT !.files = x4]
    OBVIOUS
  <1> HIDE DEF w4
  <1>4. Same(w3, w4, {"files"}) /\ w4.files = x4 /\ IsWorld(w4)
    BY <1>a4, <1>3, FieldFacts DEF Same, OneField
  <1> QED
    BY <1>0, <1>1, <1>2, <1>3, <1>4 DEF Same, x1, x2, x3, x4, Lacks

\* Another entry.
WithEntry(w, u, p) ==
    [w EXCEPT !.entry_uri = u, !.entry_path = p]

\* The fields then.
LEMMA EntryFields ==
    ASSUME NEW w, IsWorld(w), NEW u, NEW p, NEW m,
           m = WithEntry(w, u, p)
    PROVE  /\ IsWorld(m)
           /\ m.documents = w.documents
           /\ m.open_documents = w.open_documents
           /\ m.client_to_vfs = w.client_to_vfs
           /\ m.vfs_to_client = w.vfs_to_client
           /\ m.workspace_roots = w.workspace_roots
           /\ m.workspace_namespaced = w.workspace_namespaced
           /\ m.next_virtual_document_id = w.next_virtual_document_id
           /\ m.entry_uri = u
           /\ m.files = w.files
           /\ m.entry_path = p
  <1> DEFINE w1 == [w EXCEPT !.entry_uri = u]
             w2 == [w1 EXCEPT !.entry_path = p]
  <1>0. m = w2
    BY DEF WithEntry
  <1>a1. w1 = [w EXCEPT !.entry_uri = u]
    OBVIOUS
  <1> HIDE DEF w1
  <1>1. Same(w, w1, {"entry_uri"}) /\ w1.entry_uri = u /\ IsWorld(w1)
    BY <1>a1, FieldFacts DEF Same, OneField
  <1>a2. w2 = [w1 EXCEPT !.entry_path = p]
    OBVIOUS
  <1> HIDE DEF w2
  <1>2. Same(w1, w2, {"entry_path"}) /\ w2.entry_path = p /\ IsWorld(w2)
    BY <1>a2, <1>1, FieldFacts DEF Same, OneField
  <1> QED
    BY <1>0, <1>1, <1>2 DEF Same

\* Other open documents.
LEMMA OpenField ==
    ASSUME NEW w, IsWorld(w), NEW S, NEW m,
           m = [w EXCEPT !.open_documents = S]
    PROVE  /\ IsWorld(m)
           /\ m.documents = w.documents
           /\ m.open_documents = S
           /\ m.client_to_vfs = w.client_to_vfs
           /\ m.vfs_to_client = w.vfs_to_client
           /\ m.workspace_roots = w.workspace_roots
           /\ m.workspace_namespaced = w.workspace_namespaced
           /\ m.next_virtual_document_id = w.next_virtual_document_id
           /\ m.entry_uri = w.entry_uri
           /\ m.files = w.files
           /\ m.entry_path = w.entry_path
  BY DEF IsWorld

\* Other roots, and whether they have namespaces.
WithRoots(w, r, n) ==
    [w EXCEPT !.workspace_roots = r, !.workspace_namespaced = n]

\* The fields then.
LEMMA MoveFields ==
    ASSUME NEW w, IsWorld(w), NEW r, NEW n, NEW m,
           m = WithRoots(w, r, n)
    PROVE  /\ IsWorld(m)
           /\ m.documents = w.documents
           /\ m.open_documents = w.open_documents
           /\ m.client_to_vfs = w.client_to_vfs
           /\ m.vfs_to_client = w.vfs_to_client
           /\ m.workspace_roots = r
           /\ m.workspace_namespaced = n
           /\ m.next_virtual_document_id = w.next_virtual_document_id
           /\ m.entry_uri = w.entry_uri
           /\ m.files = w.files
           /\ m.entry_path = w.entry_path
  <1> DEFINE w1 == [w EXCEPT !.workspace_roots = r]
             w2 == [w1 EXCEPT !.workspace_namespaced = n]
  <1>0. m = w2
    BY DEF WithRoots
  <1>a1. w1 = [w EXCEPT !.workspace_roots = r]
    OBVIOUS
  <1> HIDE DEF w1
  <1>1. Same(w, w1, {"workspace_roots"}) /\ w1.workspace_roots = r /\ IsWorld(w1)
    BY <1>a1, FieldFacts DEF Same, OneField
  <1>a2. w2 = [w1 EXCEPT !.workspace_namespaced = n]
    OBVIOUS
  <1> HIDE DEF w2
  <1>2. Same(w1, w2, {"workspace_namespaced"}) /\ w2.workspace_namespaced = n /\ IsWorld(w2)
    BY <1>a2, <1>1, FieldFacts DEF Same, OneField
  <1> QED
    BY <1>0, <1>1, <1>2 DEF Same

\* Documents are placed anew.
WithPlaces(w, d, o, c, v, f) ==
    [w EXCEPT !.documents = d, !.open_documents = o, !.client_to_vfs = c, !.vfs_to_client = v, !.files = f]

\* The fields then.
LEMMA PlaceFields ==
    ASSUME NEW w, IsWorld(w), NEW d, NEW o, NEW c, NEW v, NEW f, NEW m,
           m = WithPlaces(w, d, o, c, v, f)
    PROVE  /\ IsWorld(m)
           /\ m.documents = d
           /\ m.open_documents = o
           /\ m.client_to_vfs = c
           /\ m.vfs_to_client = v
           /\ m.workspace_roots = w.workspace_roots
           /\ m.workspace_namespaced = w.workspace_namespaced
           /\ m.next_virtual_document_id = w.next_virtual_document_id
           /\ m.entry_uri = w.entry_uri
           /\ m.files = f
           /\ m.entry_path = w.entry_path
  <1> DEFINE w1 == [w EXCEPT !.documents = d]
             w2 == [w1 EXCEPT !.open_documents = o]
             w3 == [w2 EXCEPT !.client_to_vfs = c]
             w4 == [w3 EXCEPT !.vfs_to_client = v]
             w5 == [w4 EXCEPT !.files = f]
  <1>0. m = w5
    BY DEF WithPlaces
  <1>a1. w1 = [w EXCEPT !.documents = d]
    OBVIOUS
  <1> HIDE DEF w1
  <1>1. Same(w, w1, {"documents"}) /\ w1.documents = d /\ IsWorld(w1)
    BY <1>a1, FieldFacts DEF Same, OneField
  <1>a2. w2 = [w1 EXCEPT !.open_documents = o]
    OBVIOUS
  <1> HIDE DEF w2
  <1>2. Same(w1, w2, {"open_documents"}) /\ w2.open_documents = o /\ IsWorld(w2)
    BY <1>a2, <1>1, FieldFacts DEF Same, OneField
  <1>a3. w3 = [w2 EXCEPT !.client_to_vfs = c]
    OBVIOUS
  <1> HIDE DEF w3
  <1>3. Same(w2, w3, {"client_to_vfs"}) /\ w3.client_to_vfs = c /\ IsWorld(w3)
    BY <1>a3, <1>2, FieldFacts DEF Same, OneField
  <1>a4. w4 = [w3 EXCEPT !.vfs_to_client = v]
    OBVIOUS
  <1> HIDE DEF w4
  <1>4. Same(w3, w4, {"vfs_to_client"}) /\ w4.vfs_to_client = v /\ IsWorld(w4)
    BY <1>a4, <1>3, FieldFacts DEF Same, OneField
  <1>a5. w5 = [w4 EXCEPT !.files = f]
    OBVIOUS
  <1> HIDE DEF w5
  <1>5. Same(w4, w5, {"files"}) /\ w5.files = f /\ IsWorld(w5)
    BY <1>a5, <1>4, FieldFacts DEF Same, OneField
  <1> QED
    BY <1>0, <1>1, <1>2, <1>3, <1>4, <1>5 DEF Same

\* Documents are loaded.
WithLoaded(w, d, c, v, f) ==
    [w EXCEPT !.documents = d, !.client_to_vfs = c, !.vfs_to_client = v, !.files = f]

\* The fields then.
LEMMA LoadFields ==
    ASSUME NEW w, IsWorld(w), NEW d, NEW c, NEW v, NEW f, NEW m,
           m = WithLoaded(w, d, c, v, f)
    PROVE  /\ IsWorld(m)
           /\ m.documents = d
           /\ m.open_documents = w.open_documents
           /\ m.client_to_vfs = c
           /\ m.vfs_to_client = v
           /\ m.workspace_roots = w.workspace_roots
           /\ m.workspace_namespaced = w.workspace_namespaced
           /\ m.next_virtual_document_id = w.next_virtual_document_id
           /\ m.entry_uri = w.entry_uri
           /\ m.files = f
           /\ m.entry_path = w.entry_path
  <1> DEFINE w1 == [w EXCEPT !.documents = d]
             w2 == [w1 EXCEPT !.client_to_vfs = c]
             w3 == [w2 EXCEPT !.vfs_to_client = v]
             w4 == [w3 EXCEPT !.files = f]
  <1>0. m = w4
    BY DEF WithLoaded
  <1>a1. w1 = [w EXCEPT !.documents = d]
    OBVIOUS
  <1> HIDE DEF w1
  <1>1. Same(w, w1, {"documents"}) /\ w1.documents = d /\ IsWorld(w1)
    BY <1>a1, FieldFacts DEF Same, OneField
  <1>a2. w2 = [w1 EXCEPT !.client_to_vfs = c]
    OBVIOUS
  <1> HIDE DEF w2
  <1>2. Same(w1, w2, {"client_to_vfs"}) /\ w2.client_to_vfs = c /\ IsWorld(w2)
    BY <1>a2, <1>1, FieldFacts DEF Same, OneField
  <1>a3. w3 = [w2 EXCEPT !.vfs_to_client = v]
    OBVIOUS
  <1> HIDE DEF w3
  <1>3. Same(w2, w3, {"vfs_to_client"}) /\ w3.vfs_to_client = v /\ IsWorld(w3)
    BY <1>a3, <1>2, FieldFacts DEF Same, OneField
  <1>a4. w4 = [w3 EXCEPT !.files = f]
    OBVIOUS
  <1> HIDE DEF w4
  <1>4. Same(w3, w4, {"files"}) /\ w4.files = f /\ IsWorld(w4)
    BY <1>a4, <1>3, FieldFacts DEF Same, OneField
  <1> QED
    BY <1>0, <1>1, <1>2, <1>3, <1>4 DEF Same


-----------------------------------------------------------------------------
(* The operations keep worlds good. *)

\* Places depend on nothing but the roots and whether they have namespaces.
LEMMA SamePlaces ==
    ASSUME NEW w, NEW m, m.workspace_roots = w.workspace_roots,
           m.workspace_namespaced = w.workspace_namespaced
    PROVE  /\ \A u : Placed(m, u) = Placed(w, u)
                     /\ WorkspaceRelativeVfsPath(m, u) = WorkspaceRelativeVfsPath(w, u)
           /\ HasRoots(w) => HasRoots(m)
  <1>1. \A u : WorkspaceRelativeVfsPath(m, u) = WorkspaceRelativeVfsPath(w, u)
    BY DEF WorkspaceRelativeVfsPath
  <1> QED
    BY <1>1 DEF Placed, HasRoots

\* Inferring a root moves no document.
LEMMA InferFacts ==
    ASSUME NEW w, Good(w, {}), NEW u \in Uris
    PROVE  LET i == InferRoot(w, u)
           IN  /\ Good(i, {})
               /\ i.documents = w.documents /\ i.open_documents = w.open_documents
               /\ i.client_to_vfs = w.client_to_vfs /\ i.vfs_to_client = w.vfs_to_client
               /\ i.next_virtual_document_id = w.next_virtual_document_id
               /\ w.workspace_roots # {} => i.workspace_roots = w.workspace_roots
  <1> DEFINE i == InferRoot(w, u)
  <1>1. CASE ~(w.workspace_roots = {} /\ u.scheme = "file" /\ UriToVfsPath(u) = None)
    <2>1. i = w
      BY <1>1 DEF InferRoot
    <2> QED
      BY <2>1
  <1>2. CASE w.workspace_roots = {} /\ u.scheme = "file" /\ UriToVfsPath(u) = None
    <2>1. i = [w EXCEPT !.workspace_roots = {Folder(u)}]
      BY <1>2 DEF InferRoot
    <2>2. /\ Typed(w) /\ Mapped(w) /\ Seen(w) /\ Entered(w) /\ IsWorld(w)
          /\ \A v \in Known(w) : InPlace(w, v, {})
      BY DEF Good, Typed
    <2>3. /\ IsWorld(i) /\ i.workspace_roots = {Folder(u)}
          /\ i.documents = w.documents /\ i.open_documents = w.open_documents
          /\ i.client_to_vfs = w.client_to_vfs /\ i.vfs_to_client = w.vfs_to_client
          /\ i.workspace_namespaced = w.workspace_namespaced
          /\ i.next_virtual_document_id = w.next_virtual_document_id
          /\ i.entry_uri = w.entry_uri /\ i.files = w.files /\ i.entry_path = w.entry_path
      BY <2>1, <2>2, RootsField
    <2> HIDE DEF i
    <2>4. HasRoots(i)
      <3>1. Folder(u) \in Roots
        BY <1>2 DEF Roots, Files
      <3> QED
        BY <2>3, <3>1, FS_Singleton DEF HasRoots
    <2>5. Typed(i)
      BY <2>2, <2>3, <2>4 DEF Typed
    <2>6. Mapped(i) /\ Seen(i) /\ Entered(i) /\ Known(i) = Known(w)
      BY <2>2, <2>3 DEF Mapped, Seen, Entered, Known
    <2>7. ASSUME NEW v \in Known(i) PROVE InPlace(i, v, {})
      <3>1. v \in Known(w) /\ InPlace(w, v, {}) /\ v \in Uris /\ w.client_to_vfs[v] # None
        BY <2>2, <2>6 DEF Known
      <3>2. CASE v \in Files /\ w.client_to_vfs[v] = Placed(w, v)
        <4>1. WorkspaceRelativeVfsPath(w, v) = None
          BY <1>2 DEF WorkspaceRelativeVfsPath, IsBelowAny
        <4>2. UriToVfsPath(v) # None /\ w.client_to_vfs[v] = UriToVfsPath(v)
          BY <3>1, <3>2, <4>1 DEF Placed, FirstOf
        <4>3. ~IsBelow(v, Folder(u))
          BY <1>2, <3>2, <4>2, PathsAssumption DEF Files
        <4>4. WorkspaceRelativeVfsPath(i, v) = None
          BY <2>3, <4>3 DEF WorkspaceRelativeVfsPath, IsBelowAny
        <4>5. Placed(i, v) = i.client_to_vfs[v]
          BY <2>3, <4>2, <4>4 DEF Placed, FirstOf
        <4> QED
          BY <3>2, <4>5 DEF InPlace
      <3>3. CASE v \in Files /\ w.client_to_vfs[v] # Placed(w, v)
        BY <2>3, <3>1, <3>3 DEF InPlace
      <3>4. CASE v \notin Files
        BY <2>3, <3>1, <3>4 DEF InPlace
      <3> QED
        BY <3>2, <3>3, <3>4
    <2>8. Good(i, {})
      BY <2>5, <2>6, <2>7 DEF Good
    <2> QED
      BY <1>2, <2>3, <2>8 DEF i
  <1> QED
    BY <1>1, <1>2

\* The place given to a new document.
NewPlace(w, u, p) ==
    \/ u \in Files /\ p = Placed(w, u) /\ p # None
    \/ /\ u \notin Files /\ w.next_virtual_document_id < MaxVirtual
       /\ p = VPath("virtual", << >>, << >>, w.next_virtual_document_id)

\* Every document is in its place.
AllInPlace(w, leaving) == \A u \in Known(w) : InPlace(w, u, leaving)

\* Nothing is there yet.
LEMMA FreshFacts ==
    ASSUME NEW w, NEW leaving, Typed(w), Mapped(w), AllInPlace(w, leaving),
           NEW u \in Uris, u \notin Known(w), NEW p, NewPlace(w, u, p)
    PROVE  /\ p \in VPaths /\ p # None /\ w.vfs_to_client[p] = None
           /\ \A v \in Known(w) : w.client_to_vfs[v] # p
  <1>1. HasRoots(w) /\ w.next_virtual_document_id \in Nat
    BY MaxVirtualAssumption DEF Typed
  <1>2. p \in VPaths /\ p # None /\ (u \in Files => Home(w, u, p) /\ p.area # "virtual")
    <2>1. CASE u \in Files
      <3>1. p = Placed(w, u) /\ p # None
        BY <2>1 DEF NewPlace
      <3>2. Home(w, u, p)
        BY <3>1 DEF Home
      <3> QED
        BY <1>1, <2>1, <3>1, <3>2, HomeFacts
    <2>2. CASE u \notin Files
      <3> DEFINE id == w.next_virtual_document_id
      <3>1. p = VPath("virtual", << >>, << >>, id) /\ id < MaxVirtual
        BY <2>2 DEF NewPlace
      <3> HIDE DEF id
      <3>2. id \in 0 .. MaxVirtual
        BY <1>1, <3>1, MaxVirtualAssumption DEF id
      <3> QED
        BY <2>2, <3>1, <3>2, VPathsMembers
    <2> QED
      BY <2>1, <2>2
  <1>3. ASSUME NEW v \in Known(w), w.client_to_vfs[v] = p PROVE FALSE
    <2>1. v \in Uris /\ InPlace(w, v, leaving) /\ v # u
      BY DEF Known, AllInPlace
    <2>2. CASE v \in Files
      <3>1. Home(w, v, p)
        BY <1>2, <1>3, <2>1, <2>2 DEF InPlace, Home
      <3>2. p.area # "virtual"
        BY <1>1, <2>1, <2>2, <3>1, HomeFacts
      <3>3. CASE u \in Files
        BY <1>1, <1>2, <2>1, <2>2, <3>1, <3>3, Apart
      <3>4. CASE u \notin Files
        BY <3>2, <3>4, VPathFields DEF NewPlace
      <3> QED
        BY <3>3, <3>4
    <2>3. CASE v \notin Files
      <3>1. PICK id \in Nat : id < w.next_virtual_document_id /\ p = VPath("virtual", << >>, << >>, id)
        BY <1>3, <2>1, <2>3 DEF InPlace
      <3>2. p.area = "virtual" /\ p.id = id
        BY <3>1, VPathFields
      <3>3. CASE u \in Files
        BY <1>2, <3>2, <3>3
      <3>4. CASE u \notin Files
        <4>1. p.id = w.next_virtual_document_id
          BY <3>4, VPathFields DEF NewPlace
        <4> QED
          BY <1>1, <3>1, <3>2, <4>1
      <3> QED
        BY <3>3, <3>4
    <2> QED
      BY <2>2, <2>3
  <1>4. w.vfs_to_client[p] = None
    <2> SUFFICES ASSUME w.vfs_to_client[p] # None PROVE FALSE
      OBVIOUS
    <2> DEFINE v == w.vfs_to_client[p]
    <2>1. v \in Uris /\ w.client_to_vfs[v] = p
      BY <1>2 DEF Typed, Mapped
    <2> QED
      BY <1>2, <1>3, <2>1 DEF Known
  <1> QED
    BY <1>2, <1>3, <1>4

\* A new document with its text, and nothing else.
Added(w, m, u, p, text) ==
    /\ IsWorld(m)
    /\ m.documents = [w.documents EXCEPT ![u] = text]
    /\ m.open_documents = w.open_documents
    /\ m.client_to_vfs = [w.client_to_vfs EXCEPT ![u] = p]
    /\ m.vfs_to_client = [w.vfs_to_client EXCEPT ![p] = u]
    /\ m.workspace_roots = w.workspace_roots
    /\ m.workspace_namespaced = w.workspace_namespaced
    /\ m.next_virtual_document_id =
           IF u \in Files THEN w.next_virtual_document_id ELSE w.next_virtual_document_id + 1
    /\ m.entry_uri = w.entry_uri
    /\ m.files = [w.files EXCEPT ![p] = text]
    /\ m.entry_path = w.entry_path

\* It has a place of its own.
LEMMA AddFacts ==
    ASSUME NEW w, Good(w, {}), NEW u \in Uris, u \notin Known(w), NEW p, NewPlace(w, u, p),
           NEW text \in Texts,
           NEW m, Added(w, m, u, p, text)
    PROVE  Good(m, {}) /\ u \in Known(m)
  <1>1. /\ Typed(w) /\ Mapped(w) /\ Seen(w) /\ Entered(w)
        /\ \A v \in Known(w) : InPlace(w, v, {})
    BY DEF Good
  <1>2. /\ p \in VPaths /\ p # None /\ w.vfs_to_client[p] = None
        /\ \A v \in Known(w) : w.client_to_vfs[v] # p
    <2>1. AllInPlace(w, {})
      BY <1>1 DEF AllInPlace
    <2> QED
      BY <1>1, <2>1, FreshFacts
  <1> USE DEF Added
  <1>3. /\ w.documents \in [Uris -> Texts \cup {None}]
        /\ w.client_to_vfs \in [Uris -> VPaths \cup {None}]
        /\ w.vfs_to_client \in [VPaths -> Uris \cup {None}]
        /\ w.files \in [VPaths -> Texts \cup {None}]
        /\ HasRoots(w) /\ w.next_virtual_document_id \in 0 .. MaxVirtual
    BY <1>1 DEF Typed
  <1>4. /\ \A v \in Uris : v # u => /\ m.documents[v] = w.documents[v]
                                    /\ m.client_to_vfs[v] = w.client_to_vfs[v]
        /\ m.documents[u] = text /\ m.client_to_vfs[u] = p
        /\ \A q \in VPaths : q # p => /\ m.vfs_to_client[q] = w.vfs_to_client[q]
                                      /\ m.files[q] = w.files[q]
        /\ m.vfs_to_client[p] = u /\ m.files[p] = text
    BY <1>2, <1>3
  <1>5. text # None /\ u # None
    BY TextsAssumption, NoneAssumption
  <1>6. m.next_virtual_document_id \in 0 .. MaxVirtual
        /\ m.next_virtual_document_id >= w.next_virtual_document_id
    BY <1>3, MaxVirtualAssumption DEF NewPlace
  <1>7. Typed(m)
    <2>1. /\ m.documents \in [Uris -> Texts \cup {None}]
          /\ m.client_to_vfs \in [Uris -> VPaths \cup {None}]
          /\ m.vfs_to_client \in [VPaths -> Uris \cup {None}]
          /\ m.files \in [VPaths -> Texts \cup {None}]
      BY <1>2, <1>3
    <2>2. HasRoots(m)
      BY <1>3, SamePlaces
    <2> QED
      BY <1>1, <1>6, <2>1, <2>2 DEF Typed
  <1>8. Known(m) = Known(w) \cup {u}
    BY <1>2, <1>4 DEF Known
  <1>9. Mapped(m)
    <2>1. ASSUME NEW v \in Uris PROVE m.documents[v] # None <=> m.client_to_vfs[v] # None
      BY <1>1, <1>2, <1>4, <1>5 DEF Mapped
    <2>2. ASSUME NEW v \in Uris, m.client_to_vfs[v] # None
          PROVE  m.vfs_to_client[m.client_to_vfs[v]] = v
      <3>1. CASE v = u
        BY <1>4, <3>1
      <3>2. CASE v # u
        <4>1. m.client_to_vfs[v] = w.client_to_vfs[v] /\ v \in Known(w)
          BY <1>4, <2>2, <3>2 DEF Known
        <4>2. w.client_to_vfs[v] \in VPaths /\ w.client_to_vfs[v] # p
          BY <1>2, <1>3, <2>2, <4>1
        <4> QED
          BY <1>1, <1>4, <2>2, <4>1, <4>2 DEF Mapped
      <3> QED
        BY <3>1, <3>2
    <2>3. ASSUME NEW q \in VPaths, m.vfs_to_client[q] # None
          PROVE  m.client_to_vfs[m.vfs_to_client[q]] = q
      <3>1. CASE q = p
        BY <1>4, <3>1
      <3>2. CASE q # p
        <4> DEFINE v == w.vfs_to_client[q]
        <4>1. m.vfs_to_client[q] = v /\ v # None /\ v \in Uris /\ w.client_to_vfs[v] = q
          BY <1>1, <1>3, <1>4, <2>3, <3>2 DEF Mapped
        <4>2. q # None
          BY NoneAssumption
        <4> HIDE DEF v
        <4>3. v # u
          BY <4>1, <4>2 DEF Known
        <4> QED
          BY <1>4, <4>1, <4>3
      <3> QED
        BY <3>1, <3>2
    <2> QED
      BY <2>1, <2>2, <2>3 DEF Mapped
  <1>10. Seen(m)
    <2>1. ASSUME NEW q \in VPaths
          PROVE  m.files[q] = IF m.vfs_to_client[q] = None THEN None ELSE m.documents[m.vfs_to_client[q]]
      <3>1. CASE q = p
        BY <1>4, <1>5, <3>1
      <3>2. CASE q # p
        <4> DEFINE v == w.vfs_to_client[q]
        <4>1. m.vfs_to_client[q] = v /\ m.files[q] = w.files[q]
          BY <1>4, <3>2
        <4>2. w.files[q] = IF v = None THEN None ELSE w.documents[v]
          BY <1>1 DEF Seen
        <4>3. v # None => v \in Uris /\ w.client_to_vfs[v] = q /\ q # None
          BY <1>1, <1>3, NoneAssumption DEF Mapped
        <4> HIDE DEF v
        <4>4. v # None => m.documents[v] = w.documents[v]
          BY <1>4, <4>3 DEF Known
        <4> QED
          BY <4>1, <4>2, <4>4
      <3> QED
        BY <3>1, <3>2
    <2> QED
      BY <2>1 DEF Seen
  <1>11. Entered(m)
    <2>1. w.entry_uri # None => w.entry_uri \in Known(w) /\ w.entry_uri \in Uris
      BY <1>1 DEF Entered, Known
    <2>2. w.entry_uri # None => m.client_to_vfs[w.entry_uri] = w.client_to_vfs[w.entry_uri]
      BY <1>4, <2>1
    <2> QED
      BY <1>1, <1>8, <2>2 DEF Entered
  <1>12. ASSUME NEW v \in Known(m) PROVE InPlace(m, v, {})
    <2>1. Placed(m, v) = Placed(w, v)
      BY SamePlaces
    <2>2. CASE v = u
      <3>1. CASE u \in Files
        BY <1>4, <2>1, <2>2, <3>1 DEF InPlace, NewPlace
      <3>2. CASE u \notin Files
        <4> DEFINE id == w.next_virtual_document_id
        <4>1. id \in Nat /\ id < m.next_virtual_document_id
          BY <1>3, <3>2, MaxVirtualAssumption
        <4>2. p = VPath("virtual", << >>, << >>, id)
          BY <3>2 DEF NewPlace
        <4> HIDE DEF id
        <4> QED
          BY <1>4, <2>2, <3>2, <4>1, <4>2 DEF InPlace
      <3> QED
        BY <3>1, <3>2
    <2>3. CASE v # u
      <3>1. v \in Uris /\ v \in Known(w) /\ InPlace(w, v, {}) /\ m.client_to_vfs[v] = w.client_to_vfs[v]
        BY <1>1, <1>4, <1>8, <2>3 DEF Known
      <3>2. CASE v \in Files
        BY <2>1, <3>1, <3>2 DEF InPlace
      <3>3. CASE v \notin Files
        <4>1. PICK id \in Nat : id < w.next_virtual_document_id
                  /\ w.client_to_vfs[v] = VPath("virtual", << >>, << >>, id)
          BY <3>1, <3>3 DEF InPlace
        <4>2. id < m.next_virtual_document_id
          BY <1>3, <1>6, <4>1
        <4> QED
          BY <3>1, <3>3, <4>1, <4>2 DEF InPlace
      <3> QED
        BY <3>2, <3>3
    <2> QED
      BY <2>2, <2>3
  <1> QED
    BY <1>7, <1>8, <1>9, <1>10, <1>11, <1>12 DEF Good

\* Nothing is said of any document but u.
Only(w, m, u) ==
    \A v \in Uris \ {u} :
        /\ v \in m.open_documents <=> v \in w.open_documents
        /\ m.documents[v] = w.documents[v] /\ m.client_to_vfs[v] = w.client_to_vfs[v]

\* A known document gets another text.
LEMMA ChangeText ==
    ASSUME NEW w, NEW leaving, Good(w, leaving), NEW u \in Known(w), NEW text \in Texts
    PROVE  LET m == SetText(w, u, text)
           IN  /\ Good(m, leaving) /\ Only(w, m, u) /\ m.client_to_vfs = w.client_to_vfs
               /\ m.open_documents = w.open_documents /\ m.documents[u] = text
               /\ m.entry_uri = w.entry_uri /\ m.workspace_roots = w.workspace_roots
  <1> DEFINE p == w.client_to_vfs[u]
             m == SetText(w, u, text)
  <1>1. /\ Typed(w) /\ Mapped(w) /\ Seen(w) /\ Entered(w) /\ IsWorld(w)
        /\ \A v \in Known(w) : InPlace(w, v, leaving)
    BY DEF Good, Typed
  <1>2. m = WithText(w, u, p, text)
    BY Zenon DEF SetText, WithText
  <1>3. u \in Uris /\ p \in VPaths /\ p # None /\ w.vfs_to_client[p] = u
    BY <1>1 DEF Typed, Mapped, Known
  <1>a. \A v \in Uris : v # u => w.client_to_vfs[v] # p
    BY <1>1, <1>3 DEF Mapped
  <1> HIDE DEF p, m
  <1>4. /\ IsWorld(m)
        /\ m.documents = [w.documents EXCEPT ![u] = text]
        /\ m.open_documents = w.open_documents
        /\ m.client_to_vfs = w.client_to_vfs
        /\ m.vfs_to_client = w.vfs_to_client
        /\ m.workspace_roots = w.workspace_roots
        /\ m.workspace_namespaced = w.workspace_namespaced
        /\ m.next_virtual_document_id = w.next_virtual_document_id
        /\ m.entry_uri = w.entry_uri
        /\ m.files = [w.files EXCEPT ![p] = text]
        /\ m.entry_path = w.entry_path
    <2>1. HasText(w, m, u, p, text)
      BY <1>1, <1>2, TextFields
    <2> QED
      BY <2>1 DEF HasText
  <1>5. /\ w.documents \in [Uris -> Texts \cup {None}]
        /\ w.vfs_to_client \in [VPaths -> Uris \cup {None}]
        /\ w.files \in [VPaths -> Texts \cup {None}] /\ HasRoots(w)
    BY <1>1 DEF Typed
  <1>6. /\ m.documents[u] = text /\ \A v \in Uris : v # u => m.documents[v] = w.documents[v]
        /\ m.files[p] = text /\ \A q \in VPaths : q # p => m.files[q] = w.files[q]
    BY <1>3, <1>4, <1>5
  <1>7. text # None /\ u # None
    BY <1>3, TextsAssumption, NoneAssumption
  <1>8. Typed(m)
    <2>1. m.documents \in [Uris -> Texts \cup {None}] /\ m.files \in [VPaths -> Texts \cup {None}]
      BY <1>4, <1>5
    <2>2. HasRoots(m)
      BY <1>4, <1>5, SamePlaces
    <2> QED
      BY <1>1, <1>4, <2>1, <2>2 DEF Typed
  <1>9. Mapped(m) /\ Known(m) = Known(w)
    <2>1. ASSUME NEW v \in Uris PROVE m.documents[v] # None <=> m.client_to_vfs[v] # None
      <3>1. CASE v = u
        BY <1>1, <1>3, <1>4, <1>6, <1>7, <3>1 DEF p
      <3>2. CASE v # u
        BY <1>1, <1>4, <1>6, <3>2 DEF Mapped
      <3> QED
        BY <3>1, <3>2
    <2> QED
      BY <1>1, <1>4, <2>1 DEF Mapped, Known
  <1>10. Seen(m)
    <2>1. ASSUME NEW q \in VPaths
          PROVE  m.files[q] = IF m.vfs_to_client[q] = None THEN None ELSE m.documents[m.vfs_to_client[q]]
      <3>1. CASE q = p
        BY <1>3, <1>4, <1>6, <1>7, <3>1
      <3>2. CASE q # p
        <4> DEFINE v == w.vfs_to_client[q]
        <4>1. m.vfs_to_client[q] = v /\ m.files[q] = w.files[q]
          BY <1>4, <1>6, <3>2
        <4>2. w.files[q] = IF v = None THEN None ELSE w.documents[v]
          BY <1>1 DEF Seen
        <4>3. v # None => v \in Uris /\ w.client_to_vfs[v] = q
          BY <1>1, <1>5 DEF Mapped
        <4> HIDE DEF v
        <4>4. v # None => m.documents[v] = w.documents[v]
          BY <1>6, <3>2, <4>3 DEF p
        <4> QED
          BY <4>1, <4>2, <4>4
      <3> QED
        BY <3>1, <3>2
    <2> QED
      BY <2>1 DEF Seen
  <1>11. Entered(m)
    BY <1>1, <1>4, <1>9 DEF Entered
  <1>12. ASSUME NEW v \in Known(m) PROVE InPlace(m, v, leaving)
    <2>1. Placed(m, v) = Placed(w, v)
      BY <1>4, SamePlaces
    <2> QED
      BY <1>1, <1>4, <1>9, <2>1 DEF InPlace
  <1>13. Only(w, m, u)
    BY <1>4, <1>6 DEF Only
  <1> QED
    BY <1>4, <1>6, <1>8, <1>9, <1>10, <1>11, <1>12, <1>13 DEF Good, m

\* A document is mapped and stored, or it has no place and only a root may
\* have been inferred.
Stored(w, e, s, u, text) ==
    IF e.client_to_vfs[u] = None
    THEN /\ Good(e, {}) /\ u \notin Known(w)
         /\ e.documents = w.documents /\ e.open_documents = w.open_documents
         /\ e.client_to_vfs = w.client_to_vfs
         /\ w.workspace_roots # {} => e.workspace_roots = w.workspace_roots
    ELSE /\ Good(s, {}) /\ u \in Known(s) /\ Only(w, s, u)
         /\ s.open_documents = w.open_documents /\ s.documents[u] = text
         /\ s.client_to_vfs[u] = e.client_to_vfs[u]
         /\ u \in Known(w) => s.client_to_vfs[u] = w.client_to_vfs[u]
         /\ w.workspace_roots # {} => s.workspace_roots = w.workspace_roots

\* set_workspace_document, open_document and change_document begin this way.
LEMMA StoreFacts ==
    ASSUME NEW w, Good(w, {}), NEW u \in Uris, NEW text \in Texts,
           u \notin Files /\ u \notin Known(w) => w.next_virtual_document_id < MaxVirtual
    PROVE  LET e == EnsureUriMapping(w, u)
           IN  Stored(w, e, SetText(e, u, text), u, text)
  <1> DEFINE e == EnsureUriMapping(w, u)
             s == SetText(e, u, text)
             i == InferRoot(w, u)
             id == w.next_virtual_document_id
             placed == Placed(i, u)
             virtual == placed = None /\ u.scheme # "file"
             p == IF virtual THEN VPath("virtual", << >>, << >>, id) ELSE placed
             next == IF virtual THEN id + 1 ELSE id
  <1>1. CASE w.client_to_vfs[u] # None
    <2>1. e = w /\ u \in Known(w)
      BY <1>1 DEF EnsureUriMapping, Known
    <2> HIDE DEF e
    <2>2. /\ Good(s, {}) /\ Only(w, s, u) /\ s.client_to_vfs = w.client_to_vfs
          /\ s.open_documents = w.open_documents /\ s.documents[u] = text
          /\ s.workspace_roots = w.workspace_roots
      BY <2>1, ChangeText
    <2> HIDE DEF s
    <2>3. u \in Known(s)
      BY <2>1, <2>2 DEF Known
    <2>4. Stored(w, e, s, u, text)
      BY <1>1, <2>1, <2>2, <2>3 DEF Stored
    <2> QED
      BY <2>4 DEF s, e
  <1>2. CASE w.client_to_vfs[u] = None
    <2>1. u \notin Known(w)
      BY <1>2 DEF Known
    <2>2. /\ Good(i, {}) /\ i.documents = w.documents /\ i.open_documents = w.open_documents
          /\ i.client_to_vfs = w.client_to_vfs /\ i.vfs_to_client = w.vfs_to_client
          /\ i.next_virtual_document_id = id
          /\ w.workspace_roots # {} => i.workspace_roots = w.workspace_roots
      BY InferFacts
    <2>3. e = IF p = None THEN i
              ELSE [i EXCEPT !.client_to_vfs[u] = p, !.vfs_to_client[p] = u,
                             !.next_virtual_document_id = next]
      BY <1>2 DEF EnsureUriMapping, Placed
    <2>4. Typed(i) /\ IsWorld(i) /\ HasRoots(i) /\ Mapped(i) /\ \A v \in Known(i) : InPlace(i, v, {})
      BY <2>2 DEF Good, Typed
    <2>5. CASE p = None
      <3>1. e = i
        BY <2>3, <2>5
      <3> HIDE DEF e, i
      <3>2. e.client_to_vfs[u] = None
        BY <1>2, <2>2, <3>1
      <3>3. Stored(w, e, s, u, text)
        BY <2>1, <2>2, <3>1, <3>2 DEF Stored
      <3> QED
        BY <3>3 DEF e
    <2>6. CASE p # None
      <3>1. u \notin Known(i)
        BY <2>1, <2>2 DEF Known
      <3>2. NewPlace(i, u, p)
        <4>1. CASE u \in Files
          <5>1. p = Placed(i, u)
            BY <4>1 DEF Files
          <5> HIDE DEF p, i
          <5> QED
            BY <2>6, <4>1, <5>1 DEF NewPlace
        <4>2. CASE u \notin Files
          <5>1. Placed(i, u) = None /\ u.scheme # "file"
            BY <2>4, <4>2, NoFileFacts DEF Files
          <5>2. p = VPath("virtual", << >>, << >>, id)
            BY <5>1
          <5> HIDE DEF p, i
          <5> QED
            BY <2>1, <2>2, <4>2, <5>2 DEF NewPlace
        <4> QED
          BY <4>1, <4>2
      <3>3. next = IF u \in Files THEN id ELSE id + 1
        <4>1. CASE u \in Files
          BY <4>1 DEF Files
        <4>2. CASE u \notin Files
          <5>1. Placed(i, u) = None /\ u.scheme # "file"
            BY <2>4, <4>2, NoFileFacts DEF Files
          <5> QED
            BY <4>2, <5>1
        <4> QED
          BY <4>1, <4>2
      <3>4. e = WithMapping(i, u, p, next)
        <4> HIDE DEF e, i, p, next
        <4> QED
          BY <2>3, <2>6, Zenon DEF WithMapping
      <3> HIDE DEF i, p, next
      <3>5. /\ IsWorld(e)
            /\ e.documents = i.documents
            /\ e.open_documents = i.open_documents
            /\ e.client_to_vfs = [i.client_to_vfs EXCEPT ![u] = p]
            /\ e.vfs_to_client = [i.vfs_to_client EXCEPT ![p] = u]
            /\ e.workspace_roots = i.workspace_roots
            /\ e.workspace_namespaced = i.workspace_namespaced
            /\ e.next_virtual_document_id = next
            /\ e.entry_uri = i.entry_uri
            /\ e.files = i.files
            /\ e.entry_path = i.entry_path
        <4> HIDE DEF e
        <4>1. IsMapped(i, e, u, p, next)
          BY <2>4, <3>4, MappingFields
        <4> QED
          BY <4>1 DEF IsMapped
      <3>6. e.client_to_vfs[u] = p
        <4>1. i.client_to_vfs \in [Uris -> VPaths \cup {None}]
          BY <2>4 DEF Typed
        <4> HIDE DEF e
        <4> QED
          BY <3>5, <4>1
      <3>7. s = WithText(e, u, p, text)
        <4> HIDE DEF e
        <4> QED
          BY <3>6, Zenon DEF SetText, WithText
      <3> HIDE DEF e, s
      <3>8. /\ IsWorld(s)
            /\ s.documents = [i.documents EXCEPT ![u] = text]
            /\ s.open_documents = i.open_documents
            /\ s.client_to_vfs = [i.client_to_vfs EXCEPT ![u] = p]
            /\ s.vfs_to_client = [i.vfs_to_client EXCEPT ![p] = u]
            /\ s.workspace_roots = i.workspace_roots
            /\ s.workspace_namespaced = i.workspace_namespaced
            /\ s.next_virtual_document_id = next
            /\ s.entry_uri = i.entry_uri
            /\ s.files = [i.files EXCEPT ![p] = text]
            /\ s.entry_path = i.entry_path
        <4>1. HasText(e, s, u, p, text)
          BY <3>5, <3>7, TextFields
        <4> QED
          BY <3>5, <4>1 DEF HasText
      <3>9. s.next_virtual_document_id =
                IF u \in Files THEN i.next_virtual_document_id ELSE i.next_virtual_document_id + 1
        BY <2>2, <3>3, <3>8
      <3>10. Good(s, {}) /\ u \in Known(s)
        <4>1. Added(i, s, u, p, text)
          BY <3>8, <3>9 DEF Added
        <4> QED
          BY <2>2, <3>1, <3>2, <4>1, AddFacts
      <3>11. /\ s.documents[u] = text /\ s.client_to_vfs[u] = p
             /\ \A v \in Uris \ {u} : s.documents[v] = i.documents[v] /\ s.client_to_vfs[v] = i.client_to_vfs[v]
        <4>1. i.client_to_vfs \in [Uris -> VPaths \cup {None}] /\ i.documents \in [Uris -> Texts \cup {None}]
          BY <2>4 DEF Typed
        <4> QED
          BY <3>8, <4>1
      <3>12. Only(w, s, u) /\ s.open_documents = w.open_documents
        BY <2>2, <3>8, <3>11 DEF Only
      <3>13. Stored(w, e, s, u, text)
        BY <2>1, <2>2, <2>6, <3>6, <3>8, <3>10, <3>11, <3>12 DEF Stored
      <3> QED
        BY <3>13 DEF e, s
    <2> QED
      BY <2>5, <2>6
  <1> QED
    BY <1>1, <1>2

\* A document is stored, whether it is new or known.
LEMMA SetFacts ==
    ASSUME NEW w, Good(w, {}), NEW u \in Uris, NEW text \in Texts,
           u \notin Files /\ u \notin Known(w) => w.next_virtual_document_id < MaxVirtual
    PROVE  LET m == SetWorkspaceDocument(w, u, text)
           IN  /\ Good(m, {}) /\ Only(w, m, u) /\ m.open_documents = w.open_documents
               /\ u \in Known(w) => m.client_to_vfs[u] = w.client_to_vfs[u]
  <1> DEFINE e == EnsureUriMapping(w, u)
             s == SetText(e, u, text)
             m == SetWorkspaceDocument(w, u, text)
  <1>1. Stored(w, e, s, u, text)
    BY StoreFacts
  <1>2. m = IF e.client_to_vfs[u] = None THEN e ELSE s
    BY DEF SetWorkspaceDocument
  <1> HIDE DEF e, s, m
  <1>3. CASE e.client_to_vfs[u] = None
    <2>1. m = e
      BY <1>2, <1>3
    <2> QED
      BY <1>1, <1>3, <2>1 DEF Stored, Only, m
  <1>4. CASE e.client_to_vfs[u] # None
    <2>1. m = s
      BY <1>2, <1>4
    <2> QED
      BY <1>1, <1>4, <2>1 DEF Stored, m
  <1> QED
    BY <1>3, <1>4

\* A document that is not open is forgotten, and with it what the close left.
LEMMA RemoveFacts ==
    ASSUME NEW w, NEW u \in Uris, Good(w, {u}), u \notin w.open_documents
    PROVE  LET m == RemoveWorkspaceDocument(w, u)
           IN  /\ Good(m, {}) /\ Only(w, m, u) /\ m.open_documents = w.open_documents
               /\ m.client_to_vfs[u] = None
  <1> DEFINE p == w.client_to_vfs[u]
             m == RemoveWorkspaceDocument(w, u)
  <1>1. /\ Typed(w) /\ Mapped(w) /\ Seen(w) /\ Entered(w) /\ IsWorld(w)
        /\ \A v \in Known(w) : InPlace(w, v, {u})
    BY DEF Good, Typed
  <1>2. CASE p = None
    <2>1. m = w
      BY <1>2 DEF RemoveWorkspaceDocument
    <2>2. \A v \in Known(w) : v # u
      BY <1>2 DEF Known
    <2>3. \A v \in Known(w) : InPlace(w, v, {})
      BY <1>1, <2>2 DEF InPlace
    <2>4. Good(w, {})
      BY <1>1, <2>3 DEF Good
    <2> QED
      BY <1>2, <2>1, <2>4 DEF Only
  <1>3. CASE p # None
    <2>1. m = Without(w, u, p)
      BY <1>3, Zenon DEF RemoveWorkspaceDocument, Without
    <2>2. p \in VPaths /\ w.vfs_to_client[p] = u
      BY <1>1, <1>3 DEF Typed, Mapped
    <2>a. \A v \in Uris : v # u => w.client_to_vfs[v] # p
      BY <1>1, <1>3, <2>2 DEF Mapped
    <2> HIDE DEF p, m
    <2>3. /\ IsWorld(m)
          /\ m.documents = [w.documents EXCEPT ![u] = None]
          /\ m.open_documents = w.open_documents
          /\ m.client_to_vfs = [w.client_to_vfs EXCEPT ![u] = None]
          /\ m.vfs_to_client = [w.vfs_to_client EXCEPT ![p] = None]
          /\ m.workspace_roots = w.workspace_roots
          /\ m.workspace_namespaced = w.workspace_namespaced
          /\ m.next_virtual_document_id = w.next_virtual_document_id
          /\ m.entry_uri = w.entry_uri
          /\ m.files = [w.files EXCEPT ![p] = None]
          /\ m.entry_path = w.entry_path
      <3>1. Lacks(w, m, u, p)
        BY <1>1, <2>1, ForgetFields
      <3> QED
        BY <3>1 DEF Lacks
    <2>4. /\ w.documents \in [Uris -> Texts \cup {None}]
          /\ w.client_to_vfs \in [Uris -> VPaths \cup {None}]
          /\ w.vfs_to_client \in [VPaths -> Uris \cup {None}]
          /\ w.files \in [VPaths -> Texts \cup {None}] /\ HasRoots(w)
      BY <1>1 DEF Typed
    <2>5. /\ m.documents[u] = None /\ m.client_to_vfs[u] = None
          /\ \A v \in Uris : v # u => /\ m.documents[v] = w.documents[v]
                                      /\ m.client_to_vfs[v] = w.client_to_vfs[v]
          /\ m.files[p] = None /\ m.vfs_to_client[p] = None
          /\ \A q \in VPaths : q # p => /\ m.files[q] = w.files[q]
                                        /\ m.vfs_to_client[q] = w.vfs_to_client[q]
      BY <2>2, <2>3, <2>4
    <2>6. Typed(m)
      <3>1. m.documents \in [Uris -> Texts \cup {None}]
        BY <2>3, <2>4
      <3>c. m.files \in [VPaths -> Texts \cup {None}]
        BY <2>3, <2>4
      <3>a. m.client_to_vfs \in [Uris -> VPaths \cup {None}]
        BY <2>3, <2>4
      <3>b. m.vfs_to_client \in [VPaths -> Uris \cup {None}]
        BY <2>3, <2>4
      <3>2. HasRoots(m)
        BY <2>3, <2>4, SamePlaces
      <3> QED
        BY <1>1, <2>3, <3>1, <3>a, <3>b, <3>c, <3>2 DEF Typed
    <2>7. Known(m) = Known(w) \ {u}
      BY <2>5 DEF Known
    <2>8. Mapped(m)
      <3>1. ASSUME NEW v \in Uris PROVE m.documents[v] # None <=> m.client_to_vfs[v] # None
        BY <1>1, <2>5 DEF Mapped
      <3>2. ASSUME NEW v \in Uris, m.client_to_vfs[v] # None
            PROVE  m.vfs_to_client[m.client_to_vfs[v]] = v
        <4>1. v # u /\ m.client_to_vfs[v] = w.client_to_vfs[v]
          BY <2>5, <3>2
        <4>2. w.client_to_vfs[v] \in VPaths /\ w.client_to_vfs[v] # p
          BY <2>4, <2>a, <3>2, <4>1
        <4> QED
          BY <1>1, <2>5, <3>2, <4>1, <4>2 DEF Mapped
      <3>3. ASSUME NEW q \in VPaths, m.vfs_to_client[q] # None
            PROVE  m.client_to_vfs[m.vfs_to_client[q]] = q
        <4> DEFINE v == w.vfs_to_client[q]
        <4>1. q # p /\ m.vfs_to_client[q] = v
          BY <2>5, <3>3
        <4>2. v \in Uris /\ w.client_to_vfs[v] = q
          BY <1>1, <2>4, <3>3, <4>1 DEF Mapped
        <4> HIDE DEF v
        <4>3. v # u
          BY <4>1, <4>2 DEF p
        <4> QED
          BY <2>5, <4>1, <4>2, <4>3
      <3> QED
        BY <3>1, <3>2, <3>3 DEF Mapped
    <2>9. Seen(m)
      <3>1. ASSUME NEW q \in VPaths
            PROVE  m.files[q] = IF m.vfs_to_client[q] = None THEN None ELSE m.documents[m.vfs_to_client[q]]
        <4>1. CASE q = p
          BY <2>5, <4>1
        <4>2. CASE q # p
          <5> DEFINE v == w.vfs_to_client[q]
          <5>1. m.vfs_to_client[q] = v /\ m.files[q] = w.files[q]
            BY <2>5, <4>2
          <5>2. w.files[q] = IF v = None THEN None ELSE w.documents[v]
            BY <1>1 DEF Seen
          <5>3. v # None => v \in Uris /\ w.client_to_vfs[v] = q
            BY <1>1, <2>4 DEF Mapped
          <5> HIDE DEF v
          <5>4. v # None => m.documents[v] = w.documents[v]
            BY <2>5, <4>2, <5>3 DEF p
          <5> QED
            BY <5>1, <5>2, <5>4
        <4> QED
          BY <4>1, <4>2
      <3> QED
        BY <3>1 DEF Seen
    <2>10. Entered(m)
      <3>1. w.entry_uri # None => w.entry_uri # u /\ w.entry_uri \in Known(w) /\ w.entry_uri \in Uris
        BY <1>1 DEF Entered, Known
      <3>2. w.entry_uri # None => m.client_to_vfs[w.entry_uri] = w.client_to_vfs[w.entry_uri]
        BY <2>5, <3>1
      <3>3. w.open_documents \subseteq Known(m)
        BY <1>1, <2>7 DEF Entered
      <3> QED
        BY <1>1, <2>3, <3>2, <3>3 DEF Entered
    <2>11. ASSUME NEW v \in Known(m) PROVE InPlace(m, v, {})
      <3>1. Placed(m, v) = Placed(w, v)
        BY <2>3, SamePlaces
      <3>2. v \in Known(w) /\ v # u /\ v \in Uris /\ m.client_to_vfs[v] = w.client_to_vfs[v]
        BY <2>5, <2>7 DEF Known
      <3> QED
        BY <1>1, <2>3, <3>1, <3>2 DEF InPlace
    <2>12. Good(m, {})
      BY <2>6, <2>8, <2>9, <2>10, <2>11 DEF Good
    <2>13. Only(w, m, u)
      BY <2>3, <2>5 DEF Only
    <2> QED
      BY <2>3, <2>5, <2>12, <2>13 DEF m
  <1> QED
    BY <1>2, <1>3

\* The first of some documents is one of them.
LEMMA FirstFacts ==
    ASSUME NEW S \in SUBSET Uris
    PROVE  IF S = {} THEN FirstUri(S) = None ELSE FirstUri(S) \in S /\ FirstUri(S) # None
  <1>1. CASE S = {}
    BY <1>1 DEF FirstUri
  <1>2. CASE S # {}
    <2> DEFINE T == {UriRank[u] : u \in S}
    <2>1. \A u \in Uris : UriRank[u] \in Nat
      BY RankAssumption
    <2>2. T \in SUBSET Nat /\ T # {}
      BY <1>2, <2>1
    <2>3. PICK n \in T : \A m \in T : n <= m
      <3> HIDE DEF T
      <3> QED
        BY <2>2, LeastMember
    <2>4. PICK u \in S : UriRank[u] = n
      BY <2>3
    <2>5. \A v \in S : UriRank[u] <= UriRank[v]
      BY <2>3, <2>4
    <2>6. FirstUri(S) \in S
      BY <1>2, <2>5 DEF FirstUri
    <2> QED
      BY <1>2, <2>6, NoneAssumption
  <1> QED
    BY <1>1, <1>2

\* What has a place is a known document there, or a new one where it will be.
LEMMA KnownPlace ==
    ASSUME NEW w, NEW u \in Known(w)
    PROVE  VfsPathForUri(w, u) = w.client_to_vfs[u] /\ VfsPathForUri(w, u) # None
  BY DEF Known, VfsPathForUri, FirstOf

\* A closed document is left to be forgotten or to be read from the disk.
LEMMA CloseFacts ==
    ASSUME NEW w, Good(w, {}), NEW u \in w.open_documents
    PROVE  LET m == CloseDocument(w, u)
           IN  /\ Good(m, {u}) /\ m.open_documents = w.open_documents \ {u}
               /\ m.documents = w.documents /\ m.client_to_vfs = w.client_to_vfs
  <1> DEFINE c == [w EXCEPT !.open_documents = @ \ {u}]
             next == FirstUri(c.open_documents)
             path == IF next = None THEN None ELSE VfsPathForUri(c, next)
             entry == FirstOf(path, c.entry_path)
             m == CloseDocument(w, u)
  <1>0. c = [w EXCEPT !.open_documents = w.open_documents \ {u}]
    OBVIOUS
  <1>1. /\ Typed(w) /\ Mapped(w) /\ Seen(w) /\ Entered(w) /\ IsWorld(w)
        /\ \A v \in Known(w) : InPlace(w, v, {})
    BY DEF Good, Typed
  <1>2. /\ IsWorld(c)
        /\ c.documents = w.documents
        /\ c.open_documents = w.open_documents \ {u}
        /\ c.client_to_vfs = w.client_to_vfs
        /\ c.vfs_to_client = w.vfs_to_client
        /\ c.workspace_roots = w.workspace_roots
        /\ c.workspace_namespaced = w.workspace_namespaced
        /\ c.next_virtual_document_id = w.next_virtual_document_id
        /\ c.entry_uri = w.entry_uri
        /\ c.files = w.files
        /\ c.entry_path = w.entry_path
    <2> HIDE DEF c
    <2> QED
      BY <1>0, <1>1, OpenField
  <1>3. m = IF w.entry_uri # u THEN c ELSE WithEntry(c, next, entry)
    BY Zenon DEF CloseDocument, WithEntry
  <1> DEFINE o == c.open_documents
  <1>4. o \subseteq Uris /\ o \subseteq Known(w) /\ Known(c) = Known(w)
    BY <1>1, <1>2 DEF Typed, Entered, Known
  <1>5. IF o = {} THEN next = None ELSE next \in o /\ next # None
    BY <1>4, FirstFacts
  <1>6. o # {} => entry = w.client_to_vfs[next]
    <2> SUFFICES ASSUME o # {} PROVE entry = w.client_to_vfs[next]
      OBVIOUS
    <2>1. next \in Known(c) /\ next # None
      BY <1>4, <1>5
    <2> HIDE DEF c, next
    <2>2. VfsPathForUri(c, next) = c.client_to_vfs[next] /\ VfsPathForUri(c, next) # None
      BY <2>1, KnownPlace
    <2> QED
      BY <1>2, <2>1, <2>2 DEF FirstOf
  <1>7. o = {} => entry = w.entry_path
    BY <1>2, <1>5 DEF FirstOf
  <1>8. /\ IsWorld(m)
        /\ m.documents = w.documents
        /\ m.open_documents = w.open_documents \ {u}
        /\ m.client_to_vfs = w.client_to_vfs
        /\ m.vfs_to_client = w.vfs_to_client
        /\ m.workspace_roots = w.workspace_roots
        /\ m.workspace_namespaced = w.workspace_namespaced
        /\ m.next_virtual_document_id = w.next_virtual_document_id
        /\ m.entry_uri = IF w.entry_uri # u THEN w.entry_uri ELSE next
        /\ m.files = w.files
        /\ m.entry_path = IF w.entry_uri # u THEN w.entry_path ELSE entry
    <2>1. CASE w.entry_uri # u
      BY <1>2, <1>3, <2>1
    <2>2. CASE w.entry_uri = u
      <3>1. m = WithEntry(c, next, entry)
        BY <1>3, <2>2
      <3> HIDE DEF c, next, entry, m
      <3> QED
        BY <1>2, <2>2, <3>1, EntryFields
    <2> QED
      BY <2>1, <2>2
  <1>9. o = w.open_documents \ {u}
    BY <1>2
  <1> HIDE DEF c, next, path, entry, m, o
  <1>10. Entered(m)
    <2>1. CASE w.entry_uri # u
      BY <1>1, <1>4, <1>8, <1>9, <2>1 DEF Entered, Known
    <2>2. CASE w.entry_uri = u
      <3>1. CASE o = {}
        BY <1>5, <1>8, <1>9, <2>2, <3>1 DEF Entered
      <3>2. CASE o # {}
        BY <1>4, <1>5, <1>6, <1>8, <1>9, <2>2, <3>2 DEF Entered, Known
      <3> QED
        BY <3>1, <3>2
    <2> QED
      BY <2>1, <2>2
  <1>11. Typed(m)
    <2>1. m.entry_uri \in Uris \cup {None} /\ m.entry_path \in VPaths \cup {None}
      BY <1>1, <1>4, <1>5, <1>6, <1>7, <1>8 DEF Typed
    <2>2. HasRoots(m)
      BY <1>1, <1>8, SamePlaces DEF Typed
    <2>3. m.open_documents \in SUBSET Uris
      BY <1>1, <1>8 DEF Typed
    <2> QED
      BY <1>1, <1>8, <2>1, <2>2, <2>3 DEF Typed
  <1>12. Mapped(m) /\ Seen(m) /\ Known(m) = Known(w)
    BY <1>1, <1>8 DEF Mapped, Seen, Known
  <1>13. ASSUME NEW v \in Known(m) PROVE InPlace(m, v, {u})
    <2>1. Placed(m, v) = Placed(w, v)
      BY <1>8, SamePlaces
    <2> QED
      BY <1>1, <1>8, <1>12, <2>1 DEF InPlace
  <1> QED
    BY <1>8, <1>10, <1>11, <1>12, <1>13 DEF Good, m

\* All that is good about a world but its entry.
Settled(w) ==
    /\ Typed(w) /\ Mapped(w) /\ Seen(w)
    /\ w.open_documents \subseteq Known(w)
    /\ \A u \in Known(w) : InPlace(w, u, {})

\* The entry is found again.
LEMMA RefreshFacts ==
    ASSUME NEW w, Settled(w)
    PROVE  LET m == RefreshEntry(w)
           IN  /\ Good(m, {})
               /\ m.documents = w.documents /\ m.open_documents = w.open_documents
               /\ m.client_to_vfs = w.client_to_vfs
               /\ m.workspace_roots = w.workspace_roots
  <1> DEFINE candidates == {u \in w.open_documents : VfsPathForUri(w, u) # None}
             kept == w.entry_uri \in candidates
             entry == IF kept THEN w.entry_uri ELSE FirstUri(candidates)
             path == IF entry = None THEN None ELSE VfsPathForUri(w, entry)
             where == FirstOf(path, w.entry_path)
             m == RefreshEntry(w)
  <1>1. Typed(w) /\ Mapped(w) /\ Seen(w) /\ IsWorld(w) /\ w.open_documents \subseteq Known(w)
        /\ \A u \in Known(w) : InPlace(w, u, {})
    BY DEF Settled, Typed
  <1>2. candidates = w.open_documents /\ w.open_documents \subseteq Uris
    BY <1>1, KnownPlace DEF Typed
  <1>3. m = WithEntry(w, entry, where)
    BY Zenon DEF RefreshEntry, WithEntry
  <1>4. IF w.open_documents = {} THEN entry = None ELSE entry \in w.open_documents /\ entry # None
    <2>1. CASE kept
      BY <1>2, <2>1, NoneAssumption
    <2>2. CASE ~kept
      <3>1. entry = FirstUri(w.open_documents)
        BY <1>2, <2>2
      <3> HIDE DEF entry
      <3> QED
        BY <1>2, <3>1, FirstFacts
    <2> QED
      BY <2>1, <2>2
  <1>5. IF w.open_documents = {} THEN where = w.entry_path ELSE where = w.client_to_vfs[entry]
    <2>1. CASE w.open_documents = {}
      BY <1>4, <2>1 DEF FirstOf
    <2>2. CASE w.open_documents # {}
      <3>1. entry \in Known(w) /\ entry # None
        BY <1>1, <1>4, <2>2
      <3> HIDE DEF entry
      <3>2. VfsPathForUri(w, entry) = w.client_to_vfs[entry] /\ VfsPathForUri(w, entry) # None
        BY <3>1, KnownPlace
      <3> QED
        BY <2>2, <3>1, <3>2 DEF FirstOf
    <2> QED
      BY <2>1, <2>2
  <1> HIDE DEF candidates, kept, entry, path, where, m
  <1>6. /\ IsWorld(m)
        /\ m.documents = w.documents
        /\ m.open_documents = w.open_documents
        /\ m.client_to_vfs = w.client_to_vfs
        /\ m.vfs_to_client = w.vfs_to_client
        /\ m.workspace_roots = w.workspace_roots
        /\ m.workspace_namespaced = w.workspace_namespaced
        /\ m.next_virtual_document_id = w.next_virtual_document_id
        /\ m.entry_uri = entry
        /\ m.files = w.files
        /\ m.entry_path = where
    BY <1>1, <1>3, EntryFields
  <1>7. Typed(m)
    <2>1. entry \in Uris \cup {None} /\ where \in VPaths \cup {None}
      BY <1>1, <1>2, <1>4, <1>5 DEF Typed
    <2>2. HasRoots(m)
      BY <1>1, <1>6, SamePlaces DEF Typed
    <2> QED
      BY <1>1, <1>6, <2>1, <2>2 DEF Typed
  <1>8. Mapped(m) /\ Seen(m) /\ Known(m) = Known(w)
    BY <1>1, <1>6 DEF Mapped, Seen, Known
  <1>9. Entered(m)
    BY <1>1, <1>4, <1>5, <1>6, <1>8 DEF Entered
  <1>10. ASSUME NEW v \in Known(m) PROVE InPlace(m, v, {})
    <2>1. Placed(m, v) = Placed(w, v)
      BY <1>6, SamePlaces
    <2> QED
      BY <1>1, <1>6, <1>8, <2>1 DEF InPlace
  <1> QED
    BY <1>6, <1>7, <1>8, <1>9, <1>10 DEF Good, m

\* A document that is opened or changed is open, with its text and mapped as
\* before; no other is touched.
LEMMA OpenFacts ==
    ASSUME NEW w, Good(w, {}), NEW u \in Uris, NEW text \in Texts,
           u \notin Files /\ u \notin Known(w) => w.next_virtual_document_id < MaxVirtual
    PROVE  LET m == OpenDocument(w, u, text)
           IN  /\ Good(m, {}) /\ Only(w, m, u)
               /\ u \in w.open_documents => u \in m.open_documents
               /\ u \in Known(w) => m.client_to_vfs[u] = w.client_to_vfs[u]
               /\ w.workspace_roots # {} => m.workspace_roots = w.workspace_roots
  <1> DEFINE e == EnsureUriMapping(w, u)
             s == SetText(e, u, text)
             n == IF s.entry_uri # None THEN s
                  ELSE [s EXCEPT !.entry_uri = u, !.entry_path = s.client_to_vfs[u]]
             m == OpenDocument(w, u, text)
  <1>1. Stored(w, e, s, u, text)
    BY StoreFacts
  <1>2. m = IF e.client_to_vfs[u] = None THEN e
            ELSE [n EXCEPT !.open_documents = n.open_documents \cup {u}]
    BY DEF OpenDocument
  <1>3. CASE e.client_to_vfs[u] = None
    <2>1. m = e
      BY <1>2, <1>3
    <2> HIDE DEF e, s, m, n
    <2> QED
      BY <1>1, <1>3, <2>1 DEF Stored, Only, m
  <1>4. CASE e.client_to_vfs[u] # None
    <2>1. m = [n EXCEPT !.open_documents = n.open_documents \cup {u}]
      BY <1>2, <1>4
    <2>2. /\ Good(s, {}) /\ u \in Known(s) /\ Only(w, s, u)
          /\ s.open_documents = w.open_documents
          /\ u \in Known(w) => s.client_to_vfs[u] = w.client_to_vfs[u]
          /\ w.workspace_roots # {} => s.workspace_roots = w.workspace_roots
      <3> HIDE DEF e, s
      <3> QED
        BY <1>1, <1>4 DEF Stored
    <2> HIDE DEF e, s
    <2>3. /\ Typed(s) /\ Mapped(s) /\ Seen(s) /\ Entered(s) /\ IsWorld(s)
          /\ \A v \in Known(s) : InPlace(s, v, {})
      BY <2>2 DEF Good, Typed
    <2>4. /\ IsWorld(n)
          /\ n.documents = s.documents
          /\ n.open_documents = s.open_documents
          /\ n.client_to_vfs = s.client_to_vfs
          /\ n.vfs_to_client = s.vfs_to_client
          /\ n.workspace_roots = s.workspace_roots
          /\ n.workspace_namespaced = s.workspace_namespaced
          /\ n.next_virtual_document_id = s.next_virtual_document_id
          /\ n.entry_uri = IF s.entry_uri # None THEN s.entry_uri ELSE u
          /\ n.files = s.files
          /\ n.entry_path = IF s.entry_uri # None THEN s.entry_path ELSE s.client_to_vfs[u]
      <3>1. CASE s.entry_uri # None
        <4>1. n = s
          BY <3>1
        <4> HIDE DEF n
        <4> QED
          BY <2>3, <3>1, <4>1
      <3>2. CASE s.entry_uri = None
        <4> DEFINE p == s.client_to_vfs[u]
        <4>1. n = WithEntry(s, u, p)
          BY <3>2, Zenon DEF WithEntry
        <4> HIDE DEF n, p
        <4>2. /\ IsWorld(n) /\ n.documents = s.documents /\ n.open_documents = s.open_documents
              /\ n.client_to_vfs = s.client_to_vfs /\ n.vfs_to_client = s.vfs_to_client
              /\ n.workspace_roots = s.workspace_roots
              /\ n.workspace_namespaced = s.workspace_namespaced
              /\ n.next_virtual_document_id = s.next_virtual_document_id
              /\ n.entry_uri = u /\ n.files = s.files /\ n.entry_path = p
          BY <2>3, <4>1, EntryFields
        <4> QED
          BY <3>2, <4>2 DEF p
      <3> QED
        BY <3>1, <3>2
    <2> HIDE DEF n, m
    <2>5. /\ IsWorld(m)
          /\ m.documents = s.documents
          /\ m.open_documents = s.open_documents \cup {u}
          /\ m.client_to_vfs = s.client_to_vfs
          /\ m.vfs_to_client = s.vfs_to_client
          /\ m.workspace_roots = s.workspace_roots
          /\ m.workspace_namespaced = s.workspace_namespaced
          /\ m.next_virtual_document_id = s.next_virtual_document_id
          /\ m.entry_uri = IF s.entry_uri # None THEN s.entry_uri ELSE u
          /\ m.files = s.files
          /\ m.entry_path = IF s.entry_uri # None THEN s.entry_path ELSE s.client_to_vfs[u]
      BY <2>1, <2>4, OpenField
    <2>6. Typed(m)
      <3>1. m.entry_uri \in Uris \cup {None} /\ m.entry_path \in VPaths \cup {None}
        BY <2>3, <2>5 DEF Typed
      <3>2. HasRoots(m)
        BY <2>3, <2>5, SamePlaces DEF Typed
      <3>3. m.open_documents \in SUBSET Uris
        BY <2>3, <2>5 DEF Typed
      <3> QED
        BY <2>3, <2>5, <3>1, <3>2, <3>3 DEF Typed
    <2>7. Mapped(m) /\ Seen(m) /\ Known(m) = Known(s)
      BY <2>3, <2>5 DEF Mapped, Seen, Known
    <2>8. Entered(m)
      <3>1. u # None
        BY NoneAssumption
      <3> QED
        BY <2>2, <2>3, <2>5, <2>7, <3>1 DEF Entered
    <2>9. ASSUME NEW v \in Known(m) PROVE InPlace(m, v, {})
      <3>1. Placed(m, v) = Placed(s, v)
        BY <2>5, SamePlaces
      <3> QED
        BY <2>3, <2>5, <2>7, <3>1 DEF InPlace
    <2>10. Good(m, {})
      BY <2>6, <2>7, <2>8, <2>9 DEF Good
    <2>11. Only(w, m, u)
      BY <2>2, <2>5 DEF Only
    <2> QED
      BY <2>2, <2>5, <2>10, <2>11 DEF m
  <1> QED
    BY <1>3, <1>4

\* The roots put no document among the detached ones.
LEMMA PlacedArea ==
    ASSUME NEW w, HasRoots(w), NEW u \in Uris, Placed(w, u) # None
    PROVE  Placed(w, u).area # "detached"
  <1>1. CASE WorkspaceRelativeVfsPath(w, u) # None
    BY <1>1, RelativeFacts, VPathFields DEF Placed, FirstOf
  <1>2. CASE WorkspaceRelativeVfsPath(w, u) = None
    BY <1>2, UriToVfsPathFacts, VPathFields DEF Placed, FirstOf
  <1> QED
    BY <1>1, <1>2

\* A world whose roots are about to change, and the same world with the new ones.
Moved(w, moved, roots) ==
    /\ Typed(w) /\ Mapped(w) /\ \A u \in Known(w) : InPlace(w, u, {})
    /\ roots \in SUBSET Roots /\ IsFiniteSet(roots)
    /\ moved.workspace_roots = roots
    /\ moved.next_virtual_document_id = w.next_virtual_document_id
    /\ moved.open_documents = w.open_documents
    /\ moved.client_to_vfs = w.client_to_vfs

\* A real document gets a place of its own, and an open one always gets one.
LEMMA NewHomes ==
    ASSUME NEW w, NEW moved, NEW roots, Moved(w, moved, roots),
           NEW u \in RealDocuments(w, roots)
    PROVE  LET p == PlaceRealDocument(w, moved, u)
           IN  /\ u \in Files /\ u \in Uris /\ u \in Known(w)
               /\ u \in w.open_documents => p # None
               /\ p # None => /\ Home(moved, u, p) /\ p \in VPaths /\ p.area # "virtual"
                              /\ p = Placed(moved, u) \/ (DetachedHome(u, p) /\ u \in w.open_documents)
  <1> DEFINE p == PlaceRealDocument(w, moved, u)
             there == WorkspaceRelativeVfsPath(moved, u)
             q == IF IsDetached(w, u) THEN w.client_to_vfs[u] ELSE DetachedVfsPath(w, u)
  <1>1. u \in Files /\ u \in Uris /\ u \in Known(w)
    BY DEF RealDocuments, Files, Moved, Mapped, Known
  <1>2. HasRoots(moved) /\ HasRoots(w) /\ InPlace(w, u, {})
    BY <1>1 DEF Moved, HasRoots, Typed
  <1>3. p = FirstOf(there, IF u \notin w.open_documents THEN None ELSE q)
    BY DEF PlaceRealDocument
  <1>4. q # None /\ DetachedHome(u, q)
    <2>1. CASE IsDetached(w, u)
      <3>1. q = w.client_to_vfs[u] /\ q # None /\ q.area = "detached"
        BY <2>1 DEF IsDetached
      <3> HIDE DEF q
      <3>2. q = Placed(w, u) \/ DetachedHome(u, q)
        BY <1>1, <1>2, <3>1 DEF InPlace
      <3> QED
        BY <1>1, <1>2, <3>1, <3>2, PlacedArea
    <2>2. CASE ~IsDetached(w, u)
      <3>1. q = DetachedVfsPath(w, u)
        BY <2>2
      <3> HIDE DEF q
      <3>2. CASE IsBelowAny(u, w.workspace_roots)
        <4> DEFINE root == InnermostRoot(u, w.workspace_roots)
        <4>1. root \in Roots /\ IsBelow(u, root)
          BY <1>1, <1>2, <3>2, InnermostFacts DEF HasRoots
        <4>2. q = VPath("detached", root, Relative(u, root), 0)
          BY <3>1, <3>2 DEF DetachedVfsPath
        <4> HIDE DEF root
        <4> QED
          BY <1>1, <4>1, <4>2, VPathsMembers DEF DetachedHome
      <3>3. CASE ~IsBelowAny(u, w.workspace_roots)
        <4>1. q = VPath("detached", u.path, <<u.path[Len(u.path)]>>, 0)
          BY <3>1, <3>3 DEF DetachedVfsPath
        <4> QED
          BY <1>1, <4>1, VPathsMembers DEF DetachedHome
      <3> QED
        BY <3>2, <3>3
    <2> QED
      BY <2>1, <2>2
  <1> HIDE DEF p, q, there
  <1>5. u \in w.open_documents => p # None
    BY <1>3, <1>4 DEF FirstOf
  <1>6. p # None => (p = Placed(moved, u) \/ (DetachedHome(u, p) /\ u \in w.open_documents))
    <2>1. CASE there # None
      BY <1>3, <2>1 DEF FirstOf, Placed, there
    <2>2. CASE there = None
      BY <1>3, <1>4, <2>2 DEF FirstOf
    <2> QED
      BY <2>1, <2>2
  <1>7. p # None => Home(moved, u, p)
    BY <1>6 DEF Home
  <1>8. p # None => p \in VPaths /\ p.area # "virtual"
    BY <1>1, <1>2, <1>7, HomeFacts
  <1> QED
    BY <1>1, <1>5, <1>6, <1>7, <1>8 DEF p

\* Any other document is where the new roots leave it.
LEMMA OtherHomes ==
    ASSUME NEW w, NEW moved, NEW roots, Moved(w, moved, roots),
           NEW u \in Known(w), u \notin RealDocuments(w, roots)
    PROVE  LET p == w.client_to_vfs[u]
           IN  /\ u \in Uris /\ p \in VPaths /\ InPlace(moved, u, {})
               /\ u \in Files => Home(moved, u, p)
               /\ u \notin Files => p.area = "virtual"
  <1> DEFINE p == w.client_to_vfs[u]
  <1>1. u \in Uris /\ p # None /\ InPlace(w, u, {}) /\ w.documents[u] # None
    BY DEF Known, Moved, Mapped
  <1>2. p \in VPaths
    BY <1>1 DEF Moved, Typed
  <1>3. CASE u \in Files
    <2>1. /\ UriToVfsPath(u) # None
          /\ ~IsBelowAny(u, w.workspace_roots) /\ ~IsBelowAny(u, roots)
      BY <1>1, <1>3 DEF RealDocuments, Files
    <2>2. Placed(w, u) = UriToVfsPath(u) /\ Placed(moved, u) = UriToVfsPath(u)
      BY <2>1 DEF Placed, FirstOf, WorkspaceRelativeVfsPath, Moved
    <2>3. InPlace(moved, u, {})
      BY <1>1, <1>3, <2>2 DEF InPlace, Moved
    <2>4. Home(moved, u, p)
      BY <1>1, <1>3, <2>2 DEF InPlace, Home
    <2> QED
      BY <1>1, <1>2, <1>3, <2>3, <2>4
  <1>4. CASE u \notin Files
    <2>1. InPlace(moved, u, {})
      BY <1>1, <1>4 DEF InPlace, Moved
    <2>2. p.area = "virtual"
      BY <1>1, <1>4, VPathFields DEF InPlace
    <2> QED
      BY <1>1, <1>2, <1>4, <2>1, <2>2
  <1> QED
    BY <1>3, <1>4

\* The last of one document.
LEMMA LastFacts ==
    ASSUME NEW u \in Uris
    PROVE  LastUri({u}) = u
  <1>1. UriRank[u] <= UriRank[u]
    <2>1. UriRank[u] \in Nat
      BY RankAssumption
    <2> QED
      BY <2>1
  <1> QED
    BY <1>1 DEF LastUri

\* replace_workspace_roots: every document is where the new roots put it, at a
\* path of its own, and what is open stays open with its text.
LEMMA ReplaceFacts ==
    ASSUME NEW w, Good(w, {}), NEW roots \in SUBSET Roots, IsFiniteSet(roots)
    PROVE  LET m == ReplaceWorkspaceRoots(w, roots)
           IN  /\ Good(m, {}) /\ m.open_documents = w.open_documents
               /\ \A u \in w.open_documents : m.documents[u] = w.documents[u]
               /\ m.workspace_roots = roots
               /\ roots = w.workspace_roots => m = w
  <1>1. CASE roots = w.workspace_roots
    <2>1. ReplaceWorkspaceRoots(w, roots) = w
      BY <1>1 DEF ReplaceWorkspaceRoots, RootsUnchanged
    <2> QED
      BY <1>1, <2>1
  <1>2. CASE roots # w.workspace_roots
    <2> DEFINE real == RealDocuments(w, roots)
               flag == w.workspace_namespaced \/ Cardinality(roots) > 1
                           \/ (roots # {} /\ DetachesAnOpenDocument(w, roots))
               moved == WithRoots(w, roots, flag)
               place == [u \in real |-> PlaceRealDocument(w, moved, u)]
               dropped == {u \in real : place[u] = None}
               vacated == {w.client_to_vfs[u] : u \in real} \ {None}
               arrival == [p \in {place[u] : u \in real \ dropped} |->
                              LastUri({u \in real : place[u] = p})]
               d == Extended(moved.documents, [u \in dropped |-> None])
               o == moved.open_documents \ dropped
               c == Extended(moved.client_to_vfs, place)
               v == Extended(Extended(moved.vfs_to_client, [p \in vacated |-> None]), arrival)
               f == Extended(Extended(moved.files, [p \in vacated |-> None]),
                             [p \in DOMAIN arrival |-> w.documents[arrival[p]]])
               t == WithPlaces(moved, d, o, c, v, f)
               m == ReplaceWorkspaceRoots(w, roots)
    <2>1. m = RefreshEntry(t)
      BY <1>2, Zenon DEF ReplaceWorkspaceRoots, RootsUnchanged, WithRoots, WithPlaces
    <2> HIDE DEF m
    <2>2. /\ Typed(w) /\ Mapped(w) /\ Seen(w) /\ Entered(w) /\ IsWorld(w)
          /\ \A u \in Known(w) : InPlace(w, u, {})
      BY DEF Good, Typed
    <2>3. flag \in BOOLEAN
      OBVIOUS
    <2> HIDE DEF flag
    <2>4. /\ IsWorld(moved)
          /\ moved.documents = w.documents
          /\ moved.open_documents = w.open_documents
          /\ moved.client_to_vfs = w.client_to_vfs
          /\ moved.vfs_to_client = w.vfs_to_client
          /\ moved.workspace_roots = roots
          /\ moved.workspace_namespaced = flag
          /\ moved.next_virtual_document_id = w.next_virtual_document_id
          /\ moved.entry_uri = w.entry_uri
          /\ moved.files = w.files
          /\ moved.entry_path = w.entry_path
      BY <2>2, MoveFields
    <2> HIDE DEF moved
    <2>5. Moved(w, moved, roots) /\ HasRoots(moved)
      BY <2>2, <2>4 DEF Moved, HasRoots
    <2> HIDE DEF real
    <2>6. /\ w.documents \in [Uris -> Texts \cup {None}]
          /\ w.client_to_vfs \in [Uris -> VPaths \cup {None}]
          /\ w.vfs_to_client \in [VPaths -> Uris \cup {None}]
          /\ w.files \in [VPaths -> Texts \cup {None}]
          /\ w.open_documents \in SUBSET Uris
      BY <2>2 DEF Typed
    <2>7. ASSUME NEW u \in real
          PROVE  /\ u \in Files /\ u \in Uris /\ u \in Known(w)
                 /\ u \in w.open_documents => place[u] # None
                 /\ place[u] # None =>
                      /\ Home(moved, u, place[u]) /\ place[u] \in VPaths /\ place[u].area # "virtual"
                      /\ place[u] = Placed(moved, u) \/ (DetachedHome(u, place[u]) /\ u \in w.open_documents)
      <3> DEFINE p == PlaceRealDocument(w, moved, u)
      <3>1. place[u] = p
        OBVIOUS
      <3> HIDE DEF place
      <3>2. /\ u \in Files /\ u \in Uris /\ u \in Known(w)
            /\ u \in w.open_documents => p # None
            /\ p # None => /\ Home(moved, u, p) /\ p \in VPaths /\ p.area # "virtual"
                           /\ p = Placed(moved, u) \/ (DetachedHome(u, p) /\ u \in w.open_documents)
        BY <2>5, NewHomes DEF real
      <3> HIDE DEF p
      <3> QED
        BY <3>1, <3>2
    <2>8. DOMAIN place = real
      OBVIOUS
    <2> HIDE DEF place
    <2>9. ASSUME NEW u \in Known(w), u \notin real
          PROVE  /\ u \in Uris /\ w.client_to_vfs[u] \in VPaths /\ InPlace(moved, u, {})
                 /\ u \in Files => Home(moved, u, w.client_to_vfs[u])
                 /\ u \notin Files => w.client_to_vfs[u].area = "virtual"
      BY <2>5, <2>9, OtherHomes DEF real
    <2>10. \A u, x \in real : place[u] # None /\ place[u] = place[x] => u = x
      BY <2>5, <2>7, Apart
    <2>11. \A u \in real \ dropped : place[u] \in DOMAIN arrival /\ arrival[place[u]] = u
      <3> SUFFICES ASSUME NEW u \in real \ dropped
                   PROVE  place[u] \in DOMAIN arrival /\ arrival[place[u]] = u
        OBVIOUS
      <3>1. place[u] # None
        OBVIOUS
      <3>2. {x \in real : place[x] = place[u]} = {u}
        BY <2>10, <3>1
      <3>3. place[u] \in DOMAIN arrival /\ arrival[place[u]] = LastUri({x \in real : place[x] = place[u]})
        OBVIOUS
      <3> HIDE DEF arrival
      <3>4. LastUri({u}) = u
        BY <2>7, LastFacts
      <3> QED
        BY <3>2, <3>3, <3>4
    <2>12. \A p \in DOMAIN arrival : \E u \in real \ dropped : p = place[u] /\ arrival[p] = u
      <3>1. DOMAIN arrival = {place[u] : u \in real \ dropped}
        OBVIOUS
      <3> HIDE DEF arrival
      <3> QED
        BY <2>11, <3>1
    <2> HIDE DEF arrival
    <2>13. \A u \in real : u \in dropped <=> place[u] = None
      OBVIOUS
    <2>14. \A u \in dropped : u \in real /\ u \notin w.open_documents
      BY <2>7, <2>13
    <2>15. \A p : p \in vacated <=> p # None /\ \E u \in real : p = w.client_to_vfs[u]
      OBVIOUS
    <2> DEFINE gone == [u \in dropped |-> None]
               empty == [p \in vacated |-> None]
               content == [p \in DOMAIN arrival |-> w.documents[arrival[p]]]
    <2>16. DOMAIN gone = dropped /\ \A u \in dropped : gone[u] = None
      OBVIOUS
    <2>17. DOMAIN empty = vacated /\ \A p \in vacated : empty[p] = None
      OBVIOUS
    <2>18. DOMAIN content = DOMAIN arrival /\ \A p \in DOMAIN arrival : content[p] = w.documents[arrival[p]]
      OBVIOUS
    <2>19. /\ d = Extended(w.documents, gone) /\ c = Extended(w.client_to_vfs, place)
           /\ v = Extended(Extended(w.vfs_to_client, empty), arrival)
           /\ f = Extended(Extended(w.files, empty), content)
           /\ o = w.open_documents
      BY <2>4, <2>14
    <2> HIDE DEF dropped, vacated, gone, empty, content, d, c, v, f, o
    <2>20. /\ d \in [Uris -> Texts \cup {None}]
           /\ \A u \in Uris : d[u] = IF u \in dropped THEN None ELSE w.documents[u]
      BY <2>6, <2>16, <2>19 DEF Extended
    <2>21. /\ c \in [Uris -> VPaths \cup {None}]
           /\ \A u \in Uris : c[u] = IF u \in real THEN place[u] ELSE w.client_to_vfs[u]
      <3>1. \A u \in Uris : u \in DOMAIN place => place[u] \in VPaths \cup {None}
        BY <2>7, <2>8
      <3> QED
        BY <2>6, <2>8, <2>19, <3>1 DEF Extended
    <2>22. \A p \in DOMAIN arrival : arrival[p] \in Uris /\ w.documents[arrival[p]] \in Texts \cup {None}
      BY <2>6, <2>7, <2>12
    <2>23. /\ v \in [VPaths -> Uris \cup {None}]
           /\ \A p \in VPaths : v[p] = IF p \in DOMAIN arrival THEN arrival[p]
                                       ELSE IF p \in vacated THEN None ELSE w.vfs_to_client[p]
      <3> DEFINE e == Extended(w.vfs_to_client, empty)
      <3>1. /\ e \in [VPaths -> Uris \cup {None}]
            /\ \A p \in VPaths : e[p] = IF p \in vacated THEN None ELSE w.vfs_to_client[p]
        BY <2>6, <2>17 DEF Extended
      <3> HIDE DEF e
      <3>2. /\ Extended(e, arrival) \in [VPaths -> Uris \cup {None}]
            /\ \A p \in VPaths : Extended(e, arrival)[p] = IF p \in DOMAIN arrival THEN arrival[p] ELSE e[p]
        BY <2>22, <3>1 DEF Extended
      <3> QED
        BY <2>19, <3>1, <3>2 DEF e
    <2>24. /\ f \in [VPaths -> Texts \cup {None}]
           /\ \A p \in VPaths : f[p] = IF p \in DOMAIN arrival THEN w.documents[arrival[p]]
                                       ELSE IF p \in vacated THEN None ELSE w.files[p]
      <3> DEFINE e == Extended(w.files, empty)
      <3>1. /\ e \in [VPaths -> Texts \cup {None}]
            /\ \A p \in VPaths : e[p] = IF p \in vacated THEN None ELSE w.files[p]
        BY <2>6, <2>17 DEF Extended
      <3> HIDE DEF e
      <3>2. /\ Extended(e, content) \in [VPaths -> Texts \cup {None}]
            /\ \A p \in VPaths : Extended(e, content)[p] = IF p \in DOMAIN content THEN content[p] ELSE e[p]
        BY <2>18, <2>22, <3>1 DEF Extended
      <3> QED
        BY <2>18, <2>19, <3>1, <3>2 DEF e
    <2>25. /\ IsWorld(t)
           /\ t.documents = d
           /\ t.open_documents = o
           /\ t.client_to_vfs = c
           /\ t.vfs_to_client = v
           /\ t.workspace_roots = roots
           /\ t.workspace_namespaced = flag
           /\ t.next_virtual_document_id = w.next_virtual_document_id
           /\ t.entry_uri = w.entry_uri
           /\ t.files = f
           /\ t.entry_path = w.entry_path
      BY <2>4, PlaceFields
    <2> HIDE DEF t
    <2>26. Typed(t)
      <3>1. HasRoots(t)
        BY <2>25 DEF HasRoots
      <3> QED
        BY <2>2, <2>3, <2>19, <2>20, <2>21, <2>23, <2>24, <2>25, <3>1 DEF Typed
    <2>27. ASSUME NEW u \in Uris, NEW p \in VPaths, c[u] = p PROVE v[p] = u
      <3>0. p # None
        BY NoneAssumption
      <3>1. CASE u \in real
        <4>1. place[u] = p /\ u \in real \ dropped
          BY <2>13, <2>21, <2>27, <3>0, <3>1
        <4>2. p \in DOMAIN arrival /\ arrival[p] = u
          BY <2>11, <4>1
        <4> QED
          BY <2>23, <4>2
      <3>2. CASE u \notin real
        <4>1. w.client_to_vfs[u] = p /\ u \in Known(w)
          BY <2>21, <2>27, <3>0, <3>2 DEF Known
        <4>2. w.vfs_to_client[p] = u
          BY <2>2, <3>0, <4>1 DEF Mapped
        <4>3. p \notin vacated
          <5> SUFFICES ASSUME NEW x \in real, p = w.client_to_vfs[x] PROVE FALSE
            BY <2>15
          <5>1. w.vfs_to_client[p] = x
            BY <2>2, <2>7, <3>0 DEF Mapped
          <5> QED
            BY <3>2, <4>2, <5>1
        <4>4. p \notin DOMAIN arrival
          <5> SUFFICES ASSUME p \in DOMAIN arrival PROVE FALSE
            OBVIOUS
          <5>1. PICK x \in real \ dropped : p = place[x]
            BY <2>12
          <5>2. x \in Uris /\ x \in Files /\ Home(moved, x, p) /\ p.area # "virtual"
            BY <2>7, <3>0, <5>1
          <5>3. u \in Files /\ Home(moved, u, p)
            BY <2>9, <3>2, <4>1, <5>2
          <5>4. u = x
            BY <2>5, <5>2, <5>3, Apart
          <5> QED
            BY <3>2, <5>4
        <4> QED
          BY <2>23, <4>2, <4>3, <4>4
      <3> QED
        BY <3>1, <3>2
    <2>28. ASSUME NEW p \in VPaths, v[p] # None
           PROVE  /\ v[p] \in Uris /\ c[v[p]] = p /\ v[p] \notin dropped
                  /\ f[p] = w.documents[v[p]]
      <3>0. p # None
        BY NoneAssumption
      <3>1. CASE p \in DOMAIN arrival
        <4>1. PICK u \in real \ dropped : p = place[u] /\ arrival[p] = u
          BY <2>12, <3>1
        <4>2. u \in Uris
          BY <2>7
        <4> QED
          BY <2>21, <2>23, <2>24, <3>1, <4>1, <4>2
      <3>2. CASE p \notin DOMAIN arrival
        <4> DEFINE x == w.vfs_to_client[p]
        <4>1. p \notin vacated /\ v[p] = x /\ x # None /\ f[p] = w.files[p]
          BY <2>23, <2>24, <2>28, <3>2
        <4>2. x \in Uris /\ w.client_to_vfs[x] = p
          BY <2>2, <2>6, <4>1 DEF Mapped
        <4>3. f[p] = w.documents[x]
          BY <2>2, <4>1 DEF Seen
        <4> HIDE DEF x
        <4>4. x \notin real
          BY <2>15, <3>0, <4>1, <4>2
        <4> QED
          BY <2>14, <2>21, <4>1, <4>2, <4>3, <4>4
      <3> QED
        BY <3>1, <3>2
    <2>29. Mapped(t)
      <3>1. ASSUME NEW u \in Uris PROVE d[u] # None <=> c[u] # None
        <4>1. CASE u \in real
          BY <2>2, <2>7, <2>13, <2>20, <2>21, <4>1 DEF Mapped, Known
        <4>2. CASE u \notin real
          BY <2>2, <2>14, <2>20, <2>21, <4>2 DEF Mapped
        <4> QED
          BY <4>1, <4>2
      <3>2. ASSUME NEW u \in Uris, c[u] # None PROVE v[c[u]] = u
        <4>1. c[u] \in VPaths
          BY <2>21, <3>2
        <4> QED
          BY <2>27, <4>1
      <3> QED
        BY <2>25, <2>28, <3>1, <3>2 DEF Mapped
    <2>30. Seen(t)
      <3>1. ASSUME NEW p \in VPaths PROVE f[p] = IF v[p] = None THEN None ELSE d[v[p]]
        <4>1. CASE v[p] = None
          <5>1. p \notin DOMAIN arrival
            BY <2>22, <2>23, <4>1, NoneAssumption
          <5>2. CASE p \in vacated
            BY <2>24, <4>1, <5>1, <5>2
          <5>3. CASE p \notin vacated
            <6>1. w.vfs_to_client[p] = None /\ f[p] = w.files[p]
              BY <2>23, <2>24, <4>1, <5>1, <5>3
            <6> QED
              BY <2>2, <4>1, <6>1 DEF Seen
          <5> QED
            BY <5>2, <5>3
        <4>2. CASE v[p] # None
          <5> DEFINE x == v[p]
          <5>1. x \in Uris /\ x \notin dropped /\ f[p] = w.documents[x]
            BY <2>28, <4>2
          <5> HIDE DEF x
          <5>2. d[x] = w.documents[x]
            BY <2>20, <5>1
          <5> QED
            BY <4>2, <5>1, <5>2 DEF x
        <4> QED
          BY <4>1, <4>2
      <3> QED
        BY <2>25, <3>1 DEF Seen
    <2>31. Known(t) = {u \in Uris : c[u] # None}
      BY <2>25 DEF Known
    <2>32. w.open_documents \subseteq Known(t)
      <3> SUFFICES ASSUME NEW u \in w.open_documents PROVE u \in Uris /\ c[u] # None
        BY <2>31
      <3>1. u \in Uris /\ w.client_to_vfs[u] # None
        BY <2>2 DEF Entered, Known
      <3> QED
        BY <2>7, <2>21, <3>1
    <2>33. ASSUME NEW u \in Known(t) PROVE InPlace(t, u, {})
      <3>1. u \in Uris /\ c[u] # None
        BY <2>31
      <3>2. Placed(t, u) = Placed(moved, u)
        BY <2>4, <2>25, SamePlaces
      <3>3. CASE u \in real
        <4>1. c[u] = place[u] /\ u \in Files
          BY <2>7, <2>21, <3>1, <3>3
        <4>2. place[u] = Placed(moved, u) \/ (DetachedHome(u, place[u]) /\ u \in w.open_documents)
          BY <2>7, <3>1, <3>3, <4>1
        <4> QED
          BY <2>19, <2>25, <3>2, <4>1, <4>2 DEF InPlace
      <3>4. CASE u \notin real
        <4>1. c[u] = w.client_to_vfs[u] /\ u \in Known(w)
          BY <2>21, <3>1, <3>4 DEF Known
        <4>2. InPlace(moved, u, {})
          BY <2>9, <3>4, <4>1
        <4> QED
          BY <2>4, <2>19, <2>25, <3>2, <4>1, <4>2 DEF InPlace
      <3> QED
        BY <3>3, <3>4
    <2>34. Settled(t)
      BY <2>19, <2>25, <2>26, <2>29, <2>30, <2>32, <2>33 DEF Settled
    <2>35. /\ Good(m, {}) /\ m.documents = t.documents /\ m.open_documents = t.open_documents
           /\ m.workspace_roots = t.workspace_roots
      BY <2>1, <2>34, RefreshFacts
    <2>36. \A u \in w.open_documents : d[u] = w.documents[u]
      BY <2>6, <2>14, <2>20
    <2> QED
      BY <1>2, <2>19, <2>25, <2>35, <2>36 DEF m
  <1> QED
    BY <1>1, <1>2

\* The files a scan may list.
Listed(listed) == \A u \in DOMAIN listed : u \in Files /\ u \in Uris /\ listed[u] \in ListedTexts

\* load_documents: the files found get a place of their own and their text,
\* and nothing that is open or was known elsewhere is touched.
LEMMA LoadFacts ==
    ASSUME NEW w, Good(w, {}), NEW listed, Listed(listed)
    PROVE  LET m == LoadDocuments(w, listed)
           IN  /\ Good(m, {}) /\ m.open_documents = w.open_documents
               /\ \A u \in w.open_documents : m.documents[u] = w.documents[u]
               /\ \A u \in Known(w) : m.client_to_vfs[u] = w.client_to_vfs[u]
               /\ m.workspace_roots = w.workspace_roots
  <1> DEFINE loaded == {u \in LoadedDocuments(w, listed) : VfsPathForUri(w, u) # None}
             path == [u \in loaded |-> VfsPathForUri(w, u)]
             fresh == {u \in loaded : w.client_to_vfs[u] = None}
             documentAt(S, p) == LastUri({u \in S : path[u] = p})
             texts == [u \in loaded |-> listed[u]]
             news == [p \in {path[u] : u \in fresh} |-> documentAt(fresh, p)]
             content == [p \in {path[u] : u \in loaded} |-> listed[documentAt(loaded, p)]]
             d == Extended(w.documents, texts)
             c == Extended(w.client_to_vfs, path)
             v == Extended(w.vfs_to_client, news)
             f == Extended(w.files, content)
             m == LoadDocuments(w, listed)
  <1>1. m = WithLoaded(w, d, c, v, f)
    BY Zenon DEF LoadDocuments, WithLoaded
  <1>2. /\ Typed(w) /\ Mapped(w) /\ Seen(w) /\ Entered(w) /\ IsWorld(w)
        /\ \A u \in Known(w) : InPlace(w, u, {}) /\ HasRoots(w)
    BY DEF Good, Typed
  <1>3. /\ w.documents \in [Uris -> Texts \cup {None}]
        /\ w.client_to_vfs \in [Uris -> VPaths \cup {None}]
        /\ w.vfs_to_client \in [VPaths -> Uris \cup {None}]
        /\ w.files \in [VPaths -> Texts \cup {None}]
        /\ w.open_documents \in SUBSET Uris /\ HasRoots(w)
    BY <1>2 DEF Typed
  <1>4. ASSUME NEW u \in loaded
        PROVE  /\ u \in Uris /\ u \in Files /\ u \notin w.open_documents
               /\ listed[u] \in Texts /\ listed[u] # None
               /\ Home(w, u, path[u]) /\ path[u] \in VPaths /\ path[u] # None
               /\ u \in Known(w) => path[u] = w.client_to_vfs[u]
               /\ u \notin Known(w) => NewPlace(w, u, path[u])
    <2>1. /\ u \in Uris /\ u \in Files /\ u \notin w.open_documents
          /\ listed[u] \in Texts /\ listed[u] # None
      BY TextsAssumption DEF Listed, LoadedDocuments
    <2> DEFINE p == path[u]
    <2>2. p = VfsPathForUri(w, u) /\ p # None
      OBVIOUS
    <2> HIDE DEF p, path
    <2>3. u \in Known(w) => p = w.client_to_vfs[u]
      BY <2>2 DEF VfsPathForUri, FirstOf, Known
    <2>4. u \notin Known(w) => p = Placed(w, u)
      BY <2>1, <2>2 DEF VfsPathForUri, FirstOf, Placed, Known
    <2>5. Home(w, u, p)
      BY <1>2, <2>1, <2>2, <2>3, <2>4 DEF InPlace, Home
    <2>6. p \in VPaths
      BY <1>3, <2>1, <2>5, HomeFacts
    <2>7. u \notin Known(w) => NewPlace(w, u, p)
      BY <2>1, <2>2, <2>4 DEF NewPlace
    <2> QED
      BY <2>1, <2>2, <2>3, <2>5, <2>6, <2>7 DEF p
  <1>5. DOMAIN path = loaded /\ DOMAIN texts = loaded /\ \A u \in loaded : texts[u] = listed[u]
    OBVIOUS
  <1> HIDE DEF path, texts
  <1>6. \A u \in loaded : u \in fresh <=> u \notin Known(w)
    BY <1>4 DEF Known
  <1>7. \A u, x \in loaded : path[u] = path[x] => u = x
    BY <1>3, <1>4, Apart
  <1>8. ASSUME NEW S \in SUBSET loaded, NEW u \in S PROVE documentAt(S, path[u]) = u
    <2>1. {x \in S : path[x] = path[u]} = {u}
      BY <1>7
    <2>2. LastUri({u}) = u
      BY <1>4, LastFacts
    <2> QED
      BY <2>1, <2>2
  <1>9. fresh \subseteq loaded
    OBVIOUS
  <1> HIDE DEF loaded, fresh, documentAt
  <1>10. /\ \A u \in fresh : path[u] \in DOMAIN news /\ news[path[u]] = u
         /\ \A p \in DOMAIN news : \E u \in fresh : p = path[u] /\ news[p] = u
    <2>1. DOMAIN news = {path[u] : u \in fresh} /\ \A p \in DOMAIN news : news[p] = documentAt(fresh, p)
      OBVIOUS
    <2>2. \A u \in fresh : documentAt(fresh, path[u]) = u
      BY <1>8, <1>9
    <2> HIDE DEF news
    <2> QED
      BY <2>1, <2>2
  <1>11. /\ \A u \in loaded : path[u] \in DOMAIN content /\ content[path[u]] = listed[u]
         /\ \A p \in DOMAIN content : \E u \in loaded : p = path[u] /\ content[p] = listed[u]
    <2>1. /\ DOMAIN content = {path[u] : u \in loaded}
          /\ \A p \in DOMAIN content : content[p] = listed[documentAt(loaded, p)]
      OBVIOUS
    <2>2. \A u \in loaded : documentAt(loaded, path[u]) = u
      BY <1>8
    <2> HIDE DEF content
    <2> QED
      BY <2>1, <2>2
  <1> HIDE DEF news, content
  <1>12. \A u \in fresh : u \in loaded /\ u \notin Known(w)
    BY <1>6, <1>9
  <1>13. ASSUME NEW u \in fresh
         PROVE  w.vfs_to_client[path[u]] = None
    <2> DEFINE p == path[u]
    <2>1. u \in Uris /\ u \notin Known(w) /\ NewPlace(w, u, p)
      BY <1>4, <1>12
    <2> HIDE DEF p
    <2>2. AllInPlace(w, {})
      BY <1>2 DEF AllInPlace
    <2>3. w.vfs_to_client[p] = None
      BY <1>2, <2>1, <2>2, FreshFacts
    <2> QED
      BY <2>3 DEF p
  <1>14. /\ d \in [Uris -> Texts \cup {None}]
         /\ \A u \in Uris : d[u] = IF u \in loaded THEN listed[u] ELSE w.documents[u]
    <2>1. \A u \in Uris : u \in DOMAIN texts => texts[u] \in Texts \cup {None}
      BY <1>4, <1>5
    <2> QED
      BY <1>3, <1>5, <2>1 DEF Extended
  <1>15. /\ c \in [Uris -> VPaths \cup {None}]
         /\ \A u \in Uris : c[u] = IF u \in loaded THEN path[u] ELSE w.client_to_vfs[u]
    <2>1. \A u \in Uris : u \in DOMAIN path => path[u] \in VPaths \cup {None}
      BY <1>4, <1>5
    <2> QED
      BY <1>3, <1>5, <2>1 DEF Extended
  <1>16. /\ v \in [VPaths -> Uris \cup {None}]
         /\ \A p \in VPaths : v[p] = IF p \in DOMAIN news THEN news[p] ELSE w.vfs_to_client[p]
    <2>1. \A p \in VPaths : p \in DOMAIN news => news[p] \in Uris \cup {None}
      BY <1>4, <1>10, <1>12
    <2> QED
      BY <1>3, <2>1 DEF Extended
  <1>17. /\ f \in [VPaths -> Texts \cup {None}]
         /\ \A p \in VPaths : f[p] = IF p \in DOMAIN content THEN content[p] ELSE w.files[p]
    <2>1. \A p \in VPaths : p \in DOMAIN content => content[p] \in Texts \cup {None}
      BY <1>4, <1>11
    <2> QED
      BY <1>3, <2>1 DEF Extended
  <1> HIDE DEF d, c, v, f, m
  <1>18. /\ IsWorld(m)
         /\ m.documents = d
         /\ m.open_documents = w.open_documents
         /\ m.client_to_vfs = c
         /\ m.vfs_to_client = v
         /\ m.workspace_roots = w.workspace_roots
         /\ m.workspace_namespaced = w.workspace_namespaced
         /\ m.next_virtual_document_id = w.next_virtual_document_id
         /\ m.entry_uri = w.entry_uri
         /\ m.files = f
         /\ m.entry_path = w.entry_path
    BY <1>1, <1>2, LoadFields
  <1>19. \A u \in Known(w) : c[u] = w.client_to_vfs[u]
    BY <1>4, <1>15 DEF Known
  <1>20. Typed(m)
    <2>1. HasRoots(m)
      BY <1>3, <1>18, SamePlaces
    <2> QED
      BY <1>2, <1>14, <1>15, <1>16, <1>17, <1>18, <2>1 DEF Typed
  <1>21. ASSUME NEW u \in Uris, c[u] # None PROVE v[c[u]] = u
    <2>0. c[u] \in VPaths
      BY <1>15, <1>21
    <2>1. CASE u \in fresh
      <3>1. c[u] = path[u] /\ path[u] \in DOMAIN news /\ news[path[u]] = u
        BY <1>10, <1>12, <1>15, <2>1
      <3> QED
        BY <1>16, <2>0, <3>1
    <2>2. CASE u \notin fresh
      <3>1. u \in Known(w)
        BY <1>6, <1>15, <1>21, <2>2 DEF Known
      <3>2. c[u] = w.client_to_vfs[u] /\ w.vfs_to_client[c[u]] = u
        BY <1>2, <1>19, <3>1 DEF Mapped, Known
      <3>3. c[u] \notin DOMAIN news
        <4> SUFFICES ASSUME c[u] \in DOMAIN news PROVE FALSE
          OBVIOUS
        <4>1. PICK x \in fresh : c[u] = path[x]
          BY <1>10
        <4>2. w.vfs_to_client[c[u]] = None
          BY <1>13, <4>1
        <4> QED
          BY <3>2, <4>2, NoneAssumption
      <3> QED
        BY <1>16, <2>0, <3>2, <3>3
    <2> QED
      BY <2>1, <2>2
  <1>22. ASSUME NEW p \in VPaths, v[p] # None PROVE v[p] \in Uris /\ c[v[p]] = p
    <2>1. CASE p \in DOMAIN news
      <3>1. PICK u \in fresh : p = path[u] /\ news[p] = u
        BY <1>10, <2>1
      <3> QED
        BY <1>4, <1>12, <1>15, <1>16, <2>1, <3>1
    <2>2. CASE p \notin DOMAIN news
      <3> DEFINE x == w.vfs_to_client[p]
      <3>1. v[p] = x /\ x # None
        BY <1>16, <1>22, <2>2
      <3>2. x \in Uris /\ w.client_to_vfs[x] = p /\ p # None
        BY <1>2, <1>3, <3>1, NoneAssumption DEF Mapped
      <3> HIDE DEF x
      <3>3. x \in Known(w)
        BY <3>2 DEF Known
      <3> QED
        BY <1>19, <3>1, <3>2, <3>3
    <2> QED
      BY <2>1, <2>2
  <1>23. ASSUME NEW u \in Uris PROVE d[u] # None <=> c[u] # None
    <2>1. CASE u \in loaded
      BY <1>4, <1>14, <1>15, <2>1
    <2>2. CASE u \notin loaded
      BY <1>2, <1>14, <1>15, <2>2 DEF Mapped
    <2> QED
      BY <2>1, <2>2
  <1>24. Mapped(m)
    BY <1>18, <1>21, <1>22, <1>23 DEF Mapped
  <1>25. Seen(m)
    <2>1. ASSUME NEW p \in VPaths PROVE f[p] = IF v[p] = None THEN None ELSE d[v[p]]
      <3>1. CASE p \in DOMAIN content
        <4>1. PICK u \in loaded : p = path[u] /\ content[p] = listed[u]
          BY <1>11, <3>1
        <4>2. u \in Uris /\ p # None /\ c[u] = p
          BY <1>4, <1>15, <4>1
        <4>3. v[p] = u /\ u # None
          BY <1>21, <4>2, NoneAssumption
        <4>4. f[p] = listed[u] /\ d[u] = listed[u]
          BY <1>14, <1>17, <3>1, <4>1, <4>2
        <4> QED
          BY <4>3, <4>4
      <3>2. CASE p \notin DOMAIN content
        <4>1. p \notin DOMAIN news
          BY <1>10, <1>11, <1>12, <3>2
        <4> DEFINE x == w.vfs_to_client[p]
        <4>2. v[p] = x /\ f[p] = w.files[p] /\ w.files[p] = IF x = None THEN None ELSE w.documents[x]
          BY <1>2, <1>16, <1>17, <3>2, <4>1 DEF Seen
        <4>3. x # None => x \in Uris /\ c[x] = p
          BY <1>22, <4>2
        <4> HIDE DEF x
        <4>4. x # None => x \notin loaded
          BY <1>11, <1>15, <3>2, <4>3
        <4>5. x # None => d[x] = w.documents[x]
          BY <1>14, <4>3, <4>4
        <4> QED
          BY <4>2, <4>5
      <3> QED
        BY <3>1, <3>2
    <2> QED
      BY <1>18, <2>1 DEF Seen
  <1>26. Known(w) \subseteq Known(m)
    BY <1>18, <1>19 DEF Known
  <1>27. Entered(m)
    <2>1. w.entry_uri # None => w.entry_uri \in Known(w)
      BY <1>2 DEF Entered
    <2> QED
      BY <1>2, <1>18, <1>19, <1>26, <2>1 DEF Entered
  <1>28. ASSUME NEW u \in Known(m) PROVE InPlace(m, u, {})
    <2>1. u \in Uris /\ c[u] # None /\ Placed(m, u) = Placed(w, u)
      BY <1>18, SamePlaces DEF Known
    <2>2. CASE u \in Known(w)
      BY <1>2, <1>18, <1>19, <2>1, <2>2 DEF InPlace
    <2>3. CASE u \notin Known(w)
      <3>1. u \in loaded
        BY <1>15, <2>1, <2>3 DEF Known
      <3>2. c[u] = path[u] /\ u \in Files /\ NewPlace(w, u, path[u])
        BY <1>4, <1>15, <2>1, <2>3, <3>1
      <3> QED
        BY <1>18, <2>1, <3>2 DEF InPlace, NewPlace
    <2> QED
      BY <2>2, <2>3
  <1>29. Good(m, {})
    BY <1>20, <1>24, <1>25, <1>27, <1>28 DEF Good
  <1>30. \A u \in w.open_documents : d[u] = w.documents[u]
    BY <1>3, <1>4, <1>14
  <1> QED
    BY <1>18, <1>19, <1>29, <1>30 DEF m

\* A close of native.rs: the text on disk, or nothing.
LEMMA RefreshClosedFacts ==
    ASSUME NEW w, Good(w, {}), NEW u \in w.open_documents, NEW disk \in DiskTexts(u)
    PROVE  LET m == RefreshClosed(w, u, disk)
           IN  /\ Good(m, {}) /\ Only(w, m, u)
               /\ m.client_to_vfs[u] \in {w.client_to_vfs[u], None}
  <1> DEFINE c == CloseDocument(w, u)
             m == RefreshClosed(w, u, disk)
  <1>1. /\ Good(c, {u}) /\ c.open_documents = w.open_documents \ {u}
        /\ c.documents = w.documents /\ c.client_to_vfs = w.client_to_vfs
    BY CloseFacts
  <1>2. u \in Known(w) /\ u \in Uris /\ Known(c) = Known(w)
    BY <1>1 DEF Good, Entered, Known
  <1>3. CASE IsUriInWorkspace(w, u) /\ disk # None
    <2>1. m = SetWorkspaceDocument(c, u, disk)
      BY <1>3 DEF RefreshClosed
    <2>2. u \in Files /\ disk \in Texts /\ ~IsDetached(w, u)
      BY <1>2, <1>3 DEF DiskTexts, Files, IsUriInWorkspace
    <2>3. Good(c, {})
      <3> HIDE DEF c
      <3>1. c.client_to_vfs[u].area # "detached"
        BY <1>1, <1>2, <2>2 DEF IsDetached, Known
      <3>2. ~DetachedHome(u, c.client_to_vfs[u])
        BY <3>1, VPathFields DEF DetachedHome
      <3>3. ASSUME NEW v \in Known(c) PROVE InPlace(c, v, {})
        BY <1>1, <3>2 DEF Good, InPlace
      <3> QED
        BY <1>1, <3>3 DEF Good
    <2> HIDE DEF c, m
    <2>4. /\ Good(m, {}) /\ Only(c, m, u) /\ m.client_to_vfs[u] = c.client_to_vfs[u]
      BY <1>2, <2>1, <2>2, <2>3, SetFacts
    <2> QED
      BY <1>1, <2>4 DEF Only, m
  <1>4. CASE ~(IsUriInWorkspace(w, u) /\ disk # None)
    <2>1. m = RemoveWorkspaceDocument(c, u)
      BY <1>4 DEF RefreshClosed
    <2> HIDE DEF c, m
    <2>2. Good(m, {}) /\ Only(c, m, u) /\ m.client_to_vfs[u] = None
      BY <1>1, <1>2, <2>1, RemoveFacts
    <2> QED
      BY <1>1, <2>2 DEF Only, m
  <1> QED
    BY <1>3, <1>4

\* A scan finds files.
LEMMA ListingsFacts ==
    ASSUME NEW roots, NEW listed \in Listings(roots)
    PROVE  Listed(listed)
  <1> DEFINE visible == {u \in Uris : u.enc = "server" /\ IsBelowAny(u, roots)}
  <1>1. visible \subseteq Files
    BY DEF IsBelowAny, IsBelow, Files
  <1>2. CASE transport = "wasm"
    <2>1. listed = << >>
      BY <1>2 DEF Listings
    <2>2. DOMAIN listed = {}
      BY <2>1
    <2> QED
      BY <2>2 DEF Listed
  <1>3. CASE transport # "wasm"
    <2>1. PICK S \in SUBSET visible : listed \in [S -> ListedTexts]
      BY <1>3 DEF Listings
    <2> HIDE DEF visible
    <2>2. \A u \in DOMAIN listed : u \in Files /\ listed[u] \in ListedTexts
      BY <1>1, <2>1
    <2> QED
      BY <2>2 DEF Listed, Files
  <1> QED
    BY <1>2, <1>3

\* The folders a client names are roots, finitely many.
LEMMA FolderSets ==
    ASSUME NEW S \in SUBSET Folders
    PROVE  S \in SUBSET Roots /\ IsFiniteSet(S)
  BY FoldersAssumption, FS_Subset DEF Roots

\* load_workspace_roots and update_workspace_roots.
LEMMA LoadRootsFacts ==
    ASSUME NEW w, Good(w, {}), NEW roots \in SUBSET Roots, IsFiniteSet(roots),
           NEW listed, Listed(listed)
    PROVE  LET m == LoadDocuments(ReplaceWorkspaceRoots(w, roots), listed)
           IN  /\ Good(m, {}) /\ m.open_documents = w.open_documents
               /\ \A u \in w.open_documents : m.documents[u] = w.documents[u]
               /\ m.workspace_roots = roots
               /\ roots = w.workspace_roots =>
                      \A u \in Known(w) : m.client_to_vfs[u] = w.client_to_vfs[u]
  <1> DEFINE r == ReplaceWorkspaceRoots(w, roots)
             m == LoadDocuments(r, listed)
  <1>1. /\ Good(r, {}) /\ r.open_documents = w.open_documents
        /\ \A u \in w.open_documents : r.documents[u] = w.documents[u]
        /\ r.workspace_roots = roots
        /\ roots = w.workspace_roots => r = w
    BY ReplaceFacts
  <1> HIDE DEF r
  <1>2. /\ Good(m, {}) /\ m.open_documents = r.open_documents
        /\ \A u \in r.open_documents : m.documents[u] = r.documents[u]
        /\ \A u \in Known(r) : m.client_to_vfs[u] = r.client_to_vfs[u]
        /\ m.workspace_roots = r.workspace_roots
    BY <1>1, LoadFacts
  <1> HIDE DEF m
  <1> QED
    BY <1>1, <1>2 DEF m, r

\* The world a server begins with is good.
LEMMA EmptyIsGood == Good(EmptyWorld, {})
  <1> DEFINE w == EmptyWorld
  <1>1. /\ IsWorld(w)
        /\ w.documents = [u \in Uris |-> None]
        /\ w.open_documents = {}
        /\ w.client_to_vfs = [u \in Uris |-> None]
        /\ w.vfs_to_client = [p \in VPaths |-> None]
        /\ w.workspace_roots = {}
        /\ w.workspace_namespaced = FALSE
        /\ w.next_virtual_document_id = 0
        /\ w.entry_uri = None
        /\ w.files = [p \in VPaths |-> None]
        /\ w.entry_path = None
    BY DEF IsWorld, EmptyWorld
  <1> HIDE DEF w
  <1>2. HasRoots(w)
    BY <1>1, FS_EmptySet DEF HasRoots
  <1>3. Typed(w)
    <2>1. /\ w.documents \in [Uris -> Texts \cup {None}]
          /\ w.client_to_vfs \in [Uris -> VPaths \cup {None}]
          /\ w.vfs_to_client \in [VPaths -> Uris \cup {None}]
          /\ w.files \in [VPaths -> Texts \cup {None}]
      BY <1>1
    <2>2. w.next_virtual_document_id \in 0 .. MaxVirtual
      BY <1>1, MaxVirtualAssumption
    <2> QED
      BY <1>1, <1>2, <2>1, <2>2 DEF Typed
  <1>4. Known(w) = {}
    BY <1>1 DEF Known
  <1> QED
    BY <1>1, <1>3, <1>4 DEF Good, Mapped, Seen, Entered, w

-----------------------------------------------------------------------------
(* The steps. *)

\* What a handler does to its own document, and to no other.
Local(w, m, u) ==
    /\ Good(m, {}) /\ Only(w, m, u)
    /\ u \in Known(w) => m.client_to_vfs[u] \in {w.client_to_vfs[u], None}

\* Every known document keeps its path or is forgotten, and its path is given
\* to no other.
KeepsPaths(w, m) ==
    \A u \in Known(w) :
        /\ m.client_to_vfs[u] \in {w.client_to_vfs[u], None}
        /\ \A v \in Uris \ {u} : m.client_to_vfs[v] # w.client_to_vfs[u]

\* What keeps its path has it alone, by the inverse mapping after the step;
\* and when one is forgotten, no other has got a path at all.
LEMMA LocalKeepsPaths ==
    ASSUME NEW w, NEW m, Good(w, {}), NEW u \in Uris, Local(w, m, u)
    PROVE  KeepsPaths(w, m)
  <1> SUFFICES ASSUME NEW x \in Known(w)
               PROVE  /\ m.client_to_vfs[x] \in {w.client_to_vfs[x], None}
                      /\ \A v \in Uris \ {x} : m.client_to_vfs[v] # w.client_to_vfs[x]
    BY DEF KeepsPaths
  <1>1. /\ Mapped(w) /\ Mapped(m) /\ x \in Uris /\ w.client_to_vfs[x] # None
        /\ \A v \in Uris \ {u} : m.client_to_vfs[v] = w.client_to_vfs[v]
        /\ m.client_to_vfs[x] \in {w.client_to_vfs[x], None}
    BY DEF Local, Good, Only, Known
  <1>2. ASSUME NEW v \in Uris \ {x} PROVE m.client_to_vfs[v] # w.client_to_vfs[x]
    <2>1. CASE m.client_to_vfs[x] = w.client_to_vfs[x]
      BY <1>1, <2>1 DEF Mapped
    <2>2. CASE m.client_to_vfs[x] = None
      <3>1. x = u
        BY <1>1, <2>2
      <3> QED
        BY <1>1, <3>1 DEF Mapped
    <2> QED
      BY <1>1, <2>1, <2>2
  <1> QED
    BY <1>1, <1>2

\* Opening: of a document of its own, or with the folder it needs.
LEMMA OpenSteps ==
    ASSUME Good(world, {}), NEW u \in ClientUris, NEW text \in Texts
    PROVE  /\ WasmDidOpen(u, text) \/ NativeDidOpen(u, text)
                => Local(world, world', u) /\ u \notin world.open_documents
           /\ DidChange(u, text) => Local(world, world', u)
           /\ \A listed \in Listings({Folder(u)}) : NativeDidOpenFirst(u, text, listed) =>
                  /\ Good(world', {}) /\ u \notin world.open_documents
                  /\ \A v \in world.open_documents :
                        v \in world'.open_documents /\ world'.documents[v] = world.documents[v]
                  /\ world'.workspace_roots # world.workspace_roots
  <1>1. u \in Uris /\ Entered(world) /\ Typed(world)
    BY UrisAssumption DEF Good
  <1>2. ASSUME WasmDidOpen(u, text) \/ NativeDidOpen(u, text)
        PROVE  Local(world, world', u) /\ u \notin world.open_documents
    <2>1. /\ world' = OpenDocument(world, u, text) /\ u \notin world.open_documents
          /\ u \notin Files => world.next_virtual_document_id < MaxVirtual
      BY <1>1, <1>2 DEF WasmDidOpen, NativeDidOpen, MayOpen, Files
    <2> QED
      BY <1>1, <2>1, OpenFacts DEF Local
  <1>3. ASSUME DidChange(u, text) PROVE Local(world, world', u)
    <2>1. world' = OpenDocument(world, u, text) /\ u \in Known(world)
      BY <1>1, <1>3 DEF DidChange, Entered
    <2> QED
      BY <1>1, <2>1, OpenFacts DEF Local
  <1>4. ASSUME NEW listed \in Listings({Folder(u)}), NativeDidOpenFirst(u, text, listed)
        PROVE  /\ Good(world', {}) /\ u \notin world.open_documents
               /\ \A v \in world.open_documents :
                     v \in world'.open_documents /\ world'.documents[v] = world.documents[v]
               /\ world'.workspace_roots # world.workspace_roots
    <2> DEFINE roots == {Folder(u)}
               l == LoadDocuments(ReplaceWorkspaceRoots(world, roots), listed)
    <2>1. /\ world' = OpenDocument(l, u, text) /\ u \notin world.open_documents
          /\ u \in Files /\ world.workspace_roots = {}
      BY <1>1, <1>4 DEF NativeDidOpenFirst, MayOpen, NeedsRoot, LoadWorkspaceRoots, Files
    <2>2. roots \in SUBSET Roots /\ IsFiniteSet(roots) /\ Listed(listed)
      BY <2>1, FS_Singleton, ListingsFacts DEF Roots
    <2>3. roots # {}
      OBVIOUS
    <2> HIDE DEF roots
    <2>4. /\ Good(l, {}) /\ l.open_documents = world.open_documents
          /\ \A v \in world.open_documents : l.documents[v] = world.documents[v]
          /\ l.workspace_roots = roots
      BY <2>2, LoadRootsFacts
    <2> HIDE DEF l
    <2>5. Good(world', {}) /\ Only(l, world', u) /\ world'.workspace_roots = roots
      BY <1>1, <2>1, <2>3, <2>4, OpenFacts
    <2>6. world.open_documents \subseteq Uris
      BY <1>1 DEF Typed
    <2> QED
      BY <2>1, <2>3, <2>4, <2>5, <2>6 DEF Only
  <1> QED
    BY <1>2, <1>3, <1>4

\* Closing, and what happens on the disk.
LEMMA CloseSteps ==
    ASSUME Good(world, {}), NEW u \in ClientUris
    PROVE  /\ WasmDidClose(u) => Local(world, world', u)
           /\ \A disk \in DiskTexts(u) : NativeDidClose(u, disk) => Local(world, world', u)
           /\ WatchedFileDeleted(u) => Local(world, world', u) /\ u \notin world.open_documents
           /\ \A text \in Texts : WatchedFileChanged(u, text) =>
                  Local(world, world', u) /\ u \notin world.open_documents
  <1>1. u \in Uris
    BY UrisAssumption
  <1>2. Good(world, {u})
    BY DEF Good, InPlace
  <1>3. ASSUME WasmDidClose(u) PROVE Local(world, world', u)
    <2> DEFINE c == CloseDocument(world, u)
    <2>1. world' = RemoveWorkspaceDocument(c, u) /\ u \in world.open_documents
      BY <1>3 DEF WasmDidClose
    <2>2. /\ Good(c, {u}) /\ c.open_documents = world.open_documents \ {u}
          /\ c.documents = world.documents /\ c.client_to_vfs = world.client_to_vfs
      BY <2>1, CloseFacts
    <2> HIDE DEF c
    <2>3. Good(world', {}) /\ Only(c, world', u) /\ world'.client_to_vfs[u] = None
      BY <1>1, <2>1, <2>2, RemoveFacts
    <2> QED
      BY <2>2, <2>3 DEF Local, Only
  <1>4. ASSUME NEW disk \in DiskTexts(u), NativeDidClose(u, disk) PROVE Local(world, world', u)
    <2>1. world' = RefreshClosed(world, u, disk) /\ u \in world.open_documents
      BY <1>4 DEF NativeDidClose
    <2> QED
      BY <2>1, RefreshClosedFacts DEF Local
  <1>5. ASSUME WatchedFileDeleted(u) PROVE Local(world, world', u) /\ u \notin world.open_documents
    <2>1. world' = RemoveWorkspaceDocument(world, u) /\ u \notin world.open_documents
      BY <1>5 DEF WatchedFileDeleted
    <2> QED
      BY <1>1, <1>2, <2>1, RemoveFacts DEF Local
  <1>6. ASSUME NEW text \in Texts, WatchedFileChanged(u, text)
        PROVE  Local(world, world', u) /\ u \notin world.open_documents
    <2>1. /\ u \in Files /\ u \notin world.open_documents
          /\ \/ world' = SetWorkspaceDocument(world, u, text)
             \/ world' = RemoveWorkspaceDocument(world, u)
      BY <1>1, <1>6 DEF WatchedFileChanged, Files
    <2>2. CASE world' = SetWorkspaceDocument(world, u, text)
      BY <1>1, <2>1, <2>2, SetFacts DEF Local
    <2>3. CASE world' = RemoveWorkspaceDocument(world, u)
      BY <1>1, <1>2, <2>1, <2>3, RemoveFacts DEF Local
    <2> QED
      BY <2>1, <2>2, <2>3
  <1> QED
    BY <1>3, <1>4, <1>5, <1>6

\* A change of the configured folders.
LEMMA FolderSteps ==
    ASSUME Good(world, {}), NEW removed \in SUBSET world.workspace_roots,
           NEW added \in SUBSET Folders, NEW listed \in Listings(added),
           DidChangeWorkspaceFolders(removed, added, listed)
    PROVE  /\ Good(world', {}) /\ world'.open_documents = world.open_documents
           /\ \A u \in world.open_documents : world'.documents[u] = world.documents[u]
           /\ world'.workspace_roots = world.workspace_roots => KeepsPaths(world, world')
  <1> DEFINE roots == (world.workspace_roots \ removed) \cup added
  <1>1. world' = LoadDocuments(ReplaceWorkspaceRoots(world, roots), listed)
    BY DEF DidChangeWorkspaceFolders, UpdateWorkspaceRoots
  <1>2. HasRoots(world)
    BY DEF Good, Typed
  <1>3. roots \in SUBSET Roots /\ IsFiniteSet(roots)
    <2> DEFINE left == world.workspace_roots \ removed
    <2>1. left \in SUBSET Roots /\ IsFiniteSet(left)
      BY <1>2, FS_Subset DEF HasRoots
    <2>2. added \in SUBSET Roots /\ IsFiniteSet(added)
      BY FolderSets
    <2> HIDE DEF left
    <2>3. IsFiniteSet(left \cup added)
      BY <2>1, <2>2, FS_Union
    <2> QED
      BY <2>1, <2>2, <2>3 DEF left
  <1>4. Listed(listed)
    BY ListingsFacts
  <1> HIDE DEF roots
  <1>5. /\ Good(world', {}) /\ world'.open_documents = world.open_documents
        /\ \A u \in world.open_documents : world'.documents[u] = world.documents[u]
        /\ world'.workspace_roots = world.workspace_roots =>
               \A u \in Known(world) : world'.client_to_vfs[u] = world.client_to_vfs[u]
    BY <1>1, <1>3, <1>4, LoadRootsFacts
  <1>6. ASSUME \A u \in Known(world) : world'.client_to_vfs[u] = world.client_to_vfs[u]
        PROVE  KeepsPaths(world, world')
    <2>1. Mapped(world')
      BY <1>5 DEF Good
    <2> QED
      BY <1>6, <2>1 DEF KeepsPaths, Known, Mapped
  <1> QED
    BY <1>5, <1>6

-----------------------------------------------------------------------------
(* Theorems. *)

Inv == Good(world, {}) /\ transport \in {"native", "wasm"}

\* The worlds a server begins with, and what one step does to any of them.
LEMMA InitInv == Init => Inv
  <1> SUFFICES ASSUME Init PROVE Inv
    OBVIOUS
  <1>1. PICK roots \in SUBSET Folders : \E listed \in Listings(roots) :
            world = LoadWorkspaceRoots(EmptyWorld, roots, listed)
    BY DEF Init
  <1>2. PICK listed \in Listings(roots) :
            world = LoadDocuments(ReplaceWorkspaceRoots(EmptyWorld, roots), listed)
    BY <1>1 DEF LoadWorkspaceRoots
  <1>3. roots \in SUBSET Roots /\ IsFiniteSet(roots) /\ Listed(listed)
    BY FolderSets, ListingsFacts
  <1>4. Good(world, {})
    BY <1>2, <1>3, EmptyIsGood, LoadRootsFacts
  <1> QED
    BY <1>4 DEF Init, Inv

\* The client's own steps on one of its buffers.
Own(u) ==
    \/ \E text \in Texts : DidChange(u, text)
    \/ WasmDidClose(u)
    \/ \E disk \in DiskTexts(u) : NativeDidClose(u, disk)

\* One step of the server.
LEMMA StepFacts ==
    ASSUME Inv, [Next]_vars
    PROVE  /\ Inv'
           /\ \A u \in world.open_documents :
                 \/ u \in world'.open_documents /\ world'.documents[u] = world.documents[u]
                 \/ Own(u)
           /\ world'.workspace_roots = world.workspace_roots => KeepsPaths(world, world')
  <1> DEFINE Buffers == \A u \in world.open_documents :
                 \/ u \in world'.open_documents /\ world'.documents[u] = world.documents[u]
                 \/ Own(u)
             Paths == world'.workspace_roots = world.workspace_roots => KeepsPaths(world, world')
             Goal == Good(world', {}) /\ Buffers /\ Paths
  <1>1. Good(world, {}) /\ world.open_documents \subseteq Uris
    BY DEF Inv, Good, Typed
  <1>2. ASSUME NEW u \in Uris, Local(world, world', u), u \notin world.open_documents \/ Own(u)
        PROVE  Goal
    <2>1. KeepsPaths(world, world')
      BY <1>1, <1>2, LocalKeepsPaths
    <2> QED
      BY <1>1, <1>2, <2>1 DEF Local, Only
  <1>3. CASE UNCHANGED vars
    <2>1. world' = world
      BY <1>3 DEF vars
    <2>2. KeepsPaths(world, world)
      BY <1>1 DEF KeepsPaths, Known, Good, Mapped
    <2> QED
      BY <1>1, <1>3, <2>1, <2>2 DEF Inv, vars
  <1>4. CASE Next
    <2>1. transport' = transport
      BY <1>4 DEF Next, DidChangeWorkspaceFolders, WasmDidOpen, NativeDidOpen, NativeDidOpenFirst,
                  DidChange, WatchedFileChanged, WatchedFileDeleted, WasmDidClose, NativeDidClose
    <2>2. ASSUME NEW removed \in SUBSET world.workspace_roots, NEW added \in SUBSET Folders,
                 NEW listed \in Listings(added), DidChangeWorkspaceFolders(removed, added, listed)
          PROVE  Goal
      BY <1>1, <2>2, FolderSteps
    <2>3. ASSUME NEW u \in ClientUris, NEW text \in Texts,
                 WasmDidOpen(u, text) \/ NativeDidOpen(u, text) \/ DidChange(u, text)
          PROVE  Goal
      <3>1. u \in Uris
        BY UrisAssumption
      <3>2. Local(world, world', u) /\ (u \notin world.open_documents \/ Own(u))
        BY <1>1, <2>3, OpenSteps DEF Own
      <3> QED
        BY <1>2, <3>1, <3>2
    <2>4. ASSUME NEW u \in ClientUris, NEW text \in Texts, NEW listed \in Listings({Folder(u)}),
                 NativeDidOpenFirst(u, text, listed)
          PROVE  Goal
      BY <1>1, <2>4, OpenSteps
    <2>5. ASSUME NEW u \in ClientUris,
                 \/ WasmDidClose(u) \/ WatchedFileDeleted(u)
                 \/ \E disk \in DiskTexts(u) : NativeDidClose(u, disk)
                 \/ \E text \in Texts : WatchedFileChanged(u, text)
          PROVE  Goal
      <3>1. u \in Uris
        BY UrisAssumption
      <3>2. Local(world, world', u) /\ (u \notin world.open_documents \/ Own(u))
        BY <1>1, <2>5, CloseSteps DEF Own
      <3> QED
        BY <1>2, <3>1, <3>2
    <2> HIDE DEF Goal
    <2>6. Goal
      BY <1>4, <2>2, <2>3, <2>4, <2>5 DEF Next
    <2> QED
      BY <2>1, <2>6 DEF Goal, Inv
  <1> QED
    BY <1>3, <1>4

\* A good world is a consistent one.
LEMMA InvConsistent == Inv => WorldIsConsistent
  <1> SUFFICES ASSUME Inv PROVE WorldIsConsistent
    OBVIOUS
  <1>1. /\ Typed(world) /\ Mapped(world) /\ Seen(world) /\ Entered(world)
        /\ \A u \in Known(world) : InPlace(world, u, {})
    BY DEF Inv, Good
  <1>2. TypeOK
    <2>1. IsWorld(world)
      BY <1>1 DEF Typed
    <2>2. /\ world.documents \in [Uris -> Texts \cup {None}]
          /\ world.open_documents \in SUBSET Uris
          /\ world.client_to_vfs \in [Uris -> VPaths \cup {None}]
          /\ world.vfs_to_client \in [VPaths -> Uris \cup {None}]
          /\ world.workspace_roots \in SUBSET Roots
          /\ world.workspace_namespaced \in BOOLEAN
          /\ world.next_virtual_document_id \in 0 .. MaxVirtual
          /\ world.entry_uri \in Uris \cup {None}
          /\ world.files \in [VPaths -> Texts \cup {None}]
          /\ world.entry_path \in VPaths \cup {None}
      BY <1>1 DEF Typed, HasRoots
    <2>3. world \in Worlds
      BY <2>1, <2>2 DEF IsWorld, Worlds
    <2> QED
      BY <2>3 DEF TypeOK, Inv
  <1>3. MappingsInverse /\ CompilerSeesDocuments
    BY <1>1 DEF Mapped, Seen, MappingsInverse, CompilerSeesDocuments
  <1>4. EntryFollowsOpenDocuments
    BY <1>1 DEF Entered, EntryFollowsOpenDocuments
  <1>5. PlacedByRoots
    <2> SUFFICES ASSUME NEW u \in Uris, u.scheme = "file", world.client_to_vfs[u] # None
                 PROVE  \/ IsDetached(world, u) /\ u \in world.open_documents
                        \/ world.client_to_vfs[u] = Placed(world, u)
      BY DEF PlacedByRoots, Placed
    <2>1. u \in Files /\ InPlace(world, u, {})
      BY <1>1 DEF Files, Known
    <2>2. DetachedHome(u, world.client_to_vfs[u]) => IsDetached(world, u)
      BY VPathFields DEF DetachedHome, IsDetached
    <2> QED
      BY <2>1, <2>2 DEF InPlace
  <1> QED
    BY <1>2, <1>3, <1>4, <1>5 DEF WorldIsConsistent

\* Every state a server reaches is good.
LEMMA Invariance == Spec => []Inv
  <1>1. Inv /\ [Next]_vars => Inv'
    BY StepFacts
  <1> QED
    BY <1>1, InitInv, PTL DEF Spec

\* In every state of either server the two directions of the URI mapping are
\* inverse, the compiler sees exactly the documents with their texts, the
\* entry is an open document at its present path, and every known file is
\* where the configured roots put it or is open and detached (state.rs).
THEOREM WorldStaysConsistent == Spec => []WorldIsConsistent
  BY Invariance, InvConsistent, PTL

\* No folder change, scan or disk event ever closes a buffer or changes its
\* text (replace_workspace_roots, load_documents and the watched files).
THEOREM BuffersStayTheClients == Spec => BuffersAreTheClients
  <1>1. Inv /\ [Next]_vars =>
            [\A u \in world.open_documents :
                \/ u \in world'.open_documents /\ world'.documents[u] = world.documents[u]
                \/ \E text \in Texts : DidChange(u, text)
                \/ WasmDidClose(u)
                \/ \E disk \in DiskTexts(u) : NativeDidClose(u, disk)]_vars
    BY StepFacts DEF Own
  <1> QED
    BY <1>1, Invariance, PTL DEF Spec, BuffersAreTheClients

\* While the roots stay the same a known document keeps its virtual path until
\* it is forgotten, and no virtual path passes in a step from one document to
\* another (ensure_uri_mapping, load_documents, set_workspace_document).
THEOREM PathsStayStable == Spec => PathsAreStable
  <1>1. Inv /\ [Next]_vars =>
            [world'.workspace_roots = world.workspace_roots =>
                \A u \in Uris : world.client_to_vfs[u] # None =>
                    /\ world'.client_to_vfs[u] \in {world.client_to_vfs[u], None}
                    /\ \A v \in Uris \ {u} : world'.client_to_vfs[v] # world.client_to_vfs[u]]_vars
    BY StepFacts DEF Known, KeepsPaths
  <1> QED
    BY <1>1, Invariance, PTL DEF Spec, PathsAreStable
=============================================================================
