----------------------------- MODULE VirtualTree -----------------------------
(***************************************************************************)
(* What a Workspace (crates/vfs/src/lib.rs) promises its clients, with no  *)
(* trace of SourceFile identities, tombstones, registries, snapshots or    *)
(* loading: a tree of files that is edited, and an analysis whose answer   *)
(* is a function of the present tree, roots and entry alone.  Which        *)
(* function is a parameter; AnalysisHost supplies its Analyse.             *)
(***************************************************************************)
CONSTANTS
    Paths, ExtNames, Contents, NoContent,   \* see AnalysisHost
    Analyse(_, _, _),   \* what an analysis of a tree, roots and entry sees
    NoPath,             \* no entry has been selected
    NoAnswer            \* the workspace may not be asked: an update is under way

VARIABLES
    tree,        \* Paths -> Contents, or NoContent
    roots,       \* the registered external libraries
    entry,       \* the selected entry path, or NoPath
    answer       \* what an analysis of the entry sees

vars == <<tree, roots, entry, answer>>

\* A new workspace holds nothing but the standard library.
Init ==
    /\ tree \in [Paths -> Contents \cup {NoContent}]
    /\ \A p \in Paths : tree[p] # NoContent => p.lib = "std"
    /\ roots = {}
    /\ entry = NoPath
    /\ answer = Analyse(tree, roots, entry)

\* One file is given a text or taken away.  The answer is withheld until the
\* update settles.
Edit(p, c) ==
    /\ tree' = [tree EXCEPT ![p] = c]
    /\ roots' \in {roots, roots \cup ({p.lib} \cap ExtNames)}
    /\ answer' = NoAnswer
    /\ UNCHANGED entry

\* Any update may withhold the answer before its first edit.
Begin ==
    /\ answer' = NoAnswer
    /\ UNCHANGED <<tree, roots, entry>>

SetEntry(p) ==
    /\ entry' = p
    /\ answer' = NoAnswer
    /\ UNCHANGED <<tree, roots>>

\* The update is complete: whatever its history, the workspace answers for
\* the tree as it is.
Settle ==
    /\ answer' = Analyse(tree, roots, entry)
    /\ UNCHANGED <<tree, roots, entry>>

Next ==
    \/ \E p \in Paths, c \in Contents \cup {NoContent} : Edit(p, c)
    \/ \E p \in Paths : SetEntry(p)
    \/ Begin
    \/ Settle

Spec == Init /\ [][Next]_vars
=============================================================================
