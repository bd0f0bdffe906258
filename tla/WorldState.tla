----------------------------- MODULE WorldState -----------------------------
(***************************************************************************)
(* The document state of the language server: crates/lsp/src/state.rs, as  *)
(* the handlers of its two transports, native.rs and wasm.rs, drive it.    *)
(*                                                                         *)
(* The server keeps the client's documents under their URIs and the        *)
(* compiler keeps them under virtual paths; what is hard is to keep the    *)
(* two in step while folders come and go, editors hold unsaved buffers,    *)
(* roots are inferred and files change on disk.                            *)
(*                                                                         *)
(* A URI is a record [scheme, path, enc]: its decoded path as a sequence   *)
(* of segments and which of the equivalent percent-encodings it is written *)
(* in ("server" is the one Url::from_file_path produces).  A folder is its *)
(* path; the identity and the namespace the code derives from a folder's   *)
(* URI determine the decoded path and are determined by it.  A virtual     *)
(* path is one of                                                          *)
(*     /main/<rel>                               area "main"               *)
(*     /main/__solcore_workspace__/<ns>/<rel>    area "workspace"          *)
(*     /main/__solcore_detached__/<ns>/<rel>     area "detached"           *)
(*     /main/__virtual__/<id>.<ext>              area "virtual"            *)
(*                                                                         *)
(* The world is one record, because every handler is a sequence of         *)
(* operations on it; each operation is an operator from worlds to worlds.  *)
(***************************************************************************)
EXTENDS Sequences, Naturals, FiniteSets

CONSTANTS
    Uris,          \* the documents of the instance
    ClientUris,    \* the URIs under which the client names its documents
    Folders,       \* the folders the client may configure
    Texts,         \* the texts of documents
    PragmaTexts,   \* the texts that declare `pragma solcore;`
    ListedTexts,   \* the texts a scan of a folder may find
    UriRank,       \* the order of URIs as strings
    MaxVirtual,    \* bound: virtual document ids handed out
    None           \* Option::None

ASSUME UrisAssumption ==
    /\ ClientUris \subseteq Uris
    /\ Uris \subseteq [scheme : {"file", "untitled"}, path : Seq(STRING), enc : {"server", "client"}]
    /\ \A u \in Uris : u.path # << >>

ASSUME FoldersAssumption == Folders \subseteq Seq(STRING) /\ IsFiniteSet(Folders)

ASSUME TextsAssumption ==
    /\ PragmaTexts \subseteq Texts
    /\ ListedTexts \subseteq PragmaTexts
    /\ None \notin Texts

ASSUME RankAssumption ==
    /\ UriRank \in [Uris -> Nat]
    /\ \A u, v \in Uris : u # v => UriRank[u] # UriRank[v]

ASSUME MaxVirtualAssumption == MaxVirtual \in Nat

VARIABLES
    world,       \* the WorldState
    transport    \* "native" or "wasm": which front end owns the world

vars == <<world, transport>>

-----------------------------------------------------------------------------
(* URIs, folders and virtual paths. *)

VPath(area, ns, rel, id) == [area |-> area, ns |-> ns, rel |-> rel, id |-> id]

\* The folder a document is in: uri.join(".").
Folder(u) == SubSeq(u.path, 1, Len(u.path) - 1)

\* workspace_relative_path is Some.
IsBelow(u, root) ==
    /\ u.scheme = "file"
    /\ Len(root) < Len(u.path)
    /\ SubSeq(u.path, 1, Len(root)) = root

IsBelowAny(u, roots) == \E root \in roots : IsBelow(u, root)

Relative(u, root) == SubSeq(u.path, Len(root) + 1, Len(u.path))

\* The innermost of the roots that contain u (max_by on the path length).
InnermostRoot(u, roots) ==
    CHOOSE root \in roots :
        /\ IsBelow(u, root)
        /\ \A other \in roots : IsBelow(u, other) => Len(other) <= Len(root)

\* uri_to_vfs_path: file:///main/<rel> is a virtual path as it stands.
UriToVfsPath(u) ==
    IF u.scheme = "file" /\ Len(u.path) > 1 /\ u.path[1] = "main"
    THEN VPath("main", << >>, Tail(u.path), 0)
    ELSE None

\* The folders that can become roots, configured or inferred.
Files == {u \in Uris : u.scheme = "file"}
Roots == Folders \cup {Folder(u) : u \in Files}

\* What the code takes for granted about the files of a client: one URI for
\* each, none that is a folder too, none below a root where it would have the
\* virtual path of a file of /main, and no file of /main below the folder of
\* one outside it (the root of the file system).
ASSUME PathsAssumption ==
    \A u, v \in Files :
        /\ u.path = v.path => u = v
        /\ u.path \notin Roots
        /\ \A root \in Roots :
              IsBelow(u, root) /\ UriToVfsPath(v) = VPath("main", << >>, Relative(u, root), 0)
                  => u = v
        /\ UriToVfsPath(u) = None /\ UriToVfsPath(v) # None => ~IsBelow(v, Folder(u))

\* The virtual paths the documents of the instance can be given.

VPaths ==
    LET below == {pair \in Uris \X Roots : IsBelow(pair[1], pair[2])}
        filename(u) == <<u.path[Len(u.path)]>>
    IN  {VPath("virtual", << >>, << >>, id) : id \in 0 .. MaxVirtual}
        \cup {UriToVfsPath(u) : u \in {v \in Uris : UriToVfsPath(v) # None}}
        \cup {VPath("main", << >>, Relative(pair[1], pair[2]), 0) : pair \in below}
        \cup {VPath("workspace", pair[2], Relative(pair[1], pair[2]), 0) : pair \in below}
        \cup {VPath("detached", pair[2], Relative(pair[1], pair[2]), 0) : pair \in below}
        \cup {VPath("detached", u.path, filename(u), 0) : u \in Uris}

ASSUME NoneAssumption == None \notin Uris \cup VPaths

FirstOf(a, b) == IF a # None THEN a ELSE b

\* HashMap::extend: the entries of changes replace those of map.
Extended(map, changes) ==
    [x \in DOMAIN map |-> IF x \in DOMAIN changes THEN changes[x] ELSE map[x]]

Worlds ==
    [documents : [Uris -> Texts \cup {None}],
     open_documents : SUBSET Uris,
     client_to_vfs : [Uris -> VPaths \cup {None}],
     vfs_to_client : [VPaths -> Uris \cup {None}],
     workspace_roots : SUBSET Roots,
     workspace_namespaced : BOOLEAN,
     next_virtual_document_id : 0 .. MaxVirtual,
     entry_uri : Uris \cup {None},
     files : [VPaths -> Texts \cup {None}],      \* the user files of workspace
     entry_path : VPaths \cup {None}]            \* the entry of workspace

\* WorldState::new.
EmptyWorld ==
    [documents |-> [u \in Uris |-> None],
     open_documents |-> {},
     client_to_vfs |-> [u \in Uris |-> None],
     vfs_to_client |-> [p \in VPaths |-> None],
     workspace_roots |-> {},
     workspace_namespaced |-> FALSE,
     next_virtual_document_id |-> 0,
     entry_uri |-> None,
     files |-> [p \in VPaths |-> None],
     entry_path |-> None]

-----------------------------------------------------------------------------
(* The operations of WorldState. *)

\* Where the configured roots put u: below /main for a single root, below the
\* innermost root's namespace otherwise.  A `..` in the decoded path gives
\* relative_url_path nothing.
WorkspaceRelativeVfsPath(w, u) ==
    IF ~IsBelowAny(u, w.workspace_roots) THEN None
    ELSE LET root == InnermostRoot(u, w.workspace_roots)
             relative == Relative(u, root)
         IN  IF \E i \in 1 .. Len(relative) : relative[i] = ".." THEN None
             ELSE IF Cardinality(w.workspace_roots) = 1 /\ ~w.workspace_namespaced
             THEN VPath("main", << >>, relative, 0)
             ELSE VPath("workspace", root, relative, 0)

VfsPathForUri(w, u) ==
    FirstOf(w.client_to_vfs[u], FirstOf(WorkspaceRelativeVfsPath(w, u), UriToVfsPath(u)))

IsDetached(w, u) ==
    w.client_to_vfs[u] # None /\ w.client_to_vfs[u].area = "detached"

IsUriInWorkspace(w, u) ==
    /\ ~IsDetached(w, u)
    /\ WorkspaceRelativeVfsPath(w, u) # None \/ UriToVfsPath(u) # None

\* The first real file infers its folder as the root.
InferRoot(w, u) ==
    IF w.workspace_roots = {} /\ u.scheme = "file" /\ UriToVfsPath(u) = None
    THEN [w EXCEPT !.workspace_roots = {Folder(u)}]
    ELSE w

\* ensure_uri_mapping; it fails when u is still unmapped afterwards.
EnsureUriMapping(w, u) ==
    LET inferred == InferRoot(w, u)
        placed == FirstOf(WorkspaceRelativeVfsPath(inferred, u), UriToVfsPath(u))
        id == w.next_virtual_document_id
        virtual == placed = None /\ u.scheme # "file"
        path == IF virtual THEN VPath("virtual", << >>, << >>, id) ELSE placed
    IN  IF w.client_to_vfs[u] # None THEN w
        ELSE IF path = None THEN inferred
        ELSE [inferred EXCEPT
                 !.client_to_vfs[u] = path,
                 !.vfs_to_client[path] = u,
                 !.next_virtual_document_id = IF virtual THEN id + 1 ELSE id]

\* workspace.set_file and documents.insert for a mapped document.
SetText(w, u, text) ==
    [w EXCEPT !.files[w.client_to_vfs[u]] = text, !.documents[u] = text]

SetWorkspaceDocument(w, u, text) ==
    LET mapped == EnsureUriMapping(w, u)
    IN  IF mapped.client_to_vfs[u] = None THEN mapped ELSE SetText(mapped, u, text)

RemoveWorkspaceDocument(w, u) ==
    LET path == w.client_to_vfs[u]
    IN  IF u \in w.open_documents \/ path = None THEN w
        ELSE [w EXCEPT !.client_to_vfs[u] = None,
                       !.vfs_to_client[path] = None,
                       !.documents[u] = None,
                       !.files[path] = None]

\* open_document.  change_document is the same sequence of updates.
OpenDocument(w, u, text) ==
    LET mapped == EnsureUriMapping(w, u)
        stored == SetText(mapped, u, text)
        entered == IF stored.entry_uri # None THEN stored
                   ELSE [stored EXCEPT !.entry_uri = u,
                                       !.entry_path = stored.client_to_vfs[u]]
    IN  IF mapped.client_to_vfs[u] = None THEN mapped
        ELSE [entered EXCEPT !.open_documents = @ \cup {u}]

\* The first URI of a set in string order.
FirstUri(S) ==
    IF S = {} THEN None ELSE CHOOSE u \in S : \A v \in S : UriRank[u] <= UriRank[v]

LastUri(S) == CHOOSE u \in S : \A v \in S : UriRank[v] <= UriRank[u]

\* Mutant: the entry moves on but the workspace is not told.
CloseKeepingEntryPath(w, u) ==
    LET closed == [w EXCEPT !.open_documents = @ \ {u}]
    IN  IF w.entry_uri = u
        THEN [closed EXCEPT !.entry_uri = FirstUri(closed.open_documents)]
        ELSE closed

CloseDocument(w, u) ==
    LET closed == [w EXCEPT !.open_documents = @ \ {u}]
        next == FirstUri(closed.open_documents)
        path == IF next = None THEN None ELSE VfsPathForUri(closed, next)
    IN  IF w.entry_uri # u THEN closed
        ELSE [closed EXCEPT !.entry_uri = next,
                            !.entry_path = FirstOf(path, @)]

RefreshEntry(w) ==
    LET candidates == {u \in w.open_documents : VfsPathForUri(w, u) # None}
        kept == w.entry_uri \in candidates
        entry == IF kept THEN w.entry_uri ELSE FirstUri(candidates)
        path == IF entry = None THEN None ELSE VfsPathForUri(w, entry)
    IN  [w EXCEPT !.entry_uri = entry, !.entry_path = FirstOf(path, @)]

DetachedVfsPath(w, u) ==
    IF IsBelowAny(u, w.workspace_roots)
    THEN LET root == InnermostRoot(u, w.workspace_roots)
         IN  VPath("detached", root, Relative(u, root), 0)
    ELSE VPath("detached", u.path, <<u.path[Len(u.path)]>>, 0)

\* The documents whose place depends on the roots, before or after a change.
RealDocuments(w, roots) ==
    {u \in Uris :
        /\ w.documents[u] # None
        /\ u.scheme = "file"
        /\ UriToVfsPath(u) = None \/ IsBelowAny(u, w.workspace_roots) \/ IsBelowAny(u, roots)}

\* has_detached_open_document.
DetachesAnOpenDocument(w, roots) ==
    \E u \in w.open_documents :
        /\ u.scheme = "file"
        /\ UriToVfsPath(u) = None \/ IsBelowAny(u, w.workspace_roots)
        /\ ~IsBelowAny(u, roots)

\* The new place of a real document: below the new roots, or detached while
\* it is open, or None.
PlaceRealDocument(w, moved, u) ==
    FirstOf(WorkspaceRelativeVfsPath(moved, u),
            IF u \notin w.open_documents THEN None
            ELSE IF IsDetached(w, u) THEN w.client_to_vfs[u]
            ELSE DetachedVfsPath(w, u))

\* Mutant: no early return.
RootsNeverUnchanged(w, roots) == FALSE

\* replace_workspace_roots returns early when the identities are the same.
RootsUnchanged(w, roots) == roots = w.workspace_roots

\* replace_workspace_roots.  Every real document leaves its old path before
\* any is given its new one.  Two documents with the same new path would be
\* stored in the order of the hash map; the last in string order is kept.
ReplaceWorkspaceRoots(w, roots) ==
    LET real == RealDocuments(w, roots)
        moved == [w EXCEPT
                     !.workspace_roots = roots,
                     !.workspace_namespaced =
                         @ \/ Cardinality(roots) > 1
                           \/ (roots # {} /\ DetachesAnOpenDocument(w, roots))]
        place == [u \in real |-> PlaceRealDocument(w, moved, u)]
        dropped == {u \in real : place[u] = None}
        vacated == {w.client_to_vfs[u] : u \in real} \ {None}
        arrival == [p \in {place[u] : u \in real \ dropped} |->
                       LastUri({u \in real : place[u] = p})]
    IN  IF RootsUnchanged(w, roots) THEN w
        ELSE RefreshEntry([moved EXCEPT
                !.documents = Extended(@, [u \in dropped |-> None]),
                !.open_documents = @ \ dropped,
                !.client_to_vfs = Extended(@, place),
                !.vfs_to_client = Extended(Extended(@, [p \in vacated |-> None]), arrival),
                !.files = Extended(Extended(@, [p \in vacated |-> None]),
                                   [p \in DOMAIN arrival |-> w.documents[arrival[p]]])])

\* Mutant: a folder scan overwrites what the editor holds.
LoadEverything(w, listed) == DOMAIN listed

\* load_documents skips what is open.
LoadedDocuments(w, listed) == DOMAIN listed \ w.open_documents

\* load_documents.  The roots are not empty here, so nothing is inferred and
\* the documents are mapped independently of one another.
LoadDocuments(w, listed) ==
    LET loaded == {u \in LoadedDocuments(w, listed) : VfsPathForUri(w, u) # None}
        path == [u \in loaded |-> VfsPathForUri(w, u)]
        fresh == {u \in loaded : w.client_to_vfs[u] = None}
        documentAt(S, p) == LastUri({u \in S : path[u] = p})
    IN  [w EXCEPT
            !.documents = Extended(@, [u \in loaded |-> listed[u]]),
            !.client_to_vfs = Extended(@, path),
            !.vfs_to_client = Extended(@, [p \in {path[u] : u \in fresh} |-> documentAt(fresh, p)]),
            !.files = Extended(@, [p \in {path[u] : u \in loaded} |-> listed[documentAt(loaded, p)]])]

\* load_workspace_roots; load_workspace_documents is the case of one root.
LoadWorkspaceRoots(w, roots, listed) ==
    LoadDocuments(ReplaceWorkspaceRoots(w, roots), listed)

UpdateWorkspaceRoots(w, removed, added, listed) ==
    LoadDocuments(ReplaceWorkspaceRoots(w, (w.workspace_roots \ removed) \cup added), listed)

-----------------------------------------------------------------------------
(* The handlers.  The disk is the environment: every read of it may find    *)
(* anything the read allows.                                                *)

\* read_workspace_documents of some folders: Solcore files below them, under
\* the URIs that Url::from_file_path gives them.  The browser has no disk.
Listings(roots) ==
    LET visible == {u \in Uris : u.enc = "server" /\ IsBelowAny(u, roots)}
    IN  IF transport = "wasm" THEN {<< >>}
        ELSE UNION {[S -> ListedTexts] : S \in SUBSET visible}

\* initialize of either transport.
Init ==
    /\ transport \in {"native", "wasm"}
    /\ \E roots \in SUBSET Folders : \E listed \in Listings(roots) :
           world = LoadWorkspaceRoots(EmptyWorld, roots, listed)

\* did_change_workspace_folders of either transport.
DidChangeWorkspaceFolders(removed, added, listed) ==
    /\ world' = UpdateWorkspaceRoots(world, removed, added, listed)
    /\ UNCHANGED transport

\* The bound on virtual documents.
MayOpen(u) ==
    /\ u \notin world.open_documents
    /\ u.scheme # "file" => world.next_virtual_document_id < MaxVirtual

\* did_open of wasm.rs.
WasmDidOpen(u, text) ==
    /\ transport = "wasm"
    /\ MayOpen(u)
    /\ world' = OpenDocument(world, u, text)
    /\ UNCHANGED transport

\* did_open of native.rs: without roots, the folder of an unplaced file is
\* scanned and becomes the root.
NeedsRoot(u) ==
    /\ world.workspace_roots = {}
    /\ VfsPathForUri(world, u) = None
    /\ u.scheme = "file"

NativeDidOpen(u, text) ==
    /\ transport = "native"
    /\ MayOpen(u) /\ ~NeedsRoot(u)
    /\ world' = OpenDocument(world, u, text)
    /\ UNCHANGED transport

NativeDidOpenFirst(u, text, listed) ==
    /\ transport = "native"
    /\ MayOpen(u) /\ NeedsRoot(u)
    /\ world' = OpenDocument(LoadWorkspaceRoots(world, {Folder(u)}, listed), u, text)
    /\ UNCHANGED transport

\* did_change: apply_document_changes gives change_document the edited text.
\* A document that is not open, or a range outside it, changes nothing.
DidChange(u, text) ==
    /\ u \in world.open_documents
    /\ world' = OpenDocument(world, u, text)
    /\ UNCHANGED transport

\* did_close of wasm.rs.
WasmDidClose(u) ==
    /\ transport = "wasm"
    /\ u \in world.open_documents
    /\ world' = RemoveWorkspaceDocument(CloseDocument(world, u), u)
    /\ UNCHANGED transport

\* did_close of native.rs: a workspace document falls back to its text on
\* disk, any other is forgotten.
RefreshClosed(w, u, disk) ==
    IF IsUriInWorkspace(w, u) /\ disk # None
    THEN SetWorkspaceDocument(CloseDocument(w, u), u, disk)
    ELSE RemoveWorkspaceDocument(CloseDocument(w, u), u)

\* read_document: any text, or nothing; a URI that is not a file has no text.
DiskTexts(u) == IF u.scheme = "file" THEN Texts \cup {None} ELSE {None}

NativeDidClose(u, disk) ==
    /\ transport = "native"
    /\ u \in world.open_documents
    /\ world' = RefreshClosed(world, u, disk)
    /\ UNCHANGED transport

\* did_change_watched_files: one event of its batch.
WatchedFileDeleted(u) ==
    /\ transport = "native"
    /\ u.scheme = "file" /\ u \notin world.open_documents
    /\ world' = RemoveWorkspaceDocument(world, u)
    /\ UNCHANGED transport

WatchedFileChanged(u, text) ==
    /\ transport = "native"
    /\ u.scheme = "file" /\ u \notin world.open_documents
    /\ world' = IF text \in PragmaTexts
                THEN SetWorkspaceDocument(world, u, text)
                ELSE RemoveWorkspaceDocument(world, u)
    /\ UNCHANGED transport

Next ==
    \/ \E removed \in SUBSET world.workspace_roots, added \in SUBSET Folders :
           removed \cap added = {} /\ \E listed \in Listings(added) : DidChangeWorkspaceFolders(removed, added, listed)
    \/ \E u \in ClientUris :
        \/ \E text \in Texts :
            \/ WasmDidOpen(u, text)
            \/ NativeDidOpen(u, text)
            \/ \E listed \in Listings({Folder(u)}) : NativeDidOpenFirst(u, text, listed)
            \/ DidChange(u, text)
            \/ WatchedFileChanged(u, text)
        \/ WasmDidClose(u)
        \/ \E disk \in DiskTexts(u) : NativeDidClose(u, disk)
        \/ WatchedFileDeleted(u)

Spec == Init /\ [][Next]_vars

-----------------------------------------------------------------------------
(* Properties. *)

TypeOK == world \in Worlds /\ transport \in {"native", "wasm"}

\* The two directions of the URI mapping are inverse to one another and cover
\* exactly the known documents: no two documents are ever given one virtual
\* path, and no diagnostic or definition found at a virtual path is reported
\* for a document that is not there.
MappingsInverse ==
    /\ \A u \in Uris :
        /\ world.documents[u] # None <=> world.client_to_vfs[u] # None
        /\ world.client_to_vfs[u] # None =>
               world.vfs_to_client[world.client_to_vfs[u]] = u
    /\ \A p \in VPaths :
        world.vfs_to_client[p] # None => world.client_to_vfs[world.vfs_to_client[p]] = p

\* The compiler sees exactly the documents, with exactly their texts: no
\* folder change, close or disk event leaves a file of a forgotten document
\* behind or analyses a text other than the one line indices are built from.
CompilerSeesDocuments ==
    \A p \in VPaths :
        world.files[p] = IF world.vfs_to_client[p] = None THEN None
                         ELSE world.documents[world.vfs_to_client[p]]

\* There is an entry document exactly while a document is open; it is open,
\* and the workspace's entry path is the path that document has now, after
\* any sequence of remappings and closes.
EntryFollowsOpenDocuments ==
    /\ world.entry_uri = None <=> world.open_documents = {}
    /\ world.entry_uri # None =>
        /\ world.entry_uri \in world.open_documents
        /\ world.entry_path = world.client_to_vfs[world.entry_uri]

\* A known document is where the configured roots put it now, whatever the
\* layout was when it was mapped; only an open document may be detached, so
\* nothing closed outlives its folder.
PlacedByRoots ==
    \A u \in Uris :
        /\ u.scheme = "file" /\ world.client_to_vfs[u] # None
        => \/ IsDetached(world, u) /\ u \in world.open_documents
           \/ world.client_to_vfs[u] =
                  FirstOf(WorkspaceRelativeVfsPath(world, u), UriToVfsPath(u))

\* No step closes a buffer or changes its text but the client's own change or
\* close of that buffer: folder changes, scans and disk events leave it alone.
BuffersAreTheClients ==
    [][\A u \in world.open_documents :
          \/ u \in world'.open_documents /\ world'.documents[u] = world.documents[u]
          \/ \E text \in Texts : DidChange(u, text)
          \/ WasmDidClose(u)
          \/ \E disk \in DiskTexts(u) : NativeDidClose(u, disk)]_vars

\* While the roots stay the same, a known document, detached or not, keeps its
\* virtual path until it is forgotten, so that the identities the compiler
\* keyed by the path stay those of the document; and the path of a document,
\* kept or forgotten in the step, is not another's after the step.
PathsAreStable ==
    [][world'.workspace_roots = world.workspace_roots =>
          \A u \in Uris : world.client_to_vfs[u] # None =>
              /\ world'.client_to_vfs[u] \in {world.client_to_vfs[u], None}
              /\ \A v \in Uris \ {u} : world'.client_to_vfs[v] # world.client_to_vfs[u]]_vars

\* The documents as the server and the compiler know them, one with the other.
WorldIsConsistent ==
    /\ TypeOK
    /\ MappingsInverse /\ CompilerSeesDocuments /\ EntryFollowsOpenDocuments
    /\ PlacedByRoots
=============================================================================
