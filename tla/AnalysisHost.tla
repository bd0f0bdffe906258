---------------------------- MODULE AnalysisHost ----------------------------
(***************************************************************************)
(* The in-memory analysis host and its Workspace: crates/vfs/src/lib.rs.   *)
(*                                                                         *)
(* Every operation takes &mut self, so operations do not interleave; what  *)
(* is hard is that one operation is a sequence of dependent updates of six *)
(* maps.  A Workspace update is modelled as the steps the code takes:      *)
(* apply_file_changes opens a batch, each change of the batch edits the    *)
(* maps and accumulates two dirty flags, the end of the batch refreshes    *)
(* the snapshots that the flags name, and load_reachable_modules then      *)
(* visits one module per step.  Nothing else happens until phase is "idle" *)
(* again; queries read the host only then.                                 *)
(*                                                                         *)
(* A SourceFile (a Salsa input, compared by identity) is the record of the *)
(* path its URL was built from and its number among the SourceFiles built  *)
(* for that path.                                                          *)
(*                                                                         *)
(* A path is a record                                                      *)
(*     [lib |-> L, stem |-> <<seg, ...>>, ext |-> "sol" or another]        *)
(* where L names the root the path is below: "main" for /main, "std" for   *)
(* /std and an external library's name for /ext/<name>.  A text is a value *)
(* of Contents; all that module loading reads of it are the module         *)
(* references its imports and exports make, given by Refs.                 *)
(***************************************************************************)
EXTENDS Sequences, Naturals

CONSTANTS
    Paths,            \* the files the instance may create
    ExtNames,         \* the names of external libraries
    Contents,         \* the texts a file may hold
    Refs,             \* Refs[c]: the module references made by the text c
    Namespaces,       \* the path segments that are root namespaces of the LSP
    NoContent,        \* the content of a removed SourceFile (Option::None)
    NoFile,           \* Option::None where a SourceFile is expected
    NoPath,           \* no entry selected
    NoAnswer,         \* see VirtualTree
    MaxGenerations,   \* bound: SourceFiles built for one path
    MaxBatch          \* bound: changes in one apply_file_changes

ASSUME PathsAssumption ==
    \A p \in Paths :
        /\ p = [lib |-> p.lib, stem |-> p.stem, ext |-> p.ext]
        /\ p.lib \in {"main", "std"} \cup ExtNames

ASSUME ExtNamesAssumption == {"main", "std"} \cap ExtNames = {}

ASSUME ContentsAssumption == NoContent \notin Contents

ASSUME BoundsAssumption ==
    /\ MaxGenerations \in Nat \ {0}
    /\ MaxBatch \in Nat

-----------------------------------------------------------------------------
(***************************************************************************)
(* Virtual paths, logical module keys and import resolution: the pure part *)
(* of crates/nameres/src/{paths,util,graph}.rs that the host and what it   *)
(* promises are built on.                                                  *)
(*                                                                         *)
(* Paths and keys.  A .sol path and its key determine one another; another *)
(* extension has the same logical path but is never a module.              *)
(***************************************************************************)
IsSolcoreModulePath(p) == p.ext = "sol"

\* module_key_for_path: strip the root and the extension.
ModuleKeyForPath(p) == [library |-> p.lib, logical_path |-> p.stem]

\* root.join(module_file_path(logical_path)).
ModuleFilePath(key) ==
    [lib |-> key.library, stem |-> key.logical_path, ext |-> "sol"]

\* The keys of the files that can exist.  No other key is ever registered:
\* registering a module takes a file at ModuleFilePath(key).
ModuleKeys == {ModuleKeyForPath(p) : p \in {q \in Paths : IsSolcoreModulePath(q)}}

\* module_key_for_virtual_path finds a key below /main, below /std or below
\* the root of an external library that has been registered.
RootKnown(roots, lib) == lib \in {"main", "std"} \cup roots

(***************************************************************************)
(* resolve_module_path_candidate: from the importing module and a module   *)
(* reference to the key of the module it names.  existing is the set of    *)
(* .sol files of the filesystem snapshot; roots the registered externals.  *)
(* The result is a set of at most one key, empty when the code returns an  *)
(* error.                                                                  *)
(***************************************************************************)
ModuleDirectory(logical) ==
    IF logical = << >> THEN << >> ELSE SubSeq(logical, 1, Len(logical) - 1)

\* main_workspace_prefix: the two-segment scope that the language server puts
\* in front of the files of one workspace folder.
MainWorkspacePrefix(logical) ==
    IF /\ Len(logical) >= 2
       /\ logical[1] \in {"__solcore_workspace__", "__solcore_detached__"}
       /\ logical[2] \in Namespaces
    THEN SubSeq(logical, 1, 2)
    ELSE << >>

MultiRootWorkspacePrefix(importing) ==
    IF importing.library = "main"
    THEN MainWorkspacePrefix(importing.logical_path)
    ELSE << >>

ModuleFileExists(existing, key) == ModuleFilePath(key) \in existing

ResolveExternal(roots, segments) ==
    IF segments # << >> /\ segments[1] \in roots
    THEN {[library |-> segments[1],
           logical_path |-> IF Len(segments) = 1 THEN segments ELSE Tail(segments)]}
    ELSE {}

\* The importing module's own directory, extended by the reference.
LocalKey(importing, segments) ==
    [library |-> importing.library,
     logical_path |-> ModuleDirectory(importing.logical_path) \o segments]

\* std.x names /std/x unless only <directory>/std/x exists.
ResolveStd(existing, roots, importing, segments) ==
    LET std == [library |-> "std",
                logical_path |-> IF Len(segments) = 1 THEN segments ELSE Tail(segments)]
        fallback == Len(segments) > 1 /\ ~ModuleFileExists(existing, std)
        local == LocalKey(importing, segments)
    IN  IF ~fallback THEN {std}
        ELSE IF ~RootKnown(roots, importing.library) THEN {}
        ELSE IF ModuleFileExists(existing, local) THEN {local}
        ELSE {std}

ResolveInLibrary(roots, importing, segments) ==
    IF ~RootKnown(roots, importing.library) THEN {}
    ELSE IF Len(segments) > 1 /\ segments[1] = "lib"
    THEN {[library |-> importing.library,
           logical_path |-> MultiRootWorkspacePrefix(importing) \o Tail(segments)]}
    ELSE {LocalKey(importing, segments)}

ResolveModulePathCandidate(existing, roots, importing, ref) ==
    IF ref.external THEN ResolveExternal(roots, ref.segments)
    ELSE IF ref.segments # << >> /\ ref.segments[1] = "std"
    THEN ResolveStd(existing, roots, importing, ref.segments)
    ELSE ResolveInLibrary(roots, importing, ref.segments)

\* module_imports: a removed file parses as the empty text.
ModuleImports(text) == IF text = NoContent THEN {} ELSE Refs[text]

\* The modules the text of importing refers to: each reference resolved,
\* references that do not resolve being dropped.
Targets(existing, roots, importing, text) ==
    ModuleKeys \cap
        UNION {ResolveModulePathCandidate(existing, roots, importing, ref) :
                  ref \in ModuleImports(text)}

-----------------------------------------------------------------------------
(***************************************************************************)
(* The reference definition of what an analysis is about.  tree[p] is the  *)
(* text at p or NoContent.  Nothing here depends on how the tree came to   *)
(* be: the modules reachable from the entry are the least set that holds   *)
(* the entry and, with a module, every existing module it refers to.       *)
(***************************************************************************)
Exists(tree, key) == tree[ModuleFilePath(key)] # NoContent

ExistingFiles(tree) ==
    {p \in Paths : IsSolcoreModulePath(p) /\ tree[p] # NoContent}

\* The targets of key in the tree that exist there.
TreeTargets(tree, roots, key) ==
    {t \in Targets(ExistingFiles(tree), roots, key, tree[ModuleFilePath(key)]) :
        Exists(tree, t)}

ClosedInTree(tree, roots, S) ==
    \A k \in S : Exists(tree, k) => TreeTargets(tree, roots, k) \subseteq S

ReachableInTree(tree, roots, entries) ==
    {k \in ModuleKeys :
        \A S \in SUBSET ModuleKeys :
            entries \subseteq S /\ ClosedInTree(tree, roots, S) => k \in S}

\* entry_key: an entry selects a module only when it is a .sol path.
EntryKeys(entry) ==
    {ModuleKeyForPath(p) : p \in {q \in Paths : q = entry /\ IsSolcoreModulePath(q)}}

\* What an analysis of the entry sees: the reachable modules with their texts.
Analyse(tree, roots, entry) ==
    {<<k, tree[ModuleFilePath(k)]>> :
        k \in {r \in ReachableInTree(tree, roots, EntryKeys(entry)) : Exists(tree, r)}}

-----------------------------------------------------------------------------
(* The host.                                                               *)

SourceFiles == [url : Paths, gen : 1 .. MaxGenerations]

ASSUME NoFileAssumption == NoFile \notin SourceFiles

ASSUME NoPathAssumption == NoPath \notin Paths

VARIABLES
    files,                 \* live files: path -> SourceFile or NoFile
    tombstones,            \* removed files: path -> SourceFile or NoFile
    created,               \* number of SourceFiles built for each path
    content,               \* SourceFile -> text or NoContent
    module_files,          \* registry: key -> SourceFile or NoFile
    external_roots,        \* ModuleTree.external_roots
    module_file_snapshot,  \* the registry as queries see it
    existing_files,        \* ModuleFsSnapshot: .sol paths as queries see them
    entry_path,            \* Workspace.entry_path
    phase,                 \* "idle", "batch" or "load"
    changes,               \* the accumulated FileChanges of the batch
    batched,               \* number of changes applied in the batch
    queue, visited,        \* load_reachable_modules
    load_changed,          \* its module_files_changed
    settled                \* the last operation ended with loading

maps == <<files, tombstones, created, content, module_files, external_roots>>
snapshots == <<module_file_snapshot, existing_files>>
loading == <<queue, visited, load_changed>>
vars == <<maps, snapshots, entry_path, phase, changes, batched, loading, settled>>

FileChanges == [file_set_changed : BOOLEAN, module_files_changed : BOOLEAN]
NoChanges == [file_set_changed |-> FALSE, module_files_changed |-> FALSE]

TypeOK ==
    /\ files \in [Paths -> SourceFiles \cup {NoFile}]
    /\ tombstones \in [Paths -> SourceFiles \cup {NoFile}]
    /\ created \in [Paths -> 0 .. MaxGenerations]
    /\ content \in [SourceFiles -> Contents \cup {NoContent}]
    /\ module_files \in [ModuleKeys -> SourceFiles \cup {NoFile}]
    /\ external_roots \subseteq ExtNames
    /\ module_file_snapshot \in [ModuleKeys -> SourceFiles \cup {NoFile}]
    /\ existing_files \subseteq Paths
    /\ entry_path \in Paths \cup {NoPath}
    /\ phase \in {"idle", "batch", "load"}
    /\ changes \in FileChanges
    /\ batched \in 0 .. MaxBatch
    /\ queue \subseteq ModuleKeys
    /\ visited \subseteq ModuleKeys
    /\ load_changed \in BOOLEAN
    /\ settled \in BOOLEAN

-----------------------------------------------------------------------------
(* Helpers of the host. *)

\* Mutant: the last change of a batch decides.
MergeLastWins(a, b) == b

\* FileChanges::merge.
Merge(a, b) ==
    [file_set_changed |-> a.file_set_changed \/ b.file_set_changed,
     module_files_changed |-> a.module_files_changed \/ b.module_files_changed]

\* module_fs_snapshot_from_paths: the .sol files among the live ones.
ModuleFsSnapshotFromPaths(fs) ==
    {p \in Paths : IsSolcoreModulePath(p) /\ fs[p] # NoFile}

\* The path is a module of a known root: register_module_file and
\* remove_virtual_file_deferred do nothing to the registry otherwise.
IsModuleOf(roots, p) == IsSolcoreModulePath(p) /\ RootKnown(roots, p.lib)

\* register_module_file and set_module_file.
RegisterModuleFile(registry, roots, p, file) ==
    IF IsModuleOf(roots, p)
    THEN [registry EXCEPT ![ModuleKeyForPath(p)] = file]
    ELSE registry

\* Mutant: removal forgets the registry.
UnregisterNothing(registry, roots, p, file) == registry

\* The registry after the removal of p, whose SourceFile was file.
UnregisterModuleFile(registry, roots, p, file) ==
    IF IsModuleOf(roots, p) /\ registry[ModuleKeyForPath(p)] = file
    THEN [registry EXCEPT ![ModuleKeyForPath(p)] = NoFile]
    ELSE registry

\* ensure_external_root, called for the external changes only.
EnsureExternalRoot(lib) == external_roots \cup ({lib} \cap ExtNames)

\* set_virtual_file_deferred up to the registration: an existing file gets
\* the new text, a tombstone is revived, otherwise a SourceFile is built.
UpdateExistingFile(p, c) ==
    /\ files[p] # NoFile
    /\ content' = [content EXCEPT ![files[p]] = c]
    /\ UNCHANGED <<files, tombstones, created>>

\* Mutant: re-creating a removed file builds a second SourceFile.
RebuildRemovedFile(p, c) ==
    LET file == [url |-> p, gen |-> created[p] + 1] IN
    /\ files[p] = NoFile
    /\ tombstones[p] # NoFile
    /\ created[p] < MaxGenerations
    /\ created' = [created EXCEPT ![p] = @ + 1]
    /\ content' = [content EXCEPT ![file] = c]
    /\ files' = [files EXCEPT ![p] = file]
    /\ tombstones' = [tombstones EXCEPT ![p] = NoFile]

ReviveTombstone(p, c) ==
    /\ files[p] = NoFile
    /\ tombstones[p] # NoFile
    /\ content' = [content EXCEPT ![tombstones[p]] = c]
    /\ files' = [files EXCEPT ![p] = tombstones[p]]
    /\ tombstones' = [tombstones EXCEPT ![p] = NoFile]
    /\ UNCHANGED created

NewSourceFile(p, c) ==
    LET file == [url |-> p, gen |-> created[p] + 1] IN
    /\ files[p] = NoFile
    /\ tombstones[p] = NoFile
    /\ created[p] < MaxGenerations
    /\ created' = [created EXCEPT ![p] = @ + 1]
    /\ content' = [content EXCEPT ![file] = c]
    /\ files' = [files EXCEPT ![p] = file]
    /\ UNCHANGED tombstones

SetVirtualFileDeferred(roots, p, c) ==
    /\ \/ UpdateExistingFile(p, c)
       \/ ReviveTombstone(p, c)
       \/ NewSourceFile(p, c)
    /\ module_files' = RegisterModuleFile(module_files, roots, p, files'[p])

SetChanges(p) ==
    [file_set_changed |-> files[p] = NoFile,
     module_files_changed |-> module_files' # module_files]

RemoveVirtualFileDeferred(roots, p) ==
    IF files[p] = NoFile
    THEN UNCHANGED <<files, tombstones, content, module_files>>
    ELSE /\ content' = [content EXCEPT ![files[p]] = NoContent]
         /\ files' = [files EXCEPT ![p] = NoFile]
         /\ tombstones' = [tombstones EXCEPT ![p] = files[p]]
         /\ module_files' = UnregisterModuleFile(module_files, roots, p, files[p])

RemoveChanges(p) ==
    [file_set_changed |-> files[p] # NoFile,
     module_files_changed |-> module_files' # module_files]

\* finish_file_changes, after the maps of the step have been updated.
FinishFileChanges(fc) ==
    /\ module_file_snapshot' =
           IF fc.module_files_changed THEN module_files' ELSE module_file_snapshot
    /\ existing_files' =
           IF fc.file_set_changed
           THEN ModuleFsSnapshotFromPaths(files')
           ELSE existing_files

\* load_entry_modules: nothing to load without a .sol entry.
StartLoading ==
    /\ visited' = {}
    /\ load_changed' = FALSE
    /\ queue' = EntryKeys(entry_path')
    /\ phase' = "load"

-----------------------------------------------------------------------------
(* Workspace::new: AnalysisHost::new, then seed_std. *)

Init ==
    /\ files = [p \in Paths |->
                   IF p.lib = "std" THEN [url |-> p, gen |-> 1] ELSE NoFile]
    /\ tombstones = [p \in Paths |-> NoFile]
    /\ created = [p \in Paths |-> IF p.lib = "std" THEN 1 ELSE 0]
    /\ content \in [SourceFiles -> Contents \cup {NoContent}]
    /\ \A f \in SourceFiles : content[f] # NoContent <=> f = files[f.url]
    /\ module_files = [k \in ModuleKeys |->
                          IF k.library = "std" THEN files[ModuleFilePath(k)] ELSE NoFile]
    /\ external_roots = {}
    /\ module_file_snapshot = module_files
    /\ existing_files = ModuleFsSnapshotFromPaths(files)
    /\ entry_path = NoPath
    /\ phase = "idle"
    /\ changes = NoChanges
    /\ batched = 0
    /\ queue = {} /\ visited = {}
    /\ load_changed = FALSE
    /\ settled = TRUE

-----------------------------------------------------------------------------
(* Workspace::apply_file_changes.  set_file, remove_file, set_external_file *)
(* and remove_external_file are batches of one change.                      *)

BeginFileChanges ==
    /\ phase = "idle"
    /\ phase' = "batch"
    /\ UNCHANGED <<maps, snapshots, entry_path, changes, batched, loading, settled>>

\* WorkspaceFileChange::Set below /main, SetExternal below /ext/<library>.
ApplySet(p, c) ==
    /\ phase = "batch" /\ batched < MaxBatch
    /\ p.lib # "std"
    /\ external_roots' = EnsureExternalRoot(p.lib)
    /\ SetVirtualFileDeferred(external_roots', p, c)
    /\ changes' = Merge(changes, SetChanges(p))
    /\ batched' = batched + 1
    /\ UNCHANGED <<snapshots, entry_path, phase, loading, settled>>

\* WorkspaceFileChange::Remove and RemoveExternal.
ApplyRemove(p) ==
    /\ phase = "batch" /\ batched < MaxBatch
    /\ p.lib # "std"
    /\ external_roots' = EnsureExternalRoot(p.lib)
    /\ RemoveVirtualFileDeferred(external_roots', p)
    /\ changes' = Merge(changes, RemoveChanges(p))
    /\ batched' = batched + 1
    /\ UNCHANGED <<created, snapshots, entry_path, phase, loading, settled>>

EndFileChanges ==
    /\ phase = "batch"
    /\ UNCHANGED <<maps, entry_path>>
    /\ FinishFileChanges(changes)
    /\ StartLoading
    /\ changes' = NoChanges
    /\ batched' = 0
    /\ UNCHANGED settled

\* Workspace::set_entry.
SetEntry(p) ==
    /\ phase = "idle"
    /\ p.lib = "main"
    /\ entry_path' = p
    /\ StartLoading
    /\ UNCHANGED <<maps, snapshots, changes, batched, settled>>

-----------------------------------------------------------------------------
(* load_reachable_modules.  The queue is a set: in which order it is        *)
(* drained makes no difference to any property.                             *)

\* An already visited or unregistered module is skipped.
SkipModule(key) ==
    /\ phase = "load" /\ key \in queue
    /\ key \in visited \/ module_files[key] = NoFile
    /\ queue' = queue \ {key}
    /\ visited' = visited \cup {key}
    /\ UNCHANGED <<maps, snapshots, entry_path, phase, changes, batched,
                   load_changed, settled>>

\* The registry after the targets whose file exists have been registered.
RegisterTargets(targets) ==
    [t \in ModuleKeys |->
        IF t \in targets /\ module_files[t] = NoFile
        THEN files[ModuleFilePath(t)]
        ELSE module_files[t]]

VisitModule(key) ==
    LET targets == Targets(existing_files, external_roots, key,
                           content[module_files[key]])
    IN  /\ phase = "load" /\ key \in queue
        /\ key \notin visited /\ module_files[key] # NoFile
        /\ module_files' = RegisterTargets(targets)
        /\ load_changed' = (load_changed \/ module_files' # module_files)
        /\ queue' = (queue \ {key}) \cup {t \in targets : module_files'[t] # NoFile}
        /\ visited' = visited \cup {key}
        /\ UNCHANGED <<files, tombstones, created, content, external_roots,
                       snapshots, entry_path, phase, changes, batched, settled>>

EndLoading ==
    /\ phase = "load" /\ queue = {}
    /\ module_file_snapshot' =
           IF load_changed THEN module_files ELSE module_file_snapshot
    /\ phase' = "idle"
    /\ visited' = {}
    /\ load_changed' = FALSE
    /\ settled' = TRUE
    /\ UNCHANGED <<maps, existing_files, entry_path, changes, batched, queue>>

-----------------------------------------------------------------------------
(* The public operations of the host itself, reached through db_mut: one    *)
(* change, finished at once, and no loading.                                *)

SetVirtualFile(p, c) ==
    /\ phase = "idle"
    /\ SetVirtualFileDeferred(external_roots, p, c)
    /\ FinishFileChanges(SetChanges(p))
    /\ settled' = FALSE
    /\ UNCHANGED <<external_roots, entry_path, phase, changes, batched, loading>>

RemoveVirtualFile(p) ==
    /\ phase = "idle"
    /\ RemoveVirtualFileDeferred(external_roots, p)
    /\ FinishFileChanges(RemoveChanges(p))
    /\ settled' = FALSE
    /\ UNCHANGED <<created, external_roots, entry_path, phase, changes, batched,
                   loading>>

\* Mutant: only the seeded standard library is copied.
ForkedStdFiles == {p \in Paths : files[p] # NoFile /\ p.lib = "std"}

\* The files a fork copies: every live one.
ForkedFiles == {p \in Paths : files[p] # NoFile}

\* Workspace::fork.  The step goes on with the copy: a new database with the
\* live files, the roots and the entry, then loading.
Fork ==
    LET live == ForkedFiles
        copied == [p \in Paths |->
                      IF p \in live THEN [url |-> p, gen |-> 1] ELSE NoFile]
    IN  /\ phase = "idle"
        /\ files' = copied
        /\ tombstones' = [p \in Paths |-> NoFile]
        /\ created' = [p \in Paths |-> IF p \in live THEN 1 ELSE 0]
        /\ content' = [f \in SourceFiles |->
                          IF f = copied[f.url] THEN content[files[f.url]] ELSE NoContent]
        /\ module_files' = [k \in ModuleKeys |->
                               IF IsModuleOf(external_roots, ModuleFilePath(k))
                               THEN copied[ModuleFilePath(k)]
                               ELSE NoFile]
        /\ module_file_snapshot' = module_files'
        /\ existing_files' = ModuleFsSnapshotFromPaths(files')
        /\ UNCHANGED <<external_roots, entry_path, changes, batched, settled>>
        /\ StartLoading

Next ==
    \/ BeginFileChanges
    \/ \E p \in Paths, c \in Contents : ApplySet(p, c)
    \/ \E p \in Paths : ApplyRemove(p)
    \/ EndFileChanges
    \/ \E p \in Paths : SetEntry(p)
    \/ \E k \in ModuleKeys : SkipModule(k)
    \/ \E k \in ModuleKeys : VisitModule(k)
    \/ EndLoading
    \/ \E p \in Paths, c \in Contents : SetVirtualFile(p, c)
    \/ \E p \in Paths : RemoveVirtualFile(p)
    \/ Fork

Spec == Init /\ [][Next]_vars

-----------------------------------------------------------------------------
(* What the queries see: nameres reads the two snapshots only. *)

\* entry_module.
EntryModule ==
    {k \in EntryKeys(entry_path) :
        module_files[k] # NoFile \/ files[entry_path] # NoFile}

\* resolve_module_path: a reference resolves to a module that is loaded in the
\* module file snapshot snap.
LoadedTargets(snap, key) ==
    IF snap[key] = NoFile THEN {}
    ELSE {t \in Targets(existing_files, external_roots, key, content[snap[key]]) :
             snap[t] # NoFile}

\* collect_reachable_modules, as the least set its traversal produces.
ReachableModules(snap) ==
    {k \in ModuleKeys :
        \A S \in SUBSET ModuleKeys :
            EntryModule \subseteq S /\ (\A m \in S : LoadedTargets(snap, m) \subseteq S)
                => k \in S}

\* The modules and texts a frontend query of the entry works on.
QueryView(snap) ==
    {<<k, content[snap[k]]>> :
        k \in {m \in ReachableModules(snap) : snap[m] # NoFile}}

-----------------------------------------------------------------------------
(* Properties. *)

\* The tree of files the maps stand for.
Tree == [p \in Paths |-> IF files[p] = NoFile THEN NoContent ELSE content[files[p]]]

\* Between operations the snapshots that queries read are the registry and
\* the live .sol files, although finish_file_changes and
\* load_reachable_modules refresh a snapshot only when the flags accumulated
\* over the whole operation say that its source changed.
SnapshotsCurrent ==
    phase = "idle" =>
        /\ module_file_snapshot = module_files
        /\ existing_files = ModuleFsSnapshotFromPaths(files)

\* At every step, also inside a batch, a registered module is a live file
\* at the path its key names: a removal never leaves a removed SourceFile
\* behind in the registry, and a file with the same stem but another
\* extension (the twin of a module) neither replaces nor unregisters it.
RegistryIsLive ==
    \A k \in ModuleKeys :
        module_files[k] # NoFile =>
            /\ module_files[k] = files[ModuleFilePath(k)]
            /\ content[module_files[k]] # NoContent

\* A SourceFile has a text exactly while it is the live file of its path; a
\* removed one is kept for revival and nowhere else.
LiveOrTombstone ==
    /\ \A f \in SourceFiles : content[f] # NoContent <=> files[f.url] = f
    /\ \A p \in Paths : files[p] = NoFile \/ tombstones[p] = NoFile

\* Both: a query that finds a module finds a file that has a text, and a file
\* that was removed is found by nothing.
FilesAreExact == RegistryIsLive /\ LiveOrTombstone

\* The Salsa identity of a path, once it has one, never changes in one
\* database: removing and re-creating a file, in any combination, gives back
\* the same SourceFile, so memoised results and interned definitions keyed
\* by it stay valid.  (Fork goes on in another database.)
IdentityOf(p) == IF files[p] # NoFile THEN files[p] ELSE tombstones[p]
IdentityIsStable ==
    [][Fork \/ \A p \in Paths : IdentityOf(p) # NoFile => IdentityOf(p)' = IdentityOf(p)]_vars

\* Incremental analysis equals analysis from scratch: whenever a Workspace
\* operation has completed, whatever was set, removed, revived, registered
\* and forked before, the queries see the modules and the texts that the
\* present tree defines.  Every step of the host is a step of VirtualTree.
HostAnswer == IF phase = "idle" /\ settled THEN QueryView(module_file_snapshot) ELSE NoAnswer

Abstract == INSTANCE VirtualTree
    WITH tree <- Tree, roots <- external_roots, entry <- entry_path,
         answer <- HostAnswer

ImplementsVirtualTree == Abstract!Spec
=============================================================================
