------------------------- MODULE AnalysisHostProofs -------------------------
(***************************************************************************)
(* Proofs about AnalysisHost for every set of paths, texts, references and *)
(* external libraries, and for batches of every length.                    *)
(*                                                                         *)
(* The invariants of AnalysisHost are not inductive as they stand.  IndInv *)
(* adds what links them: the identity of a path is determined by the maps, *)
(* a registered module has a known root (or removal would overlook it),    *)
(* and inside an operation a snapshot may lag behind only if the flag that *)
(* will refresh it is up.                                                  *)
(***************************************************************************)
EXTENDS AnalysisHost, TLAPS

IdentityInv ==
    \A p \in Paths :
        /\ files[p] # NoFile => files[p] = [url |-> p, gen |-> 1]
        /\ tombstones[p] # NoFile => tombstones[p] = [url |-> p, gen |-> 1]
        /\ files[p] = NoFile \/ tombstones[p] = NoFile
        /\ created[p] = IF files[p] = NoFile /\ tombstones[p] = NoFile THEN 0 ELSE 1

ContentInv ==
    \A f \in SourceFiles : content[f] # NoContent <=> files[f.url] = f

RegistryInv ==
    \A k \in ModuleKeys :
        /\ module_files[k] # NoFile =>
              /\ module_files[k] = files[ModuleFilePath(k)]
              /\ RootKnown(external_roots, k.library)
        /\ k.library \in {"main", "std"} => module_files[k] = files[ModuleFilePath(k)]

FileSnapshotInv ==
    \/ module_file_snapshot = module_files
    \/ phase = "batch" /\ changes.module_files_changed
    \/ phase = "load" /\ load_changed

FsSnapshotInv ==
    \/ existing_files = ModuleFsSnapshotFromPaths(files)
    \/ phase = "batch" /\ changes.file_set_changed

\* Locals of an operation that is not under way hold their initial values.
LocalsInv ==
    /\ phase # "batch" => changes = NoChanges /\ batched = 0
    /\ phase # "load" => queue = {} /\ visited = {} /\ ~load_changed

\* The part about the six maps, which the changes of a batch and the host's
\* own operations update in the same way.
MapsInv ==
    /\ files \in [Paths -> SourceFiles \cup {NoFile}]
    /\ tombstones \in [Paths -> SourceFiles \cup {NoFile}]
    /\ created \in [Paths -> 0 .. MaxGenerations]
    /\ content \in [SourceFiles -> Contents \cup {NoContent}]
    /\ module_files \in [ModuleKeys -> SourceFiles \cup {NoFile}]
    /\ external_roots \subseteq ExtNames
    /\ IdentityInv
    /\ ContentInv
    /\ RegistryInv

ControlInv ==
    /\ module_file_snapshot \in [ModuleKeys -> SourceFiles \cup {NoFile}]
    /\ existing_files \subseteq Paths
    /\ entry_path \in Paths \cup {NoPath}
    /\ phase \in {"idle", "batch", "load"}
    /\ changes \in FileChanges
    /\ batched \in 0 .. MaxBatch
    /\ queue \subseteq ModuleKeys
    /\ visited \subseteq ModuleKeys
    /\ load_changed \in BOOLEAN
    /\ settled \in BOOLEAN

IndInv ==
    /\ MapsInv
    /\ ControlInv
    /\ FileSnapshotInv
    /\ FsSnapshotInv
    /\ LocalsInv

-----------------------------------------------------------------------------
(* Lemmas about paths and keys. *)

\* A .sol path and its module key determine one another.
LEMMA KeyOfPath ==
    ASSUME NEW p \in Paths, IsSolcoreModulePath(p)
    PROVE  /\ ModuleKeyForPath(p) \in ModuleKeys
           /\ ModuleFilePath(ModuleKeyForPath(p)) = p
  BY PathsAssumption DEF ModuleKeys, ModuleKeyForPath, ModuleFilePath, IsSolcoreModulePath

\* Every module key is the key of exactly one path.
LEMMA PathOfKey ==
    ASSUME NEW k \in ModuleKeys
    PROVE  /\ ModuleFilePath(k) \in Paths
           /\ IsSolcoreModulePath(ModuleFilePath(k))
           /\ ModuleKeyForPath(ModuleFilePath(k)) = k
           /\ ModuleFilePath(k).lib = k.library
  <1>1. PICK p \in Paths : IsSolcoreModulePath(p) /\ k = ModuleKeyForPath(p)
    BY DEF ModuleKeys
  <1>2. ModuleFilePath(k) = p
    BY <1>1, KeyOfPath
  <1>3. k.library = p.lib
    BY <1>1 DEF ModuleKeyForPath
  <1>4. QED
    BY <1>1, <1>2, <1>3

\* A reference only ever resolves to a module of a library whose root is
\* known, so whatever loading registers can be unregistered again.
LEMMA TargetsHaveKnownRoots ==
    ASSUME NEW existing, NEW roots, NEW k, NEW text,
           NEW t \in Targets(existing, roots, k, text)
    PROVE  t \in ModuleKeys /\ RootKnown(roots, t.library)
  <1>1. t \in ModuleKeys
    BY DEF Targets
  <1>2. PICK ref \in ModuleImports(text) :
            t \in ResolveModulePathCandidate(existing, roots, k, ref)
    BY DEF Targets
  <1>3. CASE t \in ResolveExternal(roots, ref.segments)
    BY <1>1, <1>3 DEF ResolveExternal, RootKnown
  <1>4. CASE t \in ResolveStd(existing, roots, k, ref.segments)
    <2> DEFINE std == [library |-> "std",
                       logical_path |-> IF Len(ref.segments) = 1
                                        THEN ref.segments ELSE Tail(ref.segments)]
    <2>1. std.library = "std" /\ LocalKey(k, ref.segments).library = k.library
      BY DEF LocalKey
    <2>2. \/ t = std
          \/ t = LocalKey(k, ref.segments) /\ RootKnown(roots, k.library)
      <3> HIDE DEF std
      <3> QED  BY <1>4 DEF ResolveStd, std
    <2>3. QED
      BY <1>1, <2>1, <2>2 DEF RootKnown
  <1>5. CASE t \in ResolveInLibrary(roots, k, ref.segments)
    <2>1. RootKnown(roots, k.library)
      BY <1>5 DEF ResolveInLibrary
    <2> DEFINE path == MultiRootWorkspacePrefix(k) \o Tail(ref.segments)
    <2>2. /\ [library |-> k.library, logical_path |-> path].library = k.library
          /\ LocalKey(k, ref.segments).library = k.library
      BY DEF LocalKey
    <2> HIDE DEF path
    <2>3. \/ t = [library |-> k.library, logical_path |-> path]
          \/ t = LocalKey(k, ref.segments)
      BY <1>5, <2>1 DEF ResolveInLibrary, path
    <2>4. QED
      BY <1>1, <2>1, <2>2, <2>3
  <1>6. QED
    BY <1>2, <1>3, <1>4, <1>5 DEF ResolveModulePathCandidate

\* The first SourceFile of a path is a SourceFile.
LEMMA FirstSourceFile ==
    ASSUME NEW p \in Paths
    PROVE  [url |-> p, gen |-> 1] \in SourceFiles
  BY BoundsAssumption DEF SourceFiles

-----------------------------------------------------------------------------
(* The maps. *)

\* The initial maps satisfy their invariant.
LEMMA InitMaps == Init => MapsInv
  <1> SUFFICES ASSUME Init PROVE MapsInv
    OBVIOUS
  <1>0. \A p \in Paths :
            (IF p.lib = "std" THEN [url |-> p, gen |-> 1] ELSE NoFile)
                \in SourceFiles \cup {NoFile}
    BY FirstSourceFile
  <1>1. /\ files \in [Paths -> SourceFiles \cup {NoFile}]
        /\ tombstones \in [Paths -> SourceFiles \cup {NoFile}]
    BY <1>0 DEF Init
  <1>2. created \in [Paths -> 0 .. MaxGenerations]
    <2>1. 0 \in 0 .. MaxGenerations /\ 1 \in 0 .. MaxGenerations
      BY BoundsAssumption
    <2>2. \A p \in Paths : (IF p.lib = "std" THEN 1 ELSE 0) \in 0 .. MaxGenerations
      BY <2>1
    <2>3. QED
      BY <2>2, Zenon DEF Init
  <1>3. content \in [SourceFiles -> Contents \cup {NoContent}]
    BY DEF Init
  <1>4. external_roots \subseteq ExtNames
    BY DEF Init
  <1>5. module_files \in [ModuleKeys -> SourceFiles \cup {NoFile}]
    BY <1>1, PathOfKey DEF Init
  <1>6. IdentityInv
    BY FirstSourceFile, NoFileAssumption DEF Init, IdentityInv
  <1>7. ContentInv
    BY DEF Init, ContentInv
  <1>8. RegistryInv
    <2> SUFFICES ASSUME NEW k \in ModuleKeys
                 PROVE  /\ module_files[k] # NoFile =>
                             /\ module_files[k] = files[ModuleFilePath(k)]
                             /\ RootKnown(external_roots, k.library)
                        /\ k.library \in {"main", "std"} =>
                               module_files[k] = files[ModuleFilePath(k)]
      BY DEF RegistryInv
    <2>1. ModuleFilePath(k) \in Paths /\ ModuleFilePath(k).lib = k.library
      BY PathOfKey
    <2>2. CASE k.library = "std"
      BY <2>1, <2>2 DEF Init, RootKnown
    <2>3. CASE k.library # "std"
      BY <2>1, <2>3 DEF Init
    <2>4. QED
      BY <2>2, <2>3
  <1>9. QED
    BY <1>1, <1>2, <1>3, <1>4, <1>5, <1>6, <1>7, <1>8 DEF MapsInv

\* set_virtual_file_deferred, whichever of its three branches it takes.
LEMMA SetMaps ==
    ASSUME MapsInv, NEW p \in Paths, NEW c \in Contents,
           external_roots \subseteq external_roots', external_roots' \subseteq ExtNames,
           SetVirtualFileDeferred(external_roots', p, c)
    PROVE  MapsInv'
  <1> DEFINE F == [url |-> p, gen |-> 1]
  <1>1. F \in SourceFiles /\ F # NoFile /\ F.url = p
    BY FirstSourceFile, NoFileAssumption
  <1> HIDE DEF F
  <1>2. /\ files' = [files EXCEPT ![p] = F]
        /\ tombstones' = [tombstones EXCEPT ![p] = NoFile]
        /\ created' = [created EXCEPT ![p] = 1]
        /\ content' = [content EXCEPT ![F] = c]
    <2>1. CASE UpdateExistingFile(p, c)
      BY <2>1, <1>1 DEF UpdateExistingFile, MapsInv, IdentityInv, F
    <2>2. CASE ReviveTombstone(p, c)
      BY <2>2, <1>1 DEF ReviveTombstone, MapsInv, IdentityInv, F
    <2>3. CASE NewSourceFile(p, c)
      <3>1. created[p] = 0 /\ files[p] = NoFile /\ tombstones[p] = NoFile
        BY <2>3 DEF NewSourceFile, MapsInv, IdentityInv
      <3>2. F = [url |-> p, gen |-> created[p] + 1]
        BY <3>1 DEF F
      <3>3. QED
        BY <2>3, <3>1, <3>2 DEF NewSourceFile, MapsInv
    <2>4. QED
      BY <2>1, <2>2, <2>3 DEF SetVirtualFileDeferred
  <1>3. module_files' = RegisterModuleFile(module_files, external_roots', p, F)
    BY <1>2 DEF SetVirtualFileDeferred, MapsInv
  <1>4. /\ files' \in [Paths -> SourceFiles \cup {NoFile}]
        /\ tombstones' \in [Paths -> SourceFiles \cup {NoFile}]
        /\ created' \in [Paths -> 0 .. MaxGenerations]
        /\ content' \in [SourceFiles -> Contents \cup {NoContent}]
        /\ external_roots' \subseteq ExtNames
    BY <1>1, <1>2, BoundsAssumption DEF MapsInv
  <1>5. module_files' \in [ModuleKeys -> SourceFiles \cup {NoFile}]
    BY <1>1, <1>3 DEF MapsInv, RegisterModuleFile
  <1>6. IdentityInv'
    BY <1>1, <1>2 DEF MapsInv, IdentityInv, F
  <1>7. ContentInv'
    <2> SUFFICES ASSUME NEW f \in SourceFiles
                 PROVE  content'[f] # NoContent <=> files'[f.url] = f
      BY DEF ContentInv
    <2>0. f.url \in Paths
      BY DEF SourceFiles
    <2>1. CASE f = F
      BY <1>1, <1>2, <2>1, ContentsAssumption DEF MapsInv
    <2>2. CASE f # F /\ f.url = p
      <3>1. files[p] # f
        BY <2>2, NoFileAssumption DEF MapsInv, IdentityInv, F
      <3>2. content'[f] = content[f] /\ files'[f.url] = F
        BY <1>1, <1>2, <2>0, <2>2 DEF MapsInv
      <3>3. QED
        BY <2>2, <3>1, <3>2 DEF MapsInv, ContentInv
    <2>3. CASE f.url # p
      BY <1>1, <1>2, <2>0, <2>3 DEF MapsInv, ContentInv
    <2>4. QED
      BY <2>1, <2>2, <2>3
  <1>8. RegistryInv'
    <2> SUFFICES ASSUME NEW k \in ModuleKeys
                 PROVE  /\ module_files'[k] # NoFile =>
                             /\ module_files'[k] = files'[ModuleFilePath(k)]
                             /\ RootKnown(external_roots', k.library)
                        /\ k.library \in {"main", "std"} =>
                               module_files'[k] = files'[ModuleFilePath(k)]
      BY DEF RegistryInv
    <2>0. /\ ModuleFilePath(k) \in Paths
          /\ ModuleFilePath(k).lib = k.library
          /\ IsSolcoreModulePath(ModuleFilePath(k))
          /\ ModuleKeyForPath(ModuleFilePath(k)) = k
      BY PathOfKey
    <2>1. RootKnown(external_roots, k.library) => RootKnown(external_roots', k.library)
      BY DEF RootKnown
    <2>2. CASE ModuleFilePath(k) = p /\ IsModuleOf(external_roots', p)
      <3>1. module_files'[k] = F /\ files'[ModuleFilePath(k)] = F
        BY <1>2, <1>3, <2>0, <2>2 DEF RegisterModuleFile, MapsInv
      <3>2. QED
        BY <2>0, <2>2, <3>1 DEF IsModuleOf
    <2>3. CASE ModuleFilePath(k) = p /\ ~IsModuleOf(external_roots', p)
      <3>1. ~RootKnown(external_roots', k.library)
        BY <2>0, <2>3 DEF IsModuleOf
      <3>2. module_files'[k] = module_files[k]
        BY <1>3, <2>3 DEF RegisterModuleFile
      <3>3. QED
        BY <2>1, <3>1, <3>2 DEF MapsInv, RegistryInv, RootKnown
    <2>4. CASE ModuleFilePath(k) # p
      <3>1. IsModuleOf(external_roots', p) => ModuleKeyForPath(p) # k
        BY <2>4, KeyOfPath DEF IsModuleOf
      <3>2. module_files'[k] = module_files[k]
        BY <1>3, <3>1 DEF RegisterModuleFile, MapsInv
      <3>3. files'[ModuleFilePath(k)] = files[ModuleFilePath(k)]
        BY <1>2, <2>0, <2>4 DEF MapsInv
      <3>4. QED
        BY <2>1, <3>2, <3>3 DEF MapsInv, RegistryInv
    <2>5. QED
      BY <2>2, <2>3, <2>4
  <1>9. QED
    BY <1>4, <1>5, <1>6, <1>7, <1>8 DEF MapsInv

\* remove_virtual_file_deferred.
LEMMA RemoveMaps ==
    ASSUME MapsInv, NEW p \in Paths,
           external_roots \subseteq external_roots', external_roots' \subseteq ExtNames,
           RemoveVirtualFileDeferred(external_roots', p),
           created' = created
    PROVE  MapsInv'
  <1>1. \A k \in ModuleKeys :
            RootKnown(external_roots, k.library) => RootKnown(external_roots', k.library)
    BY DEF RootKnown
  <1>2. CASE files[p] = NoFile
    <2>1. UNCHANGED <<files, tombstones, created, content, module_files>>
      BY <1>2 DEF RemoveVirtualFileDeferred
    <2>2. RegistryInv'
      BY <1>1, <2>1 DEF MapsInv, RegistryInv
    <2>3. QED
      BY <2>1, <2>2 DEF MapsInv, IdentityInv, ContentInv
  <1>3. CASE files[p] # NoFile
    <2> DEFINE F == [url |-> p, gen |-> 1]
    <2>1. F \in SourceFiles /\ F # NoFile /\ F.url = p
      BY FirstSourceFile, NoFileAssumption
    <2>2. files[p] = F /\ tombstones[p] = NoFile /\ created[p] = 1
      BY <1>3 DEF MapsInv, IdentityInv
    <2> HIDE DEF F
    <2>3. /\ files' = [files EXCEPT ![p] = NoFile]
          /\ tombstones' = [tombstones EXCEPT ![p] = F]
          /\ content' = [content EXCEPT ![F] = NoContent]
          /\ module_files' = UnregisterModuleFile(module_files, external_roots', p, F)
      BY <1>3, <2>2 DEF RemoveVirtualFileDeferred
    <2>4. /\ files' \in [Paths -> SourceFiles \cup {NoFile}]
          /\ tombstones' \in [Paths -> SourceFiles \cup {NoFile}]
          /\ created' \in [Paths -> 0 .. MaxGenerations]
          /\ content' \in [SourceFiles -> Contents \cup {NoContent}]
          /\ module_files' \in [ModuleKeys -> SourceFiles \cup {NoFile}]
      BY <2>1, <2>3 DEF MapsInv, UnregisterModuleFile
    <2>5. IdentityInv'
      BY <2>1, <2>2, <2>3 DEF MapsInv, IdentityInv, F
    <2>6. ContentInv'
      <3> SUFFICES ASSUME NEW f \in SourceFiles
                   PROVE  content'[f] # NoContent <=> files'[f.url] = f
        BY DEF ContentInv
      <3>1. f.url \in Paths /\ f # NoFile
        BY NoFileAssumption DEF SourceFiles
      <3>2. CASE f = F
        BY <2>1, <2>3, <3>1, <3>2 DEF MapsInv
      <3>3. CASE f # F
        BY <2>1, <2>2, <2>3, <3>1, <3>3 DEF MapsInv, ContentInv
      <3>4. QED
        BY <3>2, <3>3
    <2>7. RegistryInv'
      <3> SUFFICES ASSUME NEW k \in ModuleKeys
                   PROVE  /\ module_files'[k] # NoFile =>
                               /\ module_files'[k] = files'[ModuleFilePath(k)]
                               /\ RootKnown(external_roots', k.library)
                          /\ k.library \in {"main", "std"} =>
                                 module_files'[k] = files'[ModuleFilePath(k)]
        BY DEF RegistryInv
      <3>1. /\ ModuleFilePath(k) \in Paths
            /\ ModuleFilePath(k).lib = k.library
            /\ IsSolcoreModulePath(ModuleFilePath(k))
            /\ ModuleKeyForPath(ModuleFilePath(k)) = k
        BY PathOfKey
      <3>2. CASE ModuleFilePath(k) = p
        <4>1. module_files[k] # NoFile => module_files[k] = F /\ IsModuleOf(external_roots', p)
          BY <1>1, <2>2, <3>1, <3>2 DEF MapsInv, RegistryInv, IsModuleOf
        <4>2. module_files'[k] = NoFile
          BY <2>3, <3>1, <3>2, <4>1 DEF UnregisterModuleFile, MapsInv
        <4>3. files'[ModuleFilePath(k)] = NoFile
          BY <2>3, <3>1, <3>2 DEF MapsInv
        <4>4. QED
          BY <4>2, <4>3
      <3>3. CASE ModuleFilePath(k) # p
        <4>1. IsModuleOf(external_roots', p) => ModuleKeyForPath(p) # k
          BY <3>3, KeyOfPath DEF IsModuleOf
        <4>2. module_files'[k] = module_files[k]
          BY <2>3, <4>1 DEF UnregisterModuleFile, MapsInv
        <4>3. files'[ModuleFilePath(k)] = files[ModuleFilePath(k)]
          BY <2>3, <3>1, <3>3 DEF MapsInv
        <4>4. QED
          BY <1>1, <4>2, <4>3 DEF MapsInv, RegistryInv
      <3>4. QED
        BY <3>2, <3>3
    <2>8. QED
      BY <2>4, <2>5, <2>6, <2>7 DEF MapsInv
  <1>4. QED
    BY <1>2, <1>3

\* Loading registers a live file under its own key, below a known root.
LEMMA VisitMaps ==
    ASSUME MapsInv, NEW k \in ModuleKeys, VisitModule(k)
    PROVE  MapsInv'
  <1> DEFINE T == Targets(existing_files, external_roots, k, content[module_files[k]])
  <1>1. \A t \in T : t \in ModuleKeys /\ RootKnown(external_roots, t.library)
    BY TargetsHaveKnownRoots
  <1> HIDE DEF T
  <1>2. /\ UNCHANGED <<files, tombstones, created, content, external_roots>>
        /\ module_files' = RegisterTargets(T)
    BY DEF VisitModule, T
  <1>3. \A t \in ModuleKeys : ModuleFilePath(t) \in Paths
    BY PathOfKey
  <1>4. module_files' \in [ModuleKeys -> SourceFiles \cup {NoFile}]
    BY <1>2, <1>3 DEF RegisterTargets, MapsInv
  <1>5. RegistryInv'
    BY <1>1, <1>2, <1>3 DEF RegisterTargets, MapsInv, RegistryInv
  <1>6. QED
    BY <1>2, <1>4, <1>5 DEF MapsInv, IdentityInv, ContentInv

\* A fork holds the live files, each as the first SourceFile of its path.
LEMMA ForkMaps ==
    ASSUME MapsInv, Fork
    PROVE  MapsInv'
  <1>1. /\ files' = files
        /\ external_roots' = external_roots
        /\ tombstones' = [p \in Paths |-> NoFile]
    BY DEF Fork, ForkedFiles, MapsInv, IdentityInv
  <1>2. created' = [p \in Paths |-> IF files[p] # NoFile THEN 1 ELSE 0]
    BY DEF Fork, ForkedFiles
  <1>3. created' \in [Paths -> 0 .. MaxGenerations]
    <2>1. 0 \in 0 .. MaxGenerations /\ 1 \in 0 .. MaxGenerations
      BY BoundsAssumption
    <2>2. QED
      BY <1>2, <2>1
  <1>4. content' = [f \in SourceFiles |->
                       IF f = files[f.url] THEN content[files[f.url]] ELSE NoContent]
    BY <1>1 DEF Fork, ForkedFiles
  <1>5. content' = content
    <2>1. \A f \in SourceFiles : content'[f] = content[f]
      BY <1>4 DEF MapsInv, ContentInv
    <2>2. QED
      BY <1>4, <2>1 DEF MapsInv
  <1>6. module_files' = [k \in ModuleKeys |->
                            IF IsModuleOf(external_roots, ModuleFilePath(k))
                            THEN files[ModuleFilePath(k)] ELSE NoFile]
    BY <1>1 DEF Fork, ForkedFiles
  <1>7. \A k \in ModuleKeys : /\ ModuleFilePath(k) \in Paths
                               /\ IsSolcoreModulePath(ModuleFilePath(k))
                               /\ ModuleFilePath(k).lib = k.library
    BY PathOfKey
  <1>8. module_files' \in [ModuleKeys -> SourceFiles \cup {NoFile}]
    BY <1>6, <1>7 DEF MapsInv
  <1>9. RegistryInv'
    BY <1>1, <1>6, <1>7 DEF RegistryInv, IsModuleOf, RootKnown
  <1>10. IdentityInv'
    BY <1>1, <1>2 DEF MapsInv, IdentityInv
  <1>11. QED
    BY <1>1, <1>3, <1>5, <1>8, <1>9, <1>10 DEF MapsInv, ContentInv

-----------------------------------------------------------------------------
(* The steps. *)

\* A change that reports no change of the file set leaves the files alone.
LEMMA UnreportedSet ==
    ASSUME NEW roots, NEW p \in Paths, NEW c, SetVirtualFileDeferred(roots, p, c)
    PROVE  /\ SetChanges(p) \in FileChanges
           /\ ~SetChanges(p).file_set_changed => files' = files
           /\ ~SetChanges(p).module_files_changed => module_files' = module_files
  <1>1. files[p] # NoFile => files' = files
    BY DEF SetVirtualFileDeferred, UpdateExistingFile, ReviveTombstone, NewSourceFile
  <1>2. QED
    BY <1>1 DEF SetChanges, FileChanges

\* The same for remove_virtual_file_deferred.
LEMMA UnreportedRemove ==
    ASSUME NEW roots, NEW p \in Paths, RemoveVirtualFileDeferred(roots, p)
    PROVE  /\ RemoveChanges(p) \in FileChanges
           /\ ~RemoveChanges(p).file_set_changed => files' = files
           /\ ~RemoveChanges(p).module_files_changed => module_files' = module_files
  <1>1. files[p] = NoFile => files' = files
    BY DEF RemoveVirtualFileDeferred
  <1>2. QED
    BY <1>1 DEF RemoveChanges, FileChanges

\* Merging reports what either side reports.
LEMMA MergeReports ==
    ASSUME NEW a \in FileChanges, NEW b \in FileChanges
    PROVE  /\ Merge(a, b) \in FileChanges
           /\ Merge(a, b).file_set_changed <=> a.file_set_changed \/ b.file_set_changed
           /\ Merge(a, b).module_files_changed <=>
                 a.module_files_changed \/ b.module_files_changed
  BY DEF Merge, FileChanges

\* An entry selects module keys only.
LEMMA EntryKeysAreKeys == \A e : EntryKeys(e) \subseteq ModuleKeys
  BY DEF EntryKeys, ModuleKeys

\* The .sol files among any files are paths.
LEMMA FsSnapshotIsPaths == \A fs : ModuleFsSnapshotFromPaths(fs) \subseteq Paths
  BY DEF ModuleFsSnapshotFromPaths

\* finish_file_changes with the flags of the changes made since the snapshots
\* were last current makes them current.
LEMMA FinishMakesCurrent ==
    ASSUME NEW fc \in FileChanges, FinishFileChanges(fc), MapsInv',
           existing_files \subseteq Paths,
           module_file_snapshot \in [ModuleKeys -> SourceFiles \cup {NoFile}],
           fc.module_files_changed \/ module_file_snapshot = module_files',
           fc.file_set_changed \/ existing_files = ModuleFsSnapshotFromPaths(files')
    PROVE  /\ module_file_snapshot' = module_files'
           /\ existing_files' = ModuleFsSnapshotFromPaths(files')
           /\ existing_files' \subseteq Paths
           /\ module_file_snapshot' \in [ModuleKeys -> SourceFiles \cup {NoFile}]
  <1>1. module_file_snapshot' = module_files'
    BY DEF FinishFileChanges
  <1>2. existing_files' = ModuleFsSnapshotFromPaths(files')
    BY DEF FinishFileChanges
  <1>3. QED
    BY <1>1, <1>2, FsSnapshotIsPaths DEF MapsInv

\* A new workspace satisfies the inductive invariant.
LEMMA InitInd == Init => IndInv
  <1> SUFFICES ASSUME Init PROVE IndInv
    OBVIOUS
  <1>1. MapsInv
    BY InitMaps
  <1>2. ControlInv
    <2>1. existing_files \subseteq Paths
      BY FsSnapshotIsPaths DEF Init
    <2>2. module_file_snapshot \in [ModuleKeys -> SourceFiles \cup {NoFile}]
      BY <1>1 DEF Init, MapsInv
    <2>3. changes \in FileChanges /\ load_changed \in BOOLEAN /\ settled \in BOOLEAN
      BY DEF Init, NoChanges, FileChanges
    <2>4. batched \in 0 .. MaxBatch
      <3>1. 0 \in 0 .. MaxBatch
        BY BoundsAssumption
      <3>2. QED
        BY <3>1 DEF Init
    <2>5. QED
      BY <2>1, <2>2, <2>3, <2>4 DEF Init, ControlInv
  <1>3. FileSnapshotInv /\ FsSnapshotInv /\ LocalsInv
    BY DEF Init, FileSnapshotInv, FsSnapshotInv, LocalsInv
  <1>4. QED
    BY <1>1, <1>2, <1>3 DEF IndInv

\* The bound on the length of a batch.
LEMMA BatchedGrows ==
    ASSUME batched \in 0 .. MaxBatch, batched < MaxBatch
    PROVE  batched + 1 \in 0 .. MaxBatch
  BY BoundsAssumption

\* The two changes of a batch differ in the maps only: a step that updates the
\* maps correctly and merges a truthful report keeps the invariant.
LEMMA ChangeInd ==
    ASSUME IndInv, MapsInv', phase = "batch", batched < MaxBatch,
           NEW fc \in FileChanges,
           ~fc.file_set_changed => files' = files,
           ~fc.module_files_changed => module_files' = module_files,
           changes' = Merge(changes, fc), batched' = batched + 1,
           UNCHANGED <<snapshots, entry_path, phase, loading, settled>>
    PROVE  IndInv'
  <1>1. /\ changes' \in FileChanges
        /\ changes'.file_set_changed <=> changes.file_set_changed \/ fc.file_set_changed
        /\ changes'.module_files_changed <=>
              changes.module_files_changed \/ fc.module_files_changed
    BY MergeReports DEF IndInv, ControlInv
  <1>2. batched' \in 0 .. MaxBatch
    BY BatchedGrows DEF IndInv, ControlInv
  <1>3. ControlInv'
    BY <1>1, <1>2 DEF IndInv, ControlInv, snapshots, loading
  <1>4. FileSnapshotInv' /\ FsSnapshotInv'
    BY <1>1 DEF IndInv, FileSnapshotInv, FsSnapshotInv, snapshots, loading
  <1>5. LocalsInv'
    BY DEF IndInv, LocalsInv, loading
  <1>6. QED
    BY <1>3, <1>4, <1>5 DEF IndInv

\* What starts loading from current snapshots.
LEMMA StartInd ==
    ASSUME MapsInv', StartLoading,
           entry_path' \in Paths \cup {NoPath},
           module_file_snapshot' = module_files',
           existing_files' = ModuleFsSnapshotFromPaths(files'),
           changes' = NoChanges, batched' = 0, settled' \in BOOLEAN
    PROVE  IndInv'
  <1>1. existing_files' \subseteq Paths
    BY FsSnapshotIsPaths
  <1>2. changes' \in FileChanges
    BY DEF NoChanges, FileChanges
  <1>3. batched' \in 0 .. MaxBatch
    BY BoundsAssumption
  <1>4. ControlInv'
    BY <1>1, <1>2, <1>3, EntryKeysAreKeys DEF ControlInv, StartLoading, MapsInv
  <1>5. FileSnapshotInv' /\ FsSnapshotInv' /\ LocalsInv'
    BY DEF FileSnapshotInv, FsSnapshotInv, LocalsInv, StartLoading
  <1>6. QED
    BY <1>4, <1>5 DEF IndInv

\* Every step of the host preserves the inductive invariant.
LEMMA NextInd == IndInv /\ [Next]_vars => IndInv'
  <1> SUFFICES ASSUME IndInv, [Next]_vars PROVE IndInv'
    OBVIOUS
  <1>0. MapsInv /\ ControlInv /\ FileSnapshotInv /\ FsSnapshotInv /\ LocalsInv
    BY DEF IndInv
  <1>1. CASE BeginFileChanges
    <2>1. MapsInv'
      BY <1>0, <1>1 DEF BeginFileChanges, maps, MapsInv, IdentityInv, ContentInv, RegistryInv
    <2>2. ControlInv'
      BY <1>0, <1>1 DEF BeginFileChanges, ControlInv, snapshots, loading
    <2>3. FileSnapshotInv' /\ FsSnapshotInv' /\ LocalsInv'
      BY <1>0, <1>1 DEF BeginFileChanges, FileSnapshotInv, FsSnapshotInv, LocalsInv,
                        maps, snapshots, loading
    <2>4. QED
      BY <2>1, <2>2, <2>3 DEF IndInv
  <1>2. CASE \E p \in Paths, c \in Contents : ApplySet(p, c)
    <2>1. PICK p \in Paths, c \in Contents : ApplySet(p, c)
      BY <1>2
    <2>2. external_roots \subseteq external_roots' /\ external_roots' \subseteq ExtNames
      BY <1>0, <2>1 DEF ApplySet, EnsureExternalRoot, MapsInv
    <2>3. SetVirtualFileDeferred(external_roots', p, c)
      BY <2>1 DEF ApplySet
    <2>4. MapsInv'
      BY <1>0, <2>2, <2>3, SetMaps
    <2>5. /\ SetChanges(p) \in FileChanges
          /\ ~SetChanges(p).file_set_changed => files' = files
          /\ ~SetChanges(p).module_files_changed => module_files' = module_files
      BY <2>3, UnreportedSet
    <2>6. /\ phase = "batch" /\ batched < MaxBatch
          /\ changes' = Merge(changes, SetChanges(p)) /\ batched' = batched + 1
          /\ UNCHANGED <<snapshots, entry_path, phase, loading, settled>>
      BY <2>1 DEF ApplySet
    <2>7. QED
      BY <2>4, <2>5, <2>6, ChangeInd
  <1>3. CASE \E p \in Paths : ApplyRemove(p)
    <2>1. PICK p \in Paths : ApplyRemove(p)
      BY <1>3
    <2>2. external_roots \subseteq external_roots' /\ external_roots' \subseteq ExtNames
      BY <1>0, <2>1 DEF ApplyRemove, EnsureExternalRoot, MapsInv
    <2>3. RemoveVirtualFileDeferred(external_roots', p) /\ created' = created
      BY <2>1 DEF ApplyRemove
    <2>4. MapsInv'
      BY <1>0, <2>2, <2>3, RemoveMaps
    <2>5. /\ RemoveChanges(p) \in FileChanges
          /\ ~RemoveChanges(p).file_set_changed => files' = files
          /\ ~RemoveChanges(p).module_files_changed => module_files' = module_files
      BY <2>3, UnreportedRemove
    <2>6. /\ phase = "batch" /\ batched < MaxBatch
          /\ changes' = Merge(changes, RemoveChanges(p)) /\ batched' = batched + 1
          /\ UNCHANGED <<snapshots, entry_path, phase, loading, settled>>
      BY <2>1 DEF ApplyRemove
    <2>7. QED
      BY <2>4, <2>5, <2>6, ChangeInd
  <1>4. CASE EndFileChanges
    <2>1. MapsInv' /\ UNCHANGED <<files, module_files, entry_path, settled>>
      BY <1>0, <1>4 DEF EndFileChanges, maps, MapsInv, IdentityInv, ContentInv, RegistryInv
    <2>2. /\ FinishFileChanges(changes) /\ StartLoading
          /\ changes' = NoChanges /\ batched' = 0
      BY <1>4 DEF EndFileChanges
    <2>3. /\ changes.module_files_changed \/ module_file_snapshot = module_files'
          /\ changes.file_set_changed \/ existing_files = ModuleFsSnapshotFromPaths(files')
      BY <1>0, <1>4, <2>1 DEF EndFileChanges, FileSnapshotInv, FsSnapshotInv
    <2>4. /\ module_file_snapshot' = module_files'
          /\ existing_files' = ModuleFsSnapshotFromPaths(files')
      BY <1>0, <2>1, <2>2, <2>3, FinishMakesCurrent DEF ControlInv
    <2>5. QED
      BY <1>0, <2>1, <2>2, <2>4, StartInd DEF ControlInv
  <1>5. CASE \E p \in Paths : SetEntry(p)
    <2>1. PICK p \in Paths : SetEntry(p)
      BY <1>5
    <2>2. MapsInv'
      BY <1>0, <2>1 DEF SetEntry, maps, MapsInv, IdentityInv, ContentInv, RegistryInv
    <2>3. /\ module_file_snapshot' = module_files'
          /\ existing_files' = ModuleFsSnapshotFromPaths(files')
          /\ changes' = NoChanges /\ batched' = 0
      BY <1>0, <2>1 DEF SetEntry, maps, snapshots, FileSnapshotInv, FsSnapshotInv, LocalsInv
    <2>4. StartLoading /\ entry_path' \in Paths \cup {NoPath} /\ settled' \in BOOLEAN
      BY <1>0, <2>1 DEF SetEntry, ControlInv
    <2>5. QED
      BY <2>2, <2>3, <2>4, StartInd
  <1>6. CASE \E k \in ModuleKeys : SkipModule(k)
    <2>1. PICK k \in ModuleKeys : SkipModule(k)
      BY <1>6
    <2>2. MapsInv'
      BY <1>0, <2>1 DEF SkipModule, maps, MapsInv, IdentityInv, ContentInv, RegistryInv
    <2>3. ControlInv'
      BY <1>0, <2>1 DEF SkipModule, ControlInv, snapshots
    <2>4. FileSnapshotInv' /\ FsSnapshotInv' /\ LocalsInv'
      BY <1>0, <2>1 DEF SkipModule, FileSnapshotInv, FsSnapshotInv, LocalsInv, maps, snapshots
    <2>5. QED
      BY <2>2, <2>3, <2>4 DEF IndInv
  <1>7. CASE \E k \in ModuleKeys : VisitModule(k)
    <2>1. PICK k \in ModuleKeys : VisitModule(k)
      BY <1>7
    <2>2. MapsInv'
      BY <1>0, <2>1, VisitMaps
    <2>3. /\ phase = "load" /\ load_changed' = (load_changed \/ module_files' # module_files)
          /\ queue' \subseteq ModuleKeys /\ visited' \subseteq ModuleKeys
          /\ UNCHANGED <<files, snapshots, entry_path, phase, changes, batched, settled>>
      BY <1>0, <2>1, TargetsHaveKnownRoots DEF VisitModule, ControlInv
    <2>4. ControlInv'
      BY <1>0, <2>3 DEF ControlInv, snapshots
    <2>5. FileSnapshotInv' /\ FsSnapshotInv' /\ LocalsInv'
      BY <1>0, <2>3 DEF FileSnapshotInv, FsSnapshotInv, LocalsInv, snapshots
    <2>6. QED
      BY <2>2, <2>4, <2>5 DEF IndInv
  <1>8. CASE EndLoading
    <2>1. MapsInv'
      BY <1>0, <1>8 DEF EndLoading, maps, MapsInv, IdentityInv, ContentInv, RegistryInv
    <2>2. module_file_snapshot' = module_files' /\ existing_files' = ModuleFsSnapshotFromPaths(files')
      BY <1>0, <1>8 DEF EndLoading, maps, FileSnapshotInv, FsSnapshotInv
    <2>3. ControlInv'
      BY <1>0, <1>8, <2>1, <2>2 DEF EndLoading, ControlInv, MapsInv
    <2>4. FileSnapshotInv' /\ FsSnapshotInv' /\ LocalsInv'
      BY <1>0, <1>8, <2>2 DEF EndLoading, FileSnapshotInv, FsSnapshotInv, LocalsInv
    <2>5. QED
      BY <2>1, <2>3, <2>4 DEF IndInv
  <1>9. CASE \E p \in Paths, c \in Contents : SetVirtualFile(p, c)
    <2>1. PICK p \in Paths, c \in Contents : SetVirtualFile(p, c)
      BY <1>9
    <2>2. /\ SetVirtualFileDeferred(external_roots', p, c)
          /\ external_roots' = external_roots
      BY <2>1 DEF SetVirtualFile
    <2>3. MapsInv'
      BY <1>0, <2>2, SetMaps DEF MapsInv
    <2>4. /\ SetChanges(p) \in FileChanges
          /\ ~SetChanges(p).file_set_changed => files' = files
          /\ ~SetChanges(p).module_files_changed => module_files' = module_files
      BY <2>2, UnreportedSet
    <2>5. /\ module_file_snapshot = module_files
          /\ existing_files = ModuleFsSnapshotFromPaths(files)
      BY <1>0, <2>1 DEF SetVirtualFile, FileSnapshotInv, FsSnapshotInv
    <2>6. FinishFileChanges(SetChanges(p))
      BY <2>1 DEF SetVirtualFile
    <2>7. /\ module_file_snapshot' = module_files'
          /\ existing_files' = ModuleFsSnapshotFromPaths(files')
          /\ existing_files' \subseteq Paths
          /\ module_file_snapshot' \in [ModuleKeys -> SourceFiles \cup {NoFile}]
      <3> DEFINE fc == SetChanges(p)
      <3> HIDE DEF fc
      <3> QED  BY <1>0, <2>3, <2>4, <2>5, <2>6, FinishMakesCurrent DEF ControlInv, fc
    <2>8. ControlInv'
      BY <1>0, <2>1, <2>7 DEF SetVirtualFile, ControlInv, loading
    <2>9. FileSnapshotInv' /\ FsSnapshotInv' /\ LocalsInv'
      BY <1>0, <2>1, <2>7 DEF SetVirtualFile, FileSnapshotInv, FsSnapshotInv, LocalsInv, loading
    <2>10. QED
      BY <2>3, <2>8, <2>9 DEF IndInv
  <1>10. CASE \E p \in Paths : RemoveVirtualFile(p)
    <2>1. PICK p \in Paths : RemoveVirtualFile(p)
      BY <1>10
    <2>2. /\ RemoveVirtualFileDeferred(external_roots', p)
          /\ external_roots' = external_roots /\ created' = created
      BY <2>1 DEF RemoveVirtualFile
    <2>3. MapsInv'
      BY <1>0, <2>2, RemoveMaps DEF MapsInv
    <2>4. /\ RemoveChanges(p) \in FileChanges
          /\ ~RemoveChanges(p).file_set_changed => files' = files
          /\ ~RemoveChanges(p).module_files_changed => module_files' = module_files
      BY <2>2, UnreportedRemove
    <2>5. /\ module_file_snapshot = module_files
          /\ existing_files = ModuleFsSnapshotFromPaths(files)
      BY <1>0, <2>1 DEF RemoveVirtualFile, FileSnapshotInv, FsSnapshotInv
    <2>6. FinishFileChanges(RemoveChanges(p))
      BY <2>1 DEF RemoveVirtualFile
    <2>7. /\ module_file_snapshot' = module_files'
          /\ existing_files' = ModuleFsSnapshotFromPaths(files')
          /\ existing_files' \subseteq Paths
          /\ module_file_snapshot' \in [ModuleKeys -> SourceFiles \cup {NoFile}]
      <3> DEFINE fc == RemoveChanges(p)
      <3> HIDE DEF fc
      <3> QED  BY <1>0, <2>3, <2>4, <2>5, <2>6, FinishMakesCurrent DEF ControlInv, fc
    <2>8. ControlInv'
      BY <1>0, <2>1, <2>7 DEF RemoveVirtualFile, ControlInv, loading
    <2>9. FileSnapshotInv' /\ FsSnapshotInv' /\ LocalsInv'
      BY <1>0, <2>1, <2>7 DEF RemoveVirtualFile, FileSnapshotInv, FsSnapshotInv, LocalsInv, loading
    <2>10. QED
      BY <2>3, <2>8, <2>9 DEF IndInv
  <1>11. CASE Fork
    <2>1. MapsInv'
      BY <1>0, <1>11, ForkMaps
    <2>2. /\ module_file_snapshot' = module_files'
          /\ existing_files' = ModuleFsSnapshotFromPaths(files')
          /\ entry_path' \in Paths \cup {NoPath} /\ settled' \in BOOLEAN
          /\ changes' = NoChanges /\ batched' = 0 /\ StartLoading
      BY <1>0, <1>11 DEF Fork, ForkedFiles, ControlInv, LocalsInv
    <2>3. QED
      BY <2>1, <2>2, StartInd
  <1>12. CASE UNCHANGED vars
    <2>1. MapsInv'
      BY <1>0, <1>12 DEF vars, maps, MapsInv, IdentityInv, ContentInv, RegistryInv
    <2>2. ControlInv'
      BY <1>0, <1>12 DEF vars, snapshots, loading, ControlInv
    <2>3. FileSnapshotInv' /\ FsSnapshotInv' /\ LocalsInv'
      BY <1>0, <1>12 DEF vars, maps, snapshots, loading, FileSnapshotInv, FsSnapshotInv, LocalsInv
    <2>4. QED
      BY <2>1, <2>2, <2>3 DEF IndInv
  <1>13. QED
    BY <1>1, <1>2, <1>3, <1>4, <1>5, <1>6, <1>7, <1>8, <1>9, <1>10, <1>11, <1>12 DEF Next

-----------------------------------------------------------------------------
(* The safety theorems. *)

\* The inductive invariant holds in every reachable state.
THEOREM Invariance == Spec => []IndInv
  BY InitInd, NextInd, PTL DEF Spec

\* Type correctness of the host and its workspace.
THEOREM TypeCorrect == Spec => []TypeOK
  <1>1. IndInv => TypeOK
    BY DEF IndInv, MapsInv, ControlInv, TypeOK
  <1>2. QED
    BY <1>1, Invariance, PTL

\* Between operations queries read current snapshots: the flags that decide
\* which snapshot finish_file_changes and load_reachable_modules refresh
\* never miss a change, however many changes a batch merges.
THEOREM QueriesReadCurrentSnapshots == Spec => []SnapshotsCurrent
  <1>1. IndInv => SnapshotsCurrent
    BY DEF IndInv, FileSnapshotInv, FsSnapshotInv, SnapshotsCurrent
  <1>2. QED
    BY <1>1, Invariance, PTL

\* No removed file is ever left in the module registry, and every registered
\* module is the live file at the path its key names.
THEOREM RegistryHoldsLiveFiles == Spec => []RegistryIsLive
  <1>1. ASSUME IndInv, NEW k \in ModuleKeys, module_files[k] # NoFile
        PROVE  /\ module_files[k] = files[ModuleFilePath(k)]
               /\ content[module_files[k]] # NoContent
    <2>1. ModuleFilePath(k) \in Paths
      BY PathOfKey
    <2>2. module_files[k] = files[ModuleFilePath(k)]
      BY <1>1 DEF IndInv, MapsInv, RegistryInv
    <2>3. files[ModuleFilePath(k)] = [url |-> ModuleFilePath(k), gen |-> 1]
      BY <1>1, <2>1, <2>2 DEF IndInv, MapsInv, IdentityInv
    <2>4. content[files[ModuleFilePath(k)]] # NoContent
      BY <1>1, <2>1, <2>3, FirstSourceFile DEF IndInv, MapsInv, ContentInv
    <2>5. QED
      BY <2>2, <2>4
  <1>2. IndInv => RegistryIsLive
    BY <1>1 DEF RegistryIsLive
  <1>3. QED
    BY <1>2, Invariance, PTL

\* A SourceFile has a text exactly while it is live, and a path is never both
\* live and a tombstone.
THEOREM LiveFilesAreNotTombstones == Spec => []LiveOrTombstone
  <1>1. IndInv => LiveOrTombstone
    BY DEF IndInv, MapsInv, ContentInv, IdentityInv, LiveOrTombstone
  <1>2. QED
    BY <1>1, Invariance, PTL

\* Together: what module_files, files and tombstones say of a file agrees with
\* whether it has a text (update_file, remove_file, revive).
THEOREM FilesStayExact == Spec => []FilesAreExact
  BY RegistryHoldsLiveFiles, LiveFilesAreNotTombstones, PTL DEF FilesAreExact

\* A path that has been given a SourceFile keeps it: no step but Fork, which
\* leaves the database, forgets that one was built.
LEMMA CreatedStays ==
    ASSUME MapsInv, [Next]_vars, ~Fork, NEW p \in Paths, created[p] # 0
    PROVE  created'[p] # 0
  <1>1. ASSUME NEW roots, NEW q \in Paths, NEW c, SetVirtualFileDeferred(roots, q, c)
        PROVE  created'[p] # 0
    <2>1. CASE created' = created
      BY <2>1
    <2>2. CASE NewSourceFile(q, c)
      BY <2>2 DEF NewSourceFile, MapsInv, IdentityInv
    <2>3. QED
      BY <1>1, <2>1, <2>2 DEF SetVirtualFileDeferred, UpdateExistingFile, ReviveTombstone
  <1>2. CASE \E q \in Paths, c \in Contents : ApplySet(q, c) \/ SetVirtualFile(q, c)
    BY <1>1, <1>2 DEF ApplySet, SetVirtualFile
  <1>3. CASE UNCHANGED created
    BY <1>3
  <1>4. QED
    BY <1>2, <1>3 DEF Next, vars, maps, BeginFileChanges, ApplyRemove, EndFileChanges,
                      SetEntry, SkipModule, VisitModule, EndLoading, RemoveVirtualFile

\* The SourceFile of a path is the same for the life of the database: a file
\* removed and set again any number of times is revived, never rebuilt.
THEOREM StableIdentity == Spec => IdentityIsStable
  <1>1. ASSUME IndInv, IndInv', [Next]_vars, ~Fork, NEW p \in Paths, IdentityOf(p) # NoFile
        PROVE  IdentityOf(p)' = IdentityOf(p)
    <2>1. IdentityOf(p) = [url |-> p, gen |-> 1] /\ created[p] # 0
      BY <1>1 DEF IndInv, MapsInv, IdentityInv, IdentityOf
    <2>2. created'[p] # 0
      BY <1>1, <2>1, CreatedStays DEF IndInv
    <2>3. IdentityOf(p)' = [url |-> p, gen |-> 1]
      BY <1>1, <2>2 DEF IndInv, MapsInv, IdentityInv, IdentityOf
    <2>4. QED
      BY <2>1, <2>3
  <1>2. IndInv /\ IndInv' /\ [Next]_vars =>
           [Fork \/ \A p \in Paths : IdentityOf(p) # NoFile => IdentityOf(p)' = IdentityOf(p)]_vars
    BY <1>1
  <1>3. QED
    BY <1>2, Invariance, PTL DEF Spec, IdentityIsStable

-----------------------------------------------------------------------------
(***************************************************************************)
(* AnalysisHost implements VirtualTree: incremental analysis equals        *)
(* analysis from scratch, for every history of a workspace.                *)
(*                                                                         *)
(* The heart is the loop of load_reachable_modules.  LoadInv says that the *)
(* visited modules are reachable in the tree and that what they refer to   *)
(* is registered and visited or queued; with the queue empty, the visited  *)
(* modules are then exactly the reachable ones.  No induction on the graph *)
(* is needed: reachability is the least closed set on both sides.          *)
(***************************************************************************)

EntryInv == entry_path # NoPath => entry_path.lib = "main"

TargetsOf(k) ==
    Targets(existing_files, external_roots, k, content[module_files[k]])

EntriesPending == EntryKeys(entry_path) \subseteq queue \cup visited

PendingRegistered ==
    \A k \in queue \cup visited :
        files[ModuleFilePath(k)] # NoFile => module_files[k] # NoFile

VisitedComplete ==
    \A k \in visited : module_files[k] # NoFile =>
        \A t \in TargetsOf(k) : files[ModuleFilePath(t)] # NoFile =>
            module_files[t] # NoFile /\ t \in queue \cup visited

PendingReachable ==
    queue \cup visited \subseteq
        ReachableInTree(Tree, external_roots, EntryKeys(entry_path))

LoadInv ==
    phase = "load" =>
        EntriesPending /\ PendingRegistered /\ VisitedComplete /\ PendingReachable

-----------------------------------------------------------------------------
(* The tree. *)

\* The tree has a text where the host has a live file, and a registered
\* module's text in the tree is the text of its SourceFile.
LEMMA TreeFacts ==
    ASSUME MapsInv
    PROVE  /\ Tree \in [Paths -> Contents \cup {NoContent}]
           /\ \A p \in Paths : Tree[p] # NoContent <=> files[p] # NoFile
           /\ ExistingFiles(Tree) = ModuleFsSnapshotFromPaths(files)
           /\ \A k \in ModuleKeys : Exists(Tree, k) <=> files[ModuleFilePath(k)] # NoFile
           /\ \A k \in ModuleKeys : module_files[k] # NoFile =>
                 /\ Exists(Tree, k)
                 /\ Tree[ModuleFilePath(k)] = content[module_files[k]]
  <1>1. \A p \in Paths : files[p] # NoFile =>
            files[p] \in SourceFiles /\ files[p].url = p /\ content[files[p]] # NoContent
    <2> SUFFICES ASSUME NEW p \in Paths, files[p] # NoFile
                 PROVE  files[p] \in SourceFiles /\ files[p].url = p /\ content[files[p]] # NoContent
      OBVIOUS
    <2>1. files[p] = [url |-> p, gen |-> 1]
      BY DEF MapsInv, IdentityInv
    <2>2. files[p] \in SourceFiles /\ files[p].url = p
      BY <2>1, FirstSourceFile
    <2>3. QED
      BY <2>2 DEF MapsInv, ContentInv
  <1>2. Tree \in [Paths -> Contents \cup {NoContent}]
    BY <1>1 DEF Tree, MapsInv
  <1>3. \A p \in Paths : Tree[p] # NoContent <=> files[p] # NoFile
    BY <1>1 DEF Tree
  <1>4. ExistingFiles(Tree) = ModuleFsSnapshotFromPaths(files)
    BY <1>3 DEF ExistingFiles, ModuleFsSnapshotFromPaths
  <1>5. \A k \in ModuleKeys : Exists(Tree, k) <=> files[ModuleFilePath(k)] # NoFile
    BY <1>3, PathOfKey DEF Exists
  <1>6. \A k \in ModuleKeys : module_files[k] # NoFile =>
            /\ Exists(Tree, k)
            /\ Tree[ModuleFilePath(k)] = content[module_files[k]]
    BY <1>5, PathOfKey DEF Tree, MapsInv, RegistryInv
  <1>7. QED
    BY <1>2, <1>3, <1>4, <1>5, <1>6

\* Setting a file edits the tree at that path only.
LEMMA SetTree ==
    ASSUME MapsInv, NEW p \in Paths, NEW c \in Contents, NEW roots,
           SetVirtualFileDeferred(roots, p, c)
    PROVE  Tree' = [Tree EXCEPT ![p] = c]
  <1>1. files[p] # NoFile => files[p] = [url |-> p, gen |-> 1]
    BY DEF MapsInv, IdentityInv
  <1>2. /\ files' = [files EXCEPT ![p] = [url |-> p, gen |-> 1]]
        /\ content' = [content EXCEPT ![[url |-> p, gen |-> 1]] = c]
    <2>1. CASE UpdateExistingFile(p, c)
      BY <2>1, <1>1 DEF UpdateExistingFile, MapsInv
    <2>2. CASE ReviveTombstone(p, c)
      BY <2>2 DEF ReviveTombstone, MapsInv, IdentityInv
    <2>3. CASE NewSourceFile(p, c)
      <3>1. created[p] = 0
        BY <2>3 DEF NewSourceFile, MapsInv, IdentityInv
      <3>2. [url |-> p, gen |-> created[p] + 1] = [url |-> p, gen |-> 1]
        BY <3>1
      <3>3. QED
        BY <2>3, <3>2 DEF NewSourceFile
    <2>4. QED
      BY <2>1, <2>2, <2>3 DEF SetVirtualFileDeferred
  <1>3. Tree'[p] = c
    BY <1>2, FirstSourceFile, NoFileAssumption DEF Tree, MapsInv
  <1>4. ASSUME NEW q \in Paths, q # p
        PROVE  Tree'[q] = Tree[q]
    <2>1. files'[q] = files[q]
      BY <1>2, <1>4 DEF MapsInv
    <2>2. files[q] # NoFile => files[q] = [url |-> q, gen |-> 1]
      BY DEF MapsInv, IdentityInv
    <2>3. [url |-> q, gen |-> 1] # [url |-> p, gen |-> 1] /\ [url |-> q, gen |-> 1] \in SourceFiles
      BY <1>4, FirstSourceFile
    <2>4. QED
      BY <1>2, <2>1, <2>2, <2>3 DEF Tree, MapsInv
  <1>5. QED
    BY <1>3, <1>4 DEF Tree

\* Removing a file takes away its text only.
LEMMA RemoveTree ==
    ASSUME MapsInv, NEW p \in Paths, NEW roots, RemoveVirtualFileDeferred(roots, p)
    PROVE  Tree' = [Tree EXCEPT ![p] = NoContent]
  <1>1. CASE files[p] = NoFile
    <2>1. Tree' = Tree /\ Tree[p] = NoContent
      BY <1>1 DEF RemoveVirtualFileDeferred, Tree
    <2>2. QED
      BY <2>1 DEF Tree
  <1>2. CASE files[p] # NoFile
    <2>1. files[p] = [url |-> p, gen |-> 1]
      BY <1>2 DEF MapsInv, IdentityInv
    <2>2. /\ files' = [files EXCEPT ![p] = NoFile]
          /\ content' = [content EXCEPT ![[url |-> p, gen |-> 1]] = NoContent]
      BY <1>2, <2>1 DEF RemoveVirtualFileDeferred
    <2>3. Tree'[p] = NoContent
      BY <2>2 DEF Tree, MapsInv
    <2>4. ASSUME NEW q \in Paths, q # p
          PROVE  Tree'[q] = Tree[q]
      <3>1. files'[q] = files[q]
        BY <2>2, <2>4 DEF MapsInv
      <3>2. files[q] # NoFile => files[q] = [url |-> q, gen |-> 1]
        BY DEF MapsInv, IdentityInv
      <3>3. [url |-> q, gen |-> 1] # [url |-> p, gen |-> 1] /\ [url |-> q, gen |-> 1] \in SourceFiles
        BY <2>4, FirstSourceFile
      <3>4. QED
        BY <2>2, <3>1, <3>2, <3>3 DEF Tree, MapsInv
    <2>5. QED
      BY <2>3, <2>4 DEF Tree
  <1>3. QED
    BY <1>1, <1>2

-----------------------------------------------------------------------------
(* Reachability and the loop. *)

\* Reachability is closed under the references of existing modules.
LEMMA ReachableIsClosed ==
    ASSUME NEW tree, NEW roots, NEW entries,
           NEW k \in ReachableInTree(tree, roots, entries), Exists(tree, k),
           NEW t \in TreeTargets(tree, roots, k)
    PROVE  t \in ReachableInTree(tree, roots, entries)
  <1>1. t \in ModuleKeys
    BY DEF TreeTargets, Targets
  <1>2. ASSUME NEW S \in SUBSET ModuleKeys, entries \subseteq S, ClosedInTree(tree, roots, S)
        PROVE  t \in S
    <2>1. k \in S
      BY <1>2 DEF ReachableInTree
    <2>2. QED
      BY <1>2, <2>1 DEF ClosedInTree
  <1>3. QED
    BY <1>1, <1>2 DEF ReachableInTree

\* The entries are reachable.
LEMMA EntriesAreReachable ==
    ASSUME NEW tree, NEW roots, NEW entries \in SUBSET ModuleKeys
    PROVE  entries \subseteq ReachableInTree(tree, roots, entries)
  BY DEF ReachableInTree

\* Reachability is the least closed set.
LEMMA ReachableIsLeast ==
    ASSUME NEW tree, NEW roots, NEW entries, NEW S \in SUBSET ModuleKeys,
           entries \subseteq S, ClosedInTree(tree, roots, S)
    PROVE  ReachableInTree(tree, roots, entries) \subseteq S
  BY DEF ReachableInTree

\* load_entry_modules: the loop starts with the entry pending, which is
\* registered if it exists because every .sol file below /main is.
LEMMA StartLoad ==
    ASSUME MapsInv', EntryInv', StartLoading, entry_path' \in Paths \cup {NoPath}
    PROVE  LoadInv'
  <1>1. queue' = EntryKeys(entry_path') /\ visited' = {}
    BY DEF StartLoading
  <1>2. \A k \in EntryKeys(entry_path') : k \in ModuleKeys /\ k.library = "main"
    <2> SUFFICES ASSUME NEW k \in EntryKeys(entry_path')
                 PROVE  k \in ModuleKeys /\ k.library = "main"
      OBVIOUS
    <2>1. k \in ModuleKeys
      BY EntryKeysAreKeys
    <2>2. entry_path' \in Paths /\ k = ModuleKeyForPath(entry_path')
      BY DEF EntryKeys
    <2>3. entry_path'.lib = "main"
      BY <2>2, NoPathAssumption DEF EntryInv
    <2>4. QED
      BY <2>1, <2>2, <2>3 DEF ModuleKeyForPath
  <1>3. EntriesPending' /\ VisitedComplete'
    BY <1>1 DEF EntriesPending, VisitedComplete
  <1>4. PendingRegistered'
    BY <1>1, <1>2 DEF PendingRegistered, MapsInv, RegistryInv
  <1>5. PendingReachable'
    BY <1>1, <1>2, EntriesAreReachable DEF PendingReachable
  <1>6. QED
    BY <1>3, <1>4, <1>5 DEF LoadInv

\* Skipping a module that was visited or is not registered.
LEMMA SkipLoad ==
    ASSUME LoadInv, NEW k \in ModuleKeys, SkipModule(k)
    PROVE  LoadInv'
  <1>1. UNCHANGED <<files, content, module_files, external_roots, existing_files, entry_path>>
    BY DEF SkipModule, maps, snapshots
  <1>2. /\ phase = "load" /\ k \in queue
        /\ queue' = queue \ {k} /\ visited' = visited \cup {k}
        /\ k \in visited \/ module_files[k] = NoFile
    BY DEF SkipModule
  <1>3. queue' \cup visited' = queue \cup visited
    BY <1>2
  <1>4. Tree' = Tree
    BY <1>1 DEF Tree
  <1>5. EntriesPending' /\ PendingRegistered'
    BY <1>1, <1>2, <1>3 DEF LoadInv, EntriesPending, PendingRegistered
  <1>6. VisitedComplete'
    BY <1>1, <1>2, <1>3 DEF LoadInv, VisitedComplete, TargetsOf
  <1>7. PendingReachable'
    BY <1>1, <1>2, <1>3, <1>4 DEF LoadInv, PendingReachable
  <1>8. QED
    BY <1>5, <1>6, <1>7 DEF LoadInv

\* Visiting a module registers and queues what it refers to.
LEMMA VisitLoad ==
    ASSUME MapsInv, LoadInv, queue \subseteq ModuleKeys, visited \subseteq ModuleKeys,
           existing_files = ModuleFsSnapshotFromPaths(files),
           NEW k \in ModuleKeys, VisitModule(k)
    PROVE  LoadInv'
  <1> DEFINE T == TargetsOf(k)
  <1>1. UNCHANGED <<files, content, external_roots, existing_files, entry_path>>
    BY DEF VisitModule, snapshots
  <1>2. /\ phase = "load" /\ k \in queue /\ module_files[k] # NoFile
        /\ module_files' = RegisterTargets(T)
        /\ queue' = (queue \ {k}) \cup {t \in T : module_files'[t] # NoFile}
        /\ visited' = visited \cup {k}
    BY DEF VisitModule, TargetsOf
  <1>3. T \subseteq ModuleKeys
    BY DEF TargetsOf, Targets
  <1> HIDE DEF T
  <1>4. /\ \A m \in ModuleKeys : module_files[m] # NoFile => module_files'[m] = module_files[m]
        /\ \A t \in T : files[ModuleFilePath(t)] # NoFile => module_files'[t] # NoFile
        /\ \A m \in ModuleKeys : module_files'[m] # NoFile =>
              module_files[m] # NoFile \/ files[ModuleFilePath(m)] # NoFile
    BY <1>2, <1>3 DEF RegisterTargets
  <1>5. queue \cup visited \subseteq queue' \cup visited'
    BY <1>2
  <1>6. Tree' = Tree
    BY <1>1 DEF Tree
  <1>7. EntriesPending'
    BY <1>1, <1>2, <1>5 DEF LoadInv, EntriesPending
  <1>8. PendingRegistered'
    <2> SUFFICES ASSUME NEW m \in queue' \cup visited', files[ModuleFilePath(m)] # NoFile
                 PROVE  module_files'[m] # NoFile
      BY <1>1 DEF PendingRegistered
    <2>1. CASE m \in queue \cup visited
      BY <1>2, <1>4, <2>1 DEF LoadInv, PendingRegistered
    <2>2. CASE m \in T
      BY <1>4, <2>2
    <2>3. QED
      BY <1>2, <2>1, <2>2
  <1>9. VisitedComplete'
    <2> SUFFICES ASSUME NEW m \in visited', module_files'[m] # NoFile,
                        NEW t \in TargetsOf(m)', files[ModuleFilePath(t)] # NoFile
                 PROVE  module_files'[t] # NoFile /\ t \in queue' \cup visited'
      BY <1>1 DEF VisitedComplete
    <2>1. m \in ModuleKeys /\ m \in queue \cup visited
      BY <1>2
    <2>2. module_files[m] # NoFile
      BY <1>2, <1>4, <2>1 DEF LoadInv, PendingRegistered
    <2>3. TargetsOf(m)' = TargetsOf(m)
      BY <1>1, <1>4, <2>1, <2>2 DEF TargetsOf
    <2>4. t \in ModuleKeys
      BY <2>3 DEF TargetsOf, Targets
    <2>5. CASE m = k
      <3>1. t \in T
        BY <2>3, <2>5 DEF T
      <3>2. QED
        BY <1>2, <1>4, <3>1
    <2>6. CASE m # k
      <3>1. m \in visited
        BY <1>2, <2>6
      <3>2. module_files[t] # NoFile /\ t \in queue \cup visited
        BY <1>2, <2>2, <2>3, <3>1 DEF LoadInv, VisitedComplete
      <3>3. QED
        BY <1>4, <1>5, <2>4, <3>2
    <2>7. QED
      BY <2>5, <2>6
  <1>10. PendingReachable'
    <2>1. k \in ReachableInTree(Tree, external_roots, EntryKeys(entry_path))
      BY <1>2 DEF LoadInv, PendingReachable
    <2>2. Exists(Tree, k) /\ Tree[ModuleFilePath(k)] = content[module_files[k]]
      BY <1>2, TreeFacts
    <2>3. ASSUME NEW t \in T, module_files'[t] # NoFile
          PROVE  t \in TreeTargets(Tree, external_roots, k)
      <3>1. files[ModuleFilePath(t)] # NoFile \/ module_files[t] # NoFile
        BY <1>3, <1>4, <2>3
      <3>2. Exists(Tree, t)
        BY <1>3, <3>1, TreeFacts
      <3>3. t \in Targets(ExistingFiles(Tree), external_roots, k, Tree[ModuleFilePath(k)])
        BY <2>2, TreeFacts DEF T, TargetsOf
      <3>4. QED
        BY <3>2, <3>3 DEF TreeTargets
    <2>4. \A t \in T : module_files'[t] # NoFile =>
              t \in ReachableInTree(Tree, external_roots, EntryKeys(entry_path))
      BY <2>1, <2>2, <2>3, ReachableIsClosed
    <2>5. QED
      BY <1>1, <1>2, <1>6, <2>4 DEF LoadInv, PendingReachable
  <1>11. QED
    BY <1>7, <1>8, <1>9, <1>10 DEF LoadInv

-----------------------------------------------------------------------------
(* The answer. *)

\* With the queue empty, queries that read the registry see what the tree
\* defines.
LEMMA LoadedAnswer ==
    ASSUME MapsInv, ControlInv, LoadInv, phase = "load", queue = {},
           existing_files = ModuleFsSnapshotFromPaths(files)
    PROVE  QueryView(module_files) = Analyse(Tree, external_roots, entry_path)
  <1> DEFINE E == EntryKeys(entry_path)
             R == ReachableInTree(Tree, external_roots, E)
             Q == ReachableModules(module_files)
  <1>1. E \subseteq ModuleKeys /\ visited \subseteq ModuleKeys
    BY EntryKeysAreKeys DEF ControlInv
  <1>2. \A k \in visited : Exists(Tree, k) <=> module_files[k] # NoFile
    BY <1>1, TreeFacts DEF LoadInv, PendingRegistered
  <1>3. \A k \in ModuleKeys : module_files[k] # NoFile =>
            /\ LoadedTargets(module_files, k) = {t \in TargetsOf(k) : module_files[t] # NoFile}
            /\ TreeTargets(Tree, external_roots, k) = {t \in TargetsOf(k) : Exists(Tree, t)}
    BY TreeFacts DEF LoadedTargets, TargetsOf, TreeTargets
  <1>4. \A k \in ModuleKeys : TargetsOf(k) \subseteq ModuleKeys
    BY DEF TargetsOf, Targets
  <1>5. \A k \in visited : Exists(Tree, k) =>
            \A t \in TargetsOf(k) : Exists(Tree, t) => module_files[t] # NoFile /\ t \in visited
    BY <1>1, <1>2, <1>4, TreeFacts DEF LoadInv, VisitedComplete
  <1>6. R \subseteq visited
    <2>1. ClosedInTree(Tree, external_roots, visited)
      BY <1>1, <1>2, <1>3, <1>5 DEF ClosedInTree
    <2>2. E \subseteq visited
      BY DEF LoadInv, EntriesPending
    <2>3. QED
      BY <1>1, <2>1, <2>2, ReachableIsLeast
  <1>7. visited \subseteq R
    BY DEF LoadInv, PendingReachable
  <1>8. EntryModule = {k \in E : Exists(Tree, k)}
    <2>1. \A k \in E : entry_path \in Paths /\ ModuleFilePath(k) = entry_path
      BY KeyOfPath DEF EntryKeys
    <2>2. \A k \in E : files[entry_path] # NoFile <=> Exists(Tree, k)
      BY <1>1, <2>1, TreeFacts
    <2>3. \A k \in E : module_files[k] # NoFile => Exists(Tree, k)
      BY <1>1, TreeFacts
    <2>4. QED
      BY <2>2, <2>3 DEF EntryModule
  <1>9. ASSUME NEW k \in Q
        PROVE  k \in visited
    <2>1. EntryModule \subseteq visited
      BY <1>8 DEF LoadInv, EntriesPending
    <2>2. ASSUME NEW m \in visited
          PROVE  LoadedTargets(module_files, m) \subseteq visited
      <3>1. CASE module_files[m] = NoFile
        BY <3>1 DEF LoadedTargets
      <3>2. CASE module_files[m] # NoFile
        <4>1. ASSUME NEW t \in TargetsOf(m), module_files[t] # NoFile
              PROVE  t \in visited
          BY <1>1, <1>2, <1>4, <1>5, <3>2, <4>1, TreeFacts
        <4>2. QED
          BY <1>1, <1>3, <3>2, <4>1
      <3>3. QED
        BY <3>1, <3>2
    <2>3. QED
      BY <1>1, <2>1, <2>2 DEF ReachableModules
  <1>10. ASSUME NEW k \in R, Exists(Tree, k)
         PROVE  k \in Q
    <2>1. k \in ModuleKeys
      BY DEF ReachableInTree
    <2>2. ASSUME NEW S \in SUBSET ModuleKeys, EntryModule \subseteq S,
                 \A m \in S : LoadedTargets(module_files, m) \subseteq S
          PROVE  k \in S
      <3> DEFINE S2 == (S \cap visited) \cup {m \in ModuleKeys : ~Exists(Tree, m)}
      <3>1. S2 \in SUBSET ModuleKeys
        OBVIOUS
      <3>2. E \subseteq S2
        BY <1>1, <1>8, <2>2 DEF LoadInv, EntriesPending
      <3>3. ASSUME NEW m \in S2, Exists(Tree, m),
                   NEW t \in TreeTargets(Tree, external_roots, m)
            PROVE  t \in S2
        <4>1. m \in S /\ m \in visited /\ module_files[m] # NoFile
          BY <1>2, <3>3
        <4>2. t \in TargetsOf(m) /\ Exists(Tree, t)
          BY <1>1, <1>3, <3>3, <4>1
        <4>3. module_files[t] # NoFile /\ t \in visited
          BY <1>5, <3>3, <4>1, <4>2
        <4>4. t \in S
          BY <1>1, <1>3, <2>2, <4>1, <4>2, <4>3
        <4>5. QED
          BY <4>3, <4>4
      <3>4. ClosedInTree(Tree, external_roots, S2)
        BY <3>3 DEF ClosedInTree
      <3>5. k \in S2
        BY <3>1, <3>2, <3>4, ReachableIsLeast
      <3>6. QED
        BY <1>10, <3>5
    <2>3. QED
      BY <2>1, <2>2 DEF ReachableModules
  <1> HIDE DEF E, R, Q
  <1>11. {m \in Q : module_files[m] # NoFile} = {r \in R : Exists(Tree, r)}
    BY <1>2, <1>6, <1>7, <1>9, <1>10
  <1>12. \A m \in {r \in R : Exists(Tree, r)} : content[module_files[m]] = Tree[ModuleFilePath(m)]
    BY <1>1, <1>2, <1>6, TreeFacts
  <1>13. QED
    BY <1>11, <1>12 DEF QueryView, Analyse, Q, R, E

-----------------------------------------------------------------------------
(* The refinement. *)

RefInv == IndInv /\ EntryInv /\ LoadInv

\* RefInv is inductive.
LEMMA RefInvInitial == Init => RefInv
  BY InitInd DEF Init, RefInv, EntryInv, LoadInv

\* Every step preserves it: only StartLoading enters the loop.
LEMMA RefInvStep == RefInv /\ [Next]_vars => RefInv'
  <1> SUFFICES ASSUME RefInv, [Next]_vars PROVE RefInv'
    OBVIOUS
  <1>1. IndInv /\ IndInv' /\ MapsInv /\ MapsInv' /\ ControlInv /\ ControlInv'
    BY NextInd DEF RefInv, IndInv
  <1>2. EntryInv'
    BY DEF RefInv, EntryInv, Next, vars, BeginFileChanges, ApplySet, ApplyRemove,
           EndFileChanges, SetEntry, SkipModule, VisitModule, EndLoading, SetVirtualFile,
           RemoveVirtualFile, Fork
  <1>3. LoadInv'
    <2>1. CASE phase' # "load"
      BY <2>1 DEF LoadInv
    <2>2. CASE StartLoading
      BY <1>1, <1>2, <2>2, StartLoad DEF ControlInv
    <2>3. CASE \E k \in ModuleKeys : SkipModule(k)
      BY <2>3, SkipLoad DEF RefInv
    <2>4. CASE \E k \in ModuleKeys : VisitModule(k)
      <3>1. PICK k \in ModuleKeys : VisitModule(k)
        BY <2>4
      <3>2. existing_files = ModuleFsSnapshotFromPaths(files)
        BY <1>1, <3>1 DEF VisitModule, IndInv, FsSnapshotInv
      <3>3. queue \subseteq ModuleKeys /\ visited \subseteq ModuleKeys
        BY <1>1 DEF ControlInv
      <3>4. QED
        BY <1>1, <3>1, <3>2, <3>3, VisitLoad DEF RefInv
    <2>5. CASE UNCHANGED vars
      <3>1. UNCHANGED <<files, content, module_files, external_roots, existing_files,
                        entry_path, phase, queue, visited>>
        BY <2>5 DEF vars, maps, snapshots, loading
      <3>2. Tree' = Tree
        BY <3>1 DEF Tree
      <3>3. QED
        BY <3>1, <3>2 DEF RefInv, LoadInv, EntriesPending, PendingRegistered,
                          VisitedComplete, PendingReachable, TargetsOf
    <2>6. QED
      BY <2>1, <2>2, <2>3, <2>4, <2>5
         DEF Next, BeginFileChanges, ApplySet, ApplyRemove, EndFileChanges, SetEntry,
             EndLoading, SetVirtualFile, RemoveVirtualFile, Fork
  <1>4. QED
    BY <1>1, <1>2, <1>3 DEF RefInv

\* A new workspace is an initial state of VirtualTree.
LEMMA InitRefines == Init => Abstract!Init
  <1> SUFFICES ASSUME Init PROVE Abstract!Init
    OBVIOUS
  <1>1. MapsInv
    BY InitMaps
  <1>2. Tree \in [Paths -> Contents \cup {NoContent}]
    BY <1>1, TreeFacts
  <1>3. \A p \in Paths : Tree[p] # NoContent => p.lib = "std"
    BY <1>1, TreeFacts DEF Init
  <1>4. EntryKeys(entry_path) = {}
    BY NoPathAssumption DEF Init, EntryKeys
  <1>5. Analyse(Tree, external_roots, entry_path) = {}
    <2>1. ClosedInTree(Tree, external_roots, {})
      BY DEF ClosedInTree
    <2>2. ReachableInTree(Tree, external_roots, {}) = {}
      BY <2>1 DEF ReachableInTree
    <2>3. QED
      BY <1>4, <2>2 DEF Analyse
  <1>6. QueryView(module_file_snapshot) = {}
    <2>1. EntryModule = {}
      BY <1>4 DEF EntryModule
    <2>2. ReachableModules(module_file_snapshot) = {}
      BY <2>1 DEF ReachableModules
    <2>3. QED
      BY <2>2 DEF QueryView
  <1>7. HostAnswer = Analyse(Tree, external_roots, entry_path)
    BY <1>5, <1>6 DEF HostAnswer, Init
  <1>8. QED
    BY <1>2, <1>3, <1>7 DEF Init, Abstract!Init

\* Every step of the host is a step of VirtualTree or leaves its state alone.
LEMMA StepRefines == RefInv /\ RefInv' /\ [Next]_vars => [Abstract!Next]_Abstract!vars
  <1> SUFFICES ASSUME RefInv, RefInv', [Next]_vars PROVE [Abstract!Next]_Abstract!vars
    OBVIOUS
  <1>0. /\ MapsInv /\ ControlInv /\ FileSnapshotInv /\ FsSnapshotInv /\ EntryInv /\ LoadInv
        /\ MapsInv' /\ ControlInv'
    BY DEF RefInv, IndInv
  <1>1. CASE BeginFileChanges
    <2>1. Tree' = Tree /\ UNCHANGED <<external_roots, entry_path>> /\ HostAnswer' = NoAnswer
      BY <1>1 DEF BeginFileChanges, maps, Tree, HostAnswer
    <2>2. QED
      BY <2>1 DEF Abstract!Next, Abstract!Begin
  <1>2. CASE \E p \in Paths, c \in Contents : ApplySet(p, c) \/ SetVirtualFile(p, c)
    <2>1. PICK p \in Paths, c \in Contents : ApplySet(p, c) \/ SetVirtualFile(p, c)
      BY <1>2
    <2>2. Tree' = [Tree EXCEPT ![p] = c]
      BY <1>0, <2>1, SetTree DEF ApplySet, SetVirtualFile
    <2>3. external_roots' \in {external_roots, external_roots \cup ({p.lib} \cap ExtNames)}
      BY <2>1 DEF ApplySet, SetVirtualFile, EnsureExternalRoot
    <2>4. HostAnswer' = NoAnswer /\ entry_path' = entry_path
      BY <2>1 DEF ApplySet, SetVirtualFile, HostAnswer
    <2>5. Abstract!Edit(p, c)
      BY <2>2, <2>3, <2>4 DEF Abstract!Edit
    <2>6. QED
      BY <2>5 DEF Abstract!Next
  <1>3. CASE \E p \in Paths : ApplyRemove(p) \/ RemoveVirtualFile(p)
    <2>1. PICK p \in Paths : ApplyRemove(p) \/ RemoveVirtualFile(p)
      BY <1>3
    <2>2. Tree' = [Tree EXCEPT ![p] = NoContent]
      BY <1>0, <2>1, RemoveTree DEF ApplyRemove, RemoveVirtualFile
    <2>3. external_roots' \in {external_roots, external_roots \cup ({p.lib} \cap ExtNames)}
      BY <2>1 DEF ApplyRemove, RemoveVirtualFile, EnsureExternalRoot
    <2>4. HostAnswer' = NoAnswer /\ entry_path' = entry_path
      BY <2>1 DEF ApplyRemove, RemoveVirtualFile, HostAnswer
    <2>5. Abstract!Edit(p, NoContent)
      BY <2>2, <2>3, <2>4 DEF Abstract!Edit
    <2>6. QED
      BY <2>5 DEF Abstract!Next
  <1>4. CASE EndFileChanges
    <2>1. Tree' = Tree /\ UNCHANGED <<external_roots, entry_path>>
      BY <1>4 DEF EndFileChanges, maps, Tree
    <2>2. HostAnswer = NoAnswer /\ HostAnswer' = NoAnswer
      BY <1>4 DEF EndFileChanges, StartLoading, HostAnswer
    <2>3. QED
      BY <2>1, <2>2 DEF Abstract!vars
  <1>5. CASE \E p \in Paths : SetEntry(p)
    <2>1. PICK p \in Paths : SetEntry(p)
      BY <1>5
    <2>2. Tree' = Tree /\ external_roots' = external_roots
      BY <2>1 DEF SetEntry, maps, Tree
    <2>3. HostAnswer' = NoAnswer /\ entry_path' = p
      BY <2>1 DEF SetEntry, StartLoading, HostAnswer
    <2>4. Abstract!SetEntry(p)
      BY <2>2, <2>3 DEF Abstract!SetEntry
    <2>5. QED
      BY <2>4 DEF Abstract!Next
  <1>6. CASE \E k \in ModuleKeys : SkipModule(k) \/ VisitModule(k)
    <2>1. Tree' = Tree /\ UNCHANGED <<external_roots, entry_path>>
      BY <1>6 DEF SkipModule, VisitModule, maps, Tree
    <2>2. HostAnswer = NoAnswer /\ HostAnswer' = NoAnswer
      BY <1>6 DEF SkipModule, VisitModule, HostAnswer
    <2>3. QED
      BY <2>1, <2>2 DEF Abstract!vars
  <1>7. CASE EndLoading
    <2>1. UNCHANGED <<files, content, module_files, external_roots, existing_files, entry_path>>
      BY <1>7 DEF EndLoading, maps
    <2>2. Tree' = Tree
      BY <2>1 DEF Tree
    <2>3. phase = "load" /\ queue = {} /\ existing_files = ModuleFsSnapshotFromPaths(files)
      BY <1>0, <1>7 DEF EndLoading, FsSnapshotInv
    <2>4. module_file_snapshot' = module_files
      BY <1>0, <1>7 DEF EndLoading, FileSnapshotInv
    <2>5. HostAnswer' = QueryView(module_files)
      BY <1>7, <2>1, <2>4 DEF EndLoading, HostAnswer, QueryView, ReachableModules,
                              EntryModule, LoadedTargets
    <2>6. QueryView(module_files) = Analyse(Tree, external_roots, entry_path)
      BY <1>0, <2>3, LoadedAnswer
    <2>7. Abstract!Settle
      BY <2>1, <2>2, <2>5, <2>6 DEF Abstract!Settle
    <2>8. QED
      BY <2>7 DEF Abstract!Next
  <1>8. CASE Fork
    <2>1. files' = files /\ external_roots' = external_roots /\ entry_path' = entry_path
      BY <1>0, <1>8 DEF Fork, ForkedFiles, MapsInv, IdentityInv
    <2>2. content' = [f \in SourceFiles |->
                         IF f = files[f.url] THEN content[files[f.url]] ELSE NoContent]
      BY <1>8, <2>1 DEF Fork, ForkedFiles
    <2>3. content' = content
      <3>1. \A f \in SourceFiles : content'[f] = content[f]
        BY <1>0, <2>2 DEF MapsInv, ContentInv
      <3>2. QED
        BY <1>0, <2>2, <3>1 DEF MapsInv
    <2>4. Tree' = Tree
      BY <2>1, <2>3 DEF Tree
    <2>5. HostAnswer' = NoAnswer
      BY <1>8 DEF Fork, ForkedFiles, StartLoading, HostAnswer
    <2>6. QED
      BY <2>1, <2>4, <2>5 DEF Abstract!Next, Abstract!Begin
  <1>9. CASE UNCHANGED vars
    <2>1. UNCHANGED <<files, content, module_files, external_roots, existing_files,
                      module_file_snapshot, entry_path, phase, settled>>
      BY <1>9 DEF vars, maps, snapshots
    <2>2. Tree' = Tree
      BY <2>1 DEF Tree
    <2>3. HostAnswer' = HostAnswer
      BY <2>1 DEF HostAnswer, QueryView, ReachableModules, EntryModule, LoadedTargets
    <2>4. QED
      BY <2>1, <2>2, <2>3 DEF Abstract!vars
  <1>10. QED
    BY <1>1, <1>2, <1>3, <1>4, <1>5, <1>6, <1>7, <1>8, <1>9 DEF Next

\* Incremental analysis equals analysis from scratch: after any history of
\* edits, batches, entry changes, direct host updates and forks, a completed
\* Workspace operation leaves the queries with exactly the modules and texts
\* that the present tree, roots and entry define.
THEOREM Refinement == Spec => ImplementsVirtualTree
  <1>1. Spec => []RefInv
    BY RefInvInitial, RefInvStep, PTL DEF Spec
  <1>2. QED
    BY <1>1, InitRefines, StepRefines, PTL DEF Spec, ImplementsVirtualTree, Abstract!Spec
=============================================================================
