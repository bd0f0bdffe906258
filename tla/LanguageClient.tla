---------------------------- MODULE LanguageClient ----------------------------
(***************************************************************************)
(* The playground's language client: playground/src/languageServer/.       *)
(*                                                                         *)
(* Every file exists three times: in the workspace store, as a Monaco text *)
(* model, and as a document of the server in the worker.  modelHost.ts     *)
(* keeps models and store equal in both directions, workspaceSync.ts tells *)
(* the server what changed in the store.  Both listen to the store, in     *)
(* that order, and run within the turn that changed it; but a model does   *)
(* not keep the text it is given (Monaco makes its line endings uniform),  *)
(* so pushing a text into a model may change the store again, and both     *)
(* listeners then run inside the first one.  The operators on a page below *)
(* are such nested calls.                                                  *)
(*                                                                         *)
(* The worker loads, may fail to load and may crash; messages travel in    *)
(* order; a request is answered, fails or times out, whichever is first.   *)
(* A rename is a request whose answer edits models.                        *)
(***************************************************************************)
EXTENDS Naturals, Sequences, FiniteSets, SequencesExt

CONSTANTS
    Paths,         \* workspace paths; uriForWorkspacePath is injective on them
    Texts,         \* file contents
    Normal,        \* Monaco's getValue for each text given to a model
    NewText,       \* NEW_SOURCE_FILE
    Orders,        \* ways to enumerate the keys of a record: a set of paths -> a sequence
    UriOrder,      \* the one by URI
    Examples,      \* the workspaces that loadExample and resetWorkspace load
    MaxGestures,   \* bound: things the user does
    None

NormalTexts == {Normal[t] : t \in Texts}

ASSUME TextsAssumption ==
    /\ Normal \in [Texts -> Texts] /\ \A t \in Texts : Normal[Normal[t]] = Normal[t]
    /\ NewText \in NormalTexts

\* An enumeration has every path of the set once.
ASSUME OrdersAssumption ==
    /\ UriOrder \in Orders
    /\ \A order \in Orders :
           /\ order \in [SUBSET Paths -> Seq(Paths)]
           /\ \A S \in SUBSET Paths : IsInjective(order[S]) /\ Range(order[S]) = S

\* The paths of a store's files, or of a server's documents.
Present(files) == {p \in Paths : files[p] # None}

Trees == [Paths -> Texts \cup {None}]
Workspaces == {files \in Trees : Present(files) # {}}

ASSUME ExamplesAssumption == Examples \subseteq Workspaces /\ MaxGestures \in Nat

VARIABLES
    page,         \* [files, models, previous, outgoing, created]: see below
    active,       \* the path the editor shows
    host,         \* model host and workspace sync are running
    client,       \* "booting", "attached", or "detached"
    failed,       \* workerFailure is set
    pending,      \* requests without an answer
    nextId,       \* id of the next request
    toWorker,     \* messages the worker has not handled
    fromWorker,   \* messages the page has not handled
    worker,       \* [state, docs]: the worker and the documents of its server
    gestures

vars == <<page, active, host, client, failed, pending, nextId, toWorker, fromWorker,
          worker, gestures>>

-----------------------------------------------------------------------------
(* The page: files of the store, a model for each, workspaceSync's             *)
(* previousFiles, the notifications sent in the present turn, and a count of   *)
(* the times models were made so far.  A model has a text, Monaco's version    *)
(* id, the count at which it was made, which tells it from the other models    *)
(* its path has had, and the files whose diagnostics its markers show.         *)
Models == [text : NormalTexts, version : Nat, object : Nat, markers : Trees \cup {None}]
Documents == [kind : {"open", "change"}, path : Paths, text : Texts]
                 \cup [kind : {"close"}, path : Paths, text : {None}]
Pages == [files : Trees, models : [Paths -> Models \cup {None}], previous : Trees,
          outgoing : Seq(Documents), created : Nat]

(* The messages: a notification says what a document becomes, an answer has    *)
(* the documents it was computed from.  A request notes the version of every   *)
(* model.                                                                      *)
Requests == [kind : {"initialize", "rename"}, id : Nat]
Publishes == [kind : {"publish"}, path : Paths, of : Trees \cup {None}]
Responses == [kind : {"response"}, id : Nat, targets : SUBSET Paths, basis : Trees]
Failures == [kind : {"failure"}]
Versions == [version : Nat, object : Nat]
Waiting == [id : Nat, kind : {"initialize"}, versions : {None}]
               \cup [id : Nat, kind : {"rename"}, versions : [Paths -> Versions \cup {None}]]

ASSUME NoneAssumption == None \notin Texts /\ None \notin Models /\ None \notin Versions

\* createModel (external): a new model object whose version is 1.
NewModel(pg, text) ==
    [text |-> Normal[text], version |-> 1, object |-> pg.created, markers |-> None]

CreateModel(pg, p, text) ==
    [pg EXCEPT !.models[p] = NewModel(pg, text), !.created = @ + 1]

Missing(pg) == {p \in Present(pg.files) : pg.models[p] = None}

\* A model's content replaced: its text changes and its version grows.
Pushed(model, text) == [model EXCEPT !.text = Normal[text], !.version = @ + 1]

\* The messages that take the server from the files before to the present ones:
\* those that are gone are closed, then the new ones opened and the changed ones
\* sent in full.
Notifications(before, files, order) ==
    LET gone == Present(before) \ Present(files)
        told == {p \in Present(files) : files[p] # before[p]}
        Kind(p) == IF files[p] = None THEN "close" ELSE IF before[p] = None THEN "open" ELSE "change"
        paths == order[gone] \o order[told]
    IN  [i \in DOMAIN paths |-> [kind |-> Kind(paths[i]), path |-> paths[i], text |-> files[paths[i]]]]

\* The listener of startWorkspaceSync.
WorkspaceSync(order) == [pg \in Pages |->
    [pg EXCEPT !.outgoing = @ \o Notifications(pg.previous, pg.files, order),
               !.previous = pg.files]]

\* sync() while modelOriginatedStoreUpdateDepth is positive: missing models
\* are made, surplus ones disposed, and no text is pushed.
NestedSync == [pg \in Pages |->
    [pg EXCEPT !.models = [p \in Paths |->
                   CASE pg.files[p] = None -> None
                     [] p \in Missing(pg) -> NewModel(pg, pg.files[p])
                     [] OTHER -> pg.models[p]],
               !.created = IF Missing(pg) = {} THEN @ ELSE @ + 1]]

\* A model is given a text.  Its content event runs setStoreContentFromModel;
\* setContent ignores a file that is gone and a text that is not new, and
\* otherwise the listeners of the store run inside it.
ModelChanged(pg, p, text, order) ==
    LET edited == [pg EXCEPT !.models[p] = Pushed(@, text)]
    IN  IF pg.files[p] \in {None, Normal[text]} THEN edited
        ELSE WorkspaceSync(order)[NestedSync[[edited EXCEPT !.files[p] = Normal[text]]]]

\* Mutant: only missing models are made.
EnsureMissingModel(pg, p, text, order) ==
    IF pg.models[p] = None THEN CreateModel(pg, p, text) ELSE pg

\* ensureModel: make the model, or push the store's text into it.
EnsureModel(pg, p, text, order) ==
    CASE pg.models[p] = None -> CreateModel(pg, p, text)
      [] pg.models[p] # None /\ pg.models[p].text # text -> ModelChanged(pg, p, text, order)
      [] OTHER -> pg

\* The listener of startModelHost.  It goes through the files it was called
\* with, whatever the nested calls do to the store meanwhile.
HostSync(pg, order) ==
    LET keys == order[Present(pg.files)]
        Ensure(p) == [q \in Pages |-> EnsureModel(q, p, pg.files[p], order)]
        ensured[i \in 0 .. Len(keys)] ==
            IF i = 0 THEN pg ELSE Ensure(keys[i])[ensured[i - 1]]
        done == ensured[Len(keys)]
    IN  [done EXCEPT !.models = [p \in Paths |->
            IF pg.files[p] = None THEN None ELSE done.models[p]]]

\* A change of the store and its listeners.  zustand (external) hands each
\* listener the state as it then is, so workspaceSync sees what nested calls
\* have made of it.
StoreChanged(pg, order) ==
    IF host THEN WorkspaceSync(order)[HostSync(pg, order)] ELSE pg

-----------------------------------------------------------------------------
Fresh(files) == [files |-> files, models |-> [p \in Paths |-> None],
                 previous |-> [p \in Paths |-> None], outgoing |-> << >>, created |-> 0]

\* The editor is mounted: attachLanguageClient has started a worker and sent
\* the request to initialize.
Init ==
    /\ \E files \in Examples : page = Fresh(files)
    /\ active \in Present(page.files)
    /\ host = FALSE
    /\ client = "booting"
    /\ failed = FALSE
    /\ pending = {[id |-> 1, kind |-> "initialize", versions |-> None]}
    /\ nextId = 2
    /\ toWorker = <<[kind |-> "initialize", id |-> 1]>>
    /\ fromWorker = << >>
    /\ worker = [state |-> "loading", docs |-> [p \in Paths |-> None]]
    /\ gestures = 0

\* The page after a turn; notify() sends nothing once the worker has failed.
EndTurn(pg) ==
    /\ page' = [pg EXCEPT !.outgoing = << >>]
    /\ toWorker' = IF failed THEN toWorker ELSE toWorker \o pg.outgoing

-----------------------------------------------------------------------------
(* The user. *)

Gesture ==
    /\ gestures < MaxGestures
    /\ gestures' = gestures + 1
    /\ UNCHANGED <<host, client, failed, fromWorker, worker>>

StoreSet(files) ==
    \E order \in Orders : EndTurn(StoreChanged([page EXCEPT !.files = files], order))

\* The user types in the editor.  Without the host, the editor's onChange
\* takes the text to the store; with it, onChange finds it there already.
Type(text) ==
    /\ Gesture
    /\ page.models[active] # None /\ page.models[active].text # text
    /\ \E order \in Orders :
           EndTurn(IF host THEN ModelChanged(page, active, text, order)
                   ELSE [page EXCEPT !.files[active] = text, !.models[active] = Pushed(@, text)])
    /\ UNCHANGED <<active, pending, nextId>>

SetActive(p) ==
    /\ Gesture
    /\ page.files[p] # None
    /\ active' = p
    /\ StoreSet(page.files)
    /\ UNCHANGED <<pending, nextId>>

CreateFile(p) ==
    /\ Gesture
    /\ page.files[p] = None
    /\ active' = p
    /\ StoreSet([page.files EXCEPT ![p] = NewText])
    /\ UNCHANGED <<pending, nextId>>

RenameFile(from, to) ==
    /\ Gesture
    /\ page.files[from] # None /\ page.files[to] = None
    /\ active' = IF active = from THEN to ELSE active
    /\ StoreSet([page.files EXCEPT ![from] = None, ![to] = page.files[from]])
    /\ UNCHANGED <<pending, nextId>>

DeleteFile(p) ==
    /\ Gesture
    /\ page.files[p] # None
    /\ LET left == Present(page.files) \ {p}
       IN  /\ left # {}
           /\ active' \in IF active = p THEN left ELSE {active}
    /\ StoreSet([page.files EXCEPT ![p] = None])
    /\ UNCHANGED <<pending, nextId>>

LoadExample(files) ==
    /\ Gesture
    /\ active' \in Present(files)
    /\ StoreSet(files)
    /\ UNCHANGED <<pending, nextId>>

\* provideRenameEdits notes the version of every model and sends the request.
RequestRename ==
    /\ Gesture
    /\ host /\ ~failed
    /\ pending' = pending \cup {[id |-> nextId, kind |-> "rename", versions |-> [p \in Paths |->
           IF page.models[p] = None THEN None
           ELSE [version |-> page.models[p].version, object |-> page.models[p].object]]]}
    /\ nextId' = nextId + 1
    /\ toWorker' = Append(toWorker, [kind |-> "rename", id |-> nextId])
    /\ UNCHANGED <<page, active>>

\* @monaco-editor/react (external): the editor takes the model of its path,
\* or makes it, and gives it the store's text if its own differs.
EditorEffect ==
    LET text == page.files[active] IN
    /\ page.models[active] # None =>
           page.models[active].text # IF host THEN text ELSE Normal[text]
    /\ \E order \in Orders :
           EndTurn(CASE page.models[active] = None -> CreateModel(page, active, text)
                     [] page.models[active] # None /\ host -> ModelChanged(page, active, text, order)
                     [] OTHER -> [page EXCEPT !.models[active] = Pushed(@, text)])
    /\ UNCHANGED <<active, host, client, failed, pending, nextId, fromWorker, worker, gestures>>

-----------------------------------------------------------------------------
(* The worker. *)

WorkerOnly == UNCHANGED <<page, active, host, client, failed, pending, nextId, gestures>>

Boot ==
    /\ worker.state = "loading"
    /\ worker' = [worker EXCEPT !.state = "ready"]
    /\ UNCHANGED <<toWorker, fromWorker>>
    /\ WorkerOnly

BootFails ==
    /\ worker.state = "loading"
    /\ worker' = [worker EXCEPT !.state = "dead"]
    /\ toWorker' = << >>
    /\ fromWorker' = Append(fromWorker, [kind |-> "failure"])
    /\ WorkerOnly

\* Diagnostics of a closed document are emptied, those of every open one are
\* sent; they may depend on all the documents.
PublishOpenDocumentDiagnostics(docs, m) ==
    LET open == UriOrder[Present(docs)]
        all == [i \in DOMAIN open |-> [kind |-> "publish", path |-> open[i], of |-> docs]]
    IN  IF m.kind = "close" THEN <<[kind |-> "publish", path |-> m.path, of |-> None]>> \o all
        ELSE all

\* handle_did_open, handle_did_change and handle_did_close; a request changes
\* no document.
Handled(docs, m) == IF m \in Documents THEN [docs EXCEPT ![m.path] = m.text] ELSE docs

\* The server handles a notification.
HandleDocument ==
    /\ worker.state = "ready" /\ toWorker # << >>
    /\ LET m == Head(toWorker)
           docs == Handled(worker.docs, m)
       IN  /\ m \in Documents
           /\ worker' = [worker EXCEPT !.docs = docs]
           /\ fromWorker' = fromWorker \o PublishOpenDocumentDiagnostics(docs, m)
    /\ toWorker' = Tail(toWorker)
    /\ WorkerOnly

\* The server answers a request; a rename may edit any of the documents.
HandleRequest(targets) ==
    /\ worker.state = "ready" /\ toWorker # << >>
    /\ LET m == Head(toWorker)
       IN  /\ m \in Requests
           /\ IF m.kind = "initialize" THEN targets = {} ELSE targets \subseteq Present(worker.docs)
           /\ fromWorker' = Append(fromWorker, [kind |-> "response", id |-> m.id,
                                                targets |-> targets, basis |-> worker.docs])
    /\ toWorker' = Tail(toWorker)
    /\ UNCHANGED worker
    /\ WorkerOnly

\* The server panics.  The worker reports an error, and so does every later
\* message, which changes nothing more on the page.
Crash ==
    /\ worker.state = "ready" /\ toWorker # << >>
    /\ worker' = [worker EXCEPT !.state = "dead"]
    /\ toWorker' = << >>
    /\ fromWorker' = Append(fromWorker, [kind |-> "failure"])
    /\ WorkerOnly

-----------------------------------------------------------------------------
(* The client. *)

\* The initial sync of startModelHost runs before there are subscriptions.
StartModelHost(pg) ==
    LET Synced(p) ==
            CASE pg.files[p] = None -> None
              [] p \in Missing(pg) -> NewModel(pg, pg.files[p])
              [] OTHER -> IF pg.models[p].text = pg.files[p] THEN pg.models[p]
                          ELSE Pushed(pg.models[p], pg.files[p])
    IN  [pg EXCEPT !.models = [p \in Paths |-> Synced(p)],
                   !.created = IF Missing(pg) = {} THEN @ ELSE @ + 1]

\* openCurrentWorkspace sends every file; startWorkspaceSync remembers them.
Attach(m) ==
    /\ client' = "attached"
    /\ host' = TRUE
    /\ \E order \in Orders : EndTurn(WorkspaceSync(order)[StartModelHost(page)])
    /\ fromWorker' = Tail(fromWorker)
    /\ UNCHANGED <<active, failed, worker>>

\* detach() after initialize failed: the worker is terminated.
Detach ==
    /\ client' = "detached"
    /\ pending' = {}
    /\ toWorker' = << >>
    /\ fromWorker' = << >>
    /\ worker' = [worker EXCEPT !.state = "dead"]
    /\ UNCHANGED <<page, active, host, nextId, gestures>>

IsInitialize(r) == r.kind = "initialize"

\* Mutant: any answer is applied to whatever the models hold now.
TargetsExist(r, m) ==
    m.targets # {} /\ \A p \in m.targets : page.models[p] # None

\* workspaceEditTargetsAreCurrent: every target has a model of the version it
\* had when the rename was requested.
WorkspaceEditTargetsAreCurrent(r, m) ==
    /\ m.targets # {}
    /\ \A p \in m.targets :
           /\ page.models[p] # None /\ r.versions[p] # None
           /\ r.versions[p].version = page.models[p].version

\* The targets are changed one after the other, each with its content event.
Edited(pg, targets, texts, order) ==
    LET keys == order[targets]
        Edit(p) == [q \in Pages |-> ModelChanged(q, p, texts[p], order)]
        edited[i \in 0 .. Len(keys)] ==
            IF i = 0 THEN pg ELSE Edit(keys[i])[edited[i - 1]]
    IN  edited[Len(keys)]

\* applyWorkspaceEdit edits all the targets or none.
ApplyWorkspaceEdit(r, m, texts, order) ==
    IF WorkspaceEditTargetsAreCurrent(r, m)
    THEN EndTurn(Edited(page, m.targets, texts, order))
    ELSE UNCHANGED <<page, toWorker>>

\* A response to a request that still waits.
HandleResponse ==
    /\ fromWorker # << >>
    /\ LET m == Head(fromWorker) IN
       /\ m.kind = "response"
       /\ \E r \in pending :
             /\ r.id = m.id
             /\ pending' = pending \ {r}
             /\ \/ IsInitialize(r) /\ Attach(m)
                \/ /\ ~IsInitialize(r)
                   /\ \E order \in Orders, texts \in [m.targets -> NormalTexts] :
                          ApplyWorkspaceEdit(r, m, texts, order)
                   /\ fromWorker' = Tail(fromWorker)
                   /\ UNCHANGED <<active, host, client, failed, worker>>
    /\ UNCHANGED <<nextId, gestures>>

\* A response to a request that has timed out.
IgnoreResponse ==
    /\ fromWorker # << >>
    /\ Head(fromWorker).kind = "response"
    /\ \A r \in pending : r.id # Head(fromWorker).id
    /\ fromWorker' = Tail(fromWorker)
    /\ UNCHANGED <<page, active, host, client, failed, pending, nextId, toWorker, worker, gestures>>

\* Diagnostics become markers of the model, if there is one.
HandlePublish ==
    /\ fromWorker # << >>
    /\ LET m == Head(fromWorker) IN
       /\ m.kind = "publish"
       /\ page' = IF page.models[m.path] = None THEN page
                  ELSE [page EXCEPT !.models[m.path].markers = m.of]
    /\ fromWorker' = Tail(fromWorker)
    /\ UNCHANGED <<active, host, client, failed, pending, nextId, toWorker, worker, gestures>>

\* failWorker rejects whatever is pending.  If that is the request to
\* initialize, the client detaches.
FailWorker ==
    \/ (\E r \in pending : IsInitialize(r)) /\ Detach
    \/ /\ \A r \in pending : ~IsInitialize(r)
       /\ pending' = {}
       /\ fromWorker' = Tail(fromWorker)
       /\ UNCHANGED <<page, active, host, client, nextId, toWorker, worker, gestures>>

\* A failed start or a crash is reported.
HandleFailure ==
    /\ fromWorker # << >>
    /\ Head(fromWorker).kind = "failure"
    /\ failed' = TRUE
    /\ FailWorker

\* Mutant: the request is forgotten and its promise never rejected.
TimeoutSilently(r) ==
    /\ pending' = pending \ {r}
    /\ UNCHANGED <<page, active, host, client, failed, nextId, toWorker, fromWorker, worker, gestures>>

\* The timer of a request fires before its answer.
Timeout(r) ==
    /\ UNCHANGED failed
    /\ \/ IsInitialize(r) /\ Detach
       \/ /\ ~IsInitialize(r)
          /\ pending' = pending \ {r}
          /\ UNCHANGED <<page, active, host, client, nextId, toWorker, fromWorker, worker, gestures>>

-----------------------------------------------------------------------------
User ==
    \/ \E text \in NormalTexts : Type(text)
    \/ \E p \in Paths : SetActive(p) \/ CreateFile(p) \/ DeleteFile(p)
    \/ \E from, to \in Paths : RenameFile(from, to)
    \/ \E files \in Examples : LoadExample(files)
    \/ RequestRename

Handle == HandleDocument \/ \E targets \in SUBSET Paths : HandleRequest(targets)

HandleMessage == HandleResponse \/ IgnoreResponse \/ HandlePublish \/ HandleFailure

Next ==
    \/ User
    \/ EditorEffect
    \/ Boot \/ BootFails \/ Handle \/ Crash
    \/ HandleMessage
    \/ \E r \in pending : Timeout(r)

Spec == Init /\ [][Next]_vars

\* The worker serves its queue, the browser delivers messages, and a timer
\* that is not cleared fires.  The worker's code may load for ever.
FairSpec ==
    /\ Spec
    /\ WF_vars(Handle) /\ WF_vars(HandleMessage)
    /\ WF_vars(\E r \in pending : Timeout(r))

-----------------------------------------------------------------------------
(* Properties. *)

\* Everything has the shape the code gives it: a model never holds a text
\* Monaco would change, the editor shows a file that exists, and once the
\* worker has failed no request waits for it.
TypeOK ==
    /\ page \in Pages /\ page.files \in Workspaces /\ page.outgoing = << >>
    /\ active \in Present(page.files)
    /\ client \in {"booting", "attached", "detached"}
    /\ host \in BOOLEAN /\ (host => client = "attached")
    /\ failed \in BOOLEAN /\ (failed => pending = {})
    /\ pending \subseteq Waiting /\ nextId \in Nat /\ \A r \in pending : r.id < nextId
    /\ toWorker \in Seq(Documents \cup Requests)
    /\ fromWorker \in Seq(Publishes \cup Responses \cup Failures)
    /\ worker \in [state : {"loading", "ready", "dead"}, docs : Trees]
    /\ gestures \in Nat

\* modelHost.ts: "Models are the workspace store's mirror".  While the host
\* runs, exactly the files of the store have a model, with the store's text
\* up to line endings, after every turn and every nested update.
ModelsMirrorStore ==
    host => \A p \in Paths :
        IF page.files[p] = None THEN page.models[p] = None
        ELSE page.models[p] # None /\ page.models[p].text = Normal[page.files[p]]

\* The documents of the server once it has handled the messages on their way.
After(docs, messages) ==
    LET after[i \in 0 .. Len(messages)] ==
            IF i = 0 THEN docs ELSE Handled(after[i - 1], messages[i])
    IN  after

ServerWillHave == After(worker.docs, toWorker)[Len(toWorker)]

\* An unbroken worker is told everything, in order: what it will have is what
\* the store has, even when a listener changes the store while the listeners
\* of the change before are still running; a file is opened when the server
\* does not have it, and changed or closed when it does.
ServerMirrorsStore ==
    host /\ worker.state = "ready" /\ ~failed =>
        /\ ServerWillHave = page.files
        /\ toWorker # << >> /\ Head(toWorker) \in Documents =>
              (worker.docs[Head(toWorker).path] = None <=> Head(toWorker).kind = "open")

Quiet == host /\ ~failed /\ toWorker = << >> /\ fromWorker = << >>

\* Once all messages are handled, the markers of every model are those of the
\* present files, whichever files were deleted, created again or renamed and
\* however late their diagnostics came.
MarkersAreCurrent ==
    Quiet => \A p \in Paths : page.models[p] # None => page.models[p].markers = page.files

\* Store, models, server and markers say the same of every file.
MirrorsAgree == TypeOK /\ ModelsMirrorStore /\ ServerMirrorsStore /\ MarkersAreCurrent

\* The pairs of a request and its answer that edit models when the page
\* handles the next message.
Applying ==
    IF fromWorker = << >> \/ Head(fromWorker).kind # "response" THEN {}
    ELSE {r \in pending : /\ r.id = Head(fromWorker).id /\ ~IsInitialize(r)
                          /\ WorkspaceEditTargetsAreCurrent(r, Head(fromWorker))}

Fits(p) == Normal[Head(fromWorker).basis[p]] = page.models[p].text

\* An answer to a rename edits a model that was there when it was requested
\* only if the model still has the text the edits were computed for, whatever
\* was typed, loaded or renamed meanwhile and whatever is still on its way to
\* the server.
RenameKeepsEdits ==
    \A r \in Applying : \A p \in Head(fromWorker).targets :
        r.versions[p] # None /\ r.versions[p].object = page.models[p].object => Fits(p)

\* Whether the worker loads, fails, crashes or hangs, the client ends attached
\* or detached, every request ends, and messages do not go on for ever.
ClientSettles ==
    <>[](client # "booting" /\ pending = {} /\ fromWorker = << >>)

-----------------------------------------------------------------------------
\* The instance that is checked: two paths and three texts, one of which has
\* mixed line endings. The examples have a file with such a text, alone or with
\* another.
MCTexts == {"one", "two", "mixed"}
MCNormal == [t \in MCTexts |-> IF t = "mixed" THEN "one" ELSE t]
MCFiles(a, b) == [p \in {"a", "b"} |-> IF p = "a" THEN a ELSE b]
MCInOrder(paths) == [S \in SUBSET {"a", "b"} |-> SelectSeq(paths, LAMBDA p : p \in S)]
MCUriOrder == MCInOrder(<<"a", "b">>)
MCOrders == {MCUriOrder, MCInOrder(<<"b", "a">>)}
MCExamples == {MCFiles("two", "mixed"), MCFiles("mixed", None)}
=============================================================================
