------------------------------ MODULE LspBackend ------------------------------
(***************************************************************************)
(* The native language server as a concurrent program:                     *)
(* crates/lsp/src/native.rs over crates/lsp/src/diagnostics.rs.            *)
(*                                                                         *)
(* The runtime (tower-lsp, external) takes the client's messages from its  *)
(* input in order and runs up to Concurrency handlers at once; a handler   *)
(* may be suspended at every await.  All handlers of notifications hold    *)
(* the mutex document_updates from their first await to their last, so the *)
(* world is updated and diagnostics are sent by one of them at a time;     *)
(* tokio's mutex wakes its waiters in the order they came.  The mutex of   *)
(* the world is never held across an await, so what is done under it is    *)
(* one step.  Diagnostics go to the client through a bounded channel.      *)
(*                                                                         *)
(* The world is abstracted to what the handlers' concurrency can disturb:  *)
(* the text of every document, which ones are open, whether a root is      *)
(* configured, and the number of updates applied so far.  The diagnostics  *)
(* of a document may depend, through imports, on the text of every other,  *)
(* so they stand for all the texts they were computed from.                *)
(***************************************************************************)
EXTENDS Naturals, Sequences, FiniteSets, SequencesExt

CONSTANTS
    Docs,          \* the documents
    Texts,         \* their texts
    Concurrency,   \* handlers the runtime runs at once
    OutboxSize,    \* bound of the channel to the client
    MaxMessages,   \* bound: notifications the client sends
    None

ASSUME BackendBounds ==
    /\ Concurrency \in Nat \ {0}
    /\ OutboxSize \in Nat \ {0}
    /\ MaxMessages \in Nat

ASSUME DocsAssumption == IsFiniteSet(Docs)

\* None is no text and no number of a notification.
ASSUME NoneAssumption == None \notin Texts \cup Nat

VARIABLES
    buffers,      \* the client's open documents and their texts
    sent,         \* notifications sent by the client
    inbox,        \* sent and not yet taken by the runtime
    tasks,        \* running handlers, by the number of their notification
    waiting,      \* the handlers that wait for document_updates, in order
    holder,       \* the handler that holds document_updates, or None
    world,        \* the shared WorldState
    outbox,       \* publications on their way to the client
    shown         \* the last publication the client received for a document

vars == <<buffers, sent, inbox, tasks, waiting, holder, world, outbox, shown>>

Kinds == {"open", "change", "close", "watch", "add_folder", "remove_folders"}
Ids == 1 .. MaxMessages
Notifications ==
    [id : Ids, kind : Kinds, doc : Docs, text : Texts \cup {None}]

\* The diagnostics of no text at all: an empty list.
Snapshots == [Docs -> Texts \cup {None}]
Publications ==
    [doc : Docs, of : Snapshots \cup {None}, generation : 0 .. MaxMessages]

Stages == {"inspect", "apply", "publish"}
Tasks == [message : Notifications, stage : Stages, infer : BOOLEAN,
          scan : Texts \cup {None}, batch : Seq(Publications)]

TypeOK ==
    /\ buffers \in Snapshots
    /\ sent \in 0 .. MaxMessages
    /\ inbox \in Seq(Notifications)
    /\ DOMAIN tasks \subseteq Ids /\ \A id \in DOMAIN tasks : tasks[id] \in Tasks
    /\ waiting \in Seq(Ids)
    /\ holder \in Ids \cup {None}
    /\ world \in [texts : Snapshots, open : SUBSET Docs, rooted : BOOLEAN,
                  generation : 0 .. MaxMessages]
    /\ outbox \in Seq(Publications) /\ Len(outbox) <= OutboxSize
    /\ shown \in [Docs -> [of : Snapshots \cup {None}, generation : 0 .. MaxMessages]]

Init ==
    /\ buffers = [d \in Docs |-> None]
    /\ sent = 0
    /\ inbox = << >>
    /\ tasks = << >>
    /\ waiting = << >>
    /\ holder = None
    /\ world \in [texts : {[d \in Docs |-> None]}, open : {{}}, rooted : BOOLEAN,
                  generation : {0}]
    /\ outbox = << >>
    /\ shown = [d \in Docs |-> [of |-> None, generation |-> 0]]

-----------------------------------------------------------------------------
(* The client: it opens, edits and closes documents in the order the        *)
(* protocol asks for, and forwards file and folder events.  A file event     *)
(* carries the text read from disk when it is handled, None for a deletion.  *)

Send(kind, doc, text) ==
    /\ sent < MaxMessages
    /\ sent' = sent + 1
    /\ inbox' = Append(inbox, [id |-> sent', kind |-> kind, doc |-> doc, text |-> text])
    /\ UNCHANGED <<tasks, waiting, holder, world, outbox, shown>>

ClientOpens(d, text) ==
    /\ buffers[d] = None
    /\ buffers' = [buffers EXCEPT ![d] = text]
    /\ Send("open", d, text)

ClientEdits(d, text) ==
    /\ buffers[d] # None
    /\ buffers' = [buffers EXCEPT ![d] = text]
    /\ Send("change", d, text)

ClientCloses(d, disk) ==
    /\ buffers[d] # None
    /\ buffers' = [buffers EXCEPT ![d] = None]
    /\ Send("close", d, disk)

FileChanges(d, disk) ==
    /\ UNCHANGED buffers
    /\ Send("watch", d, disk)

FolderAdded(d, disk) ==
    /\ UNCHANGED buffers
    /\ Send("add_folder", d, disk)

FoldersRemoved(d) ==
    /\ UNCHANGED buffers
    /\ Send("remove_folders", d, None)

\* The client reads the next publication.
Receive ==
    /\ outbox # << >>
    /\ LET p == Head(outbox) IN
           shown' = [shown EXCEPT ![p.doc] = [of |-> p.of, generation |-> p.generation]]
    /\ outbox' = Tail(outbox)
    /\ UNCHANGED <<buffers, sent, inbox, tasks, waiting, holder, world>>

-----------------------------------------------------------------------------
(* The runtime. *)

\* A message is taken and its handler polled for the first time: it asks for
\* document_updates.
Dispatch ==
    /\ inbox # << >>
    /\ Cardinality(DOMAIN tasks) < Concurrency
    /\ LET m == Head(inbox)
           task == [message |-> m, infer |-> FALSE, scan |-> None, batch |-> << >>,
                    stage |-> IF m.kind = "open" THEN "inspect" ELSE "apply"]
       IN  /\ tasks' = [id \in DOMAIN tasks \cup {m.id} |->
                           IF id = m.id THEN task ELSE tasks[id]]
           /\ waiting' = Append(waiting, m.id)
    /\ inbox' = Tail(inbox)
    /\ UNCHANGED <<buffers, sent, holder, world, outbox, shown>>

\* tokio's mutex is fair.
Acquire ==
    /\ holder = None /\ waiting # << >>
    /\ holder' = Head(waiting)
    /\ waiting' = Tail(waiting)
    /\ UNCHANGED <<buffers, sent, inbox, tasks, world, outbox, shown>>

-----------------------------------------------------------------------------
(* The handlers. *)

\* Mutant: handlers do not take document_updates.
MayRunUnlocked(id, stage) == id \in DOMAIN tasks /\ tasks[id].stage = stage

\* The handler is at the stage and holds document_updates.
MayRun(id, stage) == id \in DOMAIN tasks /\ holder = id /\ tasks[id].stage = stage

\* did_open asks the world whether a root must be inferred, lets it go, and
\* then scans the folder, where it may find the other documents.
Inspect(id, disk) ==
    /\ MayRun(id, "inspect")
    /\ LET infer == ~world.rooted /\ world.texts[tasks[id].message.doc] = None
       IN  /\ ~infer => disk = None
           /\ tasks' = [tasks EXCEPT ![id].stage = "apply", ![id].infer = infer,
                                     ![id].scan = disk]
    /\ UNCHANGED <<buffers, sent, inbox, waiting, holder, world, outbox, shown>>

\* The world with the closed ones of the given documents read from disk, as
\* far as they were found.
Loaded(w, docs, disk) ==
    [w EXCEPT !.texts = [e \in Docs |->
        IF e \in docs \ w.open /\ disk # None THEN disk ELSE @[e]]]

\* The world after each notification.  A change of a document that is not
\* open and a file event of one that is are ignored; a closed document keeps
\* its text on disk as long as it is in a workspace folder; the removal of
\* the folders discards the closed documents.
Updated(task) ==
    LET d == task.message.doc
        text == task.message.text
    IN  CASE task.message.kind = "open" ->
                [Loaded(world, Docs, task.scan) EXCEPT
                    !.texts[d] = text, !.open = @ \cup {d}, !.rooted = @ \/ task.infer]
          [] task.message.kind = "change" ->
                [world EXCEPT !.texts[d] = IF d \in world.open THEN text ELSE @]
          [] task.message.kind = "close" ->
                [world EXCEPT !.texts[d] = IF world.rooted THEN text ELSE None,
                              !.open = @ \ {d}]
          [] task.message.kind = "watch" ->
                [world EXCEPT !.texts[d] = IF d \in world.open THEN @ ELSE text,
                              !.rooted = @ \/ (d \notin world.open /\ text # None)]
          [] task.message.kind = "add_folder" ->
                [Loaded(world, {d}, text) EXCEPT !.rooted = TRUE]
          [] task.message.kind = "remove_folders" ->
                [world EXCEPT !.texts = [e \in Docs |-> IF e \in world.open THEN @[e] ELSE None],
                              !.rooted = FALSE]

\* Mutant: only the document of the notification is published.
PublishOnlyChanged(w, task) ==
    IF task.message.doc \in w.open
    THEN <<[doc |-> task.message.doc, of |-> w.texts, generation |-> w.generation]>>
    ELSE << >>

\* compute_open_document_diagnostics: one list per open document.
OpenDocumentDiagnostics(w, task) ==
    SetToSeq({[doc |-> d, of |-> w.texts, generation |-> w.generation] : d \in w.open})

\* The empty lists for what the update closed or discarded.
Cleared(w, task) ==
    LET gone == CASE task.message.kind = "close" -> {task.message.doc}
                  [] task.message.kind = "remove_folders" ->
                        {d \in Docs : world.texts[d] # None /\ w.texts[d] = None}
                  [] OTHER -> {}
    IN  SetToSeq({[doc |-> d, of |-> None, generation |-> w.generation] : d \in gone})

\* What a handler sends; an ignored change sends nothing (a log message).
Batch(w, task) ==
    IF task.message.kind = "change" /\ task.message.doc \notin w.open THEN << >>
    ELSE Cleared(w, task) \o OpenDocumentDiagnostics(w, task)

\* Mutant: document_updates is released before the diagnostics are sent.
ReleasedBeforePublishing == None

\* document_updates is held until the handler returns.
HolderWhilePublishing == holder

\* The world is locked, updated, and the diagnostics computed.
Apply(id) ==
    LET w == [Updated(tasks[id]) EXCEPT !.generation = @ + 1]
    IN  /\ MayRun(id, "apply")
        /\ world' = w
        /\ tasks' = [tasks EXCEPT ![id].stage = "publish",
                                  ![id].batch = Batch(w, tasks[id])]
        /\ holder' = HolderWhilePublishing
        /\ UNCHANGED <<buffers, sent, inbox, waiting, outbox, shown>>

\* client.publish_diagnostics waits for room in the channel.
Publish(id) ==
    /\ id \in DOMAIN tasks /\ tasks[id].stage = "publish"
    /\ tasks[id].batch # << >> /\ Len(outbox) < OutboxSize
    /\ outbox' = Append(outbox, Head(tasks[id].batch))
    /\ tasks' = [tasks EXCEPT ![id].batch = Tail(@)]
    /\ UNCHANGED <<buffers, sent, inbox, waiting, holder, world, shown>>

\* Mutant: the guard outlives the handler.
HolderKept(id) == holder

\* The guard is dropped when the handler returns.
HolderAfter(id) == IF holder = id THEN None ELSE holder

Finish(id) ==
    /\ id \in DOMAIN tasks /\ tasks[id].stage = "publish" /\ tasks[id].batch = << >>
    /\ tasks' = [other \in DOMAIN tasks \ {id} |-> tasks[other]]
    /\ holder' = HolderAfter(id)
    /\ UNCHANGED <<buffers, sent, inbox, waiting, world, outbox, shown>>

-----------------------------------------------------------------------------
Client ==
    \/ \E d \in Docs, text \in Texts : ClientOpens(d, text) \/ ClientEdits(d, text)
    \/ \E d \in Docs, disk \in Texts \cup {None} :
          ClientCloses(d, disk) \/ FileChanges(d, disk) \/ FolderAdded(d, disk)
    \/ \E d \in Docs : FoldersRemoved(d)

Handler(id) ==
    \/ \E disk \in Texts \cup {None} : Inspect(id, disk)
    \/ Apply(id) \/ Publish(id) \/ Finish(id)

Next ==
    \/ Client
    \/ Receive
    \/ Dispatch
    \/ Acquire
    \/ \E id \in Ids : Handler(id)

Spec == Init /\ [][Next]_vars

\* The runtime polls every handler that can go on and the client reads its
\* input; nothing makes the client send.
Fairness ==
    /\ WF_vars(Receive) /\ WF_vars(Dispatch) /\ WF_vars(Acquire)
    /\ \A id \in Ids : WF_vars(Handler(id))

FairSpec == Spec /\ Fairness

-----------------------------------------------------------------------------
(* Properties. *)

Quiet == inbox = << >> /\ DOMAIN tasks = {} /\ outbox = << >>

\* Whatever was sent while handlers were suspended, once all is handled the
\* server has the client's buffers: no edit is lost, applied twice or applied
\* out of order.
ServerHasBuffers ==
    Quiet => /\ world.open = {d \in Docs : buffers[d] # None}
             /\ \A d \in world.open : world.texts[d] = buffers[d]

\* Once all is handled, every open document shows the diagnostics of the
\* texts the server has now, those of the other documents included, and a
\* closed one shows none.
ShownIsCurrent ==
    Quiet => \A d \in Docs :
                shown[d].of = IF d \in world.open THEN world.texts ELSE None

\* The client never goes back from the diagnostics of a later update to those
\* of an earlier one.
DiagnosticsNeverGoBack ==
    [][\A d \in Docs : shown[d].generation <= shown'[d].generation]_vars

\* did_open decides whether to infer a root, releases the world to scan a
\* folder, and acts on the decision afterwards: it is still right then.
InferenceIsFresh ==
    \A id \in DOMAIN tasks :
        tasks[id].message.kind = "open" /\ tasks[id].stage = "apply" =>
            (tasks[id].infer <=>
                ~world.rooted /\ world.texts[tasks[id].message.doc] = None)

\* Handlers keep their types and act on what they have read under the lock.
HandlersAreConsistent == TypeOK /\ InferenceIsFresh

\* Every notification is handled in the end and its diagnostics arrive,
\* although handlers wait for the mutex and for room in the channel: whenever
\* the client falls silent the server becomes and stays quiet.
ServerSettles == <>[]Quiet
=============================================================================
