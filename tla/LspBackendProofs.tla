--------------------------- MODULE LspBackendProofs ---------------------------
(***************************************************************************)
(* What LspBackend guarantees for any number of documents, texts,          *)
(* notifications and handlers in flight.                                   *)
(*                                                                         *)
(* The mutex makes one queue of all notifications: numbers up to           *)
(* world.generation have been applied, then come the holder, the waiting   *)
(* handlers and the inbox (QueueInv).  What the client's buffers say is    *)
(* the effect of the last edit in the rest of that queue (BufferInv), and  *)
(* what it is shown the effect of the last publication on its way          *)
(* (ShownInv).                                                             *)
(***************************************************************************)
EXTENDS LspBackend, FunctionTheorems, FiniteSetTheorems, TLAPS

-----------------------------------------------------------------------------
(* The inductive invariant. *)

\* Notifications taken from the inbox, and those that got document_updates.
Taken == sent - Len(inbox)
Granted == Taken - Len(waiting)

QueueInv ==
    /\ Taken \in Nat /\ Granted \in Nat
    /\ \A i \in DOMAIN inbox : inbox[i].id = Taken + i
    /\ \A i \in DOMAIN waiting : waiting[i] = Granted + i
    /\ holder # None => holder = Granted
    /\ DOMAIN tasks = (IF holder = None THEN Granted + 1 ELSE Granted) .. Taken

\* Only the holder has got past its first stage.
TaskInv ==
    /\ \A id \in DOMAIN tasks : tasks[id].message.id = id
    /\ \A id \in DOMAIN tasks :
          id # holder => tasks[id].stage = IF tasks[id].message.kind = "open"
                                           THEN "inspect" ELSE "apply"
    /\ world.generation =
          IF holder # None /\ tasks[holder].stage # "publish" THEN Granted - 1 ELSE Granted

\* The notifications that are not applied yet, by their numbers, and the edits
\* of d among them.
Unapplied == (world.generation + 1) .. sent
Pending == [id \in Unapplied |->
    IF id \in DOMAIN tasks THEN tasks[id].message ELSE inbox[id - Taken]]
Edits(pending, d) ==
    {id \in DOMAIN pending :
        pending[id].doc = d /\ pending[id].kind \in {"open", "change", "close"}}

\* The client's buffer after it sent an edit.
BufferAfter(m) == IF m.kind = "close" THEN None ELSE m.text

\* The edits E lead from what the server has of d to the client's buffer: the
\* first one fits the server, each one the one before it, and the last one
\* leaves the buffer.
Continues(E, pending, d, buffer, open, text) ==
    /\ E = {} => /\ d \in open <=> buffer # None
                 /\ d \in open => text = buffer
    /\ \A id \in E : (\A j \in E : j <= id) => buffer = BufferAfter(pending[id])
    /\ \A id \in E : (\A j \in E : id <= j) => (pending[id].kind = "open" <=> d \notin open)
    /\ \A i, j \in E : i < j /\ (\A k \in E : k <= i \/ j <= k) =>
          (pending[j].kind = "open" <=> pending[i].kind = "close")

BufferInv ==
    /\ \A d \in world.open : world.texts[d] # None
    /\ \A id \in Unapplied : Pending[id].kind \in {"open", "change"} => Pending[id].text # None
    /\ \A d \in Docs :
          Continues(Edits(Pending, d), Pending, d, buffers[d], world.open, world.texts[d])

\* What a document shows when all is received.
Expected(d) == IF d \in world.open THEN world.texts ELSE None

InBatch(d) ==
    \E id \in DOMAIN tasks : /\ tasks[id].stage = "publish"
                             /\ \E i \in DOMAIN tasks[id].batch : tasks[id].batch[i].doc = d

ShownInv ==
    /\ \A id \in DOMAIN tasks : tasks[id].stage = "publish" =>
          \A i \in DOMAIN tasks[id].batch :
              tasks[id].batch[i].of = Expected(tasks[id].batch[i].doc)
    /\ \A d \in Docs : ~InBatch(d) =>
          /\ (\A i \in DOMAIN outbox : outbox[i].doc # d) => shown[d].of = Expected(d)
          /\ \A i \in DOMAIN outbox :
                outbox[i].doc = d /\ (\A j \in DOMAIN outbox : j > i => outbox[j].doc # d) =>
                    outbox[i].of = Expected(d)

\* Publications are on their way in the order of the updates.
OrderInv ==
    /\ \A d \in Docs : shown[d].generation <= world.generation
    /\ \A i \in DOMAIN outbox : outbox[i].generation <= world.generation
    /\ \A i, j \in DOMAIN outbox : i <= j => outbox[i].generation <= outbox[j].generation
    /\ \A d \in Docs : \A i \in DOMAIN outbox : shown[d].generation <= outbox[i].generation
    /\ \A id \in DOMAIN tasks : tasks[id].stage = "publish" =>
          \A i \in DOMAIN tasks[id].batch : tasks[id].batch[i].generation = world.generation

Inv == TypeOK /\ QueueInv /\ TaskInv /\ InferenceIsFresh /\ BufferInv /\ ShownInv /\ OrderInv

-----------------------------------------------------------------------------
(* Sequences and sets. *)

\* SetToSeq lists the elements of a finite set.
LEMMA ListedSet ==
    ASSUME NEW S, IsFiniteSet(S)
    PROVE  /\ SetToSeq(S) \in Seq(S)
           /\ \A i \in DOMAIN SetToSeq(S) : SetToSeq(S)[i] \in S
           /\ \A x \in S : \E i \in DOMAIN SetToSeq(S) : SetToSeq(S)[i] = x
<1> DEFINE n == Cardinality(S)
<1>1. n \in Nat /\ ExistsBijection(1..n, S)
  BY FS_CardinalityType
<1>2. PICK g : g \in Bijection(1..n, S)
  BY <1>1 DEF ExistsBijection
<1>3. g \in [1..n -> S] /\ IsInjective(g)
  BY <1>2 DEF Bijection, Injection
<1>4. SetToSeq(S) \in [1..n -> S] /\ IsInjective(SetToSeq(S))
  BY <1>3 DEF SetToSeq
<1>5. SetToSeq(S) \in Injection(1..n, S)
  BY <1>4 DEF Injection
<1>6. IsFiniteSet(1..n) /\ Cardinality(1..n) = n
  BY <1>1, FS_Interval
<1>7. SetToSeq(S) \in Surjection(1..n, S)
  BY <1>5, <1>6, FS_Injection
<1>8. SetToSeq(S) \in Seq(S)
  BY <1>1, <1>4
<1>9. \A x \in S : \E i \in 1..n : SetToSeq(S)[i] = x
  BY <1>7 DEF Surjection
<1> QED
  BY <1>4, <1>8, <1>9

\* One publication for each document of a finite set.
Lists(S, of, generation) ==
    {[doc |-> d, of |-> of, generation |-> generation] : d \in S}

LEMMA ListedPublications ==
    ASSUME NEW S, IsFiniteSet(S), NEW of, NEW generation
    PROVE  /\ SetToSeq(Lists(S, of, generation)) \in Seq(Lists(S, of, generation))
           /\ \A i \in DOMAIN SetToSeq(Lists(S, of, generation)) : \E d \in S :
                 SetToSeq(Lists(S, of, generation))[i] =
                    [doc |-> d, of |-> of, generation |-> generation]
           /\ \A d \in S : \E i \in DOMAIN SetToSeq(Lists(S, of, generation)) :
                 SetToSeq(Lists(S, of, generation))[i] =
                    [doc |-> d, of |-> of, generation |-> generation]
<1> DEFINE T == Lists(S, of, generation)
           f == [d \in S |-> [doc |-> d, of |-> of, generation |-> generation]]
<1>1. f \in Surjection(S, T)
  BY DEF Surjection, Lists
<1>2. IsFiniteSet(T)
  BY <1>1, FS_Surjection
<1>3. /\ SetToSeq(T) \in Seq(T)
      /\ \A i \in DOMAIN SetToSeq(T) : SetToSeq(T)[i] \in T
      /\ \A x \in T : \E i \in DOMAIN SetToSeq(T) : SetToSeq(T)[i] = x
  BY <1>2, ListedSet
<1>4. /\ \A x \in T : \E d \in S : x = [doc |-> d, of |-> of, generation |-> generation]
      /\ \A d \in S : [doc |-> d, of |-> of, generation |-> generation] \in T
  BY DEF Lists
<1> QED
  BY <1>3, <1>4

\* What the sequence operators do, index by index.
LEMMA AppendAt ==
    ASSUME NEW S, NEW s \in Seq(S), NEW x \in S
    PROVE  /\ Append(s, x) \in Seq(S)
           /\ Len(Append(s, x)) = Len(s) + 1
           /\ DOMAIN Append(s, x) = 1 .. Len(s) + 1
           /\ \A i \in 1 .. Len(s) : Append(s, x)[i] = s[i]
           /\ Append(s, x)[Len(s) + 1] = x
  OBVIOUS

LEMMA TailAt ==
    ASSUME NEW S, NEW s \in Seq(S), s # << >>
    PROVE  /\ Len(s) \in Nat \ {0} /\ DOMAIN s = 1 .. Len(s)
           /\ Head(s) = s[1] /\ Head(s) \in S
           /\ Tail(s) \in Seq(S)
           /\ Len(Tail(s)) = Len(s) - 1
           /\ DOMAIN Tail(s) = 1 .. Len(s) - 1
           /\ \A i \in 1 .. Len(s) - 1 : Tail(s)[i] = s[i + 1]
  OBVIOUS

-----------------------------------------------------------------------------
(* Types and the queue. *)

\* A notification of the client joins the inbox.
LEMMA ClientSends ==
    ASSUME Client
    PROVE  \E kind \in Kinds, d \in Docs, text \in Texts \cup {None} :
              /\ Send(kind, d, text)
              /\ kind \in {"open", "change"} => text \in Texts
              /\ kind = "open" => buffers[d] = None
              /\ kind \in {"change", "close"} => buffers[d] # None
              /\ IF kind \in {"open", "change"} THEN buffers' = [buffers EXCEPT ![d] = text]
                 ELSE IF kind = "close" THEN buffers' = [buffers EXCEPT ![d] = None]
                 ELSE buffers' = buffers
<1>1. CASE \E d \in Docs, text \in Texts : ClientOpens(d, text)
  BY <1>1 DEF ClientOpens, Kinds
<1>2. CASE \E d \in Docs, text \in Texts : ClientEdits(d, text)
  BY <1>2 DEF ClientEdits, Kinds
<1>3. CASE \E d \in Docs, disk \in Texts \cup {None} : ClientCloses(d, disk)
  BY <1>3 DEF ClientCloses, Kinds
<1>4. CASE \E d \in Docs, disk \in Texts \cup {None} : FileChanges(d, disk)
  BY <1>4 DEF FileChanges, Kinds
<1>5. CASE \E d \in Docs, disk \in Texts \cup {None} : FolderAdded(d, disk)
  BY <1>5 DEF FolderAdded, Kinds
<1>6. CASE \E d \in Docs : FoldersRemoved(d)
  BY <1>6 DEF FoldersRemoved, Kinds
<1> QED
  BY <1>1, <1>2, <1>3, <1>4, <1>5, <1>6 DEF Client

Worlds == [texts : Snapshots, open : SUBSET Docs, rooted : BOOLEAN, generation : 0 .. MaxMessages]

LEMMA LoadedType ==
    ASSUME NEW w \in Worlds, NEW docs \in SUBSET Docs, NEW disk \in Texts \cup {None}
    PROVE  /\ Loaded(w, docs, disk) \in Worlds
           /\ Loaded(w, docs, disk).generation = w.generation
           /\ Loaded(w, docs, disk).open = w.open
           /\ \A e \in w.open : Loaded(w, docs, disk).texts[e] = w.texts[e]
  BY DEF Loaded, Worlds, Snapshots

\* An update keeps the world's shape.  It opens or closes the document of an
\* open or a close, changes the text of an open document by an edit of it
\* only, and gives an opened or changed document the text it was sent.
LEMMA UpdatedType ==
    ASSUME world \in Worlds, NEW t \in Tasks
    PROVE  /\ Updated(t) \in Worlds
           /\ Updated(t).generation = world.generation
           /\ Updated(t).open =
                 IF t.message.kind = "open" THEN world.open \cup {t.message.doc}
                 ELSE IF t.message.kind = "close" THEN world.open \ {t.message.doc}
                 ELSE world.open
           /\ \A e \in world.open :
                 (e # t.message.doc \/ t.message.kind \notin {"open", "change", "close"}) =>
                     Updated(t).texts[e] = world.texts[e]
           /\ t.message.kind = "open" => Updated(t).texts[t.message.doc] = t.message.text
           /\ t.message.kind = "change" /\ t.message.doc \in world.open =>
                 Updated(t).texts[t.message.doc] = t.message.text
           /\ t.message.kind = "change" /\ t.message.doc \notin world.open =>
                 Updated(t).texts = world.texts
           /\ t.message.kind = "remove_folders" => Updated(t).open = world.open
<1> DEFINE d == t.message.doc
           text == t.message.text
<1>1. d \in Docs /\ text \in Texts \cup {None} /\ t.scan \in Texts \cup {None}
      /\ t.message.kind \in Kinds /\ t.infer \in BOOLEAN
  BY DEF Tasks, Notifications
<1>4. CASE t.message.kind = "open"
  <2> DEFINE L == Loaded(world, Docs, t.scan)
  <2>1. /\ L \in Worlds /\ L.generation = world.generation /\ L.open = world.open
        /\ \A e \in world.open : L.texts[e] = world.texts[e]
    BY <1>1, LoadedType
  <2>2. Updated(t) = [L EXCEPT !.texts[d] = text, !.open = @ \cup {d}, !.rooted = @ \/ t.infer]
    BY <1>4 DEF Updated
  <2> HIDE DEF L, d, text
  <2>3. ASSUME NEW infer \in BOOLEAN, NEW u,
               u = [L EXCEPT !.texts[d] = text, !.open = @ \cup {d}, !.rooted = @ \/ infer]
        PROVE  /\ u \in Worlds /\ u.generation = L.generation /\ u.open = L.open \cup {d}
               /\ u.texts[d] = text
               /\ \A e \in L.open : e # d => u.texts[e] = L.texts[e]
    BY <1>1, <2>1, <2>3 DEF Worlds, Snapshots
  <2>4. /\ Updated(t) \in Worlds /\ Updated(t).generation = L.generation
        /\ Updated(t).open = L.open \cup {d} /\ Updated(t).texts[d] = text
        /\ \A e \in L.open : e # d => Updated(t).texts[e] = L.texts[e]
    BY <1>1, <2>2, <2>3
  <2> QED
    BY <1>4, <2>1, <2>4 DEF d, text
<1>5. CASE t.message.kind = "change"
  BY <1>1, <1>5 DEF Updated, Worlds, Snapshots
<1>6. CASE t.message.kind = "close"
  BY <1>1, <1>6 DEF Updated, Worlds, Snapshots
<1>7. CASE t.message.kind = "watch"
  BY <1>1, <1>7 DEF Updated, Worlds, Snapshots
<1>8. CASE t.message.kind = "add_folder"
  <2> DEFINE L == Loaded(world, {d}, text)
  <2>1. /\ L \in Worlds /\ L.generation = world.generation /\ L.open = world.open
        /\ \A e \in world.open : L.texts[e] = world.texts[e]
    BY <1>1, LoadedType
  <2>2. Updated(t) = [L EXCEPT !.rooted = TRUE]
    BY <1>8 DEF Updated
  <2> HIDE DEF L
  <2>3. /\ Updated(t) \in Worlds /\ Updated(t).generation = L.generation
        /\ Updated(t).open = L.open /\ Updated(t).texts = L.texts
    BY <2>1, <2>2 DEF Worlds
  <2> QED
    BY <1>8, <2>1, <2>3
<1>9. CASE t.message.kind = "remove_folders"
  BY <1>1, <1>9 DEF Updated, Worlds, Snapshots
<1> QED
  BY <1>1, <1>4, <1>5, <1>6, <1>7, <1>8, <1>9 DEF Kinds

\* What a handler sends after the update w: publications of w, one for every
\* open document and for those that stop to be open.
LEMMA BatchType ==
    ASSUME world \in Worlds, NEW t \in Tasks, NEW u \in Worlds, u = Updated(t),
           NEW w \in Worlds, w.texts = u.texts, w.open = u.open
    PROVE  /\ Batch(w, t) \in Seq(Publications)
           /\ \A i \in DOMAIN Batch(w, t) :
                 /\ Batch(w, t)[i].generation = w.generation
                 /\ Batch(w, t)[i].of = IF Batch(w, t)[i].doc \in w.open THEN w.texts ELSE None
           /\ \A d \in Docs : (\A i \in DOMAIN Batch(w, t) : Batch(w, t)[i].doc # d) =>
                 (IF d \in w.open THEN w.texts ELSE None) =
                 (IF d \in world.open THEN world.texts ELSE None)
<1>1. t.message.doc \in Docs /\ t.message.kind \in Kinds
  BY DEF Tasks, Notifications
<1>2. /\ w.open = IF t.message.kind = "open" THEN world.open \cup {t.message.doc}
                  ELSE IF t.message.kind = "close" THEN world.open \ {t.message.doc}
                  ELSE world.open
      /\ t.message.kind = "change" /\ t.message.doc \notin world.open => w.texts = world.texts
  BY UpdatedType
<1>3. CASE t.message.kind = "change" /\ t.message.doc \notin w.open
  <2>1. Batch(w, t) = << >>
    BY <1>3 DEF Batch
  <2> QED
    BY <1>2, <1>3, <2>1
<1>4. CASE ~(t.message.kind = "change" /\ t.message.doc \notin w.open)
  <2> DEFINE gone == CASE t.message.kind = "close" -> {t.message.doc}
                       [] t.message.kind = "remove_folders" ->
                             {d \in Docs : world.texts[d] # None /\ w.texts[d] = None}
                       [] OTHER -> {}
             empty(d) == [doc |-> d, of |-> None, generation |-> w.generation]
             list(d) == [doc |-> d, of |-> w.texts, generation |-> w.generation]
             C == SetToSeq(Lists(gone, None, w.generation))
             O == SetToSeq(Lists(w.open, w.texts, w.generation))
  <2>1. Batch(w, t) = C \o O
    BY <1>4 DEF Batch, Cleared, OpenDocumentDiagnostics, Lists
  <2>2. w.open \in SUBSET Docs /\ w.texts \in Snapshots /\ w.generation \in 0 .. MaxMessages
    BY DEF Worlds
  <2>3. gone \in SUBSET Docs /\ gone \cap w.open = {} /\ (t.message.kind = "close" => t.message.doc \in gone)
    <3>1. CASE t.message.kind = "close"
      BY <1>1, <1>2, <3>1
    <3>2. CASE t.message.kind = "remove_folders"
      <4>1. ASSUME NEW d \in w.open  PROVE d \in Docs /\ w.texts[d] = world.texts[d]
        BY <1>2, <2>2, <3>2, <4>1, UpdatedType
      <4> QED
        BY <3>2, <4>1
    <3>3. CASE t.message.kind \notin {"close", "remove_folders"}
      BY <3>3
    <3> QED
      BY <3>1, <3>2, <3>3
  <2> HIDE DEF gone
  <2>4. IsFiniteSet(gone) /\ IsFiniteSet(w.open)
    BY <2>2, <2>3, DocsAssumption, FS_Subset
  <2>6. /\ Lists(gone, None, w.generation) \subseteq Publications
        /\ Lists(w.open, w.texts, w.generation) \subseteq Publications
    BY <2>2, <2>3 DEF Publications, Lists
  <2>9. /\ C \in Seq(Lists(gone, None, w.generation))
        /\ \A i \in DOMAIN C : \E d \in gone : C[i] = empty(d)
        /\ \A d \in gone : \E i \in DOMAIN C : C[i] = empty(d)
    <3> DEFINE none == None
    <3>1. C = SetToSeq(Lists(gone, none, w.generation))
      OBVIOUS
    <3> HIDE DEF none, C
    <3>2. /\ C \in Seq(Lists(gone, none, w.generation))
          /\ \A i \in DOMAIN C : \E d \in gone : C[i] = [doc |-> d, of |-> none, generation |-> w.generation]
          /\ \A d \in gone : \E i \in DOMAIN C : C[i] = [doc |-> d, of |-> none, generation |-> w.generation]
      BY <2>4, <3>1, ListedPublications
    <3> QED
      BY <3>2 DEF none
  <2>10. /\ O \in Seq(Lists(w.open, w.texts, w.generation))
         /\ \A i \in DOMAIN O : \E d \in w.open : O[i] = list(d)
         /\ \A d \in w.open : \E i \in DOMAIN O : O[i] = list(d)
    BY <2>4, ListedPublications
  <2>11. C \in Seq(Publications) /\ O \in Seq(Publications)
    BY <2>6, <2>9, <2>10
  <2> HIDE DEF C, O
  <2>12. /\ C \o O \in Seq(Publications)
         /\ DOMAIN (C \o O) = 1 .. Len(C) + Len(O)
         /\ DOMAIN C = 1 .. Len(C) /\ DOMAIN O = 1 .. Len(O) /\ Len(C) \in Nat /\ Len(O) \in Nat
         /\ \A i \in 1 .. Len(C) : (C \o O)[i] = C[i]
         /\ \A i \in 1 .. Len(O) : (C \o O)[Len(C) + i] = O[i]
    BY <2>11
  <2>13. \A i \in DOMAIN (C \o O) :
            \/ \E d \in gone : (C \o O)[i] = empty(d)
            \/ \E d \in w.open : (C \o O)[i] = list(d)
    <3> SUFFICES ASSUME NEW i \in DOMAIN (C \o O)
                 PROVE  \/ \E d \in gone : (C \o O)[i] = empty(d)
                        \/ \E d \in w.open : (C \o O)[i] = list(d)
      OBVIOUS
    <3>1. CASE i \in 1 .. Len(C)
      BY <2>9, <2>12, <3>1
    <3>2. CASE i \notin 1 .. Len(C)
      <4>1. i - Len(C) \in 1 .. Len(O) /\ i = Len(C) + (i - Len(C))
        BY <2>12, <3>2
      <4>2. (C \o O)[i] = O[i - Len(C)]
        BY <2>12, <4>1
      <4> QED
        BY <2>10, <2>12, <4>1, <4>2
    <3> QED
      BY <3>1, <3>2
  <2>14. \A i \in DOMAIN (C \o O) :
            /\ (C \o O)[i].generation = w.generation
            /\ (C \o O)[i].of = IF (C \o O)[i].doc \in w.open THEN w.texts ELSE None
    <3> SUFFICES ASSUME NEW i \in DOMAIN (C \o O)
                 PROVE  /\ (C \o O)[i].generation = w.generation
                        /\ (C \o O)[i].of = IF (C \o O)[i].doc \in w.open THEN w.texts ELSE None
      OBVIOUS
    <3>1. ASSUME NEW d \in gone, (C \o O)[i] = empty(d)
          PROVE  (C \o O)[i].generation = w.generation /\ (C \o O)[i].of = None
                 /\ (C \o O)[i].doc \notin w.open
      BY <2>3, <3>1
    <3>2. ASSUME NEW d \in w.open, (C \o O)[i] = list(d)
          PROVE  (C \o O)[i].generation = w.generation /\ (C \o O)[i].of = w.texts
                 /\ (C \o O)[i].doc \in w.open
      BY <3>2
    <3> HIDE DEF empty, list
    <3> QED
      BY <2>13, <3>1, <3>2
  <2>15. \A d \in gone \cup w.open : \E i \in DOMAIN (C \o O) : (C \o O)[i].doc = d
    <3> SUFFICES ASSUME NEW d \in gone \cup w.open
                 PROVE  \E i \in DOMAIN (C \o O) : (C \o O)[i].doc = d
      OBVIOUS
    <3>1. CASE d \in gone
      <4>1. PICK i \in DOMAIN C : C[i] = empty(d)
        BY <2>9, <3>1
      <4>2. i \in DOMAIN (C \o O) /\ (C \o O)[i] = empty(d)
        BY <2>12, <4>1
      <4> QED
        BY <4>2
    <3>2. CASE d \in w.open
      <4>1. PICK i \in DOMAIN O : O[i] = list(d)
        BY <2>10, <3>2
      <4>2. Len(C) + i \in DOMAIN (C \o O) /\ (C \o O)[Len(C) + i] = list(d)
        BY <2>12, <4>1
      <4> QED
        BY <4>2
    <3> QED
      BY <3>1, <3>2
  <2>16. \A d \in Docs : d \notin gone \cup w.open => d \notin world.open
    BY <1>2, <2>3
  <2> QED
    BY <2>1, <2>12, <2>14, <2>15, <2>16
<1> QED
  BY <1>3, <1>4

-----------------------------------------------------------------------------
(* What each action does to the tasks. *)

LEMMA TaskFields ==
    ASSUME NEW t \in Tasks
    PROVE  /\ t.message \in Notifications /\ t.message.id \in Ids /\ t.message.kind \in Kinds
           /\ t.message.doc \in Docs /\ t.message.text \in Texts \cup {None}
           /\ t.stage \in Stages /\ t.infer \in BOOLEAN /\ t.scan \in Texts \cup {None}
           /\ t.batch \in Seq(Publications)
  BY DEF Tasks, Notifications

LEMMA InspectEffect ==
    ASSUME TypeOK, NEW id, NEW disk \in Texts \cup {None}, Inspect(id, disk)
    PROVE  /\ id \in DOMAIN tasks /\ holder = id /\ tasks[id].stage = "inspect"
           /\ DOMAIN tasks' = DOMAIN tasks
           /\ \A o \in DOMAIN tasks : o # id => tasks'[o] = tasks[o]
           /\ tasks'[id] \in Tasks
           /\ tasks'[id].message = tasks[id].message
           /\ tasks'[id].stage = "apply"
           /\ tasks'[id].infer <=> ~world.rooted /\ world.texts[tasks[id].message.doc] = None
<1> DEFINE infer == ~world.rooted /\ world.texts[tasks[id].message.doc] = None
           t == tasks[id]
<1>1. id \in DOMAIN tasks /\ holder = id /\ t.stage = "inspect" /\ t \in Tasks
  BY DEF Inspect, MayRun, TypeOK
<1>2. tasks' = [tasks EXCEPT ![id].stage = "apply", ![id].infer = infer, ![id].scan = disk]
  BY DEF Inspect
<1>3. infer \in BOOLEAN
  OBVIOUS
<1> HIDE DEF infer
<1>4. /\ DOMAIN tasks' = DOMAIN tasks
      /\ \A o \in DOMAIN tasks : o # id => tasks'[o] = tasks[o]
      /\ tasks'[id] = [t EXCEPT !.stage = "apply", !.infer = infer, !.scan = disk]
  BY <1>1, <1>2 DEF Tasks
<1> HIDE DEF t
<1>5. ASSUME NEW b \in BOOLEAN, NEW u, u = [t EXCEPT !.stage = "apply", !.infer = b, !.scan = disk]
      PROVE  u \in Tasks /\ u.message = t.message /\ u.stage = "apply" /\ u.infer = b
  BY <1>1, <1>5 DEF Tasks, Stages
<1>6. tasks'[id] \in Tasks /\ tasks'[id].message = t.message /\ tasks'[id].stage = "apply"
      /\ tasks'[id].infer = infer
  BY <1>3, <1>4, <1>5
<1> QED
  BY <1>1, <1>4, <1>6 DEF infer, t

\* The update by a handler, and the publications it is going to send.
Applied(t) == [Updated(t) EXCEPT !.generation = @ + 1]

LEMMA ApplyEffect ==
    ASSUME TypeOK, NEW id, Apply(id), world.generation < MaxMessages
    PROVE  /\ id \in DOMAIN tasks /\ holder = id /\ tasks[id].stage = "apply" /\ tasks[id] \in Tasks
           /\ Updated(tasks[id]) \in Worlds
           /\ world' \in Worlds /\ world'.texts = Updated(tasks[id]).texts
           /\ world'.open = Updated(tasks[id]).open
           /\ world'.generation = world.generation + 1
           /\ holder' = holder
           /\ DOMAIN tasks' = DOMAIN tasks
           /\ \A o \in DOMAIN tasks : o # id => tasks'[o] = tasks[o]
           /\ tasks'[id] \in Tasks
           /\ tasks'[id].message = tasks[id].message
           /\ tasks'[id].stage = "publish"
           /\ tasks'[id].batch = Batch(world', tasks[id])
<1> DEFINE t == tasks[id]
           u == Updated(t)
<1>1. /\ id \in DOMAIN tasks /\ holder = id /\ t.stage = "apply" /\ t \in Tasks
      /\ world \in Worlds /\ MaxMessages \in Nat
  BY BackendBounds DEF Apply, MayRun, TypeOK, Worlds
<1>2. u \in Worlds /\ u.generation = world.generation
  BY <1>1, UpdatedType
<1>3. /\ world' = [u EXCEPT !.generation = @ + 1]
      /\ tasks' = [tasks EXCEPT ![id].stage = "publish", ![id].batch = Batch(world', t)]
      /\ holder' = holder
  BY DEF Apply, HolderWhilePublishing
<1> HIDE DEF u
<1>4. /\ world' \in Worlds /\ world'.texts = u.texts /\ world'.open = u.open
      /\ world'.generation = world.generation + 1
  <2>1. world.generation \in 0 .. MaxMessages
    BY <1>1 DEF Worlds
  <2> QED
    BY <1>1, <1>2, <1>3, <2>1 DEF Worlds
<1>5. Batch(world', t) \in Seq(Publications)
  BY <1>1, <1>2, <1>4, BatchType DEF u
<1> DEFINE batch == Batch(world', t)
<1> HIDE DEF batch
<1>6. /\ DOMAIN tasks' = DOMAIN tasks
      /\ \A o \in DOMAIN tasks : o # id => tasks'[o] = tasks[o]
      /\ tasks'[id] = [t EXCEPT !.stage = "publish", !.batch = batch]
  BY <1>1, <1>3 DEF Tasks, batch
<1> HIDE DEF t
<1>7. /\ tasks'[id] \in Tasks /\ tasks'[id].message = t.message
      /\ tasks'[id].stage = "publish" /\ tasks'[id].batch = batch
  BY <1>1, <1>5, <1>6 DEF Tasks, Stages, batch
<1> QED
  BY <1>1, <1>2, <1>3, <1>4, <1>6, <1>7 DEF t, u, batch

LEMMA PublishEffect ==
    ASSUME TypeOK, NEW id, Publish(id)
    PROVE  /\ id \in DOMAIN tasks /\ tasks[id].stage = "publish" /\ tasks[id] \in Tasks
           /\ tasks[id].batch # << >>
           /\ DOMAIN tasks' = DOMAIN tasks
           /\ \A o \in DOMAIN tasks : o # id => tasks'[o] = tasks[o]
           /\ tasks'[id] \in Tasks
           /\ tasks'[id].message = tasks[id].message
           /\ tasks'[id].stage = "publish"
           /\ tasks'[id].infer = tasks[id].infer
           /\ tasks'[id].batch = Tail(tasks[id].batch)
<1> DEFINE t == tasks[id]
           rest == Tail(t.batch)
<1>1. id \in DOMAIN tasks /\ t.stage = "publish" /\ t \in Tasks /\ t.batch # << >>
  BY DEF Publish, TypeOK
<1>2. rest \in Seq(Publications)
  BY <1>1, TaskFields, TailAt
<1>3. tasks' = [tasks EXCEPT ![id].batch = rest]
  BY <1>1 DEF Publish
<1> HIDE DEF rest
<1>4. /\ DOMAIN tasks' = DOMAIN tasks
      /\ \A o \in DOMAIN tasks : o # id => tasks'[o] = tasks[o]
      /\ tasks'[id] = [t EXCEPT !.batch = rest]
  BY <1>1, <1>3 DEF Tasks
<1> HIDE DEF t
<1>5. tasks'[id] \in Tasks /\ tasks'[id].message = t.message /\ tasks'[id].stage = t.stage
      /\ tasks'[id].batch = rest
  BY <1>1, <1>2, <1>4 DEF Tasks
<1>6. tasks'[id].infer = t.infer
  BY <1>1, <1>4 DEF Tasks
<1> QED
  BY <1>1, <1>4, <1>5, <1>6 DEF t, rest

LEMMA FinishEffect ==
    ASSUME NEW id, Finish(id)
    PROVE  /\ id \in DOMAIN tasks /\ tasks[id].stage = "publish" /\ tasks[id].batch = << >>
           /\ DOMAIN tasks' = DOMAIN tasks \ {id}
           /\ \A o \in DOMAIN tasks' : tasks'[o] = tasks[o]
  BY DEF Finish

LEMMA DispatchEffect ==
    ASSUME TypeOK, Dispatch
    PROVE  /\ Head(inbox) \in Notifications
           /\ DOMAIN tasks' = DOMAIN tasks \cup {Head(inbox).id}
           /\ \A o \in DOMAIN tasks : o # Head(inbox).id => tasks'[o] = tasks[o]
           /\ tasks'[Head(inbox).id] \in Tasks
           /\ tasks'[Head(inbox).id].message = Head(inbox)
           /\ tasks'[Head(inbox).id].stage = IF Head(inbox).kind = "open" THEN "inspect" ELSE "apply"
           /\ tasks'[Head(inbox).id].infer = FALSE
<1> DEFINE m == Head(inbox)
           task == [message |-> m, infer |-> FALSE, scan |-> None, batch |-> << >>,
                    stage |-> IF m.kind = "open" THEN "inspect" ELSE "apply"]
<1>1. m \in Notifications
  BY TailAt DEF Dispatch, TypeOK
<1>2. tasks' = [id \in DOMAIN tasks \cup {m.id} |-> IF id = m.id THEN task ELSE tasks[id]]
  BY DEF Dispatch
<1>3. << >> \in Seq(Publications)
  OBVIOUS
<1> HIDE DEF m
<1>4. task \in Tasks /\ task.message = m /\ task.infer = FALSE
      /\ task.stage = IF m.kind = "open" THEN "inspect" ELSE "apply"
  BY <1>1, <1>3 DEF Tasks, Stages
<1> HIDE DEF task
<1>5. /\ DOMAIN tasks' = DOMAIN tasks \cup {m.id}
      /\ \A o \in DOMAIN tasks : o # m.id => tasks'[o] = tasks[o]
      /\ tasks'[m.id] = task
  BY <1>2
<1> QED
  BY <1>1, <1>4, <1>5 DEF m

-----------------------------------------------------------------------------
(* Types and the queue, step by step. *)

\* What the queue says about the counters and the holder.
LEMMA QueueFacts ==
    ASSUME TypeOK, QueueInv, TaskInv
    PROVE  /\ sent \in Nat /\ Taken \in Nat /\ Granted \in Nat /\ world.generation \in Nat
           /\ Granted <= Taken /\ Taken <= sent /\ sent <= MaxMessages /\ MaxMessages \in Nat
           /\ Len(inbox) = sent - Taken /\ DOMAIN inbox = 1 .. sent - Taken
           /\ Len(waiting) = Taken - Granted /\ DOMAIN waiting = 1 .. Taken - Granted
           /\ holder # None => /\ holder = Granted /\ holder \in DOMAIN tasks /\ holder \in Nat \ {0}
                               /\ DOMAIN tasks = Granted .. Taken
           /\ holder = None => DOMAIN tasks = Granted + 1 .. Taken
           /\ \A id \in DOMAIN tasks : id \in Nat /\ id <= Taken /\ tasks[id] \in Tasks
           /\ \A id \in DOMAIN tasks : tasks[id].stage = "publish" => id = holder
           /\ (\E id \in DOMAIN tasks : id = holder /\ tasks[id].stage # "publish")
                 => world.generation + 1 = holder /\ world.generation < MaxMessages
<1>1. /\ sent \in 0 .. MaxMessages /\ MaxMessages \in Nat /\ world.generation \in 0 .. MaxMessages
      /\ inbox \in Seq(Notifications) /\ waiting \in Seq(Ids)
      /\ DOMAIN tasks \subseteq Ids /\ \A id \in DOMAIN tasks : tasks[id] \in Tasks
      /\ holder \in Ids \cup {None}
  BY BackendBounds DEF TypeOK
<1>2. /\ Len(inbox) \in Nat /\ DOMAIN inbox = 1 .. Len(inbox)
      /\ Len(waiting) \in Nat /\ DOMAIN waiting = 1 .. Len(waiting)
  BY <1>1
<1>3. /\ Taken \in Nat /\ Granted \in Nat /\ Taken = sent - Len(inbox) /\ Granted = Taken - Len(waiting)
      /\ holder # None => holder = Granted /\ DOMAIN tasks = Granted .. Taken
      /\ holder = None => DOMAIN tasks = Granted + 1 .. Taken
  BY DEF QueueInv, Taken, Granted
<1>4. \A id \in DOMAIN tasks : tasks[id].stage = "publish" => id = holder
  BY DEF TaskInv
<1>5. (\E id \in DOMAIN tasks : id = holder /\ tasks[id].stage # "publish")
         => holder # None /\ world.generation = Granted - 1
  BY <1>1, NoneAssumption DEF TaskInv, Ids
<1> QED
  BY <1>1, <1>2, <1>3, <1>4, <1>5 DEF Ids

\* The client's sending, action by action.
LEMMA SendEffect ==
    ASSUME TypeOK, NEW kind \in Kinds, NEW d \in Docs, NEW text \in Texts \cup {None},
           Send(kind, d, text)
    PROVE  /\ sent' = sent + 1 /\ sent < MaxMessages /\ sent' \in Ids
           /\ inbox' \in Seq(Notifications)
           /\ Len(inbox') = Len(inbox) + 1
           /\ DOMAIN inbox' = 1 .. Len(inbox) + 1 /\ DOMAIN inbox = 1 .. Len(inbox) /\ Len(inbox) \in Nat
           /\ \A i \in 1 .. Len(inbox) : inbox'[i] = inbox[i]
           /\ inbox'[Len(inbox) + 1] = [id |-> sent', kind |-> kind, doc |-> d, text |-> text]
           /\ UNCHANGED <<tasks, waiting, holder, world, outbox, shown>>
<1>1. sent \in 0 .. MaxMessages /\ MaxMessages \in Nat /\ sent' = sent + 1 /\ sent < MaxMessages
  BY BackendBounds DEF TypeOK, Send
<1>2. sent' \in Ids
  BY <1>1 DEF Ids
<1>3. [id |-> sent', kind |-> kind, doc |-> d, text |-> text] \in Notifications
  BY <1>2 DEF Notifications
<1>4. inbox \in Seq(Notifications)
  BY DEF TypeOK
<1>5. inbox' = Append(inbox, [id |-> sent', kind |-> kind, doc |-> d, text |-> text])
  BY DEF Send
<1>6. Len(inbox) \in Nat /\ DOMAIN inbox = 1 .. Len(inbox)
  BY <1>4
<1>7. UNCHANGED <<tasks, waiting, holder, world, outbox, shown>>
  BY DEF Send
<1> QED
  BY <1>1, <1>2, <1>3, <1>4, <1>5, <1>6, <1>7, AppendAt

LEMMA TypeStep ==
    ASSUME TypeOK, QueueInv, TaskInv, [Next]_vars
    PROVE  TypeOK'
<1>1. CASE Client
  <2>1. PICK kind \in Kinds, d \in Docs, text \in Texts \cup {None} :
            /\ Send(kind, d, text)
            /\ kind \in {"open", "change"} => text \in Texts
            /\ IF kind \in {"open", "change"} THEN buffers' = [buffers EXCEPT ![d] = text]
               ELSE IF kind = "close" THEN buffers' = [buffers EXCEPT ![d] = None]
               ELSE buffers' = buffers
    BY <1>1, ClientSends
  <2>2. sent' \in Ids /\ inbox' \in Seq(Notifications)
        /\ UNCHANGED <<tasks, waiting, holder, world, outbox, shown>>
    BY <2>1, SendEffect
  <2>3. sent' \in 0 .. MaxMessages
    BY <2>2, BackendBounds DEF Ids
  <2>4. buffers' \in Snapshots
    BY <2>1 DEF TypeOK, Snapshots
  <2> QED
    BY <2>2, <2>3, <2>4 DEF TypeOK
<1>2. CASE Receive
  <2>1. outbox \in Seq(Publications) /\ outbox # << >>
    BY <1>2 DEF TypeOK, Receive
  <2>2. Head(outbox) \in Publications /\ Tail(outbox) \in Seq(Publications)
        /\ Len(Tail(outbox)) <= OutboxSize
    BY <2>1, TailAt, BackendBounds DEF TypeOK
  <2>3. /\ outbox' = Tail(outbox)
        /\ shown' = [shown EXCEPT ![Head(outbox).doc] =
                        [of |-> Head(outbox).of, generation |-> Head(outbox).generation]]
        /\ UNCHANGED <<buffers, sent, inbox, tasks, waiting, holder, world>>
    BY <1>2 DEF Receive
  <2>4. shown' \in [Docs -> [of : Snapshots \cup {None}, generation : 0 .. MaxMessages]]
    BY <2>2, <2>3 DEF TypeOK, Publications
  <2> QED
    BY <2>2, <2>3, <2>4 DEF TypeOK
<1>3. CASE Dispatch
  <2>1. inbox \in Seq(Notifications) /\ inbox # << >> /\ waiting \in Seq(Ids)
    BY <1>3 DEF TypeOK, Dispatch
  <2>2. Head(inbox).id \in Ids /\ Tail(inbox) \in Seq(Notifications)
    <3>1. Head(inbox) \in Notifications /\ Tail(inbox) \in Seq(Notifications)
      BY <2>1, TailAt
    <3> QED
      BY <3>1 DEF Notifications
  <2>3. waiting' = Append(waiting, Head(inbox).id) /\ inbox' = Tail(inbox)
        /\ UNCHANGED <<buffers, sent, holder, world, outbox, shown>>
    BY <1>3 DEF Dispatch
  <2>4. waiting' \in Seq(Ids)
    BY <2>1, <2>2, <2>3
  <2>5. DOMAIN tasks' \subseteq Ids /\ \A id \in DOMAIN tasks' : tasks'[id] \in Tasks
    BY <1>3, <2>2, DispatchEffect DEF TypeOK
  <2> QED
    BY <2>2, <2>3, <2>4, <2>5 DEF TypeOK
<1>4. CASE Acquire
  <2>1. Head(waiting) \in Ids /\ Tail(waiting) \in Seq(Ids)
    BY <1>4, TailAt DEF Acquire, TypeOK
  <2> QED
    BY <1>4, <2>1 DEF Acquire, TypeOK
<1>5. ASSUME NEW id \in Ids, NEW disk \in Texts \cup {None}, Inspect(id, disk)
      PROVE  TypeOK'
  <2>1. DOMAIN tasks' \subseteq Ids /\ \A o \in DOMAIN tasks' : tasks'[o] \in Tasks
    BY <1>5, InspectEffect DEF TypeOK
  <2>2. UNCHANGED <<buffers, sent, inbox, waiting, holder, world, outbox, shown>>
    BY <1>5 DEF Inspect
  <2> QED
    BY <2>1, <2>2 DEF TypeOK
<1>6. ASSUME NEW id \in Ids, Apply(id)
      PROVE  TypeOK'
  <2>1. world.generation < MaxMessages
    <3>1. id \in DOMAIN tasks /\ id = holder /\ tasks[id].stage # "publish"
      BY <1>6 DEF Apply, MayRun
    <3> QED
      BY <3>1, QueueFacts
  <2>2. /\ DOMAIN tasks' \subseteq Ids /\ \A o \in DOMAIN tasks' : tasks'[o] \in Tasks
        /\ world' \in Worlds /\ holder' = holder
    BY <1>6, <2>1, ApplyEffect DEF TypeOK
  <2>3. UNCHANGED <<buffers, sent, inbox, waiting, outbox, shown>>
    BY <1>6 DEF Apply
  <2> QED
    BY <2>2, <2>3 DEF TypeOK, Worlds
<1>7. ASSUME NEW id \in Ids, Publish(id)
      PROVE  TypeOK'
  <2>1. DOMAIN tasks' \subseteq Ids /\ \A o \in DOMAIN tasks' : tasks'[o] \in Tasks
    BY <1>7, PublishEffect DEF TypeOK
  <2>2. /\ UNCHANGED <<buffers, sent, inbox, waiting, holder, world, shown>>
        /\ outbox' = Append(outbox, Head(tasks[id].batch)) /\ Len(outbox) < OutboxSize
        /\ id \in DOMAIN tasks /\ tasks[id].batch # << >>
    BY <1>7 DEF Publish
  <2>3. Head(tasks[id].batch) \in Publications /\ outbox \in Seq(Publications)
    BY <2>2, TaskFields, TailAt DEF TypeOK
  <2>4. outbox' \in Seq(Publications) /\ Len(outbox') <= OutboxSize
    BY <2>2, <2>3, AppendAt, BackendBounds
  <2> QED
    BY <2>1, <2>2, <2>4 DEF TypeOK
<1>8. ASSUME NEW id \in Ids, Finish(id)
      PROVE  TypeOK'
  <2>1. DOMAIN tasks' \subseteq Ids /\ \A o \in DOMAIN tasks' : tasks'[o] \in Tasks
    BY <1>8, FinishEffect DEF TypeOK
  <2>2. holder' \in Ids \cup {None}
        /\ UNCHANGED <<buffers, sent, inbox, waiting, world, outbox, shown>>
    BY <1>8 DEF Finish, HolderAfter, TypeOK
  <2> QED
    BY <2>1, <2>2 DEF TypeOK
<1>9. CASE UNCHANGED vars
  BY <1>9 DEF vars, TypeOK
<1> QED
  BY <1>1, <1>2, <1>3, <1>4, <1>5, <1>6, <1>7, <1>8, <1>9 DEF Next, Handler

\* Sending, taking, granting and finishing each move one end of the queue.
LEMMA QueueStep ==
    ASSUME TypeOK, QueueInv, TaskInv, [Next]_vars
    PROVE  QueueInv'
<1>a. /\ sent \in Nat /\ Taken \in Nat /\ Granted \in Nat
      /\ Taken = sent - Len(inbox) /\ Granted = Taken - Len(waiting)
      /\ Len(inbox) \in Nat /\ DOMAIN inbox = 1 .. Len(inbox)
      /\ Len(waiting) \in Nat /\ DOMAIN waiting = 1 .. Len(waiting)
      /\ holder # None => holder = Granted /\ holder \in DOMAIN tasks /\ DOMAIN tasks = Granted .. Taken
      /\ holder = None => DOMAIN tasks = Granted + 1 .. Taken
      /\ \A id \in DOMAIN tasks : tasks[id].stage = "publish" => id = holder
  BY QueueFacts DEF TypeOK, Taken, Granted
<1>0. /\ inbox \in Seq(Notifications) /\ waiting \in Seq(Ids)
      /\ \A i \in DOMAIN inbox : inbox[i].id = Taken + i
      /\ \A i \in DOMAIN waiting : waiting[i] = Granted + i
  BY DEF TypeOK, QueueInv
<1>1. CASE Client
  <2>1. PICK kind \in Kinds, d \in Docs, text \in Texts \cup {None} : Send(kind, d, text)
    BY <1>1, ClientSends
  <2>2. /\ sent' = sent + 1 /\ Len(inbox') = Len(inbox) + 1
        /\ DOMAIN inbox' = 1 .. Len(inbox) + 1 /\ DOMAIN inbox = 1 .. Len(inbox)
        /\ \A i \in 1 .. Len(inbox) : inbox'[i] = inbox[i]
        /\ inbox'[Len(inbox) + 1].id = sent'
        /\ UNCHANGED <<tasks, waiting, holder>>
    <3>1. /\ sent' = sent + 1 /\ Len(inbox') = Len(inbox) + 1
          /\ DOMAIN inbox' = 1 .. Len(inbox) + 1 /\ DOMAIN inbox = 1 .. Len(inbox)
          /\ \A i \in 1 .. Len(inbox) : inbox'[i] = inbox[i]
          /\ inbox'[Len(inbox) + 1] = [id |-> sent', kind |-> kind, doc |-> d, text |-> text]
          /\ UNCHANGED <<tasks, waiting, holder>>
      BY <2>1, SendEffect
    <3>2. inbox'[Len(inbox) + 1].id = sent'
      BY <3>1
    <3> QED
      BY <3>1, <3>2
  <2>3. Taken' = Taken /\ Granted' = Granted
    BY <1>a, <2>2 DEF Taken, Granted
  <2>4. \A i \in DOMAIN inbox' : inbox'[i].id = Taken' + i
    <3> SUFFICES ASSUME NEW i \in DOMAIN inbox' PROVE inbox'[i].id = Taken + i
      BY <2>3
    <3>1. i \in 1 .. Len(inbox) \/ i = Len(inbox) + 1
      BY <1>a, <2>2
    <3>2. CASE i \in 1 .. Len(inbox)
      BY <1>0, <2>2, <3>2
    <3>3. CASE i = Len(inbox) + 1
      BY <1>a, <2>2, <3>3
    <3> QED
      BY <3>1, <3>2, <3>3
  <2> QED
    BY <1>0, <1>a, <2>2, <2>3, <2>4 DEF QueueInv
<1>2. CASE Receive
  <2>1. UNCHANGED <<sent, inbox, tasks, waiting, holder>>
    BY <1>2 DEF Receive
  <2> QED
    BY <2>1 DEF QueueInv, Taken, Granted
<1>3. CASE Dispatch
  <2>1. inbox # << >> /\ inbox' = Tail(inbox) /\ waiting' = Append(waiting, Head(inbox).id)
        /\ UNCHANGED <<sent, holder>>
    BY <1>3 DEF Dispatch
  <2>2. /\ Len(inbox) \in Nat \ {0} /\ Head(inbox) = inbox[1] /\ Head(inbox) \in Notifications
        /\ Len(inbox') = Len(inbox) - 1 /\ DOMAIN inbox' = 1 .. Len(inbox) - 1
        /\ \A i \in 1 .. Len(inbox) - 1 : inbox'[i] = inbox[i + 1]
    BY <1>0, <2>1, TailAt
  <2>3. Head(inbox).id = Taken + 1 /\ Head(inbox).id \in Ids
    <3>1. 1 \in DOMAIN inbox
      BY <1>a, <2>2
    <3>2. inbox[1].id = Taken + 1
      BY <1>0, <3>1
    <3>3. Head(inbox).id \in Ids
      BY <2>2 DEF Notifications
    <3> QED
      BY <2>2, <3>2, <3>3
  <2>4. /\ Len(waiting') = Len(waiting) + 1 /\ DOMAIN waiting' = 1 .. Len(waiting) + 1
        /\ \A i \in 1 .. Len(waiting) : waiting'[i] = waiting[i]
        /\ waiting'[Len(waiting) + 1] = Taken + 1
    BY <1>0, <2>1, <2>3, AppendAt
  <2>5. Taken' = Taken + 1 /\ Granted' = Granted
    BY <1>a, <2>1, <2>2, <2>4 DEF Taken, Granted
  <2>6. \A i \in DOMAIN inbox' : inbox'[i].id = Taken' + i
    <3> SUFFICES ASSUME NEW i \in DOMAIN inbox' PROVE inbox'[i].id = Taken + 1 + i
      BY <2>5
    <3>1. i \in Nat /\ i + 1 \in DOMAIN inbox /\ inbox'[i] = inbox[i + 1]
      BY <1>a, <2>2
    <3>2. inbox[i + 1].id = Taken + (i + 1)
      BY <1>0, <3>1
    <3> QED
      BY <1>a, <3>1, <3>2
  <2>7. \A i \in DOMAIN waiting' : waiting'[i] = Granted' + i
    <3> SUFFICES ASSUME NEW i \in DOMAIN waiting' PROVE waiting'[i] = Granted + i
      BY <2>5
    <3>1. i \in 1 .. Len(waiting) \/ i = Len(waiting) + 1
      BY <1>a, <2>4
    <3>2. CASE i \in 1 .. Len(waiting)
      BY <1>0, <1>a, <2>4, <3>2
    <3>3. CASE i = Len(waiting) + 1
      BY <1>a, <2>4, <3>3
    <3> QED
      BY <3>1, <3>2, <3>3
  <2>8. DOMAIN tasks' = DOMAIN tasks \cup {Taken + 1}
    BY <1>3, <2>3, DispatchEffect
  <2>9. DOMAIN tasks' = (IF holder' = None THEN Granted' + 1 ELSE Granted') .. Taken'
    BY <1>a, <2>1, <2>5, <2>8
  <2>10. Taken' \in Nat /\ Granted' \in Nat /\ (holder' # None => holder' = Granted')
    BY <1>a, <2>1, <2>5
  <2> QED
    BY <2>6, <2>7, <2>9, <2>10 DEF QueueInv
<1>4. CASE Acquire
  <2>1. holder = None /\ waiting # << >> /\ holder' = Head(waiting) /\ waiting' = Tail(waiting)
        /\ UNCHANGED <<sent, inbox, tasks>>
    BY <1>4 DEF Acquire
  <2>2. /\ Len(waiting) \in Nat \ {0} /\ Head(waiting) = waiting[1] /\ Head(waiting) \in Ids
        /\ Len(waiting') = Len(waiting) - 1 /\ DOMAIN waiting' = 1 .. Len(waiting) - 1
        /\ \A i \in 1 .. Len(waiting) - 1 : waiting'[i] = waiting[i + 1]
    BY <1>0, <2>1, TailAt
  <2>3. Taken' = Taken /\ Granted' = Granted + 1
    BY <1>a, <2>1, <2>2 DEF Taken, Granted
  <2>4. holder' = Granted + 1
    BY <1>0, <1>a, <2>1, <2>2
  <2>5. \A i \in DOMAIN waiting' : waiting'[i] = Granted' + i
    <3> SUFFICES ASSUME NEW i \in DOMAIN waiting' PROVE waiting'[i] = Granted + 1 + i
      BY <2>3
    <3>1. i \in Nat /\ i + 1 \in DOMAIN waiting /\ waiting'[i] = waiting[i + 1]
      BY <1>a, <2>2
    <3>2. waiting[i + 1] = Granted + (i + 1)
      BY <1>0, <3>1
    <3> QED
      BY <1>a, <3>1, <3>2
  <2>6. holder' # None
    BY <1>a, <2>4, NoneAssumption
  <2> QED
    BY <1>0, <1>a, <2>1, <2>3, <2>4, <2>5, <2>6 DEF QueueInv
<1>5. ASSUME UNCHANGED <<sent, inbox, waiting, holder>>, DOMAIN tasks' = DOMAIN tasks
      PROVE  QueueInv'
  BY <1>5 DEF QueueInv, Taken, Granted
<1>6. ASSUME NEW id \in Ids, NEW disk \in Texts \cup {None}, Inspect(id, disk)
      PROVE  QueueInv'
  <2>1. UNCHANGED <<sent, inbox, waiting, holder>> /\ DOMAIN tasks' = DOMAIN tasks
    BY <1>6, InspectEffect DEF Inspect
  <2> QED
    BY <1>5, <2>1
<1>7. ASSUME NEW id \in Ids, Apply(id)
      PROVE  QueueInv'
  <2>1. UNCHANGED <<sent, inbox, waiting, holder>>
    BY <1>7 DEF Apply, HolderWhilePublishing
  <2>2. DOMAIN tasks' = DOMAIN tasks
    BY <1>7 DEF Apply
  <2> QED
    BY <1>5, <2>1, <2>2
<1>8. ASSUME NEW id \in Ids, Publish(id)
      PROVE  QueueInv'
  <2>1. UNCHANGED <<sent, inbox, waiting, holder>> /\ DOMAIN tasks' = DOMAIN tasks
    BY <1>8, PublishEffect DEF Publish
  <2> QED
    BY <1>5, <2>1
<1>9. ASSUME NEW id \in Ids, Finish(id)
      PROVE  QueueInv'
  <2>1. id \in DOMAIN tasks /\ tasks[id].stage = "publish" /\ DOMAIN tasks' = DOMAIN tasks \ {id}
    BY <1>9, FinishEffect
  <2>2. id = holder /\ id # None /\ holder' = None /\ UNCHANGED <<sent, inbox, waiting>>
    BY <1>9, <1>a, <2>1, NoneAssumption DEF Finish, HolderAfter, Ids
  <2>3. Taken' = Taken /\ Granted' = Granted
    BY <2>2 DEF Taken, Granted
  <2>4. DOMAIN tasks' = Granted + 1 .. Taken
    BY <1>a, <2>1, <2>2
  <2> QED
    BY <1>0, <1>a, <2>2, <2>3, <2>4 DEF QueueInv
<1>10. CASE UNCHANGED vars
  BY <1>10 DEF vars, QueueInv, Taken, Granted
<1> QED
  BY <1>1, <1>2, <1>3, <1>4, <1>6, <1>7, <1>8, <1>9, <1>10 DEF Next, Handler

\* Past its first stage is only the holder, which is the next to be applied
\* until it has been.
LEMMA TaskStep ==
    ASSUME TypeOK, QueueInv, TaskInv, [Next]_vars
    PROVE  TaskInv'
<1>a. /\ Granted \in Nat /\ world.generation \in Nat /\ Taken \in Nat
      /\ holder # None => holder = Granted /\ holder \in DOMAIN tasks
      /\ \A id \in DOMAIN tasks : tasks[id].stage = "publish" => id = holder
      /\ \A id \in DOMAIN tasks : id \in Ids /\ id <= Taken
  BY QueueFacts DEF TypeOK
<1>b. /\ \A id \in DOMAIN tasks : tasks[id].message.id = id
      /\ \A id \in DOMAIN tasks :
            id # holder => tasks[id].stage = IF tasks[id].message.kind = "open" THEN "inspect" ELSE "apply"
      /\ world.generation = IF holder # None /\ tasks[holder].stage # "publish" THEN Granted - 1 ELSE Granted
  BY DEF TaskInv
<1>c. None \notin Ids
  BY NoneAssumption DEF Ids
<1>1. CASE Client
  <2>1. PICK kind \in Kinds, d \in Docs, text \in Texts \cup {None} : Send(kind, d, text)
    BY <1>1, ClientSends
  <2>2. sent' = sent + 1 /\ Len(inbox') = Len(inbox) + 1 /\ UNCHANGED <<tasks, waiting, holder, world>>
    BY <2>1, SendEffect
  <2>3. Granted' = Granted
    BY <2>2 DEF Granted, Taken, TypeOK
  <2> QED
    BY <1>b, <2>2, <2>3 DEF TaskInv
<1>2. CASE Receive
  <2>1. UNCHANGED <<sent, inbox, tasks, waiting, holder, world>>
    BY <1>2 DEF Receive
  <2> QED
    BY <1>b, <2>1 DEF TaskInv, Taken, Granted
<1>3. CASE Dispatch
  <2> DEFINE m == Head(inbox)
  <2>1. inbox \in Seq(Notifications) /\ inbox # << >> /\ waiting \in Seq(Ids)
        /\ inbox' = Tail(inbox) /\ waiting' = Append(waiting, m.id)
        /\ UNCHANGED <<sent, holder, world>>
    BY <1>3 DEF Dispatch, TypeOK
  <2>2. /\ m \in Notifications /\ DOMAIN tasks' = DOMAIN tasks \cup {m.id}
        /\ \A o \in DOMAIN tasks : o # m.id => tasks'[o] = tasks[o]
        /\ tasks'[m.id].message = m
        /\ tasks'[m.id].stage = IF m.kind = "open" THEN "inspect" ELSE "apply"
    BY <1>3, DispatchEffect
  <2>3. m.id = Taken + 1
    <3>1. 1 \in DOMAIN inbox /\ Head(inbox) = inbox[1]
      BY <2>1, TailAt
    <3>2. inbox[1].id = Taken + 1
      BY <3>1 DEF QueueInv
    <3> QED
      BY <3>1, <3>2
  <2>4. Granted' = Granted
    <3>1. Len(inbox') = Len(inbox) - 1 /\ Len(inbox) \in Nat /\ m \in Notifications
      BY <2>1, TailAt
    <3>2. m.id \in Ids
      BY <3>1 DEF Notifications
    <3>3. Len(waiting') = Len(waiting) + 1 /\ Len(waiting) \in Nat
      BY <2>1, <3>2, AppendAt
    <3>4. sent \in Nat
      BY QueueFacts
    <3> QED
      BY <2>1, <3>1, <3>3, <3>4 DEF Granted, Taken
  <2>5. m.id \notin DOMAIN tasks /\ m.id # holder
    BY <1>a, <2>3, NoneAssumption DEF Ids
  <2> HIDE DEF m
  <2>6. \A id \in DOMAIN tasks' : tasks'[id].message.id = id
    BY <1>b, <2>2, <2>5
  <2>7. \A id \in DOMAIN tasks' : id # holder' =>
            tasks'[id].stage = IF tasks'[id].message.kind = "open" THEN "inspect" ELSE "apply"
    BY <1>b, <2>1, <2>2, <2>5
  <2>8. world'.generation = IF holder' # None /\ tasks'[holder'].stage # "publish" THEN Granted' - 1 ELSE Granted'
    BY <1>a, <1>b, <2>1, <2>2, <2>4, <2>5
  <2> QED
    BY <2>6, <2>7, <2>8 DEF TaskInv
<1>4. CASE Acquire
  <2>1. holder = None /\ waiting \in Seq(Ids) /\ waiting # << >> /\ holder' = Head(waiting)
        /\ waiting' = Tail(waiting) /\ UNCHANGED <<sent, inbox, tasks, world>>
    BY <1>4 DEF Acquire, TypeOK
  <2>2. /\ 1 \in DOMAIN waiting /\ Head(waiting) = waiting[1] /\ Len(waiting') = Len(waiting) - 1
        /\ Len(waiting) \in Nat
    BY <2>1, TailAt
  <2>3. holder' = Granted + 1 /\ Granted' = Granted + 1
    BY <1>a, <2>1, <2>2 DEF QueueInv, Granted, Taken
  <2>4. tasks[holder'].stage # "publish" /\ holder' # None
    <3>1. holder' \in DOMAIN tasks'
      BY QueueStep, QueueFacts, <2>1, <2>3, NoneAssumption, <1>a DEF QueueInv
    <3>2. holder' \in DOMAIN tasks /\ holder' # holder
      BY <1>a, <1>c, <2>1, <3>1
    <3> QED
      BY <1>b, <2>1, <3>2
  <2> QED
    BY <1>a, <1>b, <1>c, <2>1, <2>3, <2>4 DEF TaskInv
<1>5. ASSUME NEW id \in Ids, NEW disk \in Texts \cup {None}, Inspect(id, disk)
      PROVE  TaskInv'
  <2>1. /\ id \in DOMAIN tasks /\ holder = id /\ tasks[id].stage = "inspect"
        /\ DOMAIN tasks' = DOMAIN tasks /\ \A o \in DOMAIN tasks : o # id => tasks'[o] = tasks[o]
        /\ tasks'[id].message = tasks[id].message /\ tasks'[id].stage = "apply"
    BY <1>5, InspectEffect
  <2>2. UNCHANGED <<sent, inbox, waiting, holder, world>>
    BY <1>5 DEF Inspect
  <2>3. Granted' = Granted
    BY <2>2 DEF Granted, Taken
  <2> QED
    BY <1>b, <2>1, <2>2, <2>3 DEF TaskInv
<1>6. ASSUME NEW id \in Ids, Apply(id)
      PROVE  TaskInv'
  <2>1. world.generation < MaxMessages
    <3>1. id \in DOMAIN tasks /\ id = holder /\ tasks[id].stage # "publish"
      BY <1>6 DEF Apply, MayRun
    <3> QED
      BY <3>1, QueueFacts
  <2>2. /\ id \in DOMAIN tasks /\ holder = id /\ tasks[id].stage = "apply"
        /\ holder' = holder /\ world'.generation = world.generation + 1
        /\ DOMAIN tasks' = DOMAIN tasks /\ \A o \in DOMAIN tasks : o # id => tasks'[o] = tasks[o]
        /\ tasks'[id].message = tasks[id].message /\ tasks'[id].stage = "publish"
    BY <1>6, <2>1, ApplyEffect
  <2>3. Granted' = Granted
    BY <1>6 DEF Apply, Granted, Taken
  <2>4. world'.generation = Granted
    BY <1>a, <1>b, <1>c, <2>2
  <2> QED
    BY <1>b, <2>2, <2>3, <2>4 DEF TaskInv
<1>7. ASSUME NEW id \in Ids, Publish(id)
      PROVE  TaskInv'
  <2>1. /\ id \in DOMAIN tasks /\ tasks[id].stage = "publish"
        /\ DOMAIN tasks' = DOMAIN tasks /\ \A o \in DOMAIN tasks : o # id => tasks'[o] = tasks[o]
        /\ tasks'[id].message = tasks[id].message /\ tasks'[id].stage = "publish"
    BY <1>7, PublishEffect
  <2>2. UNCHANGED <<sent, inbox, waiting, holder, world>>
    BY <1>7 DEF Publish
  <2>3. Granted' = Granted /\ id = holder
    BY <1>a, <2>1, <2>2 DEF Granted, Taken
  <2> QED
    BY <1>b, <2>1, <2>2, <2>3 DEF TaskInv
<1>8. ASSUME NEW id \in Ids, Finish(id)
      PROVE  TaskInv'
  <2>1. /\ id \in DOMAIN tasks /\ tasks[id].stage = "publish"
        /\ DOMAIN tasks' = DOMAIN tasks \ {id} /\ \A o \in DOMAIN tasks' : tasks'[o] = tasks[o]
    BY <1>8, FinishEffect
  <2>2. UNCHANGED <<sent, inbox, waiting, world>> /\ id = holder /\ holder' = None
    BY <1>8, <1>a, <2>1 DEF Finish, HolderAfter
  <2>3. Granted' = Granted
    BY <2>2 DEF Granted, Taken
  <2>4. holder # None
    BY <1>8, <1>c, <2>2
  <2> QED
    BY <1>b, <2>1, <2>2, <2>3, <2>4 DEF TaskInv
<1>9. CASE UNCHANGED vars
  BY <1>9 DEF vars, TaskInv, Taken, Granted
<1> QED
  BY <1>1, <1>2, <1>3, <1>4, <1>5, <1>6, <1>7, <1>8, <1>9 DEF Next, Handler

\* The world a handler asked about is the one it acts on: nobody else gets to
\* Apply in between.
LEMMA FreshStep ==
    ASSUME TypeOK, QueueInv, TaskInv, InferenceIsFresh, [Next]_vars
    PROVE  InferenceIsFresh'
<1>a. \A id \in DOMAIN tasks : id # holder =>
          ~(tasks[id].message.kind = "open" /\ tasks[id].stage = "apply")
  BY DEF TaskInv
<1>1. CASE UNCHANGED <<tasks, world>>
  BY <1>1 DEF InferenceIsFresh
<1>2. CASE Dispatch
  <2>1. /\ DOMAIN tasks' = DOMAIN tasks \cup {Head(inbox).id}
        /\ \A o \in DOMAIN tasks : o # Head(inbox).id => tasks'[o] = tasks[o]
        /\ tasks'[Head(inbox).id].message = Head(inbox)
        /\ tasks'[Head(inbox).id].stage = IF Head(inbox).kind = "open" THEN "inspect" ELSE "apply"
    BY <1>2, DispatchEffect
  <2>2. world' = world
    BY <1>2 DEF Dispatch
  <2> QED
    BY <2>1, <2>2 DEF InferenceIsFresh
<1>3. ASSUME NEW id \in Ids, NEW disk \in Texts \cup {None}, Inspect(id, disk)
      PROVE  InferenceIsFresh'
  <2>1. /\ DOMAIN tasks' = DOMAIN tasks /\ \A o \in DOMAIN tasks : o # id => tasks'[o] = tasks[o]
        /\ tasks'[id].message = tasks[id].message
        /\ tasks'[id].infer <=> ~world.rooted /\ world.texts[tasks[id].message.doc] = None
    BY <1>3, InspectEffect
  <2>2. world' = world
    BY <1>3 DEF Inspect
  <2> QED
    BY <2>1, <2>2 DEF InferenceIsFresh
<1>4. ASSUME NEW id \in Ids, Apply(id)
      PROVE  InferenceIsFresh'
  <2>1. id \in DOMAIN tasks /\ holder = id /\ world.generation < MaxMessages
    <3>1. id \in DOMAIN tasks /\ id = holder /\ tasks[id].stage # "publish"
      BY <1>4 DEF Apply, MayRun
    <3> QED
      BY <3>1, QueueFacts
  <2>2. /\ DOMAIN tasks' = DOMAIN tasks /\ \A o \in DOMAIN tasks : o # id => tasks'[o] = tasks[o]
        /\ tasks'[id].stage = "publish"
    BY <1>4, <2>1, ApplyEffect
  <2> QED
    BY <1>a, <2>1, <2>2 DEF InferenceIsFresh
<1>5. ASSUME NEW id \in Ids, Publish(id)
      PROVE  InferenceIsFresh'
  <2>1. /\ DOMAIN tasks' = DOMAIN tasks /\ \A o \in DOMAIN tasks : o # id => tasks'[o] = tasks[o]
        /\ tasks'[id].stage = "publish"
    BY <1>5, PublishEffect
  <2>2. world' = world
    BY <1>5 DEF Publish
  <2> QED
    BY <2>1, <2>2 DEF InferenceIsFresh
<1>6. ASSUME NEW id \in Ids, Finish(id)
      PROVE  InferenceIsFresh'
  <2>1. DOMAIN tasks' = DOMAIN tasks \ {id} /\ \A o \in DOMAIN tasks' : tasks'[o] = tasks[o]
    BY <1>6, FinishEffect
  <2>2. world' = world
    BY <1>6 DEF Finish
  <2> QED
    BY <2>1, <2>2 DEF InferenceIsFresh
<1>7. CASE Client
  <2>1. PICK kind \in Kinds, d \in Docs, text \in Texts \cup {None} : Send(kind, d, text)
    BY <1>7, ClientSends
  <2> QED
    BY <1>1, <2>1 DEF Send
<1>8. CASE Receive \/ Acquire \/ UNCHANGED vars
  BY <1>1, <1>8 DEF Receive, Acquire, vars
<1> QED
  BY <1>2, <1>3, <1>4, <1>5, <1>6, <1>7, <1>8 DEF Next, Handler

-----------------------------------------------------------------------------
(* The edits in the queue. *)

\* An edit joins the end.
LEMMA EditSent ==
    ASSUME NEW E \in SUBSET Nat, NEW p, NEW q, NEW n \in Nat, \A id \in E : id < n,
           NEW d, NEW buffer, NEW open, NEW text,
           Continues(E, p, d, buffer, open, text),
           \A id \in E : q[id] = p[id],
           \A id \in E : p[id].kind # "close" => p[id].text # None,
           q[n].kind = "open" => buffer = None,
           q[n].kind # "open" => buffer # None
    PROVE  Continues(E \cup {n}, q, d, BufferAfter(q[n]), open, text)
<1> DEFINE F == E \cup {n}
<1>1. \A id \in F : (\A j \in F : j <= id) => BufferAfter(q[n]) = BufferAfter(q[id])
  <2> SUFFICES ASSUME NEW id \in F, \A j \in F : j <= id  PROVE id = n
    OBVIOUS
  <2> QED
    OBVIOUS
<1>2. \A id \in F : (\A j \in F : id <= j) => (q[id].kind = "open" <=> d \notin open)
  <2> SUFFICES ASSUME NEW id \in F, \A j \in F : id <= j  PROVE q[id].kind = "open" <=> d \notin open
    OBVIOUS
  <2>1. CASE id \in E
    BY <2>1 DEF Continues
  <2>2. CASE id = n
    <3>1. E = {}
      BY <2>2
    <3> QED
      BY <2>2, <3>1 DEF Continues
  <2> QED
    BY <2>1, <2>2
<1>3. \A i, j \in F : i < j /\ (\A k \in F : k <= i \/ j <= k) =>
          (q[j].kind = "open" <=> q[i].kind = "close")
  <2> SUFFICES ASSUME NEW i \in F, NEW j \in F, i < j, \A k \in F : k <= i \/ j <= k
               PROVE  q[j].kind = "open" <=> q[i].kind = "close"
    OBVIOUS
  <2>1. i \in E
    OBVIOUS
  <2>2. CASE j \in E
    BY <2>1, <2>2 DEF Continues
  <2>3. CASE j = n
    <3>1. \A k \in E : k <= i
      BY <2>3
    <3>2. buffer = BufferAfter(p[i])
      BY <2>1, <3>1 DEF Continues
    <3>3. buffer = None <=> p[i].kind = "close"
      BY <2>1, <3>2 DEF BufferAfter
    <3> QED
      BY <2>1, <2>3, <3>3
  <2> QED
    BY <2>2, <2>3
<1> QED
  BY <1>1, <1>2, <1>3 DEF Continues

\* The first edit is applied.
LEMMA EditApplied ==
    ASSUME NEW E \in SUBSET Nat, NEW p, NEW q, NEW n \in E, \A id \in E : n <= id,
           NEW d, NEW buffer, NEW open, NEW text, NEW openAfter, NEW textAfter,
           Continues(E, p, d, buffer, open, text),
           \A id \in E \ {n} : q[id] = p[id],
           p[n].kind \in {"open", "change", "close"},
           p[n].kind # "close" => p[n].text # None,
           p[n].kind = "open" => d \in openAfter /\ textAfter = p[n].text,
           p[n].kind = "change" /\ d \in open => d \in openAfter /\ textAfter = p[n].text,
           p[n].kind = "close" => d \notin openAfter
    PROVE  Continues(E \ {n}, q, d, buffer, openAfter, textAfter)
<1> DEFINE F == E \ {n}
<1>1. p[n].kind = "open" <=> d \notin open
  BY DEF Continues
<1>2. p[n].kind = "close" <=> d \notin openAfter
  BY <1>1
<1>3. F = {} => /\ d \in openAfter <=> buffer # None
                /\ d \in openAfter => textAfter = buffer
  <2> SUFFICES ASSUME F = {}
               PROVE  /\ d \in openAfter <=> buffer # None
                      /\ d \in openAfter => textAfter = buffer
    OBVIOUS
  <2>1. \A j \in E : j <= n
    OBVIOUS
  <2>2. buffer = BufferAfter(p[n])
    BY <2>1 DEF Continues
  <2> QED
    BY <1>1, <1>2, <2>2 DEF BufferAfter
<1>4. \A id \in F : (\A j \in F : j <= id) => buffer = BufferAfter(q[id])
  <2> SUFFICES ASSUME NEW id \in F, \A j \in F : j <= id  PROVE buffer = BufferAfter(q[id])
    OBVIOUS
  <2>1. \A j \in E : j <= id
    OBVIOUS
  <2>2. buffer = BufferAfter(p[id])
    BY <2>1 DEF Continues
  <2> QED
    BY <2>2
<1>5. \A id \in F : (\A j \in F : id <= j) => (q[id].kind = "open" <=> d \notin openAfter)
  <2> SUFFICES ASSUME NEW id \in F, \A j \in F : id <= j  PROVE q[id].kind = "open" <=> d \notin openAfter
    OBVIOUS
  <2>1. n < id /\ \A k \in E : k <= n \/ id <= k
    OBVIOUS
  <2>2. p[id].kind = "open" <=> p[n].kind = "close"
    BY <2>1 DEF Continues
  <2> QED
    BY <1>2, <2>2
<1>6. \A i, j \in F : i < j /\ (\A k \in F : k <= i \/ j <= k) =>
          (q[j].kind = "open" <=> q[i].kind = "close")
  <2> SUFFICES ASSUME NEW i \in F, NEW j \in F, i < j, \A k \in F : k <= i \/ j <= k
               PROVE  q[j].kind = "open" <=> q[i].kind = "close"
    OBVIOUS
  <2>1. \A k \in E : k <= i \/ j <= k
    OBVIOUS
  <2>2. p[j].kind = "open" <=> p[i].kind = "close"
    BY <2>1 DEF Continues
  <2> QED
    BY <2>2
<1> QED
  BY <1>3, <1>4, <1>5, <1>6 DEF Continues

\* Where the queue keeps each notification that is not applied yet.
LEMMA PendingPlaces ==
    ASSUME TypeOK, QueueInv, TaskInv
    PROVE  \A id \in Unapplied :
              /\ id \in Nat /\ Pending[id] \in Notifications
              /\ id <= Taken => id \in DOMAIN tasks /\ Pending[id] = tasks[id].message
              /\ id > Taken => /\ id \notin DOMAIN tasks /\ id - Taken \in DOMAIN inbox
                               /\ Pending[id] = inbox[id - Taken]
<1> SUFFICES ASSUME NEW id \in Unapplied
             PROVE  /\ id \in Nat /\ Pending[id] \in Notifications
                    /\ id <= Taken => id \in DOMAIN tasks /\ Pending[id] = tasks[id].message
                    /\ id > Taken => /\ id \notin DOMAIN tasks /\ id - Taken \in DOMAIN inbox
                                     /\ Pending[id] = inbox[id - Taken]
  OBVIOUS
<1>1. /\ Taken \in Nat /\ Granted \in Nat /\ sent \in Nat /\ world.generation \in Nat
      /\ DOMAIN inbox = 1 .. sent - Taken
      /\ holder # None => DOMAIN tasks = Granted .. Taken
      /\ holder = None => DOMAIN tasks = Granted + 1 .. Taken
      /\ \A o \in DOMAIN tasks : o <= Taken /\ tasks[o] \in Tasks
  BY QueueFacts
<1>2. id \in Int /\ world.generation + 1 <= id /\ id <= sent
  BY <1>1 DEF Unapplied
<1>3. holder # None => Granted <= world.generation + 1
  BY <1>1 DEF TaskInv
<1>4. holder = None => Granted = world.generation
  BY <1>1 DEF TaskInv
<1>5. Pending[id] = IF id \in DOMAIN tasks THEN tasks[id].message ELSE inbox[id - Taken]
  BY DEF Pending
<1>6. CASE id <= Taken
  <2>1. id \in DOMAIN tasks
    BY <1>1, <1>2, <1>3, <1>4, <1>6
  <2>2. tasks[id].message \in Notifications
    BY <1>1, <2>1, TaskFields
  <2> QED
    BY <1>1, <1>2, <1>5, <1>6, <2>1, <2>2
<1>7. CASE id > Taken
  <2>1. id \notin DOMAIN tasks /\ id - Taken \in DOMAIN inbox
    BY <1>1, <1>2, <1>7
  <2>2. inbox[id - Taken] \in Notifications
    BY <2>1 DEF TypeOK
  <2> QED
    BY <1>1, <1>2, <1>5, <1>7, <2>1, <2>2
<1> QED
  BY <1>1, <1>2, <1>6, <1>7

\* Every step but the client's sending and the holder's applying leaves the
\* notifications in the queue, and their order.
LEMMA PendingKept ==
    ASSUME TypeOK, QueueInv, TaskInv,
           \/ Receive \/ Dispatch \/ Acquire
           \/ \E id \in Ids : \/ \E disk \in Texts \cup {None} : Inspect(id, disk)
                              \/ Publish(id) \/ Finish(id)
    PROVE  Pending' = Pending /\ Unapplied' = Unapplied /\ UNCHANGED <<buffers, world>>
<1>1. UNCHANGED <<buffers, world, sent>>
  BY DEF Receive, Dispatch, Acquire, Inspect, Publish, Finish
<1>2. Unapplied' = Unapplied
  BY <1>1 DEF Unapplied
<1>3. ASSUME \A id \in Unapplied :
                (IF id \in DOMAIN tasks' THEN tasks'[id].message ELSE inbox'[id - Taken']) =
                (IF id \in DOMAIN tasks THEN tasks[id].message ELSE inbox[id - Taken])
      PROVE  Pending' = Pending
  BY <1>2, <1>3 DEF Pending
<1>4. CASE Receive \/ Acquire
  <2>1. UNCHANGED <<tasks, inbox>> /\ Taken' = Taken
    BY <1>1, <1>4 DEF Receive, Acquire, Taken
  <2> QED
    BY <1>1, <1>2, <1>3, <2>1
<1>5. CASE Dispatch
  <2> DEFINE m == Head(inbox)
  <2>1. /\ DOMAIN tasks' = DOMAIN tasks \cup {m.id} /\ tasks'[m.id].message = m
        /\ \A o \in DOMAIN tasks : o # m.id => tasks'[o] = tasks[o]
    BY <1>5, DispatchEffect
  <2>2. /\ inbox \in Seq(Notifications) /\ inbox # << >> /\ inbox' = Tail(inbox)
    BY <1>5 DEF Dispatch, TypeOK
  <2>3. /\ Len(inbox) \in Nat /\ DOMAIN inbox = 1 .. Len(inbox) /\ m = inbox[1]
        /\ 1 \in DOMAIN inbox /\ Len(inbox') = Len(inbox) - 1
        /\ \A i \in 1 .. Len(inbox) - 1 : inbox'[i] = inbox[i + 1]
    BY <2>2, TailAt
  <2>4. m.id = Taken + 1
    BY <2>3 DEF QueueInv
  <2>5. sent \in Nat /\ Taken \in Nat
    BY QueueFacts
  <2>6. Taken' = Taken + 1
    BY <1>1, <2>3, <2>5 DEF Taken
  <2> HIDE DEF m
  <2>7. ASSUME NEW id \in Unapplied
        PROVE  (IF id \in DOMAIN tasks' THEN tasks'[id].message ELSE inbox'[id - Taken']) =
               (IF id \in DOMAIN tasks THEN tasks[id].message ELSE inbox[id - Taken])
    <3>1. /\ id \in Nat
          /\ id <= Taken => id \in DOMAIN tasks
          /\ id > Taken => id \notin DOMAIN tasks /\ id - Taken \in DOMAIN inbox
      BY <2>7, PendingPlaces
    <3>2. CASE id <= Taken
      BY <2>1, <2>4, <2>5, <3>1, <3>2
    <3>3. CASE id = Taken + 1
      BY <2>1, <2>3, <2>4, <2>5, <3>1, <3>3
    <3>4. CASE id > Taken + 1
      <4>1. id \notin DOMAIN tasks' /\ id - Taken' \in 1 .. Len(inbox) - 1
            /\ id - Taken' + 1 = id - Taken
        BY <2>1, <2>3, <2>4, <2>5, <2>6, <3>1, <3>4
      <4>2. inbox'[id - Taken'] = inbox[id - Taken]
        BY <2>3, <4>1
      <4> QED
        BY <2>5, <3>1, <3>4, <4>1, <4>2
    <3> QED
      BY <2>5, <3>1, <3>2, <3>3, <3>4
  <2> QED
    BY <1>1, <1>2, <1>3, <2>7
<1>6. ASSUME DOMAIN tasks' = DOMAIN tasks, UNCHANGED inbox,
             \A o \in DOMAIN tasks : tasks'[o].message = tasks[o].message
      PROVE  Pending' = Pending
  <2>1. Taken' = Taken
    BY <1>1, <1>6 DEF Taken
  <2> QED
    BY <1>3, <1>6, <2>1
<1>7. CASE \E id \in Ids : \E disk \in Texts \cup {None} : Inspect(id, disk)
  <2>1. PICK id \in Ids, disk \in Texts \cup {None} : Inspect(id, disk)
    BY <1>7
  <2>2. /\ DOMAIN tasks' = DOMAIN tasks
        /\ \A o \in DOMAIN tasks : tasks'[o].message = tasks[o].message
    BY <2>1, InspectEffect
  <2>3. UNCHANGED inbox
    BY <2>1 DEF Inspect
  <2> QED
    BY <1>1, <1>2, <1>6, <2>2, <2>3
<1>8. CASE \E id \in Ids : Publish(id)
  <2>1. PICK id \in Ids : Publish(id)
    BY <1>8
  <2>2. /\ DOMAIN tasks' = DOMAIN tasks
        /\ \A o \in DOMAIN tasks : tasks'[o].message = tasks[o].message
    BY <2>1, PublishEffect
  <2>3. UNCHANGED inbox
    BY <2>1 DEF Publish
  <2> QED
    BY <1>1, <1>2, <1>6, <2>2, <2>3
<1>9. CASE \E id \in Ids : Finish(id)
  <2>1. PICK id \in Ids : Finish(id)
    BY <1>9
  <2>2. /\ id \in DOMAIN tasks /\ tasks[id].stage = "publish"
        /\ DOMAIN tasks' = DOMAIN tasks \ {id} /\ \A o \in DOMAIN tasks' : tasks'[o] = tasks[o]
    BY <2>1, FinishEffect
  <2>3. UNCHANGED inbox /\ Taken' = Taken
    BY <1>1, <2>1 DEF Finish, Taken
  <2>4. id = holder /\ world.generation = id
    <3>1. id = holder /\ (holder # None => holder = Granted) /\ holder \in Ids
      BY <2>1, <2>2, QueueFacts
    <3>2. holder # None
      BY <3>1, NoneAssumption DEF Ids
    <3> QED
      BY <2>2, <3>1, <3>2 DEF TaskInv
  <2>5. id \notin Unapplied
    BY <2>4, QueueFacts DEF Unapplied
  <2>6. \A o \in Unapplied : (o \in DOMAIN tasks' <=> o \in DOMAIN tasks)
    BY <2>2, <2>5
  <2> QED
    BY <1>1, <1>2, <1>3, <2>2, <2>3, <2>6
<1> QED
  BY <1>4, <1>5, <1>7, <1>8, <1>9

\* A notification that is sent comes last.
LEMMA PendingSent ==
    ASSUME TypeOK, QueueInv, TaskInv,
           NEW kind \in Kinds, NEW d \in Docs, NEW text \in Texts \cup {None}, Send(kind, d, text)
    PROVE  /\ sent + 1 \in Nat /\ Unapplied' = Unapplied \cup {sent + 1}
           /\ \A id \in Unapplied : id \in Nat /\ id < sent + 1 /\ Pending'[id] = Pending[id]
           /\ Pending'[sent + 1] = [id |-> sent + 1, kind |-> kind, doc |-> d, text |-> text]
<1>1. /\ sent' = sent + 1 /\ Len(inbox') = Len(inbox) + 1
      /\ \A i \in 1 .. Len(inbox) : inbox'[i] = inbox[i]
      /\ inbox'[Len(inbox) + 1] = [id |-> sent', kind |-> kind, doc |-> d, text |-> text]
      /\ UNCHANGED <<tasks, world>>
  BY SendEffect
<1>2. /\ sent \in Nat /\ Taken \in Nat /\ Len(inbox) \in Nat /\ world.generation \in Nat
      /\ Len(inbox) = sent - Taken /\ DOMAIN inbox = 1 .. Len(inbox)
      /\ \A id \in DOMAIN tasks : id \in Nat /\ id <= Taken
  BY QueueFacts
<1>3. world.generation <= sent
  BY QueueFacts DEF TaskInv
<1>4. Unapplied' = Unapplied \cup {sent + 1}
  BY <1>1, <1>2, <1>3 DEF Unapplied
<1>5. Taken' = Taken
  BY <1>1, <1>2 DEF Taken
<1>6. Pending' = [id \in Unapplied' |-> IF id \in DOMAIN tasks THEN tasks[id].message ELSE inbox'[id - Taken]]
  BY <1>1, <1>5 DEF Pending
<1>7. ASSUME NEW id \in Unapplied
      PROVE  id \in Nat /\ id < sent + 1 /\ Pending'[id] = Pending[id]
  <2>1. id \in Nat /\ id < sent + 1 /\ id \in Unapplied'
    BY <1>2, <1>4, <1>7 DEF Unapplied
  <2>2. id \in DOMAIN tasks \/ id - Taken \in 1 .. Len(inbox)
    BY <1>2, <2>1, PendingPlaces, <1>7
  <2> QED
    BY <1>1, <1>6, <1>7, <2>1, <2>2 DEF Pending
<1>8. Pending'[sent + 1] = inbox'[Len(inbox) + 1]
  <2>1. \A o \in Unapplied' :
            Pending'[o] = IF o \in DOMAIN tasks THEN tasks[o].message ELSE inbox'[o - Taken]
    BY <1>6
  <2> DEFINE n == sent + 1
  <2>2. n \in Unapplied' /\ n \notin DOMAIN tasks /\ n - Taken = Len(inbox) + 1
    BY <1>2, <1>4
  <2> HIDE DEF n
  <2>3. Pending'[n] = inbox'[Len(inbox) + 1]
    BY <2>1, <2>2
  <2> QED
    BY <2>3 DEF n
<1> QED
  BY <1>1, <1>2, <1>4, <1>7, <1>8

\* The first notification is the one that is applied.
LEMMA PendingApplied ==
    ASSUME TypeOK, QueueInv, TaskInv, NEW id \in Ids, Apply(id)
    PROVE  /\ id = world.generation + 1 /\ id \in Unapplied /\ id \in DOMAIN tasks
           /\ Pending[id] = tasks[id].message
           /\ world.generation < MaxMessages
           /\ Unapplied' = Unapplied \ {id} /\ \A o \in Unapplied : id <= o
           /\ \A o \in Unapplied' : Pending'[o] = Pending[o]
<1>1. id \in DOMAIN tasks /\ id = holder /\ tasks[id].stage # "publish"
  BY DEF Apply, MayRun
<1>2. id = world.generation + 1 /\ world.generation < MaxMessages /\ world.generation \in Nat
      /\ id <= Taken /\ Taken <= sent /\ sent \in Nat /\ Taken \in Nat
  BY <1>1, QueueFacts
<1>3. id \in Unapplied /\ \A o \in Unapplied : id <= o
  BY <1>2 DEF Unapplied
<1>4. Pending[id] = tasks[id].message
  BY <1>1, <1>3 DEF Pending
<1>5. /\ world'.generation = world.generation + 1 /\ DOMAIN tasks' = DOMAIN tasks
      /\ \A o \in DOMAIN tasks : o # id => tasks'[o] = tasks[o]
  BY <1>2, ApplyEffect
<1>6. UNCHANGED <<sent, inbox>> /\ Taken' = Taken
  BY DEF Apply, Taken
<1>7. Unapplied' = Unapplied \ {id}
  BY <1>2, <1>5, <1>6 DEF Unapplied
<1>8. Pending' = [o \in Unapplied' |-> IF o \in DOMAIN tasks' THEN tasks'[o].message ELSE inbox[o - Taken]]
  BY <1>6 DEF Pending
<1>9. ASSUME NEW o \in Unapplied'  PROVE Pending'[o] = Pending[o]
  BY <1>5, <1>7, <1>8, <1>9 DEF Pending
<1> QED
  BY <1>1, <1>2, <1>3, <1>4, <1>7, <1>9

\* What the client has is what the server will have once the queue is empty.
LEMMA BufferStep ==
    ASSUME TypeOK, QueueInv, TaskInv, BufferInv, [Next]_vars
    PROVE  BufferInv'
<1>a. /\ \A d \in world.open : world.texts[d] # None
      /\ \A id \in Unapplied : Pending[id].kind \in {"open", "change"} => Pending[id].text # None
      /\ \A d \in Docs :
            Continues(Edits(Pending, d), Pending, d, buffers[d], world.open, world.texts[d])
  BY DEF BufferInv
<1>b. DOMAIN Pending = Unapplied
  BY DEF Pending
<1>c. DOMAIN Pending' = Unapplied'
  BY DEF Pending
<1>1. ASSUME Pending' = Pending, Unapplied' = Unapplied, UNCHANGED <<buffers, world>>
      PROVE  BufferInv'
  <2>1. \A d \in Docs : Edits(Pending, d)' = Edits(Pending, d)
    BY <1>1 DEF Edits
  <2> QED
    BY <1>a, <1>1, <2>1 DEF BufferInv, Continues
<1>2. CASE Client
  <2>1. PICK kind \in Kinds, d \in Docs, text \in Texts \cup {None} :
            /\ Send(kind, d, text)
            /\ kind \in {"open", "change"} => text \in Texts
            /\ kind = "open" => buffers[d] = None
            /\ kind \in {"change", "close"} => buffers[d] # None
            /\ IF kind \in {"open", "change"} THEN buffers' = [buffers EXCEPT ![d] = text]
               ELSE IF kind = "close" THEN buffers' = [buffers EXCEPT ![d] = None]
               ELSE buffers' = buffers
    BY <1>2, ClientSends
  <2> DEFINE n == sent + 1
             m == [id |-> n, kind |-> kind, doc |-> d, text |-> text]
  <2>2. /\ n \in Nat /\ Unapplied' = Unapplied \cup {n}
        /\ \A id \in Unapplied : id \in Nat /\ id < n /\ Pending'[id] = Pending[id]
        /\ Pending'[n] = m
    BY <2>1, PendingSent
  <2>3. world' = world
    BY <2>1 DEF Send
  <2>4. m.kind = kind /\ m.doc = d /\ m.text = text
    OBVIOUS
  <2> HIDE DEF m, n
  <2>5. \A id \in Unapplied' : Pending'[id].kind \in {"open", "change"} => Pending'[id].text # None
    BY <1>a, <2>1, <2>2, <2>4, NoneAssumption
  <2>6. ASSUME NEW e \in Docs
        PROVE  Continues(Edits(Pending', e), Pending', e, buffers'[e], world'.open, world'.texts[e])
    <3> DEFINE E == Edits(Pending, e)
    <3>1. Continues(E, Pending, e, buffers[e], world.open, world.texts[e])
      BY <1>a, <2>6
    <3>2. /\ E \subseteq Unapplied /\ E \in SUBSET Nat /\ \A id \in E : id < n
          /\ \A id \in E : Pending'[id] = Pending[id]
          /\ \A id \in E : Pending[id].kind \in {"open", "change", "close"}
      BY <1>b, <2>2 DEF Edits
    <3>3. CASE e = d /\ kind \in {"open", "change", "close"}
      <4>1. Edits(Pending', e) = E \cup {n}
        BY <1>b, <1>c, <2>2, <2>4, <3>3 DEF Edits
      <4>2. \A id \in E : Pending[id].kind # "close" => Pending[id].text # None
        BY <1>a, <3>2
      <4>3. /\ Pending'[n].kind = "open" => buffers[e] = None
            /\ Pending'[n].kind # "open" => buffers[e] # None
        BY <2>1, <2>2, <2>4, <3>3
      <4>4. Continues(E \cup {n}, Pending', e, BufferAfter(Pending'[n]), world.open, world.texts[e])
        <5> HIDE DEF E
        <5> QED
          BY <2>2, <3>1, <3>2, <4>2, <4>3, EditSent
      <4>5. buffers'[e] = BufferAfter(Pending'[n])
        BY <2>1, <2>2, <2>4, <3>3 DEF BufferAfter, TypeOK, Snapshots
      <4> QED
        BY <2>3, <4>1, <4>4, <4>5
    <3>4. CASE ~(e = d /\ kind \in {"open", "change", "close"})
      <4>1. Edits(Pending', e) = E
        BY <1>b, <1>c, <2>2, <2>4, <3>4 DEF Edits
      <4>2. buffers'[e] = buffers[e]
        BY <2>1, <3>4 DEF TypeOK, Snapshots
      <4> QED
        BY <2>3, <3>1, <3>2, <4>1, <4>2 DEF Continues
    <3> QED
      BY <3>3, <3>4
  <2>7. \A e \in world'.open : world'.texts[e] # None
    BY <1>a, <2>3
  <2> QED
    BY <2>5, <2>6, <2>7 DEF BufferInv
<1>3. ASSUME NEW id \in Ids, Apply(id)
      PROVE  BufferInv'
  <2> DEFINE t == tasks[id]
             m == t.message
  <2>1. /\ id \in Unapplied /\ id \in DOMAIN tasks /\ Pending[id] = m
        /\ world.generation < MaxMessages
        /\ Unapplied' = Unapplied \ {id} /\ \A o \in Unapplied : id <= o
        /\ \A o \in Unapplied' : Pending'[o] = Pending[o]
    BY <1>3, PendingApplied
  <2>2. world'.texts = Updated(t).texts /\ world'.open = Updated(t).open /\ t \in Tasks /\ world \in Worlds
    BY <1>3, <2>1, ApplyEffect DEF TypeOK, Worlds
  <2>3. /\ Updated(t).open =
              IF m.kind = "open" THEN world.open \cup {m.doc}
              ELSE IF m.kind = "close" THEN world.open \ {m.doc} ELSE world.open
        /\ \A e \in world.open : (e # m.doc \/ m.kind \notin {"open", "change", "close"}) =>
              Updated(t).texts[e] = world.texts[e]
        /\ m.kind = "open" => Updated(t).texts[m.doc] = m.text
        /\ m.kind = "change" /\ m.doc \in world.open => Updated(t).texts[m.doc] = m.text
    BY <2>2, UpdatedType
  <2>4. m \in Notifications /\ m.doc \in Docs
    BY <2>2, TaskFields
  <2>5. \A o \in Unapplied : o \in Nat
    BY PendingPlaces
  <2>6. buffers' = buffers
    BY <1>3 DEF Apply
  <2>7. m.kind \in {"open", "change"} => m.text # None
    BY <1>a, <2>1
  <2> HIDE DEF t, m
  <2>8. /\ world'.open = IF m.kind = "open" THEN world.open \cup {m.doc}
                         ELSE IF m.kind = "close" THEN world.open \ {m.doc} ELSE world.open
        /\ \A e \in world.open : (e # m.doc \/ m.kind \notin {"open", "change", "close"}) =>
              world'.texts[e] = world.texts[e]
        /\ m.kind = "open" => world'.texts[m.doc] = m.text
        /\ m.kind = "change" /\ m.doc \in world.open => world'.texts[m.doc] = m.text
    BY <2>2, <2>3
  <2>9. \A e \in world'.open : world'.texts[e] # None
    BY <1>a, <2>7, <2>8
  <2>10. \A o \in Unapplied' : Pending'[o].kind \in {"open", "change"} => Pending'[o].text # None
    BY <1>a, <2>1
  <2>11. ASSUME NEW e \in Docs
         PROVE  Continues(Edits(Pending', e), Pending', e, buffers'[e], world'.open, world'.texts[e])
    <3> DEFINE E == Edits(Pending, e)
    <3>1. Continues(E, Pending, e, buffers[e], world.open, world.texts[e])
      BY <1>a, <2>11
    <3>2. /\ E \in SUBSET Nat /\ \A o \in E : o \in Unapplied /\ id <= o
          /\ \A o \in E : Pending[o].kind \in {"open", "change", "close"}
      BY <1>b, <2>1, <2>5 DEF Edits
    <3>3. Edits(Pending', e) = E \ {id}
      BY <1>b, <1>c, <2>1 DEF Edits
    <3>4. \A o \in E \ {id} : Pending'[o] = Pending[o]
      BY <2>1, <3>2
    <3>5. CASE id \in E
      <4>1. m.doc = e /\ m.kind \in {"open", "change", "close"}
        BY <2>1, <3>5 DEF Edits
      <4>2. /\ Pending[id].kind = "open" => e \in world'.open /\ world'.texts[e] = Pending[id].text
            /\ Pending[id].kind = "change" /\ e \in world.open =>
                  e \in world'.open /\ world'.texts[e] = Pending[id].text
            /\ Pending[id].kind = "close" => e \notin world'.open
            /\ Pending[id].kind # "close" => Pending[id].text # None
            /\ Pending[id].kind \in {"open", "change", "close"}
        BY <2>1, <2>7, <2>8, <4>1
      <4> HIDE DEF E
      <4>3. Continues(E \ {id}, Pending', e, buffers[e], world'.open, world'.texts[e])
        <5> DEFINE p == Pending
                   q == Pending'
                   openAfter == world'.open
                   textAfter == world'.texts[e]
        <5>1. /\ E \in SUBSET Nat /\ id \in E /\ \A o \in E : id <= o
              /\ Continues(E, p, e, buffers[e], world.open, world.texts[e])
              /\ \A o \in E \ {id} : q[o] = p[o]
          BY <3>1, <3>2, <3>4, <3>5
        <5>2. /\ p[id].kind = "open" => e \in openAfter /\ textAfter = p[id].text
              /\ p[id].kind = "change" /\ e \in world.open => e \in openAfter /\ textAfter = p[id].text
              /\ p[id].kind = "close" => e \notin openAfter
              /\ p[id].kind # "close" => p[id].text # None
              /\ p[id].kind \in {"open", "change", "close"}
          BY <4>2
        <5> HIDE DEF p, q, openAfter, textAfter
        <5>3. Continues(E \ {id}, q, e, buffers[e], openAfter, textAfter)
          BY <5>1, <5>2, EditApplied
        <5> QED
          BY <5>3 DEF q, openAfter, textAfter
      <4> QED
        BY <2>6, <3>3, <4>3
    <3>6. CASE id \notin E
      <4>1. ~(m.doc = e /\ m.kind \in {"open", "change", "close"})
        BY <1>b, <2>1, <3>6 DEF Edits
      <4>2. /\ e \in world'.open <=> e \in world.open
            /\ e \in world.open => world'.texts[e] = world.texts[e]
        BY <2>8, <4>1
      <4>3. Edits(Pending', e) = E
        BY <3>3, <3>6
      <4> HIDE DEF E
      <4> QED
        BY <2>6, <3>1, <3>4, <3>6, <4>2, <4>3 DEF Continues
    <3> QED
      BY <3>5, <3>6
  <2> QED
    BY <2>9, <2>10, <2>11 DEF BufferInv
<1>4. CASE \/ Receive \/ Dispatch \/ Acquire
           \/ \E id \in Ids : \/ \E disk \in Texts \cup {None} : Inspect(id, disk)
                              \/ Publish(id) \/ Finish(id)
  BY <1>1, <1>4, PendingKept
<1>5. CASE UNCHANGED vars
  BY <1>1, <1>5 DEF vars, Pending, Unapplied, Taken
<1> QED
  BY <1>2, <1>3, <1>4, <1>5 DEF Next, Handler

-----------------------------------------------------------------------------
(* The diagnostics on their way. *)

\* Sending, taking, granting, inspecting and finishing leave what is on its way.
LEMMA NothingMoves ==
    ASSUME UNCHANGED <<world, outbox, shown>>,
           \A id \in DOMAIN tasks' : tasks'[id].stage = "publish" =>
              /\ id \in DOMAIN tasks /\ tasks[id].stage = "publish"
              /\ tasks'[id].batch = tasks[id].batch,
           \A id \in DOMAIN tasks : tasks[id].stage = "publish" /\ tasks[id].batch # << >> =>
              /\ id \in DOMAIN tasks' /\ tasks'[id].stage = "publish"
              /\ tasks'[id].batch = tasks[id].batch
    PROVE  /\ ShownInv => ShownInv'
           /\ OrderInv => OrderInv'
<1>1. ASSUME NEW d \in Docs, InBatch(d)  PROVE InBatch(d)'
  <2>1. PICK id \in DOMAIN tasks : /\ tasks[id].stage = "publish"
                                   /\ \E i \in DOMAIN tasks[id].batch : tasks[id].batch[i].doc = d
    BY <1>1 DEF InBatch
  <2>2. tasks[id].batch # << >>
    BY <2>1
  <2> QED
    BY <2>1, <2>2 DEF InBatch
<1>2. ASSUME ShownInv  PROVE ShownInv'
  BY <1>1, <1>2 DEF ShownInv, Expected
<1>3. ASSUME OrderInv  PROVE OrderInv'
  BY <1>3 DEF OrderInv
<1> QED
  BY <1>2, <1>3

\* The steps NothingMoves is about.
LEMMA QuietSteps ==
    ASSUME TypeOK, QueueInv, TaskInv,
           \/ Client \/ Dispatch \/ Acquire \/ UNCHANGED vars
           \/ \E id \in Ids : \/ \E disk \in Texts \cup {None} : Inspect(id, disk)
                              \/ Finish(id)
    PROVE  /\ ShownInv => ShownInv'
           /\ OrderInv => OrderInv'
<1>1. ASSUME UNCHANGED <<world, outbox, shown, tasks>>
      PROVE  (ShownInv => ShownInv') /\ (OrderInv => OrderInv')
  BY <1>1, NothingMoves
<1>2. CASE Client
  <2>1. PICK kind \in Kinds, d \in Docs, text \in Texts \cup {None} : Send(kind, d, text)
    BY <1>2, ClientSends
  <2> QED
    BY <1>1, <2>1 DEF Send
<1>3. CASE Acquire \/ UNCHANGED vars
  BY <1>1, <1>3 DEF Acquire, vars
<1>4. CASE Dispatch
  <2> DEFINE m == Head(inbox)
  <2>1. /\ DOMAIN tasks' = DOMAIN tasks \cup {m.id}
        /\ \A o \in DOMAIN tasks : o # m.id => tasks'[o] = tasks[o]
        /\ tasks'[m.id].stage # "publish"
    BY <1>4, DispatchEffect
  <2>2. m.id \notin DOMAIN tasks
    <3>1. 1 \in DOMAIN inbox /\ m = inbox[1]
      BY <1>4, TailAt DEF Dispatch, TypeOK
    <3>2. m.id = Taken + 1
      BY <3>1 DEF QueueInv
    <3>3. Taken \in Nat /\ \A id \in DOMAIN tasks : id \in Nat /\ id <= Taken
      BY QueueFacts
    <3> QED
      BY <3>2, <3>3
  <2>3. UNCHANGED <<world, outbox, shown>>
    BY <1>4 DEF Dispatch
  <2> HIDE DEF m
  <2> QED
    BY <2>1, <2>2, <2>3, NothingMoves
<1>5. ASSUME NEW id \in Ids, NEW disk \in Texts \cup {None}, Inspect(id, disk)
      PROVE  (ShownInv => ShownInv') /\ (OrderInv => OrderInv')
  <2>1. /\ id \in DOMAIN tasks /\ tasks[id].stage = "inspect" /\ DOMAIN tasks' = DOMAIN tasks
        /\ \A o \in DOMAIN tasks : o # id => tasks'[o] = tasks[o]
        /\ tasks'[id].stage = "apply"
    BY <1>5, InspectEffect
  <2>2. UNCHANGED <<world, outbox, shown>>
    BY <1>5 DEF Inspect
  <2> QED
    BY <2>1, <2>2, NothingMoves
<1>6. ASSUME NEW id \in Ids, Finish(id)
      PROVE  (ShownInv => ShownInv') /\ (OrderInv => OrderInv')
  <2>1. /\ id \in DOMAIN tasks /\ tasks[id].batch = << >>
        /\ DOMAIN tasks' = DOMAIN tasks \ {id} /\ \A o \in DOMAIN tasks' : tasks'[o] = tasks[o]
    BY <1>6, FinishEffect
  <2>2. UNCHANGED <<world, outbox, shown>>
    BY <1>6 DEF Finish
  <2> QED
    BY <2>1, <2>2, NothingMoves
<1> QED
  BY <1>2, <1>3, <1>4, <1>5, <1>6

\* The update by a handler: all that was sent before is on its way or shown,
\* and a document that gets no new list needs none.
LEMMA ApplyShown ==
    ASSUME TypeOK, QueueInv, TaskInv, NEW id \in Ids, Apply(id)
    PROVE  /\ ShownInv => ShownInv'
           /\ OrderInv => OrderInv'
<1> DEFINE t == tasks[id]
           batch == Batch(world', t)
<1>1. id \in DOMAIN tasks /\ id = holder /\ tasks[id].stage = "apply"
  BY DEF Apply, MayRun
<1>2. world.generation < MaxMessages /\ world.generation \in Nat
  BY <1>1, QueueFacts
<1>3. /\ t \in Tasks /\ world \in Worlds /\ Updated(t) \in Worlds
      /\ world' \in Worlds /\ world'.texts = Updated(t).texts /\ world'.open = Updated(t).open
      /\ world'.generation = world.generation + 1
      /\ DOMAIN tasks' = DOMAIN tasks /\ \A o \in DOMAIN tasks : o # id => tasks'[o] = tasks[o]
      /\ tasks'[id].stage = "publish" /\ tasks'[id].batch = batch
  BY <1>2, ApplyEffect DEF TypeOK, Worlds
<1>4. /\ \A i \in DOMAIN batch :
            /\ batch[i].generation = world'.generation
            /\ batch[i].of = IF batch[i].doc \in world'.open THEN world'.texts ELSE None
      /\ \A d \in Docs : (\A i \in DOMAIN batch : batch[i].doc # d) =>
            (IF d \in world'.open THEN world'.texts ELSE None) =
            (IF d \in world.open THEN world.texts ELSE None)
  BY <1>3, BatchType
<1>5. UNCHANGED <<outbox, shown>>
  BY DEF Apply
<1>6. \A o \in DOMAIN tasks : tasks[o].stage # "publish"
  BY <1>1, QueueFacts
<1> HIDE DEF t, batch
<1>7. \A o \in DOMAIN tasks' : tasks'[o].stage = "publish" => o = id
  BY <1>3, <1>6
<1>8. ASSUME ShownInv  PROVE ShownInv'
  <2>1. \A d \in Docs : ~InBatch(d)
    BY <1>6 DEF InBatch
  <2>2. \A o \in DOMAIN tasks' : tasks'[o].stage = "publish" =>
            \A i \in DOMAIN tasks'[o].batch :
                tasks'[o].batch[i].of =
                    IF tasks'[o].batch[i].doc \in world'.open THEN world'.texts ELSE None
    BY <1>3, <1>4, <1>7
  <2>3. \A d \in Docs : ~InBatch(d)' => Expected(d)' = Expected(d)
    <3> SUFFICES ASSUME NEW d \in Docs, ~InBatch(d)'  PROVE Expected(d)' = Expected(d)
      OBVIOUS
    <3>1. \A i \in DOMAIN batch : batch[i].doc # d
      BY <1>1, <1>3 DEF InBatch
    <3> QED
      BY <1>4, <3>1 DEF Expected
  <2>4. ASSUME NEW d \in Docs, ~InBatch(d)'
        PROVE  /\ (\A i \in DOMAIN outbox' : outbox'[i].doc # d) => shown'[d].of = Expected(d)'
               /\ \A i \in DOMAIN outbox' :
                     outbox'[i].doc = d /\ (\A j \in DOMAIN outbox' : j > i => outbox'[j].doc # d) =>
                         outbox'[i].of = Expected(d)'
    <3>1. Expected(d)' = Expected(d)
      BY <2>3, <2>4
    <3>2. /\ (\A i \in DOMAIN outbox : outbox[i].doc # d) => shown[d].of = Expected(d)
          /\ \A i \in DOMAIN outbox :
                outbox[i].doc = d /\ (\A j \in DOMAIN outbox : j > i => outbox[j].doc # d) =>
                    outbox[i].of = Expected(d)
      BY <1>8, <2>1, <2>4 DEF ShownInv
    <3> QED
      BY <1>5, <3>1, <3>2
  <2> QED
    BY <2>2, <2>4 DEF ShownInv, Expected
<1>9. ASSUME OrderInv  PROVE OrderInv'
  <2>1. \A o \in DOMAIN tasks' : tasks'[o].stage = "publish" =>
            \A i \in DOMAIN tasks'[o].batch : tasks'[o].batch[i].generation = world'.generation
    BY <1>3, <1>4, <1>7
  <2>2. /\ \A d \in Docs : shown'[d].generation <= world'.generation
        /\ \A i \in DOMAIN outbox' : outbox'[i].generation <= world'.generation
    <3>1. \A d \in Docs : shown[d].generation \in 0 .. MaxMessages
      BY DEF TypeOK
    <3>2. \A i \in DOMAIN outbox : outbox[i].generation \in 0 .. MaxMessages
      <4>1. \A i \in DOMAIN outbox : outbox[i] \in Publications
        BY DEF TypeOK
      <4> QED
        BY <4>1 DEF Publications
    <3> QED
      BY <1>2, <1>3, <1>5, <1>9, <3>1, <3>2 DEF OrderInv
  <2> QED
    BY <1>5, <1>9, <2>1, <2>2 DEF OrderInv
<1> QED
  BY <1>8, <1>9

\* The next list of a handler goes to the end of the channel.
LEMMA PublishShown ==
    ASSUME TypeOK, QueueInv, TaskInv, NEW id \in Ids, Publish(id)
    PROVE  /\ ShownInv => ShownInv'
           /\ OrderInv => OrderInv'
<1> DEFINE batch == tasks[id].batch
           p == Head(batch)
           n == Len(outbox)
<1>1. /\ id \in DOMAIN tasks /\ tasks[id].stage = "publish" /\ tasks[id] \in Tasks
      /\ batch # << >> /\ DOMAIN tasks' = DOMAIN tasks
      /\ \A o \in DOMAIN tasks : o # id => tasks'[o] = tasks[o]
      /\ tasks'[id].stage = "publish" /\ tasks'[id].batch = Tail(batch)
  BY PublishEffect
<1>2. batch \in Seq(Publications) /\ outbox \in Seq(Publications)
  BY <1>1, TaskFields DEF TypeOK
<1>3. /\ DOMAIN batch = 1 .. Len(batch) /\ Len(batch) \in Nat /\ 1 \in DOMAIN batch
      /\ p = batch[1] /\ p \in Publications
      /\ DOMAIN Tail(batch) = 1 .. Len(batch) - 1
      /\ \A i \in 1 .. Len(batch) - 1 : Tail(batch)[i] = batch[i + 1]
  BY <1>1, <1>2, TailAt
<1>4. outbox' = Append(outbox, p) /\ UNCHANGED <<world, shown>>
  BY DEF Publish
<1>5. /\ n \in Nat /\ DOMAIN outbox = 1 .. n /\ DOMAIN outbox' = 1 .. n + 1
      /\ \A i \in 1 .. n : outbox'[i] = outbox[i]
      /\ outbox'[n + 1] = p
  BY <1>2, <1>3, <1>4, AppendAt
<1>6. \A o \in DOMAIN tasks : tasks[o].stage = "publish" => o = id
  BY <1>1, QueueFacts
<1> HIDE DEF batch, p, n
<1>7. \A i \in DOMAIN Tail(batch) : i + 1 \in DOMAIN batch /\ Tail(batch)[i] = batch[i + 1]
  BY <1>3
<1>8. \A o \in DOMAIN tasks' : tasks'[o].stage = "publish" => o = id
  BY <1>1, <1>6
<1>9. ASSUME ShownInv  PROVE ShownInv'
  <2>1. \A i \in DOMAIN batch : batch[i].of = Expected(batch[i].doc)
    BY <1>1, <1>9 DEF ShownInv, batch
  <2>2. \A o \in DOMAIN tasks' : tasks'[o].stage = "publish" =>
            \A i \in DOMAIN tasks'[o].batch :
                tasks'[o].batch[i].of =
                    IF tasks'[o].batch[i].doc \in world'.open THEN world'.texts ELSE None
    BY <1>1, <1>4, <1>7, <1>8, <2>1 DEF Expected
  <2>3. ASSUME NEW d \in Docs, ~InBatch(d)'
        PROVE  /\ (\A i \in DOMAIN outbox' : outbox'[i].doc # d) => shown'[d].of = Expected(d)
               /\ \A i \in DOMAIN outbox' :
                     outbox'[i].doc = d /\ (\A j \in DOMAIN outbox' : j > i => outbox'[j].doc # d) =>
                         outbox'[i].of = Expected(d)
    <3>1. CASE p.doc = d
      <4>1. ASSUME NEW i \in DOMAIN outbox', \A j \in DOMAIN outbox' : j > i => outbox'[j].doc # d
            PROVE  i = n + 1
        BY <1>5, <3>1, <4>1
      <4>2. p.of = Expected(d)
        BY <1>3, <2>1, <3>1
      <4>3. n + 1 \in DOMAIN outbox'
        BY <1>5
      <4> QED
        BY <1>5, <3>1, <4>1, <4>2, <4>3
    <3>2. CASE p.doc # d
      <4>1. \A i \in DOMAIN Tail(batch) : Tail(batch)[i].doc # d
        BY <1>1, <2>3 DEF InBatch
      <4>2. \A i \in DOMAIN batch : batch[i].doc # d
        <5> SUFFICES ASSUME NEW i \in DOMAIN batch  PROVE batch[i].doc # d
          OBVIOUS
        <5>1. CASE i = 1
          BY <1>3, <3>2, <5>1
        <5>2. CASE i # 1
          <6>1. i - 1 \in DOMAIN Tail(batch) /\ i - 1 + 1 = i /\ i - 1 \in 1 .. Len(batch) - 1
            BY <1>3, <5>2
          <6>2. Tail(batch)[i - 1] = batch[i]
            BY <1>3, <6>1
          <6> QED
            BY <4>1, <6>1, <6>2
        <5> QED
          BY <5>1, <5>2
      <4>3. ~InBatch(d)
        BY <1>6, <4>2 DEF InBatch, batch
      <4>4. /\ (\A i \in DOMAIN outbox : outbox[i].doc # d) => shown[d].of = Expected(d)
            /\ \A i \in DOMAIN outbox :
                  outbox[i].doc = d /\ (\A j \in DOMAIN outbox : j > i => outbox[j].doc # d) =>
                      outbox[i].of = Expected(d)
        BY <1>9, <4>3 DEF ShownInv
      <4>5. (\A i \in DOMAIN outbox' : outbox'[i].doc # d) => shown'[d].of = Expected(d)
        BY <1>4, <1>5, <4>4
      <4>6. ASSUME NEW i \in DOMAIN outbox', outbox'[i].doc = d,
                   \A j \in DOMAIN outbox' : j > i => outbox'[j].doc # d
            PROVE  outbox'[i].of = Expected(d)
        <5>1. i \in DOMAIN outbox /\ outbox[i].doc = d
          BY <1>5, <3>2, <4>6
        <5>2. \A j \in DOMAIN outbox : j > i => outbox[j].doc # d
          BY <1>5, <4>6
        <5> QED
          BY <1>5, <4>4, <5>1, <5>2
      <4> QED
        BY <4>5, <4>6
    <3> QED
      BY <3>1, <3>2
  <2>4. \A d : Expected(d)' = Expected(d)
    BY <1>4 DEF Expected
  <2> QED
    BY <1>4, <2>2, <2>3, <2>4 DEF ShownInv, Expected
<1>10. ASSUME OrderInv  PROVE OrderInv'
  <2>1. \A i \in DOMAIN batch : batch[i].generation = world.generation
    BY <1>1, <1>10 DEF OrderInv, batch
  <2>2. \A o \in DOMAIN tasks' : tasks'[o].stage = "publish" =>
            \A i \in DOMAIN tasks'[o].batch : tasks'[o].batch[i].generation = world'.generation
    BY <1>1, <1>4, <1>7, <1>8, <2>1
  <2>3. p.generation = world.generation /\ world.generation \in Nat
    BY <1>3, <2>1, QueueFacts
  <2>4. \A i \in DOMAIN outbox' : outbox'[i].generation <= world'.generation
    BY <1>4, <1>5, <1>10, <2>3 DEF OrderInv
  <2>5. \A i, j \in DOMAIN outbox' : i <= j => outbox'[i].generation <= outbox'[j].generation
    <3> SUFFICES ASSUME NEW i \in DOMAIN outbox', NEW j \in DOMAIN outbox', i <= j
                 PROVE  outbox'[i].generation <= outbox'[j].generation
      OBVIOUS
    <3>1. CASE j = n + 1
      BY <1>4, <1>5, <2>3, <2>4, <3>1
    <3>2. CASE j # n + 1
      <4>1. i \in DOMAIN outbox /\ j \in DOMAIN outbox /\ outbox'[i] = outbox[i] /\ outbox'[j] = outbox[j]
        BY <1>5, <3>2
      <4> QED
        BY <1>10, <4>1 DEF OrderInv
    <3> QED
      BY <3>1, <3>2
  <2>6. \A d \in Docs : \A i \in DOMAIN outbox' : shown'[d].generation <= outbox'[i].generation
    <3> SUFFICES ASSUME NEW d \in Docs, NEW i \in DOMAIN outbox'
                 PROVE  shown[d].generation <= outbox'[i].generation
      BY <1>4
    <3>1. CASE i = n + 1
      BY <1>5, <1>10, <2>3, <3>1 DEF OrderInv
    <3>2. CASE i # n + 1
      BY <1>5, <1>10, <3>2 DEF OrderInv
    <3> QED
      BY <3>1, <3>2
  <2>7. \A d \in Docs : shown'[d].generation <= world'.generation
    BY <1>4, <1>10 DEF OrderInv
  <2> QED
    BY <2>2, <2>4, <2>5, <2>6, <2>7 DEF OrderInv
<1> QED
  BY <1>9, <1>10

\* The client reads the first publication.
LEMMA ReceiveShown ==
    ASSUME TypeOK, Receive
    PROVE  /\ ShownInv => ShownInv'
           /\ OrderInv => OrderInv' /\ \A d \in Docs : shown[d].generation <= shown'[d].generation
<1> DEFINE p == Head(outbox)
           n == Len(outbox)
<1>1. outbox \in Seq(Publications) /\ outbox # << >> /\ outbox' = Tail(outbox)
  BY DEF Receive, TypeOK
<1>2. /\ n \in Nat /\ DOMAIN outbox = 1 .. n /\ 1 \in DOMAIN outbox
      /\ p = outbox[1] /\ p \in Publications
      /\ DOMAIN outbox' = 1 .. n - 1
      /\ \A i \in 1 .. n - 1 : outbox'[i] = outbox[i + 1]
  BY <1>1, TailAt
<1>3. UNCHANGED <<tasks, world>>
  BY DEF Receive
<1>4. /\ shown'[p.doc] = [of |-> p.of, generation |-> p.generation]
      /\ \A d \in Docs : d # p.doc => shown'[d] = shown[d]
  <2>1. shown' = [shown EXCEPT ![p.doc] = [of |-> p.of, generation |-> p.generation]]
    BY DEF Receive
  <2>2. p.doc \in Docs /\ DOMAIN shown = Docs
    BY <1>2 DEF TypeOK, Publications
  <2> QED
    BY <2>1, <2>2
<1>5. shown'[p.doc].of = p.of /\ shown'[p.doc].generation = p.generation
  BY <1>4
<1> HIDE DEF p, n
<1>6. \A i \in DOMAIN outbox' : i + 1 \in DOMAIN outbox /\ outbox'[i] = outbox[i + 1] /\ i \in Nat
  BY <1>2
<1>7. \A i \in DOMAIN outbox : i # 1 => i - 1 \in DOMAIN outbox' /\ outbox'[i - 1] = outbox[i]
  <2> SUFFICES ASSUME NEW i \in DOMAIN outbox, i # 1
               PROVE  i - 1 \in DOMAIN outbox' /\ outbox'[i - 1] = outbox[i]
    OBVIOUS
  <2>1. i - 1 \in 1 .. n - 1 /\ i - 1 + 1 = i
    BY <1>2
  <2> QED
    BY <1>2, <2>1
<1>8. ASSUME ShownInv  PROVE ShownInv'
  <2>1. ASSUME NEW d \in Docs, ~InBatch(d)
        PROVE  /\ (\A i \in DOMAIN outbox' : outbox'[i].doc # d) => shown'[d].of = Expected(d)
               /\ \A i \in DOMAIN outbox' :
                     outbox'[i].doc = d /\ (\A j \in DOMAIN outbox' : j > i => outbox'[j].doc # d) =>
                         outbox'[i].of = Expected(d)
    <3>1. /\ (\A i \in DOMAIN outbox : outbox[i].doc # d) => shown[d].of = Expected(d)
          /\ \A i \in DOMAIN outbox :
                outbox[i].doc = d /\ (\A j \in DOMAIN outbox : j > i => outbox[j].doc # d) =>
                    outbox[i].of = Expected(d)
      BY <1>8, <2>1 DEF ShownInv
    <3>2. ASSUME \A i \in DOMAIN outbox' : outbox'[i].doc # d
          PROVE  shown'[d].of = Expected(d)
      <4>1. \A i \in DOMAIN outbox : i # 1 => outbox[i].doc # d
        BY <1>7, <3>2
      <4>2. CASE p.doc = d
        <5>1. \A j \in DOMAIN outbox : j > 1 => outbox[j].doc # d
          BY <1>2, <4>1
        <5> QED
          BY <1>2, <1>5, <3>1, <4>2, <5>1
      <4>3. CASE p.doc # d
        BY <1>2, <1>4, <3>1, <4>1, <4>3
      <4> QED
        BY <4>2, <4>3
    <3>3. ASSUME NEW i \in DOMAIN outbox', outbox'[i].doc = d,
                 \A j \in DOMAIN outbox' : j > i => outbox'[j].doc # d
          PROVE  outbox'[i].of = Expected(d)
      <4>1. i + 1 \in DOMAIN outbox /\ outbox'[i] = outbox[i + 1] /\ i \in Nat
        BY <1>6, <3>3
      <4>2. ASSUME NEW j \in DOMAIN outbox, j > i + 1  PROVE outbox[j].doc # d
        <5>1. j # 1 /\ j - 1 > i
          BY <1>2, <4>1, <4>2
        <5>2. j - 1 \in DOMAIN outbox' /\ outbox'[j - 1] = outbox[j]
          BY <1>7, <4>2, <5>1
        <5> QED
          BY <3>3, <5>1, <5>2
      <4> QED
        BY <3>1, <3>3, <4>1, <4>2
    <3> QED
      BY <3>2, <3>3
  <2>2. \A d \in Docs : InBatch(d)' <=> InBatch(d)
    BY <1>3 DEF InBatch
  <2> QED
    BY <1>3, <1>8, <2>1, <2>2 DEF ShownInv, Expected
<1>9. ASSUME OrderInv
      PROVE  OrderInv' /\ \A d \in Docs : shown[d].generation <= shown'[d].generation
  <2>1. \A d \in Docs : shown[d].generation <= p.generation /\ shown[d].generation \in Nat
    BY <1>2, <1>9 DEF OrderInv, TypeOK
  <2>2. p.generation <= world.generation
    BY <1>2, <1>9 DEF OrderInv
  <2>3. \A i \in DOMAIN outbox' : /\ outbox'[i].generation <= world'.generation
                                  /\ p.generation <= outbox'[i].generation
    BY <1>2, <1>3, <1>6, <1>9 DEF OrderInv
  <2>4. \A i, j \in DOMAIN outbox' : i <= j => outbox'[i].generation <= outbox'[j].generation
    BY <1>6, <1>9 DEF OrderInv
  <2>5. \A d \in Docs : /\ shown[d].generation <= shown'[d].generation
                        /\ shown'[d].generation <= world'.generation
                        /\ \A i \in DOMAIN outbox' : shown'[d].generation <= outbox'[i].generation
    <3> SUFFICES ASSUME NEW d \in Docs
                 PROVE  /\ shown[d].generation <= shown'[d].generation
                        /\ shown'[d].generation <= world'.generation
                        /\ \A i \in DOMAIN outbox' : shown'[d].generation <= outbox'[i].generation
      OBVIOUS
    <3>1. CASE d = p.doc
      BY <1>3, <1>5, <2>1, <2>2, <2>3, <3>1
    <3>2. CASE d # p.doc
      BY <1>3, <1>4, <1>6, <1>9, <2>1, <3>2 DEF OrderInv
    <3> QED
      BY <3>1, <3>2
  <2> QED
    BY <1>3, <1>9, <2>3, <2>4, <2>5 DEF OrderInv
<1> QED
  BY <1>8, <1>9

-----------------------------------------------------------------------------
(* The invariant. *)

LEMMA InvInit == Init => Inv
<1> SUFFICES ASSUME Init  PROVE Inv
  OBVIOUS
<1>1. /\ buffers = [d \in Docs |-> None] /\ sent = 0 /\ inbox = << >> /\ tasks = << >>
      /\ waiting = << >> /\ holder = None /\ outbox = << >>
      /\ shown = [d \in Docs |-> [of |-> None, generation |-> 0]]
      /\ world.texts = [d \in Docs |-> None] /\ world.open = {} /\ world.generation = 0
      /\ world.rooted \in BOOLEAN
      /\ world \in [texts : {[d \in Docs |-> None]}, open : {{}}, rooted : BOOLEAN, generation : {0}]
  BY DEF Init
<1>2. MaxMessages \in Nat /\ OutboxSize \in Nat \ {0}
  BY BackendBounds
<1>3. [d \in Docs |-> None] \in Snapshots /\ 0 \in 0 .. MaxMessages
  BY <1>2 DEF Snapshots
<1>4. world \in Worlds
  BY <1>1, <1>3 DEF Worlds
<1>5. DOMAIN tasks = {}
  BY <1>1
<1>6. Taken = 0 /\ Granted = 0
  <2>1. Len(inbox) = 0 /\ Len(waiting) = 0
    BY <1>1
  <2>2. sent = 0
    BY <1>1
  <2>3. Taken = 0
    BY <2>1, <2>2 DEF Taken
  <2> QED
    BY <2>1, <2>3 DEF Granted
<1>7. TypeOK
  <2>1. << >> \in Seq(Notifications) /\ << >> \in Seq(Ids) /\ << >> \in Seq(Publications)
        /\ Len(<< >>) = 0
    OBVIOUS
  <2>2. shown \in [Docs -> [of : Snapshots \cup {None}, generation : 0 .. MaxMessages]]
    BY <1>1, <1>3
  <2> QED
    BY <1>1, <1>2, <1>3, <1>4, <1>5, <2>1, <2>2 DEF TypeOK, Worlds
<1>8. QueueInv
  BY <1>1, <1>5, <1>6 DEF QueueInv
<1>9. TaskInv
  BY <1>1, <1>5, <1>6 DEF TaskInv
<1>10. InferenceIsFresh
  BY <1>5 DEF InferenceIsFresh
<1>11. BufferInv
  <2>1. Unapplied = {} /\ DOMAIN Pending = {}
    BY <1>1 DEF Unapplied, Pending
  <2>2. \A d \in Docs : Edits(Pending, d) = {}
    BY <2>1 DEF Edits
  <2> QED
    BY <1>1, <2>1, <2>2 DEF BufferInv, Continues
<1>12. ShownInv
  BY <1>1, <1>5 DEF ShownInv, Expected
<1>13. OrderInv
  BY <1>1, <1>5 DEF OrderInv
<1> QED
  BY <1>7, <1>8, <1>9, <1>10, <1>11, <1>12, <1>13 DEF Inv

LEMMA InvNext == Inv /\ [Next]_vars => Inv'
<1> SUFFICES ASSUME Inv, [Next]_vars  PROVE Inv'
  OBVIOUS
<1>1. TypeOK /\ QueueInv /\ TaskInv /\ InferenceIsFresh /\ BufferInv /\ ShownInv /\ OrderInv
  BY DEF Inv
<1>2. TypeOK' /\ QueueInv' /\ TaskInv' /\ InferenceIsFresh' /\ BufferInv'
  BY <1>1, TypeStep, QueueStep, TaskStep, FreshStep, BufferStep
<1>3. ShownInv' /\ OrderInv'
  <2>1. CASE \/ Client \/ Dispatch \/ Acquire \/ UNCHANGED vars
             \/ \E id \in Ids : \/ \E disk \in Texts \cup {None} : Inspect(id, disk)
                                \/ Finish(id)
    BY <1>1, <2>1, QuietSteps
  <2>2. CASE Receive
    BY <1>1, <2>2, ReceiveShown
  <2>3. CASE \E id \in Ids : Apply(id)
    BY <1>1, <2>3, ApplyShown
  <2>4. CASE \E id \in Ids : Publish(id)
    BY <1>1, <2>4, PublishShown
  <2> QED
    BY <2>1, <2>2, <2>3, <2>4 DEF Next, Handler
<1> QED
  BY <1>2, <1>3 DEF Inv

LEMMA InvAlways == Spec => []Inv
  BY InvInit, InvNext, PTL DEF Spec

-----------------------------------------------------------------------------
(* What follows. *)

\* The state keeps its type, and a handler of did_open infers a root exactly
\* when the world it applies its update to needs one (did_open in native.rs).
THEOREM HandlersStayConsistent == Spec => []HandlersAreConsistent
<1>1. Inv => HandlersAreConsistent
  BY DEF Inv, HandlersAreConsistent
<1> QED
  BY <1>1, InvAlways, PTL

\* Nothing is in flight when all is quiet.
LEMMA QuietFacts ==
    ASSUME Inv, Quiet
    PROVE  Unapplied = {} /\ DOMAIN tasks = {} /\ outbox = << >>
<1>1. TypeOK /\ QueueInv /\ TaskInv /\ inbox = << >> /\ DOMAIN tasks = {} /\ outbox = << >>
  BY DEF Inv, Quiet
<1>2. /\ Granted \in Nat /\ Taken \in Nat /\ sent \in Nat /\ Granted <= Taken
      /\ holder # None => holder \in DOMAIN tasks
      /\ holder = None => DOMAIN tasks = Granted + 1 .. Taken
      /\ Len(inbox) = sent - Taken
  BY <1>1, QueueFacts
<1>3. holder = None
  BY <1>1, <1>2
<1>4. Granted = Taken
  <2>1. Granted + 1 \notin Granted + 1 .. Taken
    BY <1>1, <1>2, <1>3
  <2> QED
    BY <1>2, <2>1
<1>5. sent = Taken
  BY <1>1, <1>2
<1>6. world.generation = Granted
  BY <1>1, <1>3 DEF TaskInv
<1> QED
  BY <1>1, <1>2, <1>4, <1>5, <1>6 DEF Unapplied

\* Once all notifications are handled the server has the client's buffers: the
\* edits were applied, once each and in their order (the handlers of native.rs
\* under document_updates).
THEOREM BuffersArrive == Spec => []ServerHasBuffers
<1>1. Inv => ServerHasBuffers
  <2> SUFFICES ASSUME Inv, Quiet
               PROVE  /\ world.open = {d \in Docs : buffers[d] # None}
                      /\ \A d \in world.open : world.texts[d] = buffers[d]
    BY DEF ServerHasBuffers
  <2>1. \A d \in Docs : Edits(Pending, d) = {}
    BY QuietFacts DEF Edits, Pending
  <2>2. \A d \in Docs : /\ d \in world.open <=> buffers[d] # None
                        /\ d \in world.open => world.texts[d] = buffers[d]
    BY <2>1 DEF Inv, BufferInv, Continues
  <2>3. world.open \subseteq Docs
    BY DEF Inv, TypeOK
  <2> QED
    BY <2>2, <2>3
<1> QED
  BY <1>1, InvAlways, PTL

\* Once all notifications are handled and the channel is empty, what every
\* document shows was computed from the texts of all documents as they are
\* (compute_open_document_diagnostics, publish_diagnostics).
THEOREM ShownStaysCurrent == Spec => []ShownIsCurrent
<1>1. Inv => ShownIsCurrent
  <2> SUFFICES ASSUME Inv, Quiet, NEW d \in Docs
               PROVE  shown[d].of = IF d \in world.open THEN world.texts ELSE None
    BY DEF ShownIsCurrent
  <2>1. DOMAIN tasks = {} /\ outbox = << >>
    BY QuietFacts
  <2>2. ~InBatch(d)
    BY <2>1 DEF InBatch
  <2> QED
    BY <2>1, <2>2 DEF Inv, ShownInv, Expected
<1> QED
  BY <1>1, InvAlways, PTL

\* Publications reach the client in the order of the updates they were computed
\* from (publish_diagnostics under document_updates).
THEOREM DiagnosticsKeepOrder == Spec => DiagnosticsNeverGoBack
<1>1. Inv /\ [Next]_vars => [\A d \in Docs : shown[d].generation <= shown'[d].generation]_vars
  <2> SUFFICES ASSUME Inv, [Next]_vars, NEW d \in Docs
               PROVE  shown[d].generation <= shown'[d].generation
    OBVIOUS
  <2>1. TypeOK /\ OrderInv /\ shown[d].generation \in Nat
    BY DEF Inv, TypeOK
  <2>2. CASE Receive
    BY <2>1, <2>2, ReceiveShown
  <2>3. CASE ~Receive
    <3>1. shown' = shown
      BY <2>3, ClientSends
         DEF Next, Handler, Send, Dispatch, Acquire, Inspect, Apply, Publish, Finish, vars
    <3> QED
      BY <2>1, <3>1
  <2> QED
    BY <2>2, <2>3
<1> QED
  BY <1>1, InvAlways, PTL DEF Spec, DiagnosticsNeverGoBack
=============================================================================
