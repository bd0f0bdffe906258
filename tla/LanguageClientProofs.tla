------------------------ MODULE LanguageClientProofs ------------------------
(***************************************************************************)
(* Proofs about LanguageClient: that store, editor models, server and      *)
(* markers mirror one another (MirrorsAgree), and that the answer of a     *)
(* rename edits a model only at the text it was computed for               *)
(* (RenameKeepsEdits).                                                     *)
(*                                                                         *)
(* A turn of the page is a nest of listeners: a text pushed into a model   *)
(* changes the store while the store's listeners run.  PageStep says what  *)
(* any of them may do: files neither appear nor go, a model stays the same *)
(* object and its version grows with its text, others are made under       *)
(* numbers never used before, and what is sent takes the server from the   *)
(* sync's previousFiles to the new ones.  It is transitive, so the         *)
(* listeners' loops, which are recursive functions, are PageSteps by       *)
(* induction on the file they have come to (Counting, Recursion); that the *)
(* files and models agree at the end needs in addition that a file once    *)
(* done stays done (EnsureStep).                                           *)
(*                                                                         *)
(* Neither property is inductive.  MirrorsAgree says what the server will  *)
(* have, but a rename's answer is computed for what it has when the        *)
(* request's turn comes, and markers are those of its documents only when  *)
(* nothing is on its way.  Inv says of every message where it stands: each *)
(* document opens what the server lacks there (Tells); the last            *)
(* diagnostics in the queue of each file are of the server's documents     *)
(* (MarkersInv); and a model still at the version a rename noted has the   *)
(* text the server has where the request stands in its queue, or had when  *)
(* it answered (RenameInv).                                                *)
(***************************************************************************)
EXTENDS LanguageClient, SequenceTheorems, WellFoundedInduction, TLAPS

(* The files the server has, or will have, are told to it by messages that     *)
(* open what it does not have and change or close what it has.                 *)
Tells(docs, messages, files) ==
    /\ After(docs, messages)[Len(messages)] = files
    /\ \A i \in 1 .. Len(messages) : messages[i] \in Documents =>
           (After(docs, messages)[i - 1][messages[i].path] = None <=> messages[i].kind = "open")

(* Files and models agree up to line endings.                                  *)
Mirrors(pg) ==
    \A p \in Paths :
        IF pg.files[p] = None THEN pg.models[p] = None
        ELSE pg.models[p] # None /\ pg.models[p].text = Normal[pg.files[p]]

(* Models are numbered below the count.                                        *)
Numbered(pg) == \A p \in Paths : pg.models[p] # None => pg.models[p].object < pg.created

-------------------------------------------------------------------------------
(* The invariant, part by part.                                                *)

(* With the host, models and the sync's previousFiles are those of the store;  *)
(* without it, nothing has been sent.                                          *)
PageInv ==
    /\ Numbered(page)
    /\ host => Mirrors(page) /\ page.previous = page.files
    /\ ~host => page.previous = [p \in Paths |-> None]

(* Only a booting client waits for the initialization, and only the host sends *)
(* renames.  Messages have numbers that were given.                            *)
RequestInv ==
    /\ \A r \in pending : IF IsInitialize(r) THEN client = "booting" /\ r.id = 1 ELSE host
    /\ \A i \in DOMAIN toWorker : toWorker[i] \in Requests => toWorker[i].id < nextId
    /\ \A i \in DOMAIN fromWorker : fromWorker[i] \in Responses => fromWorker[i].id < nextId

(* A worker that loads has said nothing, and one that is dead has reported it  *)
(* unless the client let it go.                                                *)
WorkerInv ==
    /\ worker.state = "loading" => fromWorker = << >> /\ ~host
    /\ failed \/ (\E i \in DOMAIN fromWorker : fromWorker[i] \in Failures) => worker.state = "dead"
    /\ worker.state = "dead" /\ ~failed /\ client # "detached" =>
           \E i \in DOMAIN fromWorker : fromWorker[i] \in Failures

(* What a living worker has been sent takes it to the sync's previousFiles.    *)
ServerInv == worker.state # "dead" => Tells(worker.docs, toWorker, page.previous)

(* The last diagnostics on their way to a file, or else its markers, are those *)
(* of the documents the server has, once it has them all.                      *)
ShownAt(j, queue, markers, docs, p) ==
    IF j = 0 THEN markers = docs
    ELSE queue[j] \in Publishes /\ queue[j].path = p /\ queue[j].of = docs

IsShown(queue, markers, docs, p) ==
    \E j \in 0 .. Len(queue) :
        /\ ShownAt(j, queue, markers, docs, p)
        /\ \A k \in j + 1 .. Len(queue) : queue[k] \in Publishes => queue[k].path # p

MarkersInv ==
    worker.state = "ready" /\ host /\ (\A i \in DOMAIN toWorker : toWorker[i] \notin Documents) =>
        \A p \in Present(page.files) : IsShown(fromWorker, page.models[p].markers, worker.docs, p)

(* A model that is still the one a rename noted, at the version it noted, has  *)
(* the text for which the rename is or will be answered.                       *)
NotedText(r, p) ==
    /\ worker.state # "dead" =>
           \A i \in DOMAIN toWorker : toWorker[i] \in Requests /\ toWorker[i].id = r.id =>
               Normal[After(worker.docs, toWorker)[i - 1][p]] = page.models[p].text
    /\ \A j \in DOMAIN fromWorker : fromWorker[j] \in Responses /\ fromWorker[j].id = r.id =>
           Normal[fromWorker[j].basis[p]] = page.models[p].text

IsNoted(r, p) == page.models[p] # None /\ page.models[p].object = r.versions[p].object

RenameInv ==
    \A r \in pending, p \in Paths : ~IsInitialize(r) /\ r.versions[p] # None =>
        /\ r.versions[p].object < page.created
        /\ IsNoted(r, p) =>
               /\ r.versions[p].version <= page.models[p].version
               /\ r.versions[p].version = page.models[p].version => NotedText(r, p)

Inv == TypeOK /\ PageInv /\ RequestInv /\ WorkerInv /\ ServerInv /\ MarkersInv /\ RenameInv

-------------------------------------------------------------------------------
(* Induction and recursion up to a number, stated with sets and functions so   *)
(* that the provers can instantiate them.                                      *)

(* A set that has zero and with every number below N the next one has all of   *)
(* them up to N.                                                               *)
LEMMA Counting ==
  ASSUME NEW N \in Nat, NEW T, 0 \in T, \A n \in 0 .. N : n \in T /\ n # N => n + 1 \in T
  PROVE  \A n \in 0 .. N : n \in T
<1> DEFINE U == {n \in 0 .. N : n \notin T}
<1>1. SUFFICES ASSUME U # {} PROVE FALSE
  OBVIOUS
<1>2. IsWellFoundedOn(OpToRel(<, Nat), Nat)
  BY NatLessThanWellFounded
<1>3. U \in SUBSET Nat
  OBVIOUS
<1> HIDE DEF U
<1>4. PICK n \in U : \A m \in U : ~(<<m, n>> \in OpToRel(<, Nat))
  BY <1>1, <1>2, <1>3, WFMin
<1>5. n \in 0 .. N /\ n \notin T /\ n # 0
  BY <1>4 DEF U
<1> DEFINE k == n - 1
<1>6. k \in 0 .. N /\ k + 1 = n /\ k < n /\ k # N
  BY <1>5
<1> HIDE DEF k
<1>7. k \notin U
  BY <1>4, <1>6, <1>3 DEF OpToRel
<1>8. k \in T
  BY <1>6, <1>7 DEF U
<1> QED
  BY <1>5, <1>6, <1>8

(* A first value and a step give a value for every number up to N.             *)
Follows(g, F, x0, X, N) ==
  g \in [0 .. N -> X] /\ g[0] = x0 /\ \A i \in 1 .. N : g[i] = F[<<g[i - 1], i>>]

LEMMA Recursion ==
  ASSUME NEW N \in Nat, NEW X, NEW x0 \in X, NEW F \in [X \X (1 .. N) -> X]
  PROVE  \E g : Follows(g, F, x0, X, N)
<1> DEFINE Up(n, g) == Follows(g, F, x0, X, n)
           T == {n \in 0 .. N : \E g : Up(n, g)}
<1>1. 0 \in T
  <2> DEFINE g == [m \in 0 .. 0 |-> x0]
  <2>1. Up(0, g)
    BY DEF Follows
  <2> HIDE DEF Up, g
  <2> QED
    BY <2>1
<1>2. ASSUME NEW n \in 0 .. N, n \in T, n # N PROVE n + 1 \in T
  <2>0. PICK g : Up(n, g)
    BY <1>2
  <2>1. g \in [0 .. n -> X] /\ g[0] = x0 /\ \A i \in 1 .. n : g[i] = F[<<g[i - 1], i>>]
    BY <2>0 DEF Follows
  <2> DEFINE h == [m \in 0 .. n + 1 |-> IF m = n + 1 THEN F[<<g[n], n + 1>>] ELSE g[m]]
  <2>2. n + 1 \in 1 .. N /\ g[n] \in X
    BY <1>2, <2>1
  <2>3. F[<<g[n], n + 1>>] \in X
    BY <2>2
  <2>4. h \in [0 .. n + 1 -> X]
    <3> SUFFICES ASSUME NEW m \in 0 .. n + 1 PROVE h[m] \in X
      OBVIOUS
    <3>1. CASE m = n + 1
      BY <3>1, <2>3
    <3>2. CASE m # n + 1
      <4>1. m \in 0 .. n
        BY <3>2
      <4> QED
        BY <4>1, <3>2, <2>1
    <3> QED
      BY <3>1, <3>2
  <2>5. h[0] = x0
    BY <2>1
  <2>6. ASSUME NEW i \in 1 .. n + 1 PROVE h[i] = F[<<h[i - 1], i>>]
    <3>1. i - 1 \in 0 .. n /\ i - 1 # n + 1
      OBVIOUS
    <3>2. h[i - 1] = g[i - 1]
      BY <3>1
    <3>3. CASE i = n + 1
      <4>1. h[n + 1] = F[<<g[n], n + 1>>]
        OBVIOUS
      <4>2. i - 1 = n
        BY <3>3
      <4> HIDE DEF h
      <4> QED
        BY <4>1, <4>2, <3>2, <3>3
    <3>4. CASE i # n + 1
      <4>1. i \in 1 .. n
        BY <3>4
      <4> QED
        BY <4>1, <3>2, <3>4, <2>1
    <3> QED
      BY <3>3, <3>4
  <2>7. Up(n + 1, h)
    <3> HIDE DEF h
    <3> QED
      BY <2>4, <2>5, <2>6 DEF Follows
  <2> HIDE DEF Up, h
  <2> QED
    BY <2>2, <2>7
<1> HIDE DEF T
<1>3. \A n \in 0 .. N : n \in T
  BY <1>1, <1>2, Counting
<1>4. N \in T
  BY <1>3
<1>5. \E g : Up(N, g)
  <2> HIDE DEF Up
  <2> QED
    BY <1>4 DEF T
<1> QED
  BY <1>5

-------------------------------------------------------------------------------
(* The documents of the server, message by message.                            *)

Sent == Documents \cup Requests

LEMMA HandledType ==
  ASSUME NEW docs \in Trees, NEW m \in Sent
  PROVE  Handled(docs, m) \in Trees
<1>1. CASE m \in Documents
  <2>1. m.path \in Paths /\ m.text \in Texts \cup {None}
    BY <1>1 DEF Documents
  <2> QED
    BY <1>1, <2>1 DEF Handled, Trees
<1>2. CASE m \notin Documents
  BY <1>2 DEF Handled
<1> QED
  BY <1>1, <1>2

LEMMA AfterIs ==
  ASSUME NEW docs \in Trees, NEW ms \in Seq(Sent)
  PROVE  /\ After(docs, ms) \in [0 .. Len(ms) -> Trees]
         /\ After(docs, ms)[0] = docs
         /\ \A i \in 1 .. Len(ms) : After(docs, ms)[i] = Handled(After(docs, ms)[i - 1], ms[i])
<1> DEFINE N == Len(ms)
           F == [x \in Trees \X (1 .. N) |-> Handled(x[1], ms[x[2]])]
           Rule(g) == [i \in 0 .. N |-> IF i = 0 THEN docs ELSE Handled(g[i - 1], ms[i])]
<1>1. N \in Nat
  OBVIOUS
<1>2. F \in [Trees \X (1 .. N) -> Trees]
  <2> SUFFICES ASSUME NEW x \in Trees \X (1 .. N) PROVE Handled(x[1], ms[x[2]]) \in Trees
    OBVIOUS
  <2>1. x[1] \in Trees /\ ms[x[2]] \in Sent
    OBVIOUS
  <2> QED
    BY <2>1, HandledType
<1> HIDE DEF N
<1>3. PICK g : Follows(g, F, docs, Trees, N)
  <2> HIDE DEF F
  <2> QED
    BY <1>1, <1>2, Recursion
<1>a. g \in [0 .. N -> Trees] /\ g[0] = docs /\ \A i \in 1 .. N : g[i] = F[<<g[i - 1], i>>]
  <2> HIDE DEF F
  <2> QED
    BY <1>3 DEF Follows
<1>4. ASSUME NEW i \in 1 .. N PROVE g[i] = Handled(g[i - 1], ms[i])
  <2>1. g[i - 1] \in Trees
    BY <1>1, <1>a
  <2>2. F[<<g[i - 1], i>>] = Handled(g[i - 1], ms[i])
    BY <2>1
  <2> HIDE DEF F
  <2> QED
    BY <1>a, <2>2
<1>5. g = Rule(g)
  <2> SUFFICES ASSUME NEW i \in 0 .. N
               PROVE g[i] = IF i = 0 THEN docs ELSE Handled(g[i - 1], ms[i])
    BY <1>a
  <2>1. CASE i = 0
    BY <2>1, <1>a
  <2>2. CASE i # 0
    <3>1. i \in 1 .. N
      BY <1>1, <2>2
    <3> QED
      BY <3>1, <2>2, <1>4
  <2> QED
    BY <2>1, <2>2
<1>6. After(docs, ms) = CHOOSE f : f = Rule(f)
  BY DEF After, N
<1>7. After(docs, ms) = Rule(After(docs, ms))
  <2> HIDE DEF Rule
  <2> QED
    BY <1>5, <1>6
<1> DEFINE d == After(docs, ms)
<1>8. d = Rule(d)
  BY <1>7
<1> HIDE DEF d
<1>9. /\ DOMAIN d = 0 .. N /\ d[0] = docs
      /\ \A i \in 1 .. N : d[i] = Handled(d[i - 1], ms[i])
  <2>1. \A i \in 0 .. N : d[i] = IF i = 0 THEN docs ELSE Handled(d[i - 1], ms[i])
    BY <1>8
  <2>2. d = [i \in 0 .. N |-> IF i = 0 THEN docs ELSE Handled(d[i - 1], ms[i])]
    BY <1>8
  <2> HIDE DEF Rule
  <2>3. DOMAIN d = 0 .. N
    BY <2>2
  <2>4. d[0] = docs
    BY <2>1, <1>1
  <2>5. \A i \in 1 .. N : d[i] = Handled(d[i - 1], ms[i])
    BY <2>1, <1>1
  <2> QED
    BY <2>3, <2>4, <2>5
<1>10. d = [i \in 0 .. N |-> d[i]]
  BY <1>8
<1> HIDE DEF Rule
<1>11. \A i \in 0 .. N : d[i] \in Trees
  <2> DEFINE T == {i \in 0 .. N : d[i] \in Trees}
  <2>1. 0 \in T
    BY <1>1, <1>9
  <2>2. ASSUME NEW n \in 0 .. N, n \in T, n # N PROVE n + 1 \in T
    <3>1. n + 1 \in 1 .. N /\ (n + 1) - 1 = n
      BY <1>1, <2>2
    <3>2. ms[n + 1] \in Sent
      BY <3>1 DEF N
    <3>3. d[n + 1] = Handled(d[n], ms[n + 1])
      BY <1>9, <3>1
    <3>4. d[n + 1] \in Trees
      BY <2>2, <3>2, <3>3, HandledType
    <3> QED
      BY <1>1, <3>1, <3>4
  <2> HIDE DEF T
  <2>3. \A i \in 0 .. N : i \in T
    BY <1>1, <2>1, <2>2, Counting
  <2> QED
    BY <2>3 DEF T
<1> QED
  BY <1>9, <1>10, <1>11 DEF d, N

LEMMA AfterUnique ==
  ASSUME NEW docs \in Trees, NEW ms \in Seq(Sent), NEW ds,
         ds[0] = docs, \A i \in 1 .. Len(ms) : ds[i] = Handled(ds[i - 1], ms[i])
  PROVE  \A i \in 0 .. Len(ms) : ds[i] = After(docs, ms)[i]
<1> DEFINE N == Len(ms)
           d == After(docs, ms)
           T == {i \in 0 .. N : ds[i] = d[i]}
<1>1. N \in Nat
  OBVIOUS
<1>2. d[0] = docs /\ \A i \in 1 .. N : d[i] = Handled(d[i - 1], ms[i])
  BY AfterIs
<1> HIDE DEF d, N
<1>3. 0 \in T
  BY <1>1, <1>2
<1>4. ASSUME NEW n \in 0 .. N, n \in T, n # N PROVE n + 1 \in T
  <2>1. n + 1 \in 1 .. N /\ (n + 1) - 1 = n
    BY <1>1, <1>4
  <2>2. ds[n + 1] = Handled(ds[n], ms[n + 1]) /\ d[n + 1] = Handled(d[n], ms[n + 1])
    BY <1>2, <2>1 DEF N
  <2> QED
    BY <1>1, <1>4, <2>1, <2>2
<1> HIDE DEF T
<1>5. \A i \in 0 .. N : i \in T
  BY <1>1, <1>3, <1>4, Counting
<1> QED
  BY <1>5 DEF T, d, N

(* What a concatenation and a tail are made of.                                *)
LEMMA ConcatParts ==
  ASSUME NEW S, NEW s \in Seq(S), NEW t \in Seq(S)
  PROVE  /\ Len(s) \in Nat /\ Len(t) \in Nat
         /\ s \o t \in Seq(S) /\ Len(s \o t) = Len(s) + Len(t)
         /\ \A i \in 1 .. Len(s) : (s \o t)[i] = s[i]
         /\ \A j \in 1 .. Len(t) : (s \o t)[Len(s) + j] = t[j]
         /\ \A k \in 1 .. Len(s) + Len(t) :
              k \in 1 .. Len(s) \/ \E j \in 1 .. Len(t) : k = Len(s) + j
<1> DEFINE m == Len(s)
           n == Len(t)
<1>1. m \in Nat /\ n \in Nat
  BY LenProperties
<1>2. s \o t \in Seq(S) /\ Len(s \o t) = m + n
  BY ConcatProperties
<1>3. \A k \in 1 .. m + n : (s \o t)[k] = IF k <= m THEN s[k] ELSE t[k - m]
  BY ConcatProperties
<1> HIDE DEF m, n
<1>4. \A i \in 1 .. m : i \in 1 .. m + n /\ i <= m
  BY <1>1
<1>5. \A j \in 1 .. n : m + j \in 1 .. m + n /\ ~(m + j <= m) /\ (m + j) - m = j
  BY <1>1
<1>6. \A k \in 1 .. m + n : k \in 1 .. m \/ (k - m \in 1 .. n /\ k = m + (k - m))
  BY <1>1
<1>7. \A k \in 1 .. m + n : k \in 1 .. m \/ \E j \in 1 .. n : k = m + j
  BY <1>6
<1>8. /\ \A i \in 1 .. m : (s \o t)[i] = s[i]
      /\ \A j \in 1 .. n : (s \o t)[m + j] = t[j]
  BY <1>3, <1>4, <1>5
<1> QED
  BY <1>1, <1>2, <1>7, <1>8 DEF m, n

LEMMA TailParts ==
  ASSUME NEW S, NEW ms \in Seq(S), ms # << >>
  PROVE  /\ Len(ms) \in Nat \ {0} /\ Tail(ms) \in Seq(S) /\ Len(Tail(ms)) = Len(ms) - 1
         /\ Head(ms) = ms[1] /\ ms[1] \in S
         /\ \A i \in 1 .. Len(ms) - 1 : Tail(ms)[i] = ms[i + 1]
         /\ \A k \in 1 .. Len(ms) : k = 1 \/ \E i \in 1 .. Len(ms) - 1 : k = i + 1
<1> DEFINE n == Len(ms)
<1>1. n \in Nat \ {0}
  BY LenProperties, EmptySeq
<1>2. /\ Tail(ms) \in Seq(S) /\ Len(Tail(ms)) = n - 1
      /\ Head(ms) = ms[1] /\ ms[1] \in S
      /\ \A i \in 1 .. n - 1 : Tail(ms)[i] = ms[i + 1]
  BY HeadTailProperties, <1>1
<1> HIDE DEF n
<1>3. \A k \in 1 .. n : k = 1 \/ (k - 1 \in 1 .. n - 1 /\ k = (k - 1) + 1)
  BY <1>1
<1>4. \A k \in 1 .. n : k = 1 \/ \E i \in 1 .. n - 1 : k = i + 1
  BY <1>3
<1> QED
  BY <1>1, <1>2, <1>4 DEF n

LEMMA AfterConcat ==
  ASSUME NEW docs \in Trees, NEW s \in Seq(Sent), NEW t \in Seq(Sent)
  PROVE  /\ \A i \in 0 .. Len(s) : After(docs, s \o t)[i] = After(docs, s)[i]
         /\ \A j \in 0 .. Len(t) :
              After(docs, s \o t)[Len(s) + j] = After(After(docs, s)[Len(s)], t)[j]
<1> DEFINE m == Len(s)
           n == Len(t)
           ab == s \o t
           d == After(docs, ab)
           e == After(docs, s)
           f == [j \in 0 .. n |-> d[m + j]]
<1>1. /\ m \in Nat /\ n \in Nat /\ ab \in Seq(Sent) /\ Len(ab) = m + n
      /\ \A i \in 1 .. m : ab[i] = s[i]
      /\ \A j \in 1 .. n : ab[m + j] = t[j]
  BY ConcatParts
<1> HIDE DEF m, n, ab
<1>2. /\ d[0] = docs /\ \A i \in 1 .. m + n : d[i] = Handled(d[i - 1], ab[i])
  <2>1. /\ d[0] = docs /\ \A i \in 1 .. Len(ab) : d[i] = Handled(d[i - 1], ab[i])
    BY <1>1, AfterIs
  <2> HIDE DEF d
  <2> QED
    BY <1>1, <2>1
<1>3. e \in [0 .. m -> Trees]
  BY AfterIs DEF m
<1> HIDE DEF d
<1>4. \A i \in 1 .. m : d[i] = Handled(d[i - 1], s[i])
  <2> TAKE i \in 1 .. m
  <2>1. i \in 1 .. m + n
    BY <1>1
  <2> QED
    BY <1>1, <1>2, <2>1
<1>5. \A i \in 0 .. m : d[i] = e[i]
  BY <1>2, <1>4, AfterUnique DEF m
<1> HIDE DEF e
<1>6. f[0] = e[m] /\ e[m] \in Trees
  <2>1. 0 \in 0 .. n /\ m \in 0 .. m /\ m + 0 = m
    BY <1>1
  <2> QED
    BY <2>1, <1>3, <1>5
<1>7. \A j \in 1 .. n : f[j] = Handled(f[j - 1], t[j])
  <2> TAKE j \in 1 .. n
  <2> DEFINE k == m + j
  <2>1. j \in 0 .. n /\ j - 1 \in 0 .. n /\ k \in 1 .. m + n /\ k - 1 = m + (j - 1)
    BY <1>1
  <2>2. f[j] = d[k] /\ f[j - 1] = d[m + (j - 1)] /\ ab[k] = t[j]
    BY <1>1, <2>1
  <2> HIDE DEF f, k
  <2>3. d[k] = Handled(d[k - 1], ab[k])
    BY <1>2, <2>1
  <2> QED
    BY <2>1, <2>2, <2>3
<1> DEFINE x == e[m]
<1>8. \A j \in 0 .. n : f[j] = After(x, t)[j]
  <2>1. f[0] = x /\ x \in Trees
    BY <1>6
  <2> HIDE DEF f, x
  <2> QED
    BY <2>1, <1>7, AfterUnique DEF n
<1> QED
  BY <1>5, <1>8 DEF d, e, m, n, ab

LEMMA AfterTail ==
  ASSUME NEW docs \in Trees, NEW ms \in Seq(Sent), ms # << >>
  PROVE  \A i \in 0 .. Len(ms) - 1 :
           After(Handled(docs, Head(ms)), Tail(ms))[i] = After(docs, ms)[i + 1]
<1> DEFINE n == Len(ms)
           t == Tail(ms)
           x == Handled(docs, Head(ms))
           d == After(docs, ms)
           f == [i \in 0 .. n - 1 |-> d[i + 1]]
<1>1. /\ n \in Nat \ {0} /\ t \in Seq(Sent) /\ Len(t) = n - 1
      /\ Head(ms) = ms[1] /\ ms[1] \in Sent
      /\ \A i \in 1 .. n - 1 : t[i] = ms[i + 1]
  BY TailParts
<1> HIDE DEF t
<1>2. /\ d[0] = docs /\ \A i \in 1 .. n : d[i] = Handled(d[i - 1], ms[i])
  BY AfterIs
<1> HIDE DEF n, d
<1>3. f[0] = x /\ x \in Trees
  <2>1. 0 \in 0 .. n - 1 /\ 1 \in 1 .. n /\ 0 + 1 = 1 /\ 1 - 1 = 0
    BY <1>1
  <2>2. f[0] = d[1] /\ d[1] = Handled(d[0], ms[1])
    BY <1>2, <2>1
  <2> QED
    BY <1>1, <1>2, <2>2, HandledType
<1>4. \A i \in 1 .. n - 1 : f[i] = Handled(f[i - 1], t[i])
  <2> TAKE i \in 1 .. n - 1
  <2>1. i \in 0 .. n - 1 /\ i - 1 \in 0 .. n - 1 /\ i + 1 \in 1 .. n
        /\ (i - 1) + 1 = i /\ (i + 1) - 1 = i
    BY <1>1
  <2>2. d[i + 1] = Handled(d[i], ms[i + 1])
    BY <1>2, <2>1
  <2>3. f[i] = d[i + 1] /\ f[i - 1] = d[i]
    BY <2>1
  <2> HIDE DEF f
  <2> QED
    BY <1>1, <2>2, <2>3
<1>5. \A i \in 0 .. n - 1 : f[i] = After(x, t)[i]
  <2> HIDE DEF f, x
  <2> QED
    BY <1>1, <1>3, <1>4, AfterUnique
<1> QED
  BY <1>5 DEF d, n, t
-------------------------------------------------------------------------------
(* What messages tell.                                                         *)

LEMMA TellsNothing ==
  ASSUME NEW docs \in Trees
  PROVE  Tells(docs, << >>, docs)
<1>1. << >> \in Seq(Sent) /\ Len(<< >>) = 0 /\ 1 .. 0 = {}
  BY EmptySeq
<1>2. After(docs, << >>)[0] = docs
  BY <1>1, AfterIs
<1> QED
  BY <1>1, <1>2 DEF Tells

LEMMA TellsConcat ==
  ASSUME NEW a \in Trees, NEW b, NEW c, NEW s \in Seq(Sent), NEW t \in Seq(Sent),
         Tells(a, s, b), Tells(b, t, c)
  PROVE  Tells(a, s \o t, c)
<1> DEFINE m == Len(s)
           n == Len(t)
           st == s \o t
           d == After(a, st)
           e == After(a, s)
           f == After(b, t)
<1>1. /\ m \in Nat /\ n \in Nat /\ st \in Seq(Sent) /\ Len(st) = m + n
      /\ \A i \in 1 .. m : st[i] = s[i]
      /\ \A j \in 1 .. n : st[m + j] = t[j]
      /\ \A k \in 1 .. m + n : k \in 1 .. m \/ \E j \in 1 .. n : k = m + j
  BY ConcatParts
<1>2. e[m] = b
  BY DEF Tells
<1>3. \A i \in 0 .. m : d[i] = e[i]
  BY AfterConcat
<1>4. \A j \in 0 .. n : d[m + j] = f[j]
  BY <1>2, AfterConcat
<1>5. f[n] = c
  BY DEF Tells
<1>6. \A i \in 1 .. m : s[i] \in Documents => (e[i - 1][s[i].path] = None <=> s[i].kind = "open")
  BY DEF Tells
<1>7. \A j \in 1 .. n : t[j] \in Documents => (f[j - 1][t[j].path] = None <=> t[j].kind = "open")
  BY DEF Tells
<1> HIDE DEF m, n, st, d, e, f
<1>8. d[m + n] = c
  <2>1. n \in 0 .. n
    BY <1>1
  <2> QED
    BY <2>1, <1>4, <1>5
<1>9. ASSUME NEW k \in 1 .. m + n, st[k] \in Documents
      PROVE  d[k - 1][st[k].path] = None <=> st[k].kind = "open"
  <2>1. CASE k \in 1 .. m
    <3>1. k - 1 \in 0 .. m
      BY <1>1, <2>1
    <3>2. d[k - 1] = e[k - 1] /\ st[k] = s[k]
      BY <1>1, <1>3, <2>1, <3>1
    <3> QED
      BY <1>6, <1>9, <2>1, <3>2
  <2>2. ASSUME NEW j \in 1 .. n, k = m + j
        PROVE  d[k - 1][st[k].path] = None <=> st[k].kind = "open"
    <3>1. j - 1 \in 0 .. n /\ k - 1 = m + (j - 1)
      BY <1>1, <2>2
    <3>2. d[k - 1] = f[j - 1]
      BY <1>4, <3>1
    <3>3. st[k] = t[j]
      BY <1>1, <2>2
    <3> QED
      BY <1>7, <1>9, <3>2, <3>3
  <2> QED
    BY <1>1, <2>1, <2>2
<1>10. Len(st) = m + n
  BY <1>1
<1> QED
  BY <1>8, <1>9, <1>10 DEF Tells, d, st

LEMMA TellsTail ==
  ASSUME NEW a \in Trees, NEW c, NEW s \in Seq(Sent), s # << >>, Tells(a, s, c)
  PROVE  Tells(Handled(a, Head(s)), Tail(s), c)
<1> DEFINE n == Len(s)
           t == Tail(s)
           x == Handled(a, Head(s))
           d == After(a, s)
           e == After(x, t)
<1>1. /\ n \in Nat \ {0} /\ t \in Seq(Sent) /\ Len(t) = n - 1
      /\ \A i \in 1 .. n - 1 : t[i] = s[i + 1]
  BY TailParts
<1>2. \A i \in 0 .. n - 1 : e[i] = d[i + 1]
  BY AfterTail
<1>3. d[n] = c
  BY DEF Tells
<1>4. \A i \in 1 .. n : s[i] \in Documents => (d[i - 1][s[i].path] = None <=> s[i].kind = "open")
  BY DEF Tells
<1> HIDE DEF n, t, x, d, e
<1>5. e[n - 1] = c
  <2>1. n - 1 \in 0 .. n - 1 /\ (n - 1) + 1 = n
    BY <1>1
  <2> QED
    BY <2>1, <1>2, <1>3
<1>6. ASSUME NEW i \in 1 .. n - 1, t[i] \in Documents
      PROVE  e[i - 1][t[i].path] = None <=> t[i].kind = "open"
  <2>1. i - 1 \in 0 .. n - 1 /\ (i - 1) + 1 = i /\ i + 1 \in 1 .. n /\ (i + 1) - 1 = i
    BY <1>1
  <2>2. e[i - 1] = d[i] /\ t[i] = s[i + 1]
    BY <1>1, <1>2, <2>1
  <2>3. s[i + 1] \in Documents => (d[(i + 1) - 1][s[i + 1].path] = None <=> s[i + 1].kind = "open")
    BY <1>4, <2>1
  <2> QED
    BY <1>6, <2>1, <2>2, <2>3
<1>7. Tells(x, t, c)
  BY <1>1, <1>5, <1>6 DEF Tells, e
<1> QED
  BY <1>7 DEF x, t

(* A request tells nothing.                                                    *)
LEMMA TellsRequest ==
  ASSUME NEW a \in Trees, NEW m \in Requests
  PROVE  Tells(a, << m >>, a)
<1>1. << m >> \in Seq(Sent) /\ Len(<< m >>) = 1 /\ << m >>[1] = m
  BY DEF Sent
<1>2. m \notin Documents
  BY DEF Requests, Documents
<1>3. After(a, << m >>)[1] = a
  <2>1. After(a, << m >>)[0] = a
    BY <1>1, AfterIs
  <2>2. 1 \in 1 .. Len(<< m >>) /\ 1 - 1 = 0
    BY <1>1
  <2>3. After(a, << m >>)[1] = Handled(After(a, << m >>)[1 - 1], << m >>[1])
    BY <1>1, <2>2, AfterIs
  <2> QED
    BY <1>1, <1>2, <2>1, <2>2, <2>3 DEF Handled
<1>4. \A i \in 1 .. 1 : i = 1
  OBVIOUS
<1> QED
  BY <1>1, <1>2, <1>3, <1>4 DEF Tells

(* Without a document nothing changes.                                         *)
LEMMA TellsWithoutDocuments ==
  ASSUME NEW a \in Trees, NEW c, NEW s \in Seq(Sent), Tells(a, s, c),
         \A i \in DOMAIN s : s[i] \notin Documents
  PROVE  a = c
<1> DEFINE n == Len(s)
           d == After(a, s)
           T == {i \in 0 .. n : d[i] = a}
<1>1. n \in Nat /\ DOMAIN s = 1 .. n
  BY LenProperties
<1>2. d[0] = a /\ \A i \in 1 .. n : d[i] = Handled(d[i - 1], s[i])
  BY AfterIs
<1>3. d[n] = c
  BY DEF Tells
<1> HIDE DEF n, d
<1>4. 0 \in T
  BY <1>1, <1>2
<1>5. ASSUME NEW i \in 0 .. n, i \in T, i # n PROVE i + 1 \in T
  <2>1. i + 1 \in 1 .. n /\ (i + 1) - 1 = i /\ i + 1 \in 0 .. n
    BY <1>1, <1>5
  <2>2. d[i + 1] = Handled(d[i], s[i + 1]) /\ s[i + 1] \notin Documents
    BY <1>1, <1>2, <2>1
  <2> QED
    BY <1>5, <2>1, <2>2 DEF Handled
<1> HIDE DEF T
<1>6. \A i \in 0 .. n : i \in T
  BY <1>1, <1>4, <1>5, Counting
<1>7. n \in 0 .. n
  BY <1>1
<1> QED
  BY <1>3, <1>6, <1>7 DEF T
-------------------------------------------------------------------------------
(* The sync's notifications.                                                   *)

(* The paths of two disjoint sets, one after the other, have each path once.   *)
LEMMA OrdersConcat ==
  ASSUME NEW order \in Orders, NEW A \in SUBSET Paths, NEW B \in SUBSET Paths, A \cap B = {}
  PROVE  /\ order[A] \o order[B] \in Seq(Paths)
         /\ IsInjective(order[A] \o order[B])
         /\ \A p : p \in A \cup B <=>
              \E i \in 1 .. Len(order[A] \o order[B]) : (order[A] \o order[B])[i] = p
<1> DEFINE s == order[A]
           t == order[B]
           m == Len(s)
           n == Len(t)
           st == s \o t
<1>1. s \in Seq(Paths) /\ t \in Seq(Paths)
  BY OrdersAssumption
<1>2. /\ m \in Nat /\ n \in Nat /\ st \in Seq(Paths) /\ Len(st) = m + n
      /\ \A i \in 1 .. m : st[i] = s[i]
      /\ \A j \in 1 .. n : st[m + j] = t[j]
      /\ \A k \in 1 .. m + n : k \in 1 .. m \/ \E j \in 1 .. n : k = m + j
      /\ DOMAIN s = 1 .. m /\ DOMAIN t = 1 .. n
  <2> HIDE DEF s, t
  <2> QED
    BY <1>1, ConcatParts, LenProperties
<1>a. DOMAIN st = 1 .. m + n
  <2>1. DOMAIN st = 1 .. Len(st)
    BY <1>2, LenProperties
  <2> QED
    BY <2>1, <1>2
<1>3. IsInjective(s) /\ Range(s) = A /\ IsInjective(t) /\ Range(t) = B
  BY OrdersAssumption
<1> HIDE DEF s, t, m, n, st
<1>4. \A i, j \in 1 .. m : s[i] = s[j] => i = j
  BY <1>2, <1>3 DEF IsInjective
<1>5. \A i, j \in 1 .. n : t[i] = t[j] => i = j
  BY <1>2, <1>3 DEF IsInjective
<1>6. \A p : p \in A <=> \E i \in 1 .. m : s[i] = p
  BY <1>2, <1>3 DEF Range
<1>7. \A p : p \in B <=> \E j \in 1 .. n : t[j] = p
  BY <1>2, <1>3 DEF Range
<1>8. ASSUME NEW k \in 1 .. m + n, NEW l \in 1 .. m + n, st[k] = st[l] PROVE k = l
  <2>1. CASE k \in 1 .. m /\ l \in 1 .. m
    BY <1>2, <1>4, <1>8, <2>1
  <2>2. ASSUME NEW j \in 1 .. n, NEW i \in 1 .. n, k = m + j, l = m + i PROVE k = l
    <3>1. st[k] = t[j] /\ st[l] = t[i]
      BY <1>2, <2>2
    <3>2. j = i
      BY <1>5, <1>8, <3>1
    <3> QED
      BY <2>2, <3>2
  <2>3. \A i \in 1 .. m, j \in 1 .. n : st[i] # st[m + j]
    BY <1>2, <1>6, <1>7
  <2>4. (k \in 1 .. m \/ \E j \in 1 .. n : k = m + j) /\ (l \in 1 .. m \/ \E j \in 1 .. n : l = m + j)
    BY <1>2
  <2> QED
    BY <1>8, <2>1, <2>2, <2>3, <2>4
<1>9. ASSUME NEW p PROVE p \in A \cup B <=> \E k \in 1 .. m + n : st[k] = p
  <2>1. ASSUME NEW i \in 1 .. m PROVE i \in 1 .. m + n /\ st[i] \in A
    BY <1>2, <1>6, <2>1
  <2>2. ASSUME NEW j \in 1 .. n PROVE m + j \in 1 .. m + n /\ st[m + j] \in B
    BY <1>2, <1>7, <2>2
  <2>3. ASSUME NEW k \in 1 .. m + n, st[k] = p PROVE p \in A \cup B
    <3>1. CASE k \in 1 .. m
      BY <3>1, <2>1, <2>3
    <3>2. ASSUME NEW j \in 1 .. n, k = m + j PROVE p \in A \cup B
      BY <3>2, <2>2, <2>3
    <3> QED
      BY <1>2, <3>1, <3>2
  <2>4. ASSUME p \in A PROVE \E k \in 1 .. m + n : st[k] = p
    <3>1. PICK i \in 1 .. m : s[i] = p
      BY <1>6, <2>4
    <3> QED
      BY <1>2, <2>1, <3>1
  <2>5. ASSUME p \in B PROVE \E k \in 1 .. m + n : st[k] = p
    <3>1. PICK j \in 1 .. n : t[j] = p
      BY <1>7, <2>5
    <3> QED
      BY <1>2, <2>2, <3>1
  <2> QED
    BY <2>3, <2>4, <2>5
<1>10. IsInjective(st)
  BY <1>a, <1>8 DEF IsInjective
<1> QED
  BY <1>2, <1>9, <1>10 DEF st, s, t

(* The notifications take the server from the files before to the files after, *)
(* whatever the order of the keys.                                             *)
LEMMA NotificationsTell ==
  ASSUME NEW before \in Trees, NEW files \in Trees, NEW order \in Orders
  PROVE  /\ Notifications(before, files, order) \in Seq(Documents)
         /\ Tells(before, Notifications(before, files, order), files)
<1> DEFINE gone == Present(before) \ Present(files)
           told == {p \in Present(files) : files[p] # before[p]}
           Kind(p) == IF files[p] = None THEN "close" ELSE IF before[p] = None THEN "open" ELSE "change"
           paths == order[gone] \o order[told]
           n == Len(paths)
           Note(p) == [kind |-> Kind(p), path |-> p, text |-> files[p]]
           notes == [i \in 1 .. n |-> Note(paths[i])]
<1>1. gone \in SUBSET Paths /\ told \in SUBSET Paths /\ gone \cap told = {}
  BY DEF Present
<1>2. /\ paths \in Seq(Paths) /\ IsInjective(paths)
      /\ \A p : p \in gone \cup told <=> \E i \in 1 .. n : paths[i] = p
  BY <1>1, OrdersConcat
<1>3. n \in Nat /\ DOMAIN paths = 1 .. n
  BY <1>2, LenProperties
<1>4. Notifications(before, files, order) = notes
  BY <1>3 DEF Notifications
<1>5. \A p \in gone \cup told : Note(p) \in Documents
  BY DEF Documents, Trees, Present
<1>6. ASSUME NEW p \in Paths, p \notin gone \cup told PROVE files[p] = before[p]
  BY <1>6 DEF Present
<1>7. \A p \in gone \cup told : Kind(p) = "open" <=> before[p] = None
  BY DEF Present
<1>p. \A p \in Paths : Note(p).path = p /\ Note(p).text = files[p] /\ Note(p).kind = Kind(p)
  OBVIOUS
<1>8. \A i \in 1 .. n : paths[i] \in gone \cup told /\ paths[i] \in Paths
  BY <1>1, <1>2
<1> HIDE DEF gone, told, paths, n, Note
<1>9. /\ notes \in Seq(Documents) /\ Len(notes) = n
      /\ \A i \in 1 .. n : notes[i] = Note(paths[i]) /\ notes[i] \in Documents
  <2>1. \A i \in 1 .. n : Note(paths[i]) \in Documents
    BY <1>5, <1>8
  <2>2. notes \in [1 .. n -> Documents]
    BY <2>1
  <2>3. notes \in Seq(Documents) /\ Len(notes) = n
    BY <1>3, <2>2, LenProperties
  <2> QED
    BY <2>1, <2>3
<1> DEFINE By(i) == {p \in Paths : \E j \in 1 .. i : paths[j] = p}
           At(i) == [p \in Paths |-> IF p \in By(i) THEN files[p] ELSE before[p]]
           ds == [i \in 0 .. n |-> At(i)]
<1>10. ds[0] = before
  <2>1. 0 \in 0 .. n /\ By(0) = {}
    BY <1>3
  <2>2. At(0) = before
    BY <2>1 DEF Trees
  <2> HIDE DEF At
  <2> QED
    BY <2>1, <2>2
<1>11. ASSUME NEW i \in 1 .. n
       PROVE  /\ ds[i] = Handled(ds[i - 1], notes[i])
              /\ ds[i - 1][paths[i]] = before[paths[i]]
  <2>1. i \in 0 .. n /\ i - 1 \in 0 .. n
    BY <1>3
  <2>2. ds[i] = At(i) /\ ds[i - 1] = At(i - 1)
    BY <2>1
  <2>3. paths[i] \in Paths
    BY <1>8
  <2>4. By(i) = By(i - 1) \cup {paths[i]}
    <3>1. \A j \in 1 .. i : j \in 1 .. i - 1 \/ j = i
      BY <1>3
    <3>2. \A j \in 1 .. i - 1 : j \in 1 .. i
      BY <1>3
    <3>3. i \in 1 .. i
      BY <1>3
    <3> QED
      BY <2>3, <3>1, <3>2, <3>3
  <2>5. paths[i] \notin By(i - 1)
    <3> SUFFICES ASSUME NEW j \in 1 .. i - 1, paths[j] = paths[i] PROVE FALSE
      OBVIOUS
    <3>1. j \in 1 .. n /\ j # i
      BY <1>3
    <3> QED
      BY <1>2, <1>3, <3>1 DEF IsInjective
  <2> HIDE DEF By
  <2>6. At(i) = [At(i - 1) EXCEPT ![paths[i]] = files[paths[i]]]
    BY <2>3, <2>4
  <2>7. Handled(At(i - 1), notes[i]) = [At(i - 1) EXCEPT ![paths[i]] = files[paths[i]]]
    <3> HIDE DEF At
    <3>1. notes[i].path = paths[i] /\ notes[i].text = files[paths[i]] /\ notes[i] \in Documents
      BY <1>9, <1>p, <2>3
    <3> QED
      BY <3>1 DEF Handled
  <2>8. At(i - 1)[paths[i]] = before[paths[i]]
    BY <2>3, <2>5
  <2> HIDE DEF At, ds
  <2> QED
    BY <2>2, <2>6, <2>7, <2>8
<1>12. ds[n] = files
  <2>1. n \in 0 .. n
    BY <1>3
  <2>2. \A p \in Paths : p \in By(n) <=> p \in gone \cup told
    BY <1>2
  <2> HIDE DEF By
  <2>3. At(n) = files
    BY <1>6, <2>2 DEF Trees
  <2> HIDE DEF At
  <2> QED
    BY <2>1, <2>3
<1> HIDE DEF ds, notes
<1>13. notes \in Seq(Sent)
  BY <1>9 DEF Sent
<1>14. \A i \in 0 .. n : ds[i] = After(before, notes)[i]
  <2>1. \A i \in 1 .. Len(notes) : ds[i] = Handled(ds[i - 1], notes[i])
    BY <1>9, <1>11
  <2>2. \A i \in 0 .. Len(notes) : ds[i] = After(before, notes)[i]
    BY <1>10, <1>13, <2>1, AfterUnique
  <2> QED
    BY <1>9, <2>2
<1>15. After(before, notes)[Len(notes)] = files
  <2>1. n \in 0 .. n
    BY <1>3
  <2> QED
    BY <1>9, <1>12, <1>14, <2>1
<1>16. ASSUME NEW i \in 1 .. n
       PROVE  After(before, notes)[i - 1][notes[i].path] = None <=> notes[i].kind = "open"
  <2>1. i - 1 \in 0 .. n
    BY <1>3
  <2>2. After(before, notes)[i - 1] = ds[i - 1]
    BY <1>14, <2>1
  <2>3. notes[i].path = paths[i] /\ notes[i].kind = Kind(paths[i])
    BY <1>8, <1>9, <1>p
  <2>4. ds[i - 1][paths[i]] = before[paths[i]]
    BY <1>11
  <2>5. Kind(paths[i]) = "open" <=> before[paths[i]] = None
    BY <1>7, <1>8
  <2> QED
    BY <2>2, <2>3, <2>4, <2>5
<1>17. Tells(before, notes, files)
  BY <1>9, <1>15, <1>16 DEF Tells
<1> QED
  BY <1>4, <1>9, <1>17
-------------------------------------------------------------------------------
(* What a listener may do to the page: no file appears or goes, a model that   *)
(* has a file stays the same object and its version grows with its text, other *)
(* models are disposed or made, and the server is told.                        *)

Grown(m, n) ==
    /\ n.object = m.object /\ n.markers = m.markers /\ m.version <= n.version
    /\ n.version = m.version => n.text = m.text

MaySucceed(old, new, p) ==
    \/ old.models[p] # None /\ new.models[p] # None /\ Grown(old.models[p], new.models[p])
    \/ /\ old.models[p] = None \/ old.files[p] = None
       /\ new.models[p] # None => new.models[p].object \in old.created .. new.created - 1

SameFiles(old, new) == \A p \in Paths : new.files[p] = None <=> old.files[p] = None

PageStep(old, new) ==
    /\ new \in Pages /\ old.created <= new.created
    /\ SameFiles(old, new)
    /\ \A p \in Paths : MaySucceed(old, new, p)
    /\ \E notes \in Seq(Documents) :
           new.outgoing = old.outgoing \o notes /\ Tells(old.previous, notes, new.previous)

LEMMA DocumentsAreSent == Seq(Documents) \subseteq Seq(Sent)
<1>1. Documents \subseteq Sent
  BY DEF Sent
<1> HIDE DEF Sent, Documents
<1> QED
  BY <1>1

LEMMA PageFields ==
  ASSUME NEW pg \in Pages
  PROVE  /\ pg.files \in Trees /\ pg.models \in [Paths -> Models \cup {None}]
         /\ pg.previous \in Trees /\ pg.outgoing \in Seq(Documents) /\ pg.created \in Nat
BY DEF Pages

LEMMA TreeValue ==
  ASSUME NEW t \in Trees, NEW p \in Paths
  PROVE  t[p] \in Texts \cup {None}
BY DEF Trees

LEMMA NormalIs ==
  ASSUME NEW t \in Texts
  PROVE  /\ Normal[t] \in NormalTexts /\ Normal[t] \in Texts /\ Normal[Normal[t]] = Normal[t]
         /\ NormalTexts \subseteq Texts /\ \A n \in NormalTexts : Normal[n] = n
BY TextsAssumption DEF NormalTexts

LEMMA ModelFields ==
  ASSUME NEW m \in Models
  PROVE  /\ m.text \in NormalTexts /\ m.text \in Texts /\ m.version \in Nat /\ m.object \in Nat
         /\ m.markers \in Trees \cup {None} /\ m # None
<1>1. m.text \in NormalTexts /\ m.version \in Nat /\ m.object \in Nat /\ m.markers \in Trees \cup {None}
  BY DEF Models
<1>2. NormalTexts \subseteq Texts
  BY TextsAssumption DEF NormalTexts
<1> QED
  BY <1>1, <1>2, NoneAssumption

LEMMA PushedIs ==
  ASSUME NEW m \in Models, NEW text \in Texts
  PROVE  /\ Pushed(m, text) \in Models /\ Pushed(m, text).text = Normal[text]
         /\ Grown(m, Pushed(m, text))
<1>1. m.version \in Nat /\ m.version + 1 \in Nat /\ m.version <= m.version + 1 /\ m.version + 1 # m.version
  BY ModelFields
<1>2. Normal[text] \in NormalTexts
  BY NormalIs
<1>3. Pushed(m, text) \in Models
  BY <1>1, <1>2 DEF Pushed, Models
<1>4. /\ Pushed(m, text).text = Normal[text] /\ Pushed(m, text).version = m.version + 1
      /\ Pushed(m, text).object = m.object /\ Pushed(m, text).markers = m.markers
  BY DEF Pushed, Models
<1> QED
  BY <1>1, <1>3, <1>4 DEF Grown

LEMMA NewModelIs ==
  ASSUME NEW pg \in Pages, NEW text \in Texts
  PROVE  /\ NewModel(pg, text) \in Models /\ NewModel(pg, text).text = Normal[text]
         /\ NewModel(pg, text).object = pg.created /\ NewModel(pg, text) # None
<1>1. pg.created \in Nat /\ Normal[text] \in NormalTexts
  BY PageFields, NormalIs
<1>2. NewModel(pg, text) \in Models
  BY <1>1 DEF NewModel, Models
<1> QED
  BY <1>2, NoneAssumption DEF NewModel

LEMMA GrownSame ==
  ASSUME NEW m \in Models
  PROVE  Grown(m, m)
BY ModelFields DEF Grown

LEMMA GrownTwice ==
  ASSUME NEW a \in Models, NEW b \in Models, NEW c \in Models, Grown(a, b), Grown(b, c)
  PROVE  Grown(a, c)
<1>1. a.version \in Nat /\ b.version \in Nat /\ c.version \in Nat
  BY ModelFields
<1> QED
  BY <1>1 DEF Grown

(* A page whose models and files change one by one and that sends nothing.     *)
LEMMA QuietStep ==
  ASSUME NEW old \in Pages, NEW new \in Pages, old.created <= new.created,
         SameFiles(old, new), \A p \in Paths : MaySucceed(old, new, p),
         new.outgoing = old.outgoing, new.previous = old.previous
  PROVE  PageStep(old, new)
<1>1. << >> \in Seq(Documents) /\ new.outgoing = old.outgoing \o << >>
  BY PageFields, ConcatEmptySeq, EmptySeq
<1>2. Tells(old.previous, << >>, new.previous)
  BY PageFields, TellsNothing
<1> QED
  BY <1>1, <1>2 DEF PageStep

LEMMA SameModel ==
  ASSUME NEW old \in Pages, NEW new, NEW p \in Paths, new.models[p] = old.models[p]
  PROVE  MaySucceed(old, new, p)
<1>1. old.models[p] \in Models \cup {None}
  BY PageFields
<1> QED
  BY <1>1, GrownSame DEF MaySucceed

LEMMA StepSame ==
  ASSUME NEW pg \in Pages
  PROVE  PageStep(pg, pg)
BY QuietStep, SameModel, PageFields DEF SameFiles

LEMMA StepTwice ==
  ASSUME NEW a \in Pages, NEW b, NEW c, PageStep(a, b), PageStep(b, c)
  PROVE  PageStep(a, c)
<1>1. b \in Pages /\ c \in Pages
  BY DEF PageStep
<1>2. /\ a.created \in Nat /\ b.created \in Nat /\ c.created \in Nat
      /\ a.created <= b.created /\ b.created <= c.created
  BY <1>1, PageFields DEF PageStep
<1>3. SameFiles(a, c)
  BY DEF PageStep, SameFiles
<1>4. ASSUME NEW p \in Paths PROVE MaySucceed(a, c, p)
  <2>1. MaySucceed(a, b, p) /\ MaySucceed(b, c, p)
    BY DEF PageStep
  <2>2. /\ a.models[p] \in Models \cup {None} /\ b.models[p] \in Models \cup {None}
        /\ c.models[p] \in Models \cup {None}
    BY <1>1, PageFields
  <2>3. b.files[p] = None <=> a.files[p] = None
    BY DEF PageStep, SameFiles
  <2>4. CASE a.models[p] # None /\ b.models[p] # None /\ Grown(a.models[p], b.models[p])
    <3>1. CASE c.models[p] # None /\ Grown(b.models[p], c.models[p])
      BY <2>2, <2>4, <3>1, GrownTwice DEF MaySucceed
    <3>2. CASE /\ b.models[p] = None \/ b.files[p] = None
               /\ c.models[p] # None => c.models[p].object \in b.created .. c.created - 1
      <4>1. c.models[p] # None => c.models[p].object \in a.created .. c.created - 1
        BY <1>2, <3>2
      <4> QED
        BY <2>3, <2>4, <3>2, <4>1 DEF MaySucceed
    <3> QED
      BY <2>1, <3>1, <3>2 DEF MaySucceed
  <2>5. CASE /\ a.models[p] = None \/ a.files[p] = None
             /\ b.models[p] # None => b.models[p].object \in a.created .. b.created - 1
    <3>1. CASE b.models[p] # None /\ c.models[p] # None /\ Grown(b.models[p], c.models[p])
      <4>1. c.models[p].object = b.models[p].object
        BY <3>1 DEF Grown
      <4>2. c.models[p].object \in a.created .. c.created - 1
        BY <1>2, <2>5, <3>1, <4>1
      <4> QED
        BY <2>5, <4>2 DEF MaySucceed
    <3>2. CASE c.models[p] # None => c.models[p].object \in b.created .. c.created - 1
      <4>1. c.models[p] # None => c.models[p].object \in a.created .. c.created - 1
        BY <1>2, <3>2
      <4> QED
        BY <2>5, <4>1 DEF MaySucceed
    <3> QED
      BY <2>1, <3>1, <3>2 DEF MaySucceed
  <2> QED
    BY <2>1, <2>4, <2>5 DEF MaySucceed
<1>5. \E notes \in Seq(Documents) :
        c.outgoing = a.outgoing \o notes /\ Tells(a.previous, notes, c.previous)
  <2>1. PICK s \in Seq(Documents) : b.outgoing = a.outgoing \o s /\ Tells(a.previous, s, b.previous)
    BY DEF PageStep
  <2>2. PICK t \in Seq(Documents) : c.outgoing = b.outgoing \o t /\ Tells(b.previous, t, c.previous)
    BY DEF PageStep
  <2>3. s \in Seq(Sent) /\ t \in Seq(Sent) /\ a.previous \in Trees
    BY DocumentsAreSent, PageFields
  <2>4. Tells(a.previous, s \o t, c.previous)
    BY <2>1, <2>2, <2>3, TellsConcat
  <2>5. s \o t \in Seq(Documents) /\ (a.outgoing \o s) \o t = a.outgoing \o (s \o t)
    <3> DEFINE o == a.outgoing
               S == Documents
    <3>1. o \in Seq(S) /\ s \in Seq(S) /\ t \in Seq(S)
      BY PageFields
    <3> HIDE DEF o, S
    <3>2. s \o t \in Seq(S) /\ (o \o s) \o t = o \o (s \o t)
      BY <3>1, ConcatProperties, ConcatAssociative
    <3> QED
      BY <3>2 DEF o, S
  <2> QED
    BY <2>1, <2>2, <2>4, <2>5
<1>6. a.created <= c.created
  BY <1>2
<1> QED
  BY <1>1, <1>3, <1>4, <1>5, <1>6 DEF PageStep
-------------------------------------------------------------------------------
(* The steps the listeners are made of.                                        *)

Push(pg, p, text) == [pg EXCEPT !.models[p] = Pushed(@, text)]
SetFile(pg, p, text) == [pg EXCEPT !.files[p] = text]

LEMMA PushStep ==
  ASSUME NEW pg \in Pages, NEW p \in Paths, pg.models[p] # None, NEW text \in Texts,
         NEW q, q = Push(pg, p, text)
  PROVE  /\ q.files = pg.files /\ q.previous = pg.previous /\ q.outgoing = pg.outgoing
         /\ q.created = pg.created
         /\ \A x \in Paths : q.models[x] = IF x = p THEN Pushed(pg.models[p], text) ELSE pg.models[x]
         /\ q.models[p] \in Models /\ q.models[p].text = Normal[text]
         /\ PageStep(pg, q)
<1> DEFINE new == Pushed(pg.models[p], text)
<1>1. pg.models[p] \in Models /\ pg.models \in [Paths -> Models \cup {None}]
  BY PageFields
<1>2. new \in Models /\ new.text = Normal[text] /\ Grown(pg.models[p], new)
  BY <1>1, PushedIs
<1> HIDE DEF new
<1>3. q = [pg EXCEPT !.models = [pg.models EXCEPT ![p] = new]]
  BY DEF new, Push
<1>a. [pg.models EXCEPT ![p] = new] \in [Paths -> Models \cup {None}]
  BY <1>1, <1>2
<1>4. /\ q.files = pg.files /\ q.previous = pg.previous /\ q.outgoing = pg.outgoing
      /\ q.created = pg.created /\ q.models = [pg.models EXCEPT ![p] = new] /\ q \in Pages
  BY <1>3, <1>a DEF Pages
<1>5. \A x \in Paths : q.models[x] = IF x = p THEN new ELSE pg.models[x]
  BY <1>1, <1>4
<1>6. ASSUME NEW x \in Paths PROVE MaySucceed(pg, q, x)
  <2>1. CASE x = p
    BY <1>2, <1>5, <2>1, ModelFields DEF MaySucceed
  <2>2. CASE x # p
    BY <1>5, <2>2, SameModel
  <2> QED
    BY <2>1, <2>2
<1>b. pg.created <= q.created
  BY <1>4, PageFields
<1>7. PageStep(pg, q)
  BY <1>4, <1>6, <1>b, QuietStep DEF SameFiles
<1> QED
  BY <1>2, <1>4, <1>5, <1>7 DEF new

LEMMA CreateStep ==
  ASSUME NEW pg \in Pages, NEW p \in Paths, pg.models[p] = None, NEW text \in Texts,
         NEW q, q = CreateModel(pg, p, text)
  PROVE  /\ q.files = pg.files /\ q.previous = pg.previous /\ q.outgoing = pg.outgoing
         /\ \A x \in Paths : q.models[x] = IF x = p THEN NewModel(pg, text) ELSE pg.models[x]
         /\ q.models[p] \in Models /\ q.models[p].text = Normal[text]
         /\ PageStep(pg, q)
<1> DEFINE new == NewModel(pg, text)
<1>1. pg.models \in [Paths -> Models \cup {None}] /\ pg.created \in Nat
  BY PageFields
<1>2. new \in Models /\ new.text = Normal[text] /\ new.object = pg.created
  BY NewModelIs
<1> HIDE DEF new
<1>3. q = [pg EXCEPT !.models = [pg.models EXCEPT ![p] = new], !.created = pg.created + 1]
  BY DEF CreateModel, new
<1>a. [pg.models EXCEPT ![p] = new] \in [Paths -> Models \cup {None}] /\ pg.created + 1 \in Nat
  BY <1>1, <1>2
<1>4. /\ q.files = pg.files /\ q.previous = pg.previous /\ q.outgoing = pg.outgoing
      /\ q.created = pg.created + 1 /\ q.models = [pg.models EXCEPT ![p] = new] /\ q \in Pages
  BY <1>3, <1>a DEF Pages
<1>5. \A x \in Paths : q.models[x] = IF x = p THEN new ELSE pg.models[x]
  BY <1>1, <1>4
<1>6. pg.created <= q.created /\ pg.created \in pg.created .. q.created - 1
  BY <1>1, <1>4
<1>7. ASSUME NEW x \in Paths PROVE MaySucceed(pg, q, x)
  <2>1. CASE x = p
    BY <1>2, <1>5, <1>6, <2>1 DEF MaySucceed
  <2>2. CASE x # p
    BY <1>5, <2>2, SameModel
  <2> QED
    BY <2>1, <2>2
<1>8. PageStep(pg, q)
  BY <1>4, <1>6, <1>7, QuietStep DEF SameFiles
<1> QED
  BY <1>2, <1>4, <1>5, <1>8 DEF new

LEMMA FileStep ==
  ASSUME NEW pg \in Pages, NEW p \in Paths, pg.files[p] # None, NEW text \in Texts,
         NEW q, q = SetFile(pg, p, text)
  PROVE  /\ q.files = [pg.files EXCEPT ![p] = text] /\ q.models = pg.models
         /\ q.previous = pg.previous /\ q.created = pg.created
         /\ PageStep(pg, q)
<1>1. pg.files \in Trees
  BY PageFields
<1>2. q = [pg EXCEPT !.files = [pg.files EXCEPT ![p] = text]]
  BY DEF SetFile
<1>3. [pg.files EXCEPT ![p] = text] \in Trees
  BY <1>1 DEF Trees
<1>4. /\ q.files = [pg.files EXCEPT ![p] = text] /\ q.models = pg.models /\ q.previous = pg.previous
      /\ q.outgoing = pg.outgoing /\ q.created = pg.created /\ q \in Pages
  BY <1>2, <1>3 DEF Pages
<1>5. text # None
  BY NoneAssumption
<1>6. SameFiles(pg, q)
  BY <1>1, <1>4, <1>5 DEF SameFiles, Trees
<1>7. pg.created <= q.created
  BY <1>4, PageFields
<1>8. PageStep(pg, q)
  BY <1>4, <1>6, <1>7, QuietStep, SameModel
<1> QED
  BY <1>4, <1>8

LEMMA NestedStep ==
  ASSUME NEW pg \in Pages, NEW q, q = NestedSync[pg]
  PROVE  /\ q.files = pg.files /\ q.previous = pg.previous
         /\ \A x \in Paths :
              /\ pg.files[x] = None => q.models[x] = None
              /\ pg.files[x] # None /\ pg.models[x] # None => q.models[x] = pg.models[x]
         /\ PageStep(pg, q)
<1> DEFINE New(x) == NewModel(pg, pg.files[x])
           At(x) == CASE pg.files[x] = None -> None
                      [] x \in Missing(pg) -> New(x)
                      [] OTHER -> pg.models[x]
           count == IF Missing(pg) = {} THEN pg.created ELSE pg.created + 1
<1>1. q = [pg EXCEPT !.models = [x \in Paths |-> At(x)], !.created = count]
  BY DEF NestedSync
<1>2. /\ pg.files \in Trees /\ pg.models \in [Paths -> Models \cup {None}] /\ pg.created \in Nat
  BY PageFields
<1>3. \A x \in Paths : pg.files[x] # None =>
        New(x) \in Models /\ New(x).object = pg.created /\ New(x) # None
  BY <1>2, TreeValue, NewModelIs
<1>4. \A x \in Paths : x \in Missing(pg) <=> pg.files[x] # None /\ pg.models[x] = None
  BY DEF Missing, Present
<1> HIDE DEF New
<1>5. /\ count \in Nat /\ pg.created <= count
      /\ Missing(pg) # {} => pg.created \in pg.created .. count - 1
  BY <1>2
<1> HIDE DEF count
<1>6. \A x \in Paths :
        /\ pg.files[x] = None => At(x) = None
        /\ pg.files[x] # None /\ pg.models[x] # None => At(x) = pg.models[x]
        /\ pg.files[x] # None /\ pg.models[x] = None => At(x) = New(x)
  BY <1>4
<1> HIDE DEF At
<1>7. \A x \in Paths : At(x) \in Models \cup {None}
  BY <1>2, <1>3, <1>6
<1>8. /\ q.files = pg.files /\ q.previous = pg.previous /\ q.outgoing = pg.outgoing
      /\ q.created = count /\ q.models = [x \in Paths |-> At(x)] /\ q \in Pages
  BY <1>1, <1>2, <1>5, <1>7 DEF Pages
<1>9. ASSUME NEW x \in Paths PROVE MaySucceed(pg, q, x)
  <2>1. q.models[x] = At(x)
    BY <1>8
  <2>2. CASE pg.files[x] = None
    BY <1>6, <2>1, <2>2 DEF MaySucceed
  <2>3. CASE pg.files[x] # None /\ pg.models[x] # None
    BY <1>6, <2>1, <2>3, SameModel
  <2>4. CASE pg.files[x] # None /\ pg.models[x] = None
    <3>1. Missing(pg) # {}
      BY <1>4, <2>4
    <3>2. q.models[x].object \in pg.created .. q.created - 1
      BY <1>3, <1>5, <1>6, <1>8, <2>1, <2>4, <3>1
    <3> QED
      BY <2>4, <3>2 DEF MaySucceed
  <2> QED
    BY <2>2, <2>3, <2>4
<1>10. PageStep(pg, q)
  BY <1>5, <1>8, <1>9, QuietStep DEF SameFiles
<1>11. \A x \in Paths : q.models[x] = At(x)
  BY <1>8
<1> QED
  BY <1>6, <1>8, <1>10, <1>11

LEMMA SyncStep ==
  ASSUME NEW pg \in Pages, NEW order \in Orders, NEW q, q = WorkspaceSync(order)[pg]
  PROVE  /\ q.files = pg.files /\ q.models = pg.models /\ q.previous = pg.files
         /\ q.created = pg.created
         /\ PageStep(pg, q)
<1> DEFINE notes == Notifications(pg.previous, pg.files, order)
<1>1. q = [pg EXCEPT !.outgoing = pg.outgoing \o notes, !.previous = pg.files]
  BY DEF WorkspaceSync
<1>2. /\ pg.files \in Trees /\ pg.previous \in Trees /\ pg.outgoing \in Seq(Documents)
      /\ pg.created \in Nat
  BY PageFields
<1>3. notes \in Seq(Documents) /\ Tells(pg.previous, notes, pg.files)
  BY <1>2, NotificationsTell
<1> HIDE DEF notes
<1>4. pg.outgoing \o notes \in Seq(Documents)
  BY <1>2, <1>3, ConcatProperties
<1>5. /\ q.files = pg.files /\ q.models = pg.models /\ q.previous = pg.files
      /\ q.created = pg.created /\ q.outgoing = pg.outgoing \o notes /\ q \in Pages
  BY <1>1, <1>2, <1>4 DEF Pages
<1>6. pg.created <= q.created
  BY <1>2, <1>5
<1>7. \A p \in Paths : MaySucceed(pg, q, p)
  BY <1>5, SameModel
<1> QED
  BY <1>3, <1>5, <1>6, <1>7 DEF PageStep, SameFiles
-------------------------------------------------------------------------------
(* A change of a model, with the listeners that run inside it.                 *)

LEMMA ModelChangedParts ==
  ASSUME NEW pg \in Pages, NEW p \in Paths, pg.models[p] # None, pg.files[p] # None,
         NEW text \in Texts, NEW order \in Orders,
         NEW a, a = Push(pg, p, text), NEW b, b = SetFile(a, p, Normal[text]),
         NEW c, c = NestedSync[b], NEW d, d = WorkspaceSync(order)[c]
  PROVE  /\ a.files = pg.files /\ a.previous = pg.previous /\ PageStep(pg, a)
         /\ \A x \in Paths : x # p => a.models[x] = pg.models[x]
         /\ a.models[p] # None /\ a.models[p].text = Normal[text]
         /\ PageStep(pg, d) /\ d.previous = d.files
         /\ \A x \in Paths : d.files[x] = IF x = p THEN Normal[text] ELSE pg.files[x]
         /\ d.files = [pg.files EXCEPT ![p] = Normal[text]]
         /\ \A x \in Paths :
              /\ d.files[x] = None => d.models[x] = None
              /\ d.files[x] # None /\ a.models[x] # None => d.models[x] = a.models[x]
<1>1. /\ a.files = pg.files /\ a.previous = pg.previous
      /\ \A x \in Paths : a.models[x] = IF x = p THEN Pushed(pg.models[p], text) ELSE pg.models[x]
      /\ a.models[p] \in Models /\ a.models[p].text = Normal[text]
      /\ PageStep(pg, a)
  BY PushStep
<1>2. a \in Pages /\ a.models[p] # None /\ a.files[p] # None
  BY <1>1, ModelFields DEF PageStep
<1>3. pg.files \in Trees /\ Normal[text] \in Texts
  BY PageFields, NormalIs
<1>4. b.files = [a.files EXCEPT ![p] = Normal[text]] /\ b.models = a.models /\ PageStep(a, b)
  BY <1>2, <1>3, FileStep
<1>5. b \in Pages
  BY <1>4 DEF PageStep
<1>6. /\ c.files = b.files /\ PageStep(b, c)
      /\ \A x \in Paths :
           /\ b.files[x] = None => c.models[x] = None
           /\ b.files[x] # None /\ b.models[x] # None => c.models[x] = b.models[x]
  BY <1>5, NestedStep
<1>7. c \in Pages
  BY <1>6 DEF PageStep
<1>8. d.files = c.files /\ d.models = c.models /\ d.previous = c.files /\ PageStep(c, d)
  BY <1>7, SyncStep
<1>9. PageStep(pg, d)
  BY <1>1, <1>2, <1>4, <1>5, <1>6, <1>8, StepTwice
<1>10. d.files = [pg.files EXCEPT ![p] = Normal[text]]
  BY <1>1, <1>4, <1>6, <1>8
<1>11. \A x \in Paths : d.files[x] = IF x = p THEN Normal[text] ELSE pg.files[x]
  BY <1>3, <1>10 DEF Trees
<1> QED
  BY <1>1, <1>2, <1>4, <1>6, <1>8, <1>9, <1>10, <1>11

LEMMA ModelChangedStep ==
  ASSUME NEW pg \in Pages, NEW p \in Paths, pg.models[p] # None, pg.files[p] # None,
         NEW text \in Texts, NEW order \in Orders, NEW q, q = ModelChanged(pg, p, text, order)
  PROVE  /\ PageStep(pg, q)
         /\ q.files = [pg.files EXCEPT ![p] = Normal[text]]
         /\ q.models[p] # None /\ q.models[p].text = Normal[text]
         /\ \A x \in Paths \ {p} :
              /\ pg.files[x] # None /\ pg.models[x] # None => q.models[x] = pg.models[x]
              /\ pg.files[x] = None /\ pg.models[x] = None => q.models[x] = None
         /\ pg.previous = pg.files => q.previous = q.files
<1> DEFINE a == Push(pg, p, text)
           b == SetFile(a, p, Normal[text])
           c == NestedSync[b]
           d == WorkspaceSync(order)[c]
<1>1. q = IF pg.files[p] \in {None, Normal[text]} THEN a ELSE d
  BY DEF ModelChanged, Push, SetFile
<1>2. /\ a.files = pg.files /\ a.previous = pg.previous /\ PageStep(pg, a)
      /\ \A x \in Paths : x # p => a.models[x] = pg.models[x]
      /\ a.models[p] # None /\ a.models[p].text = Normal[text]
      /\ PageStep(pg, d) /\ d.previous = d.files
      /\ \A x \in Paths : d.files[x] = IF x = p THEN Normal[text] ELSE pg.files[x]
      /\ d.files = [pg.files EXCEPT ![p] = Normal[text]]
      /\ \A x \in Paths :
           /\ d.files[x] = None => d.models[x] = None
           /\ d.files[x] # None /\ a.models[x] # None => d.models[x] = a.models[x]
  BY ModelChangedParts
<1> HIDE DEF a, b, c, d
<1>3. pg.files \in Trees /\ Normal[text] # None
  BY PageFields, NormalIs, NoneAssumption
<1>4. CASE pg.files[p] = Normal[text]
  <2>1. q = a
    BY <1>1, <1>4
  <2>2. [pg.files EXCEPT ![p] = Normal[text]] = pg.files
    BY <1>3, <1>4 DEF Trees
  <2> QED
    BY <1>2, <2>1, <2>2
<1>5. CASE pg.files[p] # Normal[text]
  <2>1. q = d
    BY <1>1, <1>5
  <2> QED
    BY <1>2, <1>3, <2>1
<1> QED
  BY <1>4, <1>5

LEMMA ModelChangedMirrors ==
  ASSUME NEW pg \in Pages, NEW p \in Paths, pg.models[p] # None, pg.files[p] # None, Mirrors(pg),
         NEW text \in Texts, NEW order \in Orders, NEW q, q = ModelChanged(pg, p, text, order)
  PROVE  Mirrors(q)
<1>1. /\ PageStep(pg, q)
      /\ q.files = [pg.files EXCEPT ![p] = Normal[text]]
      /\ q.models[p] # None /\ q.models[p].text = Normal[text]
      /\ \A x \in Paths \ {p} :
           /\ pg.files[x] # None /\ pg.models[x] # None => q.models[x] = pg.models[x]
           /\ pg.files[x] = None /\ pg.models[x] = None => q.models[x] = None
  BY ModelChangedStep
<1>2. pg.files \in Trees /\ Normal[text] # None /\ Normal[Normal[text]] = Normal[text]
  BY PageFields, NormalIs, NoneAssumption
<1>3. \A x \in Paths : q.files[x] = IF x = p THEN Normal[text] ELSE pg.files[x]
  BY <1>1, <1>2 DEF Trees
<1> QED
  BY <1>1, <1>2, <1>3 DEF Mirrors

-------------------------------------------------------------------------------
(* The listener of the model host.                                             *)

(* What the page may become while the listener goes through the files: their   *)
(* texts change only to what a model makes of them.                            *)
SyncPages(pg) ==
    {q \in Pages : /\ PageStep(pg, q)
                   /\ \A x \in Paths : pg.files[x] # None => q.files[x] \in {pg.files[x], Normal[pg.files[x]]}
                   /\ pg.previous = pg.files => q.previous = q.files}

Done(pg, q, x) == q.models[x] # None /\ q.models[x].text = Normal[pg.files[x]]

LEMMA EnsureStep ==
  ASSUME NEW pg \in Pages, NEW q \in SyncPages(pg), NEW p \in Present(pg.files), NEW order \in Orders,
         NEW e, e = EnsureModel(q, p, pg.files[p], order)
  PROVE  /\ e \in SyncPages(pg) /\ Done(pg, e, p)
         /\ \A x \in Paths : pg.files[x] # None /\ Done(pg, q, x) => Done(pg, e, x)
<1> DEFINE text == pg.files[p]
<1>1. p \in Paths /\ text # None /\ text \in Texts /\ pg.files \in Trees
  BY PageFields, TreeValue DEF Present
<1>2. Normal[text] \in Texts /\ Normal[Normal[text]] = Normal[text] /\ \A n \in NormalTexts : Normal[n] = n
  BY <1>1, NormalIs
<1>3. q \in Pages /\ PageStep(pg, q)
  BY DEF SyncPages
<1>4. \A x \in Paths : q.files[x] = None <=> pg.files[x] = None
  BY <1>3 DEF PageStep, SameFiles
<1>5. q.files \in Trees /\ q.models[p] \in Models \cup {None}
  BY <1>1, <1>3, PageFields
<1> HIDE DEF text
<1>6. CASE q.models[p] = None
  <2>1. e = CreateModel(q, p, text)
    BY <1>6 DEF EnsureModel, text
  <2>2. /\ e.files = q.files /\ e.previous = q.previous /\ PageStep(q, e)
        /\ \A x \in Paths : x # p => e.models[x] = q.models[x]
        /\ e.models[p] # None /\ e.models[p].text = Normal[text]
    BY <1>1, <1>3, <1>6, <2>1, CreateStep, ModelFields
  <2>3. PageStep(pg, e) /\ e \in Pages
    BY <1>3, <2>2, StepTwice DEF PageStep
  <2>4. e \in SyncPages(pg)
    BY <2>2, <2>3 DEF SyncPages
  <2> QED
    BY <2>2, <2>4 DEF Done, text
<1>7. CASE q.models[p] # None /\ q.models[p].text # text
  <2>1. e = ModelChanged(q, p, text, order)
    BY <1>7 DEF EnsureModel, text
  <2>2. q.files[p] # None
    BY <1>1, <1>4 DEF text
  <2>3. /\ PageStep(q, e)
        /\ e.files = [q.files EXCEPT ![p] = Normal[text]]
        /\ e.models[p] # None /\ e.models[p].text = Normal[text]
        /\ \A x \in Paths \ {p} :
             /\ q.files[x] # None /\ q.models[x] # None => e.models[x] = q.models[x]
             /\ q.files[x] = None /\ q.models[x] = None => e.models[x] = None
        /\ q.previous = q.files => e.previous = e.files
    BY <1>1, <1>3, <1>7, <2>1, <2>2, ModelChangedStep
  <2>4. PageStep(pg, e) /\ e \in Pages
    BY <1>3, <2>3, StepTwice DEF PageStep
  <2>5. \A x \in Paths : e.files[x] = IF x = p THEN Normal[text] ELSE q.files[x]
    BY <1>5, <2>3 DEF Trees
  <2>6. e \in SyncPages(pg)
    BY <2>3, <2>4, <2>5 DEF SyncPages, text
  <2> QED
    BY <1>4, <2>3, <2>6 DEF Done, text
<1>8. CASE q.models[p] # None /\ q.models[p].text = text
  <2>1. e = q
    BY <1>8 DEF EnsureModel, text
  <2>2. q.models[p].text \in NormalTexts
    BY <1>5, <1>8, ModelFields
  <2> QED
    BY <1>2, <1>8, <2>1, <2>2 DEF Done, text
<1> QED
  BY <1>6, <1>7, <1>8

LEMMA HostSyncStep ==
  ASSUME NEW pg \in Pages, NEW order \in Orders, NEW q, q = HostSync(pg, order)
  PROVE  PageStep(pg, q) /\ Mirrors(q) /\ (pg.previous = pg.files => q.previous = q.files)
<1> DEFINE keys == order[Present(pg.files)]
           N == Len(keys)
           Ensure(p) == [x \in Pages |-> EnsureModel(x, p, pg.files[p], order)]
           Rule(g) == [i \in 0 .. N |-> IF i = 0 THEN pg ELSE Ensure(keys[i])[g[i - 1]]]
           ensured == CHOOSE g : g = Rule(g)
           done == ensured[N]
           X == SyncPages(pg)
           F == [y \in X \X (1 .. N) |-> EnsureModel(y[1], keys[y[2]], pg.files[keys[y[2]]], order)]
<1>1. q = [done EXCEPT !.models = [p \in Paths |->
             IF pg.files[p] = None THEN None ELSE done.models[p]]]
  BY DEF HostSync
<1>2. /\ keys \in Seq(Paths) /\ Range(keys) = Present(pg.files)
      /\ N \in Nat /\ DOMAIN keys = 1 .. N
  <2>1. Present(pg.files) \in SUBSET Paths
    BY DEF Present
  <2>2. keys \in Seq(Paths) /\ Range(keys) = Present(pg.files)
    BY <2>1, OrdersAssumption
  <2> HIDE DEF keys
  <2> QED
    BY <2>2, LenProperties
<1>3. \A p : p \in Present(pg.files) <=> \E i \in 1 .. N : keys[i] = p
  <2> HIDE DEF keys, N
  <2> QED
    BY <1>2 DEF Range
<1> HIDE DEF keys, N
<1>4. pg \in X
  BY StepSame DEF SyncPages
<1>5. F \in [X \X (1 .. N) -> X]
  <2> SUFFICES ASSUME NEW x \in X, NEW i \in 1 .. N
               PROVE  EnsureModel(x, keys[i], pg.files[keys[i]], order) \in X
    OBVIOUS
  <2>1. keys[i] \in Present(pg.files)
    BY <1>3
  <2> QED
    BY <2>1, EnsureStep
<1>6. PICK g : Follows(g, F, pg, X, N)
  <2> HIDE DEF F, X
  <2> QED
    BY <1>2, <1>4, <1>5, Recursion
<1>7. g \in [0 .. N -> X] /\ g[0] = pg /\ \A i \in 1 .. N : g[i] = F[<<g[i - 1], i>>]
  <2> HIDE DEF F, X
  <2> QED
    BY <1>6 DEF Follows
<1>8. ASSUME NEW i \in 1 .. N
      PROVE  /\ g[i - 1] \in X /\ g[i - 1] \in Pages
             /\ g[i] = EnsureModel(g[i - 1], keys[i], pg.files[keys[i]], order)
  <2>1. i - 1 \in 0 .. N
    BY <1>2
  <2>2. g[i - 1] \in X
    BY <1>7, <2>1
  <2>3. F[<<g[i - 1], i>>] = EnsureModel(g[i - 1], keys[i], pg.files[keys[i]], order)
    BY <2>2
  <2>4. g[i] = F[<<g[i - 1], i>>]
    <3> HIDE DEF F, X
    <3> QED
      BY <1>7
  <2>5. g[i - 1] \in Pages
    BY <2>2 DEF SyncPages
  <2> HIDE DEF F, X
  <2> QED
    BY <2>2, <2>3, <2>4, <2>5
<1>9. g = Rule(g)
  <2> HIDE DEF F, X
  <2>1. ASSUME NEW i \in 0 .. N
        PROVE  g[i] = IF i = 0 THEN pg ELSE Ensure(keys[i])[g[i - 1]]
    <3>1. CASE i = 0
      BY <1>7, <3>1
    <3>2. CASE i # 0
      <4>1. i \in 1 .. N
        BY <1>2, <3>2
      <4>2. g[i - 1] \in Pages /\ g[i] = EnsureModel(g[i - 1], keys[i], pg.files[keys[i]], order)
        BY <1>8, <4>1
      <4> QED
        BY <3>2, <4>2
    <3> QED
      BY <3>1, <3>2
  <2> QED
    BY <1>7, <2>1
<1>10. ensured = Rule(ensured)
  <2> HIDE DEF Rule
  <2> QED
    BY <1>9
<1> HIDE DEF F
<1> DEFINE h == ensured
<1>11. h = Rule(h)
  BY <1>10
<1> HIDE DEF ensured
<1> HIDE DEF h
<1>12. h[0] = pg /\ \A i \in 1 .. N : h[i] = Ensure(keys[i])[h[i - 1]]
  <2>1. \A i \in 0 .. N : h[i] = IF i = 0 THEN pg ELSE Ensure(keys[i])[h[i - 1]]
    <3> DEFINE A(i) == IF i = 0 THEN pg ELSE Ensure(keys[i])[h[i - 1]]
    <3>1. h = [i \in 0 .. N |-> A(i)]
      BY <1>11
    <3> HIDE DEF A
    <3>2. \A i \in 0 .. N : h[i] = A(i)
      BY <3>1
    <3> QED
      BY <3>2 DEF A
  <2>2. 0 \in 0 .. N /\ \A i \in 1 .. N : i \in 0 .. N /\ i # 0
    BY <1>2
  <2> HIDE DEF Ensure
  <2> QED
    BY <2>1, <2>2
(* Up to a number, the files before it are done.                               *)
<1> DEFINE T == {i \in 0 .. N : h[i] \in X /\ \A j \in 1 .. i : Done(pg, h[i], keys[j])}
<1>13. 0 \in T
  BY <1>2, <1>4, <1>12
<1>14. ASSUME NEW n \in 0 .. N, n \in T, n # N PROVE n + 1 \in T
  <2>1. n + 1 \in 1 .. N /\ (n + 1) - 1 = n /\ n + 1 \in 0 .. N
    BY <1>2, <1>14
  <2>2. h[n] \in X /\ \A j \in 1 .. n : Done(pg, h[n], keys[j])
    BY <1>14
  <2>3. h[n] \in Pages
    BY <2>2 DEF SyncPages
  <2>4. h[n + 1] = EnsureModel(h[n], keys[n + 1], pg.files[keys[n + 1]], order)
    <3>1. h[n + 1] = Ensure(keys[n + 1])[h[n]]
      <4> HIDE DEF Ensure
      <4> QED
        BY <1>12, <2>1
    <3> QED
      BY <2>3, <3>1
  <2>5. keys[n + 1] \in Present(pg.files)
    BY <1>3, <2>1
  <2>6. /\ h[n + 1] \in X /\ Done(pg, h[n + 1], keys[n + 1])
        /\ \A x \in Paths : pg.files[x] # None /\ Done(pg, h[n], x) => Done(pg, h[n + 1], x)
    BY <2>2, <2>4, <2>5, EnsureStep
  <2>7. \A j \in 1 .. n + 1 : j = n + 1 \/ j \in 1 .. n
    BY <1>2
  <2>8. \A j \in 1 .. n : keys[j] \in Paths /\ pg.files[keys[j]] # None
    <3>1. \A j \in 1 .. n : j \in 1 .. N
      BY <1>2
    <3> QED
      BY <1>3, <3>1 DEF Present
  <2>9. \A j \in 1 .. n + 1 : Done(pg, h[n + 1], keys[j])
    BY <2>2, <2>6, <2>7, <2>8
  <2> HIDE DEF X
  <2> QED
    BY <2>1, <2>6, <2>9
<1> HIDE DEF T, X
<1>15. \A i \in 0 .. N : i \in T
  BY <1>2, <1>13, <1>14, Counting
<1>16. h[N] \in X /\ \A x \in Present(pg.files) : Done(pg, h[N], x)
  <2>1. N \in T
    BY <1>2, <1>15
  <2>2. h[N] \in X /\ \A j \in 1 .. N : Done(pg, h[N], keys[j])
    BY <2>1 DEF T
  <2> QED
    BY <1>3, <2>2
<1>17. done = h[N]
  BY DEF h
<1> HIDE DEF done
<1>18. done \in X /\ \A x \in Present(pg.files) : Done(pg, done, x)
  BY <1>16, <1>17
<1>19. /\ done \in Pages /\ PageStep(pg, done)
       /\ \A x \in Paths : pg.files[x] # None => done.files[x] \in {pg.files[x], Normal[pg.files[x]]}
       /\ pg.previous = pg.files => done.previous = done.files
       /\ \A x \in Paths : done.files[x] = None <=> pg.files[x] = None
  BY <1>18 DEF X, SyncPages, PageStep, SameFiles
<1>20. done.models \in [Paths -> Models \cup {None}] /\ pg.files \in Trees /\ done.created \in Nat
  BY <1>19, PageFields
<1> DEFINE left == [p \in Paths |-> IF pg.files[p] = None THEN None ELSE done.models[p]]
<1>21. left \in [Paths -> Models \cup {None}]
  BY <1>20
<1>22. \A x \in Paths : left[x] = IF pg.files[x] = None THEN None ELSE done.models[x]
  OBVIOUS
<1> HIDE DEF left
<1>23. q = [done EXCEPT !.models = left]
  BY <1>1 DEF left
<1>24. /\ q.files = done.files /\ q.previous = done.previous /\ q.outgoing = done.outgoing
       /\ q.created = done.created /\ q.models = left /\ q \in Pages
  BY <1>19, <1>21, <1>23 DEF Pages
<1>25. ASSUME NEW x \in Paths PROVE MaySucceed(done, q, x)
  <2>1. CASE pg.files[x] = None
    BY <1>19, <1>22, <1>24, <2>1 DEF MaySucceed
  <2>2. CASE pg.files[x] # None
    BY <1>19, <1>22, <1>24, <2>2, SameModel
  <2> QED
    BY <2>1, <2>2
<1>26. PageStep(done, q)
  <2>1. done.created <= q.created
    BY <1>20, <1>24
  <2> QED
    BY <1>19, <1>24, <1>25, <2>1, QuietStep DEF SameFiles
<1>27. PageStep(pg, q)
  BY <1>19, <1>26, StepTwice
<1>28. Mirrors(q)
  <2> SUFFICES ASSUME NEW x \in Paths
               PROVE  IF q.files[x] = None THEN q.models[x] = None
                      ELSE q.models[x] # None /\ q.models[x].text = Normal[q.files[x]]
    BY DEF Mirrors
  <2>1. CASE pg.files[x] = None
    BY <1>19, <1>22, <1>24, <2>1
  <2>2. CASE pg.files[x] # None
    <3>1. Done(pg, done, x)
      BY <1>18, <2>2 DEF Present
    <3>2. pg.files[x] \in Texts
      BY <1>20, <2>2, TreeValue
    <3>3. Normal[done.files[x]] = Normal[pg.files[x]]
      BY <1>19, <2>2, <3>2, NormalIs
    <3> QED
      BY <1>19, <1>22, <1>24, <2>2, <3>1, <3>3 DEF Done
  <2> QED
    BY <2>1, <2>2
<1> QED
  BY <1>19, <1>24, <1>27, <1>28
-------------------------------------------------------------------------------
(* Whole turns of the page.                                                    *)

Agrees(pg) == Mirrors(pg) /\ pg.previous = pg.files

LEMMA StoreChangedStep ==
  ASSUME NEW pg \in Pages, NEW order \in Orders, host, NEW q, q = StoreChanged(pg, order)
  PROVE  PageStep(pg, q) /\ Agrees(q)
<1> DEFINE s == HostSync(pg, order)
<1>1. q = WorkspaceSync(order)[s]
  BY DEF StoreChanged
<1>2. PageStep(pg, s) /\ Mirrors(s)
  BY HostSyncStep
<1> HIDE DEF s
<1>3. s \in Pages
  BY <1>2 DEF PageStep
<1>4. q.files = s.files /\ q.models = s.models /\ q.previous = s.files /\ PageStep(s, q)
  BY <1>1, <1>3, SyncStep
<1>5. PageStep(pg, q)
  BY <1>2, <1>4, StepTwice
<1> QED
  BY <1>2, <1>4, <1>5 DEF Agrees, Mirrors

LEMMA EditStep ==
  ASSUME NEW pg \in Pages, Agrees(pg), NEW p \in Present(pg.files), NEW text \in Texts,
         NEW order \in Orders, NEW q, q = ModelChanged(pg, p, text, order)
  PROVE  PageStep(pg, q) /\ Agrees(q)
<1>1. p \in Paths /\ pg.files[p] # None /\ pg.models[p] # None /\ Mirrors(pg) /\ pg.previous = pg.files
  BY DEF Agrees, Present, Mirrors
<1>2. /\ PageStep(pg, q)
      /\ q.files = [pg.files EXCEPT ![p] = Normal[text]]
      /\ q.models[p] # None /\ q.models[p].text = Normal[text]
      /\ \A x \in Paths \ {p} :
           /\ pg.files[x] # None /\ pg.models[x] # None => q.models[x] = pg.models[x]
           /\ pg.files[x] = None /\ pg.models[x] = None => q.models[x] = None
      /\ pg.previous = pg.files => q.previous = q.files
  BY <1>1, ModelChangedStep
<1>3. Mirrors(q)
  BY <1>1, ModelChangedMirrors
<1> QED
  BY <1>1, <1>2, <1>3 DEF Agrees

LEMMA EditedStep ==
  ASSUME NEW pg \in Pages, Agrees(pg), NEW targets \in SUBSET Present(pg.files),
         NEW texts \in [targets -> NormalTexts], NEW order \in Orders,
         NEW q, q = Edited(pg, targets, texts, order)
  PROVE  PageStep(pg, q) /\ Agrees(q)
<1> DEFINE keys == order[targets]
           N == Len(keys)
           Edit(p) == [x \in Pages |-> ModelChanged(x, p, texts[p], order)]
           Rule(g) == [i \in 0 .. N |-> IF i = 0 THEN pg ELSE Edit(keys[i])[g[i - 1]]]
           edited == CHOOSE g : g = Rule(g)
           X == {x \in Pages : PageStep(pg, x) /\ Agrees(x)}
           F == [y \in X \X (1 .. N) |-> ModelChanged(y[1], keys[y[2]], texts[keys[y[2]]], order)]
<1>1. q = edited[N]
  BY DEF Edited
<1>2. /\ keys \in Seq(Paths) /\ Range(keys) = targets
      /\ N \in Nat /\ DOMAIN keys = 1 .. N
  <2>1. targets \in SUBSET Paths
    BY DEF Present
  <2>2. keys \in Seq(Paths) /\ Range(keys) = targets
    BY <2>1, OrdersAssumption
  <2> HIDE DEF keys
  <2> QED
    BY <2>2, LenProperties
<1>3. \A i \in 1 .. N : keys[i] \in targets
  <2> HIDE DEF keys, N
  <2> QED
    BY <1>2 DEF Range
<1> HIDE DEF keys, N
<1>4. pg \in X
  BY StepSame
<1>5. ASSUME NEW x \in X, NEW i \in 1 .. N
      PROVE  x \in Pages /\ ModelChanged(x, keys[i], texts[keys[i]], order) \in X
  <2>1. keys[i] \in targets /\ keys[i] \in Paths /\ pg.files[keys[i]] # None
    BY <1>3 DEF Present
  <2>2. x \in Pages /\ PageStep(pg, x) /\ Agrees(x)
    OBVIOUS
  <2>3. keys[i] \in Present(x.files)
    BY <2>1, <2>2 DEF PageStep, SameFiles, Present
  <2>4. texts[keys[i]] \in Texts
    BY <2>1, TextsAssumption DEF NormalTexts
  <2> DEFINE e == ModelChanged(x, keys[i], texts[keys[i]], order)
  <2>5. PageStep(x, e) /\ Agrees(e)
    BY <2>2, <2>3, <2>4, EditStep
  <2> HIDE DEF e
  <2>6. PageStep(pg, e) /\ e \in Pages
    BY <2>2, <2>5, StepTwice DEF PageStep
  <2> QED
    BY <2>2, <2>5, <2>6 DEF e
<1> HIDE DEF X
<1>6. F \in [X \X (1 .. N) -> X]
  BY <1>5
<1>7. PICK g : Follows(g, F, pg, X, N)
  <2> HIDE DEF F
  <2> QED
    BY <1>2, <1>4, <1>6, Recursion
<1>8. g \in [0 .. N -> X] /\ g[0] = pg /\ \A i \in 1 .. N : g[i] = F[<<g[i - 1], i>>]
  <2> HIDE DEF F
  <2> QED
    BY <1>7 DEF Follows
<1>9. ASSUME NEW i \in 1 .. N
      PROVE  g[i - 1] \in Pages /\ g[i] = ModelChanged(g[i - 1], keys[i], texts[keys[i]], order)
  <2>1. i - 1 \in 0 .. N
    BY <1>2
  <2>2. g[i - 1] \in X
    BY <1>8, <2>1
  <2>3. F[<<g[i - 1], i>>] = ModelChanged(g[i - 1], keys[i], texts[keys[i]], order)
    BY <2>2
  <2> HIDE DEF F
  <2> QED
    BY <1>5, <1>8, <2>2, <2>3
<1> HIDE DEF F
<1>10. g = Rule(g)
  <2>1. ASSUME NEW i \in 0 .. N
        PROVE  g[i] = IF i = 0 THEN pg ELSE Edit(keys[i])[g[i - 1]]
    <3>1. CASE i = 0
      BY <1>8, <3>1
    <3>2. CASE i # 0
      <4>1. i \in 1 .. N
        BY <1>2, <3>2
      <4>2. g[i - 1] \in Pages /\ g[i] = ModelChanged(g[i - 1], keys[i], texts[keys[i]], order)
        BY <1>9, <4>1
      <4> QED
        BY <3>2, <4>2
    <3> QED
      BY <3>1, <3>2
  <2> QED
    BY <1>8, <2>1
<1>11. edited = Rule(edited)
  <2> HIDE DEF Rule
  <2> QED
    BY <1>10
<1> DEFINE h == edited
<1>12. h = Rule(h)
  BY <1>11
<1> HIDE DEF edited
<1> HIDE DEF h
<1>13. h[0] = pg /\ \A i \in 1 .. N : h[i] = Edit(keys[i])[h[i - 1]]
  <2>1. \A i \in 0 .. N : h[i] = IF i = 0 THEN pg ELSE Edit(keys[i])[h[i - 1]]
    <3> DEFINE A(i) == IF i = 0 THEN pg ELSE Edit(keys[i])[h[i - 1]]
    <3>1. h = [i \in 0 .. N |-> A(i)]
      BY <1>12
    <3> HIDE DEF A
    <3>2. \A i \in 0 .. N : h[i] = A(i)
      BY <3>1
    <3> QED
      BY <3>2 DEF A
  <2>2. 0 \in 0 .. N /\ \A i \in 1 .. N : i \in 0 .. N /\ i # 0
    BY <1>2
  <2> HIDE DEF Edit
  <2> QED
    BY <2>1, <2>2
<1> DEFINE T == {i \in 0 .. N : h[i] \in X}
<1>14. 0 \in T
  BY <1>2, <1>4, <1>13
<1>15. ASSUME NEW n \in 0 .. N, n \in T, n # N PROVE n + 1 \in T
  <2>1. n + 1 \in 1 .. N /\ (n + 1) - 1 = n /\ n + 1 \in 0 .. N
    BY <1>2, <1>15
  <2>2. h[n] \in X
    BY <1>15
  <2>3. h[n] \in Pages /\ ModelChanged(h[n], keys[n + 1], texts[keys[n + 1]], order) \in X
    BY <1>5, <2>1, <2>2
  <2>4. h[n + 1] = Edit(keys[n + 1])[h[n]]
    <3> HIDE DEF Edit
    <3> QED
      BY <1>13, <2>1
  <2>5. h[n + 1] = ModelChanged(h[n], keys[n + 1], texts[keys[n + 1]], order)
    BY <2>3, <2>4
  <2> QED
    BY <2>1, <2>3, <2>5
<1> HIDE DEF T
<1>16. N \in T
  <2>1. \A i \in 0 .. N : i \in T
    BY <1>2, <1>14, <1>15, Counting
  <2> QED
    BY <1>2, <2>1
<1> QED
  BY <1>1, <1>16 DEF T, X, h

LEMMA StartStep ==
  ASSUME NEW pg \in Pages, NEW q, q = StartModelHost(pg)
  PROVE  q.files = pg.files /\ q.previous = pg.previous /\ PageStep(pg, q) /\ Mirrors(q)
<1> DEFINE New(x) == NewModel(pg, pg.files[x])
           Put(x) == Pushed(pg.models[x], pg.files[x])
           At(x) == CASE pg.files[x] = None -> None
                      [] x \in Missing(pg) -> New(x)
                      [] OTHER -> IF pg.models[x].text = pg.files[x] THEN pg.models[x] ELSE Put(x)
           count == IF Missing(pg) = {} THEN pg.created ELSE pg.created + 1
<1>1. q = [pg EXCEPT !.models = [x \in Paths |-> At(x)], !.created = count]
  BY DEF StartModelHost
<1>2. /\ pg.files \in Trees /\ pg.models \in [Paths -> Models \cup {None}] /\ pg.created \in Nat
  BY PageFields
<1>3. ASSUME NEW x \in Paths, pg.files[x] # None
      PROVE  /\ New(x) \in Models /\ New(x).object = pg.created /\ New(x).text = Normal[pg.files[x]]
             /\ pg.models[x] # None => /\ Put(x) \in Models /\ Put(x).text = Normal[pg.files[x]]
                                       /\ Grown(pg.models[x], Put(x))
             /\ pg.models[x] # None /\ pg.models[x].text = pg.files[x] =>
                  pg.models[x].text = Normal[pg.files[x]]
  <2>1. pg.files[x] \in Texts /\ pg.models[x] \in Models \cup {None}
    BY <1>2, <1>3, TreeValue
  <2>2. \A n \in NormalTexts : Normal[n] = n
    BY <2>1, NormalIs
  <2> QED
    BY <2>1, <2>2, NewModelIs, PushedIs, ModelFields
<1>4. \A x \in Paths : x \in Missing(pg) <=> pg.files[x] # None /\ pg.models[x] = None
  BY DEF Missing, Present
<1> HIDE DEF New, Put
<1>5. /\ count \in Nat /\ pg.created <= count
      /\ Missing(pg) # {} => pg.created \in pg.created .. count - 1
  BY <1>2
<1> HIDE DEF count
<1>6. \A x \in Paths :
        /\ pg.files[x] = None => At(x) = None
        /\ pg.files[x] # None /\ pg.models[x] # None =>
             At(x) = IF pg.models[x].text = pg.files[x] THEN pg.models[x] ELSE Put(x)
        /\ pg.files[x] # None /\ pg.models[x] = None => At(x) = New(x)
  BY <1>4
<1> HIDE DEF At
<1>7. \A x \in Paths : /\ At(x) \in Models \cup {None}
                       /\ pg.files[x] # None => At(x) \in Models /\ At(x).text = Normal[pg.files[x]]
  BY <1>2, <1>3, <1>6
<1> DEFINE models == [x \in Paths |-> At(x)]
<1>a. models \in [Paths -> Models \cup {None}] /\ q = [pg EXCEPT !.models = models, !.created = count]
  BY <1>1, <1>7
<1>b. \A x \in Paths : models[x] = At(x)
  OBVIOUS
<1> HIDE DEF models
<1>8. /\ q.files = pg.files /\ q.previous = pg.previous /\ q.outgoing = pg.outgoing
      /\ q.created = count /\ q.models = models /\ q \in Pages
  BY <1>5, <1>a DEF Pages
<1>9. ASSUME NEW x \in Paths PROVE MaySucceed(pg, q, x)
  <2>1. q.models[x] = At(x)
    BY <1>8, <1>b
  <2>2. CASE pg.files[x] = None
    BY <1>6, <2>1, <2>2 DEF MaySucceed
  <2>3. CASE pg.files[x] # None /\ pg.models[x] # None
    <3>1. CASE pg.models[x].text = pg.files[x]
      BY <1>6, <2>1, <2>3, <3>1, SameModel
    <3>2. CASE pg.models[x].text # pg.files[x]
      BY <1>3, <1>6, <2>1, <2>3, <3>2, ModelFields DEF MaySucceed
    <3> QED
      BY <3>1, <3>2
  <2>4. CASE pg.files[x] # None /\ pg.models[x] = None
    <3>1. Missing(pg) # {}
      BY <1>4, <2>4
    <3>2. q.models[x].object \in pg.created .. q.created - 1
      BY <1>3, <1>5, <1>6, <1>8, <2>1, <2>4, <3>1
    <3> QED
      BY <2>4, <3>2 DEF MaySucceed
  <2> QED
    BY <2>2, <2>3, <2>4
<1>10. PageStep(pg, q)
  BY <1>5, <1>8, <1>9, QuietStep DEF SameFiles
<1>11. \A x \in Paths : q.models[x] = At(x)
  BY <1>8, <1>b
<1>12. Mirrors(q)
  BY <1>6, <1>7, <1>8, <1>11, ModelFields DEF Mirrors
<1> QED
  BY <1>8, <1>10, <1>12
-------------------------------------------------------------------------------
(* What markers will show.                                                     *)

Replies == Publishes \cup Responses \cup Failures

LEMMA ReplyKinds ==
  ASSUME NEW m \in Replies
  PROVE  /\ m.kind = "publish" <=> m \in Publishes
         /\ m.kind = "response" <=> m \in Responses
         /\ m.kind = "failure" <=> m \in Failures
         /\ m \in Publishes \/ m \in Responses \/ m \in Failures
BY DEF Replies, Publishes, Responses, Failures

(* A reply that is not about the file goes.                                    *)
LEMMA ShownWithout ==
  ASSUME NEW queue \in Seq(Replies), queue # << >>, NEW p, NEW markers, NEW docs,
         IsShown(queue, markers, docs, p), ~(Head(queue) \in Publishes /\ Head(queue).path = p)
  PROVE  IsShown(Tail(queue), markers, docs, p)
<1> DEFINE n == Len(queue)
           t == Tail(queue)
<1>1. /\ n \in Nat \ {0} /\ Len(t) = n - 1 /\ Head(queue) = queue[1]
      /\ \A i \in 1 .. n - 1 : t[i] = queue[i + 1]
  BY TailParts
<1>2. PICK j \in 0 .. n : /\ ShownAt(j, queue, markers, docs, p)
                          /\ \A k \in j + 1 .. n : queue[k] \in Publishes => queue[k].path # p
  BY DEF IsShown
<1> HIDE DEF n, t
<1>3. j # 1
  BY <1>1, <1>2 DEF ShownAt
<1> DEFINE i == IF j = 0 THEN 0 ELSE j - 1
<1>4. i \in 0 .. n - 1 /\ (i = 0 <=> j = 0) /\ (j # 0 => i \in 1 .. n - 1 /\ i + 1 = j)
  BY <1>1, <1>2, <1>3
<1>5. ShownAt(i, t, markers, docs, p)
  BY <1>1, <1>2, <1>4 DEF ShownAt
<1>6. ASSUME NEW k \in i + 1 .. n - 1 PROVE t[k] \in Publishes => t[k].path # p
  <2>1. k \in 1 .. n - 1 /\ k + 1 \in j + 1 .. n
    BY <1>1, <1>2, <1>4
  <2> QED
    BY <1>1, <1>2, <2>1
<1> QED
  BY <1>1, <1>4, <1>5, <1>6 DEF IsShown, t

(* Diagnostics of the file become its markers.                                 *)
LEMMA ShownPublished ==
  ASSUME NEW queue \in Seq(Replies), queue # << >>, NEW p, NEW markers, NEW docs,
         IsShown(queue, markers, docs, p), Head(queue) \in Publishes, Head(queue).path = p
  PROVE  IsShown(Tail(queue), Head(queue).of, docs, p)
<1> DEFINE n == Len(queue)
           t == Tail(queue)
<1>1. /\ n \in Nat \ {0} /\ Len(t) = n - 1 /\ Head(queue) = queue[1]
      /\ \A i \in 1 .. n - 1 : t[i] = queue[i + 1]
  BY TailParts
<1>2. PICK j \in 0 .. n : /\ ShownAt(j, queue, markers, docs, p)
                          /\ \A k \in j + 1 .. n : queue[k] \in Publishes => queue[k].path # p
  BY DEF IsShown
<1> HIDE DEF n, t
<1>3. j # 0
  <2>1. 1 \in 0 + 1 .. n
    BY <1>1
  <2> QED
    BY <1>1, <1>2, <2>1
<1> DEFINE i == j - 1
<1>4. i \in 0 .. n - 1 /\ i + 1 = j /\ (i # 0 => i \in 1 .. n - 1)
  BY <1>1, <1>2, <1>3
<1> HIDE DEF i
<1>5. ShownAt(i, t, Head(queue).of, docs, p)
  <2>1. queue[j] \in Publishes /\ queue[j].path = p /\ queue[j].of = docs
    BY <1>2, <1>3 DEF ShownAt
  <2>2. CASE i = 0
    <3>1. j = 1
      BY <1>4, <2>2
    <3> QED
      BY <1>1, <2>1, <2>2, <3>1 DEF ShownAt
  <2>3. CASE i # 0
    <3>1. t[i] = queue[j]
      BY <1>1, <1>4, <2>3
    <3> QED
      BY <2>1, <2>3, <3>1 DEF ShownAt
  <2> QED
    BY <2>2, <2>3
<1>6. ASSUME NEW k \in i + 1 .. n - 1 PROVE t[k] \in Publishes => t[k].path # p
  <2>1. k \in 1 .. n - 1 /\ k + 1 \in j + 1 .. n
    BY <1>1, <1>2, <1>4
  <2> QED
    BY <1>1, <1>2, <2>1
<1> QED
  BY <1>1, <1>4, <1>5, <1>6 DEF IsShown, t

(* A reply that is not about a file comes.                                     *)
LEMMA ShownStill ==
  ASSUME NEW queue \in Seq(Replies), NEW p, NEW markers, NEW docs, NEW m \in Replies,
         IsShown(queue, markers, docs, p), m \notin Publishes
  PROVE  IsShown(Append(queue, m), markers, docs, p)
<1> DEFINE n == Len(queue)
           t == Append(queue, m)
<1>1. n \in Nat /\ Len(t) = n + 1 /\ t[n + 1] = m /\ \A i \in 1 .. n : t[i] = queue[i]
  BY AppendProperties, LenProperties
<1>2. PICK j \in 0 .. n : /\ ShownAt(j, queue, markers, docs, p)
                          /\ \A k \in j + 1 .. n : queue[k] \in Publishes => queue[k].path # p
  BY DEF IsShown
<1> HIDE DEF n, t
<1>3. j \in 0 .. n + 1 /\ (j # 0 => j \in 1 .. n)
  BY <1>1, <1>2
<1>4. ShownAt(j, t, markers, docs, p)
  BY <1>1, <1>2, <1>3 DEF ShownAt
<1>5. ASSUME NEW k \in j + 1 .. n + 1 PROVE t[k] \in Publishes => t[k].path # p
  <2>1. CASE k = n + 1
    BY <1>1, <2>1
  <2>2. CASE k # n + 1
    <3>1. k \in 1 .. n /\ k \in j + 1 .. n
      BY <1>1, <1>2, <2>2
    <3> QED
      BY <1>1, <1>2, <3>1
  <2> QED
    BY <2>1, <2>2
<1> QED
  BY <1>1, <1>3, <1>4, <1>5 DEF IsShown, t

(* Diagnostics of the file come, and are the only ones.                        *)
LEMMA ShownFresh ==
  ASSUME NEW queue \in Seq(Replies), NEW more \in Seq(Replies), NEW p, NEW markers, NEW docs,
         NEW i \in 1 .. Len(more), more[i] \in Publishes, more[i].path = p, more[i].of = docs,
         \A k \in 1 .. Len(more) : k # i /\ more[k] \in Publishes => more[k].path # p
  PROVE  IsShown(queue \o more, markers, docs, p)
<1> DEFINE m == Len(queue)
           n == Len(more)
           t == queue \o more
           j == m + i
<1>1. /\ m \in Nat /\ n \in Nat /\ Len(t) = m + n
      /\ \A x \in 1 .. n : t[m + x] = more[x]
  BY ConcatParts
<1>2. /\ i \in 1 .. n /\ more[i] \in Publishes /\ more[i].path = p /\ more[i].of = docs
      /\ \A k \in 1 .. n : k # i /\ more[k] \in Publishes => more[k].path # p
  OBVIOUS
<1> HIDE DEF m, n, t
<1>3. j \in 0 .. m + n /\ j # 0
  BY <1>1, <1>2
<1>4. ShownAt(j, t, markers, docs, p)
  BY <1>1, <1>2, <1>3 DEF ShownAt
<1>5. ASSUME NEW k \in j + 1 .. m + n PROVE t[k] \in Publishes => t[k].path # p
  <2> DEFINE x == k - m
  <2>1. x \in 1 .. n /\ x # i /\ m + x = k
    BY <1>1, <1>2
  <2> HIDE DEF x
  <2>2. t[k] = more[x]
    BY <1>1, <2>1
  <2> QED
    BY <1>2, <2>1, <2>2
<1> HIDE DEF j
<1>6. Len(t) = m + n
  BY <1>1
<1> QED
  BY <1>3, <1>4, <1>5, <1>6 DEF IsShown, t
-------------------------------------------------------------------------------
(* A turn of the page keeps the invariant.                                     *)

LEMMA Types ==
  ASSUME TypeOK
  PROVE  /\ page \in Pages /\ toWorker \in Seq(Sent) /\ fromWorker \in Seq(Replies)
         /\ worker.docs \in Trees /\ worker.state \in {"loading", "ready", "dead"}
         /\ worker = [state |-> worker.state, docs |-> worker.docs]
         /\ DOMAIN toWorker = 1 .. Len(toWorker) /\ DOMAIN fromWorker = 1 .. Len(fromWorker)
<1>1. toWorker \in Seq(Sent) /\ fromWorker \in Seq(Replies)
  BY DEF TypeOK, Sent, Replies
<1>2. DOMAIN toWorker = 1 .. Len(toWorker) /\ DOMAIN fromWorker = 1 .. Len(fromWorker)
  BY <1>1, LenProperties
<1> QED
  BY <1>1, <1>2 DEF TypeOK

LEMMA NoRequestIsDocument == Requests \cap Documents = {}
BY DEF Requests, Documents

(* More notifications for the worker.                                          *)
LEMMA SentMore ==
  ASSUME NEW s \in Seq(Sent), NEW notes \in Seq(Documents), NEW t, t = s \o notes
  PROVE  /\ t \in Seq(Documents \cup Requests)
         /\ \A i \in DOMAIN s : i \in DOMAIN t /\ t[i] = s[i]
         /\ \A i \in DOMAIN t : t[i] \in Requests => i \in DOMAIN s
         /\ (\A i \in DOMAIN t : t[i] \notin Documents) =>
              notes = << >> /\ \A i \in DOMAIN s : s[i] \notin Documents
<1> DEFINE m == Len(s)
           n == Len(notes)
<1>1. notes \in Seq(Sent)
  BY DocumentsAreSent
<1>2. /\ m \in Nat /\ n \in Nat /\ t \in Seq(Sent) /\ Len(t) = m + n
      /\ \A i \in 1 .. m : t[i] = s[i]
      /\ \A j \in 1 .. n : t[m + j] = notes[j]
      /\ \A k \in 1 .. m + n : k \in 1 .. m \/ \E j \in 1 .. n : k = m + j
  BY <1>1, ConcatParts
<1>3. DOMAIN s = 1 .. m /\ DOMAIN t = 1 .. Len(t) /\ \A j \in 1 .. n : notes[j] \in Documents
  BY <1>2, LenProperties
<1>4. notes = << >> \/ 1 \in 1 .. n
  BY LenProperties, EmptySeq
<1>a. Documents \cup Requests = Sent
  BY DEF Sent
<1> HIDE DEF m, n
<1>b. DOMAIN t = 1 .. m + n
  BY <1>2, <1>3
<1>5. \A i \in 1 .. m : i \in 1 .. m + n
  BY <1>2
<1>6. \A j \in 1 .. n : m + j \in 1 .. m + n
  BY <1>2
<1>7. \A i \in DOMAIN s : i \in DOMAIN t /\ t[i] = s[i]
  BY <1>2, <1>3, <1>5, <1>b
<1>8. \A i \in DOMAIN t : t[i] \in Requests => i \in DOMAIN s
  BY <1>2, <1>3, <1>b, NoRequestIsDocument
<1>9. ASSUME \A i \in DOMAIN t : t[i] \notin Documents
      PROVE  notes = << >> /\ \A i \in DOMAIN s : s[i] \notin Documents
  <2>1. ~(1 \in 1 .. n)
    BY <1>2, <1>3, <1>6, <1>9, <1>b
  <2> QED
    BY <1>4, <1>7, <1>9, <2>1
<1> QED
  BY <1>2, <1>7, <1>8, <1>9, <1>a

(* The page when a turn begins: only its files have changed.                   *)
Begins(base) ==
    /\ base \in Pages /\ base.files \in Workspaces
    /\ base.models = page.models /\ base.previous = page.previous
    /\ base.created = page.created /\ base.outgoing = << >>

LEMMA TurnSends ==
  ASSUME Inv, NEW base, Begins(base), NEW q, PageStep(base, q), EndTurn(q)
  PROVE  /\ page' \in Pages /\ page'.outgoing = << >>
         /\ page'.files = q.files /\ page'.models = q.models /\ page'.previous = q.previous
         /\ page'.created = q.created
         /\ \E notes \in Seq(Documents) :
              /\ toWorker' = toWorker \o notes
              /\ worker.state # "dead" => Tells(page.previous, notes, q.previous)
<1>1. q \in Pages /\ base \in Pages
  BY DEF PageStep, Begins
<1>2. page' = [q EXCEPT !.outgoing = << >>]
  BY DEF EndTurn
<1>3. << >> \in Seq(Documents)
  BY EmptySeq
<1>4. /\ page' \in Pages /\ page'.outgoing = << >>
      /\ page'.files = q.files /\ page'.models = q.models /\ page'.previous = q.previous
      /\ page'.created = q.created
  BY <1>1, <1>2, <1>3 DEF Pages
<1>5. PICK notes \in Seq(Documents) :
        q.outgoing = base.outgoing \o notes /\ Tells(base.previous, notes, q.previous)
  BY DEF PageStep
<1>6. q.outgoing = notes
  BY <1>5, ConcatEmptySeq DEF Begins
<1>7. toWorker' = IF failed THEN toWorker ELSE toWorker \o notes
  BY <1>6 DEF EndTurn
<1>8. failed => worker.state = "dead"
  BY DEF Inv, WorkerInv
<1>9. toWorker \in Seq(Sent) /\ toWorker \o << >> = toWorker
  BY Types, ConcatEmptySeq DEF Inv
<1>10. CASE failed
  BY <1>3, <1>4, <1>7, <1>8, <1>9, <1>10
<1>11. CASE ~failed
  BY <1>4, <1>5, <1>7, <1>11 DEF Begins
<1> QED
  BY <1>10, <1>11

(* What the worker has been sent still takes it to previousFiles, and if no    *)
(* document is on its way the sync has nothing new to tell.                    *)
LEMMA TurnTells ==
  ASSUME Inv, NEW base, Begins(base), NEW q, PageStep(base, q), EndTurn(q)
  PROVE  /\ toWorker' \in Seq(Documents \cup Requests)
         /\ worker.state # "dead" => Tells(worker.docs, toWorker', page'.previous)
         /\ \A i \in DOMAIN toWorker : i \in DOMAIN toWorker' /\ toWorker'[i] = toWorker[i]
         /\ \A i \in DOMAIN toWorker' : toWorker'[i] \in Requests => i \in DOMAIN toWorker
         /\ \A i \in DOMAIN toWorker : After(worker.docs, toWorker')[i - 1] = After(worker.docs, toWorker)[i - 1]
         /\ worker.state # "dead" /\ (\A i \in DOMAIN toWorker' : toWorker'[i] \notin Documents) =>
              /\ page'.previous = page.previous
              /\ \A i \in DOMAIN toWorker : toWorker[i] \notin Documents
<1>1. PICK notes \in Seq(Documents) :
        /\ toWorker' = toWorker \o notes
        /\ worker.state # "dead" => Tells(page.previous, notes, page'.previous)
  BY TurnSends
<1>2. /\ toWorker \in Seq(Sent) /\ notes \in Seq(Sent) /\ worker.docs \in Trees
      /\ page.previous \in Trees /\ DOMAIN toWorker = 1 .. Len(toWorker)
  BY Types, PageFields, DocumentsAreSent DEF Inv
<1>3. /\ toWorker' \in Seq(Documents \cup Requests)
      /\ \A i \in DOMAIN toWorker : i \in DOMAIN toWorker' /\ toWorker'[i] = toWorker[i]
      /\ \A i \in DOMAIN toWorker' : toWorker'[i] \in Requests => i \in DOMAIN toWorker
      /\ (\A i \in DOMAIN toWorker' : toWorker'[i] \notin Documents) =>
           notes = << >> /\ \A i \in DOMAIN toWorker : toWorker[i] \notin Documents
  <2> DEFINE s == toWorker
             t == toWorker'
  <2>1. s \in Seq(Sent) /\ t = s \o notes
    BY <1>1, <1>2
  <2> HIDE DEF s, t
  <2>2. /\ t \in Seq(Documents \cup Requests)
        /\ \A i \in DOMAIN s : i \in DOMAIN t /\ t[i] = s[i]
        /\ \A i \in DOMAIN t : t[i] \in Requests => i \in DOMAIN s
        /\ (\A i \in DOMAIN t : t[i] \notin Documents) =>
             notes = << >> /\ \A i \in DOMAIN s : s[i] \notin Documents
    BY <2>1, SentMore
  <2> QED
    BY <2>2 DEF s, t
<1>4. ASSUME worker.state # "dead" PROVE Tells(worker.docs, toWorker', page'.previous)
  <2>1. Tells(worker.docs, toWorker, page.previous)
    BY <1>4 DEF Inv, ServerInv
  <2> QED
    BY <1>1, <1>2, <1>4, <2>1, TellsConcat
<1>5. ASSUME NEW i \in DOMAIN toWorker
      PROVE  After(worker.docs, toWorker')[i - 1] = After(worker.docs, toWorker)[i - 1]
  <2>1. \A k \in 0 .. Len(toWorker) : After(worker.docs, toWorker \o notes)[k] = After(worker.docs, toWorker)[k]
    BY <1>2, AfterConcat
  <2>2. i - 1 \in 0 .. Len(toWorker)
    BY <1>2, LenProperties
  <2> QED
    BY <1>1, <2>1, <2>2
<1>6. ASSUME worker.state # "dead", notes = << >> PROVE page'.previous = page.previous
  <2>1. Tells(page.previous, << >>, page'.previous)
    BY <1>1, <1>6
  <2>2. << >> \in Seq(Sent) /\ DOMAIN << >> = {}
    BY EmptySeq
  <2> QED
    BY <1>2, <2>1, <2>2, TellsWithoutDocuments
<1> QED
  BY <1>3, <1>4, <1>5, <1>6
(* The queue of replies loses nothing, or an answer at its head.               *)
Taken ==
    \/ fromWorker' = fromWorker
    \/ /\ fromWorker # << >> /\ Head(fromWorker) \in Responses
       /\ fromWorker' = Tail(fromWorker)

LEMMA TakenReplies ==
  ASSUME TypeOK, Taken
  PROVE  /\ fromWorker' \in Seq(Publishes \cup Responses \cup Failures)
         /\ fromWorker = << >> => fromWorker' = << >>
         /\ \A j \in DOMAIN fromWorker' : \E i \in DOMAIN fromWorker : fromWorker'[j] = fromWorker[i]
         /\ \A i \in DOMAIN fromWorker : fromWorker[i] \in Failures =>
              \E j \in DOMAIN fromWorker' : fromWorker'[j] = fromWorker[i]
         /\ \A p, markers : IsShown(fromWorker, markers, worker.docs, p) =>
              IsShown(fromWorker', markers, worker.docs, p)
<1>1. fromWorker \in Seq(Replies) /\ DOMAIN fromWorker = 1 .. Len(fromWorker)
  BY Types
<1>a. Publishes \cup Responses \cup Failures = Replies
  BY DEF Replies
<1>2. CASE fromWorker' = fromWorker
  BY <1>1, <1>2, <1>a
<1>3. CASE fromWorker # << >> /\ Head(fromWorker) \in Responses /\ fromWorker' = Tail(fromWorker)
  <2> DEFINE q == fromWorker
             n == Len(q)
             t == Tail(q)
  <2>1. /\ n \in Nat \ {0} /\ t \in Seq(Replies) /\ Len(t) = n - 1 /\ Head(q) = q[1]
        /\ \A i \in 1 .. n - 1 : t[i] = q[i + 1]
        /\ \A k \in 1 .. n : k = 1 \/ \E i \in 1 .. n - 1 : k = i + 1
    BY <1>1, <1>3, TailParts
  <2>2. Head(q) \notin Failures /\ Head(q) \notin Publishes
    BY <1>3 DEF Responses, Failures, Publishes
  <2>3. DOMAIN q = 1 .. n /\ q # << >>
    BY <1>1, <1>3
  <2>4. \A p, markers : IsShown(q, markers, worker.docs, p) => IsShown(t, markers, worker.docs, p)
    BY <1>1, <1>3, <2>2, ShownWithout
  <2> HIDE DEF n, t, q
  <2>5. DOMAIN t = 1 .. n - 1
    <3>1. DOMAIN t = 1 .. Len(t)
      BY <2>1, LenProperties
    <3> QED
      BY <2>1, <3>1
  <2>6. \A j \in DOMAIN t : \E i \in DOMAIN q : t[j] = q[i]
    <3> TAKE j \in DOMAIN t
    <3>1. j + 1 \in 1 .. n /\ t[j] = q[j + 1]
      BY <2>1, <2>5
    <3> QED
      BY <2>3, <3>1
  <2>7. \A i \in DOMAIN q : q[i] \in Failures => \E j \in DOMAIN t : t[j] = q[i]
    BY <2>1, <2>2, <2>3, <2>5
  <2> QED
    BY <1>3, <1>a, <2>1, <2>3, <2>4, <2>6, <2>7 DEF q, t
<1> QED
  BY <1>2, <1>3 DEF Taken

(* What a turn of the page may be: the host starts or was running before, the  *)
(* files are those of models that agree with them, or the host is not running  *)
(* and nothing was told; nothing of the worker changes.                        *)
Turn(base, q) ==
    /\ Begins(base) /\ PageStep(base, q) /\ EndTurn(q)
    /\ active' \in Present(base.files)
    /\ \/ host' = host /\ client' = client
       \/ /\ ~host /\ host' = TRUE /\ client = "booting" /\ client' = "attached"
          /\ fromWorker # << >> /\ \A r \in pending' : ~IsInitialize(r)
    /\ host' => Agrees(q)
    /\ ~host' => q.previous = page.previous
    /\ UNCHANGED <<failed, worker, nextId>> /\ gestures' \in Nat
    /\ pending' \subseteq pending
    /\ Taken

LEMMA TurnTypes ==
  ASSUME Inv, NEW base, NEW q, Turn(base, q)
  PROVE  /\ TypeOK' /\ PageInv' /\ RequestInv' /\ WorkerInv' /\ ServerInv'
<1>1. /\ page' \in Pages /\ page'.outgoing = << >>
      /\ page'.files = q.files /\ page'.models = q.models /\ page'.previous = q.previous
      /\ page'.created = q.created
  BY TurnSends DEF Turn
<1>2. /\ toWorker' \in Seq(Documents \cup Requests)
      /\ worker.state # "dead" => Tells(worker.docs, toWorker', page'.previous)
      /\ \A i \in DOMAIN toWorker : i \in DOMAIN toWorker' /\ toWorker'[i] = toWorker[i]
      /\ \A i \in DOMAIN toWorker' : toWorker'[i] \in Requests => i \in DOMAIN toWorker
  BY TurnTells DEF Turn
<1>3. /\ fromWorker' \in Seq(Publishes \cup Responses \cup Failures)
      /\ fromWorker = << >> => fromWorker' = << >>
      /\ \A j \in DOMAIN fromWorker' : \E i \in DOMAIN fromWorker : fromWorker'[j] = fromWorker[i]
      /\ \A i \in DOMAIN fromWorker : fromWorker[i] \in Failures =>
           \E j \in DOMAIN fromWorker' : fromWorker'[j] = fromWorker[i]
  <2>1. TypeOK /\ Taken
    BY DEF Turn, Inv
  <2> QED
    BY <2>1, TakenReplies
<1>4. base \in Pages /\ base.files \in Workspaces /\ q \in Pages /\ PageStep(base, q)
  BY DEF Turn, Begins, PageStep
<1>0. TypeOK /\ WorkerInv
  BY DEF Inv
<1>5. Present(q.files) = Present(base.files)
  BY <1>4 DEF PageStep, SameFiles, Present
<1>6. q.files \in Workspaces
  BY <1>4, <1>5, PageFields DEF Workspaces
<1>7. /\ host' \in BOOLEAN /\ client' \in {"booting", "attached", "detached"}
      /\ host' => client' = "attached"
      /\ worker.state = "loading" => ~host'
      /\ client' # "detached" => client # "detached"
  <2>1. /\ host \in BOOLEAN /\ client \in {"booting", "attached", "detached"}
        /\ host => client = "attached"
        /\ worker.state = "loading" => fromWorker = << >> /\ ~host
    <3>1. host \in BOOLEAN /\ client \in {"booting", "attached", "detached"}
      BY <1>0 DEF TypeOK
    <3>2. host => client = "attached"
      BY <1>0 DEF TypeOK
    <3>3. worker.state = "loading" => fromWorker = << >> /\ ~host
      BY <1>0 DEF WorkerInv
    <3> QED
      BY <3>1, <3>2, <3>3
  <2>2. CASE host' = host /\ client' = client
    BY <2>1, <2>2
  <2>3. CASE host' = TRUE /\ client = "booting" /\ client' = "attached" /\ fromWorker # << >>
    BY <2>1, <2>3
  <2> QED
    BY <2>2, <2>3 DEF Turn
<1>8. TypeOK'
  <2>1. active' \in Present(page'.files)
    BY <1>1, <1>5 DEF Turn
  <2>2. failed' => pending' = {}
    BY DEF Turn, Inv, TypeOK
  <2>3. pending' \subseteq Waiting /\ nextId' \in Nat /\ \A r \in pending' : r.id < nextId'
    BY DEF Turn, Inv, TypeOK
  <2>4. worker' \in [state : {"loading", "ready", "dead"}, docs : Trees] /\ failed' \in BOOLEAN
    <3>1. worker' = worker /\ failed' = failed
      BY DEF Turn
    <3>2. worker \in [state : {"loading", "ready", "dead"}, docs : Trees]
      BY <1>0 DEF TypeOK
    <3>3. failed \in BOOLEAN
      BY <1>0 DEF TypeOK
    <3> QED
      BY <3>1, <3>2, <3>3
  <2>5. gestures' \in Nat
    BY DEF Turn
  <2> QED
    BY <1>1, <1>2, <1>3, <1>6, <1>7, <2>1, <2>2, <2>3, <2>4, <2>5 DEF TypeOK
<1>9. PageInv'
  <2>1. ASSUME NEW p \in Paths, q.models[p] # None PROVE q.models[p].object < q.created
    <3>1. MaySucceed(base, q, p) /\ base.created <= q.created
      BY <1>4 DEF PageStep
    <3>2. base.models[p] = page.models[p] /\ base.created = page.created
      BY DEF Turn, Begins
    <3>3. page.models[p] # None => page.models[p].object < page.created
      BY DEF Inv, PageInv, Numbered
    <3>4. /\ base.created \in Nat /\ q.created \in Nat
          /\ base.models[p] \in Models \cup {None} /\ q.models[p] \in Models \cup {None}
      BY <1>4, PageFields
    <3>5. CASE base.models[p] # None /\ Grown(base.models[p], q.models[p])
      <4>1. q.models[p].object = base.models[p].object /\ base.models[p].object \in Nat
        BY <3>4, <3>5, ModelFields DEF Grown
      <4> QED
        BY <3>1, <3>2, <3>3, <3>4, <3>5, <4>1
    <3>6. CASE q.models[p].object \in base.created .. q.created - 1
      BY <3>4, <3>6
    <3> QED
      BY <2>1, <3>1, <3>5, <3>6 DEF MaySucceed
  <2>2. Numbered(page')
    BY <1>1, <2>1 DEF Numbered
  <2>3. host' => Mirrors(page') /\ page'.previous = page'.files
    BY <1>1 DEF Turn, Agrees, Mirrors
  <2>4. ~host' => page'.previous = [p \in Paths |-> None]
    <3> HAVE ~host'
    <3>1. ~host
      BY DEF Turn
    <3> QED
      BY <1>1, <3>1 DEF Turn, Inv, PageInv
  <2> QED
    BY <2>2, <2>3, <2>4 DEF PageInv
<1>10. RequestInv'
  <2>1. ASSUME NEW r \in pending'
        PROVE  IF IsInitialize(r) THEN client' = "booting" /\ r.id = 1 ELSE host'
    BY DEF Turn, Inv, RequestInv
  <2>2. \A i \in DOMAIN toWorker' : toWorker'[i] \in Requests => toWorker'[i].id < nextId'
    BY <1>2 DEF Turn, Inv, RequestInv
  <2>3. \A i \in DOMAIN fromWorker' : fromWorker'[i] \in Responses => fromWorker'[i].id < nextId'
    BY <1>3 DEF Turn, Inv, RequestInv
  <2> QED
    BY <2>1, <2>2, <2>3 DEF RequestInv, IsInitialize
<1>11. WorkerInv'
  <2>1. worker' = worker /\ failed' = failed
    BY DEF Turn
  <2>2. worker.state = "loading" => fromWorker' = << >> /\ ~host'
    BY <1>3, <1>7 DEF Inv, WorkerInv
  <2>3. failed \/ (\E i \in DOMAIN fromWorker' : fromWorker'[i] \in Failures) => worker.state = "dead"
    BY <1>3 DEF Inv, WorkerInv
  <2>5. worker.state = "dead" /\ ~failed /\ client' # "detached" =>
          \E i \in DOMAIN fromWorker' : fromWorker'[i] \in Failures
    BY <1>3, <1>7 DEF Inv, WorkerInv
  <2> QED
    BY <2>1, <2>2, <2>3, <2>5 DEF WorkerInv
<1>12. ServerInv'
  BY <1>2 DEF ServerInv, Turn
<1> QED
  BY <1>8, <1>9, <1>10, <1>11, <1>12
LEMMA TurnMarkers ==
  ASSUME Inv, NEW base, NEW q, Turn(base, q)
  PROVE  MarkersInv'
<1> SUFFICES ASSUME worker'.state = "ready", host', \A i \in DOMAIN toWorker' : toWorker'[i] \notin Documents,
                    NEW p \in Present(page'.files)
             PROVE  IsShown(fromWorker', page'.models[p].markers, worker'.docs, p)
  BY DEF MarkersInv
<1>1. worker' = worker /\ worker.state = "ready"
  BY DEF Turn
<1>2. /\ page'.files = q.files /\ page'.models = q.models /\ page'.previous = q.previous
  BY TurnSends DEF Turn
<1>3. page'.previous = page.previous /\ \A i \in DOMAIN toWorker : toWorker[i] \notin Documents
  BY <1>1, TurnTells DEF Turn
<1>4. q.files = page.previous
  BY <1>2, <1>3 DEF Turn, Agrees
<1>5. p \in Paths /\ q.files[p] # None
  BY <1>2 DEF Present
<1>6. host
  <2>1. SUFFICES ASSUME ~host PROVE FALSE
    OBVIOUS
  <2>2. page.previous = [x \in Paths |-> None]
    BY <2>1 DEF Inv, PageInv
  <2> QED
    BY <1>4, <1>5, <2>2
<1>7. page.previous = page.files /\ Mirrors(page)
  BY <1>6 DEF Inv, PageInv
<1>8. page.files[p] # None /\ page.models[p] # None
  BY <1>4, <1>5, <1>7 DEF Mirrors
<1>9. IsShown(fromWorker, page.models[p].markers, worker.docs, p)
  BY <1>1, <1>3, <1>5, <1>6, <1>8 DEF Inv, MarkersInv, Present
<1>10. IsShown(fromWorker', page.models[p].markers, worker.docs, p)
  BY <1>9, TakenReplies DEF Turn, Inv
<1>11. q.models[p].markers = page.models[p].markers
  <2>1. base.models[p] # None /\ base.models[p] = page.models[p]
    BY <1>8 DEF Turn, Begins
  <2>2. base.files[p] # None /\ MaySucceed(base, q, p)
    BY <1>5 DEF Turn, PageStep, SameFiles
  <2> QED
    BY <2>1, <2>2 DEF MaySucceed, Grown
<1> QED
  BY <1>1, <1>2, <1>10, <1>11

LEMMA TurnRenames ==
  ASSUME Inv, NEW base, NEW q, Turn(base, q)
  PROVE  RenameInv'
<1>1. /\ page'.models = q.models /\ page'.created = q.created
  BY TurnSends DEF Turn
<1>2. worker' = worker /\ pending' \subseteq pending
  BY DEF Turn
<1>3. /\ \A i \in DOMAIN toWorker : toWorker'[i] = toWorker[i]
      /\ \A i \in DOMAIN toWorker' : toWorker'[i] \in Requests => i \in DOMAIN toWorker
      /\ \A i \in DOMAIN toWorker : After(worker.docs, toWorker')[i - 1] = After(worker.docs, toWorker)[i - 1]
  BY TurnTells DEF Turn
<1>4. \A j \in DOMAIN fromWorker' : \E i \in DOMAIN fromWorker : fromWorker'[j] = fromWorker[i]
  BY TakenReplies DEF Turn, Inv
<1> SUFFICES ASSUME NEW r \in pending', NEW p \in Paths, ~IsInitialize(r), r.versions[p] # None
             PROVE  /\ r.versions[p].object < page'.created
                    /\ IsNoted(r, p)' =>
                         /\ r.versions[p].version <= page'.models[p].version
                         /\ r.versions[p].version = page'.models[p].version => NotedText(r, p)'
  BY DEF RenameInv, IsInitialize
<1>5. /\ r.versions[p].object < page.created
      /\ IsNoted(r, p) =>
           /\ r.versions[p].version <= page.models[p].version
           /\ r.versions[p].version = page.models[p].version => NotedText(r, p)
  BY <1>2 DEF Inv, RenameInv
<1>6. r.versions[p].object \in Nat /\ r.versions[p].version \in Nat
  <2>1. r \in Waiting /\ r.kind # "initialize"
    BY <1>2 DEF Inv, TypeOK, IsInitialize
  <2>2. r.versions \in [Paths -> Versions \cup {None}]
    BY <2>1 DEF Waiting
  <2> QED
    BY <2>2 DEF Versions
<1>7. /\ base \in Pages /\ q \in Pages /\ base.created <= q.created /\ MaySucceed(base, q, p)
      /\ base.models = page.models /\ base.created = page.created
  BY DEF Turn, Begins, PageStep
<1>8. /\ base.created \in Nat /\ q.created \in Nat
      /\ base.models[p] \in Models \cup {None} /\ q.models[p] \in Models \cup {None}
  BY <1>7, PageFields
<1>9. r.versions[p].object < page'.created
  BY <1>1, <1>5, <1>6, <1>7, <1>8
<1>10. ASSUME IsNoted(r, p)'
       PROVE  /\ r.versions[p].version <= page'.models[p].version
              /\ r.versions[p].version = page'.models[p].version => NotedText(r, p)'
  <2> DEFINE m == page.models[p]
             n == q.models[p]
  <2>1. n # None /\ n.object = r.versions[p].object
    BY <1>1, <1>10 DEF IsNoted
  <2>2. m # None /\ Grown(m, n)
    <3>1. ~(n.object \in base.created .. q.created - 1)
      BY <1>5, <1>6, <1>7, <1>8, <2>1
    <3> QED
      BY <1>7, <2>1, <3>1 DEF MaySucceed
  <2>3. m \in Models /\ n \in Models
    BY <1>7, <1>8, <2>1, <2>2
  <2>4. IsNoted(r, p)
    BY <2>1, <2>2 DEF IsNoted, Grown
  <2>5. m.version \in Nat /\ n.version \in Nat /\ m.version <= n.version /\ r.versions[p].version <= m.version
    BY <1>5, <2>2, <2>3, <2>4, ModelFields DEF Grown
  <2> HIDE DEF m, n
  <2>6. r.versions[p].version <= n.version
    BY <1>6, <2>5
  <2>7. ASSUME r.versions[p].version = n.version PROVE NotedText(r, p)'
    <3>1. n.version = m.version
      BY <1>6, <2>5, <2>7
    <3>2. n.text = m.text /\ NotedText(r, p)
      BY <1>5, <2>2, <2>4, <2>7, <3>1 DEF Grown, m
    <3>3. page'.models[p].text = page.models[p].text
      BY <1>1, <3>2 DEF m, n
    <3> QED
      BY <1>2, <1>3, <1>4, <3>2, <3>3 DEF NotedText
  <2> QED
    BY <1>1, <2>6, <2>7 DEF n
<1> QED
  BY <1>9, <1>10

LEMMA TurnKeepsInv ==
  ASSUME Inv, NEW base, NEW q, Turn(base, q)
  PROVE  Inv'
BY TurnTypes, TurnMarkers, TurnRenames DEF Inv

(* The initial states.                                                         *)
LEMMA InitInv == Init => Inv
<1> SUFFICES ASSUME Init PROVE Inv
  OBVIOUS
<1> DEFINE nothing == [p \in Paths |-> None]
           first == [kind |-> "initialize", id |-> 1]
           r1 == [id |-> 1, kind |-> "initialize", versions |-> None]
<1>1. nothing \in Trees
  BY DEF Trees
<1>2. PICK files \in Examples : page = Fresh(files)
  BY DEF Init
<1>3. files \in Workspaces /\ files \in Trees
  BY ExamplesAssumption DEF Workspaces
<1>4. /\ page.files = files /\ page.models = [p \in Paths |-> None] /\ page.previous = nothing
      /\ page.outgoing = << >> /\ page.created = 0
      /\ page = [files |-> files, models |-> [p \in Paths |-> None], previous |-> nothing,
                 outgoing |-> << >>, created |-> 0]
  BY <1>2 DEF Fresh
<1>5. page \in Pages
  BY <1>1, <1>3, <1>4 DEF Pages
<1>6. first \in Requests /\ r1 \in Waiting
  BY DEF Requests, Waiting
<1>7. toWorker \in Seq(Documents \cup Requests) /\ DOMAIN toWorker = {1} /\ toWorker[1] = first
  BY <1>6 DEF Init
<1>8. /\ fromWorker = << >> /\ DOMAIN fromWorker = {}
      /\ fromWorker \in Seq(Publishes \cup Responses \cup Failures)
  BY DEF Init
<1>9. worker = [state |-> "loading", docs |-> nothing] /\ worker.state = "loading" /\ worker.docs = nothing
  BY DEF Init
<1>10. host = FALSE /\ client = "booting" /\ failed = FALSE /\ pending = {r1} /\ nextId = 2 /\ gestures = 0
  BY DEF Init
<1>11. TypeOK
  <2>1. page.files \in Workspaces /\ page.outgoing = << >> /\ active \in Present(page.files)
    BY <1>3, <1>4 DEF Init
  <2>2. worker \in [state : {"loading", "ready", "dead"}, docs : Trees]
    BY <1>1, <1>9
  <2>3. pending \subseteq Waiting /\ nextId \in Nat /\ \A r \in pending : r.id < nextId
    BY <1>6, <1>10
  <2> HIDE DEF nothing, r1, first
  <2> QED
    BY <1>5, <1>7, <1>8, <1>10, <2>1, <2>2, <2>3 DEF TypeOK
<1>12. PageInv
  BY <1>4, <1>10 DEF PageInv, Numbered
<1>13. RequestInv
  BY <1>7, <1>8, <1>10 DEF RequestInv, IsInitialize
<1>14. WorkerInv
  BY <1>8, <1>9, <1>10 DEF WorkerInv
<1>15. ServerInv
  <2>1. toWorker = << first >>
    BY DEF Init
  <2>2. Tells(nothing, << first >>, nothing)
    BY <1>1, <1>6, TellsRequest
  <2> HIDE DEF nothing, first
  <2> QED
    BY <1>4, <1>9, <2>1, <2>2 DEF ServerInv
<1>16. MarkersInv
  BY <1>10 DEF MarkersInv
<1>17. RenameInv
  BY <1>10 DEF RenameInv, IsInitialize
<1> QED
  BY <1>11, <1>12, <1>13, <1>14, <1>15, <1>16, <1>17 DEF Inv

-------------------------------------------------------------------------------
(* The turns of the page.                                                      *)

(* The page itself, as the listeners find it.                                  *)
LEMMA PageBegins ==
  ASSUME Inv
  PROVE  /\ Begins(page) /\ page \in Pages /\ page.files \in Trees
         /\ host => Agrees(page)
         /\ active \in Present(page.files) /\ active \in Paths
         /\ host \in BOOLEAN
<1>1. TypeOK /\ PageInv
  BY DEF Inv
<1>2. page \in Pages /\ page.files \in Workspaces /\ page.outgoing = << >>
  BY <1>1 DEF TypeOK
<1>3. active \in Present(page.files)
  BY <1>1 DEF TypeOK
<1>4. host \in BOOLEAN
  BY <1>1 DEF TypeOK
<1> QED
  BY <1>1, <1>2, <1>3, <1>4, PageFields DEF Begins, PageInv, Agrees, Present

(* With other files: the store has been set.                                   *)
WithFiles(files) == [page EXCEPT !.files = files]

LEMMA StoreBegins ==
  ASSUME Inv, NEW files \in Workspaces, NEW base, base = WithFiles(files)
  PROVE  Begins(base) /\ base.files = files
<1>1. page \in Pages /\ page.outgoing = << >>
  BY PageBegins DEF Begins
<1>2. files \in Trees
  BY DEF Workspaces
<1>3. base = [files |-> files, models |-> page.models, previous |-> page.previous,
              outgoing |-> page.outgoing, created |-> page.created]
  BY <1>1 DEF WithFiles, Pages
<1>4. base \in Pages
  BY <1>1, <1>2, <1>3, PageFields DEF Pages
<1> QED
  BY <1>1, <1>3, <1>4 DEF Begins

(* A turn that changes nothing but the page and what it was to send.           *)
Alone(active1) ==
    /\ active' = active1
    /\ UNCHANGED <<host, client, failed, worker, nextId>> /\ gestures' \in Nat
    /\ pending' \subseteq pending
    /\ Taken

LEMMA AloneKeepsInv ==
  ASSUME Inv, NEW base, NEW q, Begins(base), PageStep(base, q), EndTurn(q),
         active' \in Present(base.files), Alone(active'),
         host => Agrees(q), ~host => q.previous = page.previous
  PROVE  Inv'
<1>1. /\ host' = host /\ client' = client /\ failed' = failed /\ worker' = worker /\ nextId' = nextId
      /\ gestures' \in Nat /\ pending' \subseteq pending /\ Taken
  BY DEF Alone
<1>2. Turn(base, q)
  BY <1>1 DEF Turn
<1> QED
  BY <1>2, TurnKeepsInv

(* The store is set to other files.                                            *)
LEMMA StoreSetKeepsInv ==
  ASSUME Inv, NEW files \in Workspaces, StoreSet(files), active' \in Present(files), Alone(active')
  PROVE  Inv'
<1> DEFINE base == WithFiles(files)
<1>1. PICK order \in Orders : EndTurn(StoreChanged(base, order))
  BY DEF StoreSet, WithFiles
<1> DEFINE q == StoreChanged(base, order)
<1>2. Begins(base) /\ base.files = files /\ base \in Pages
  BY StoreBegins DEF Begins
<1>3. CASE host
  <2>1. PageStep(base, q) /\ Agrees(q)
    BY <1>2, <1>3, StoreChangedStep
  <2> HIDE DEF base, q
  <2> QED
    BY <1>1, <1>2, <1>3, <2>1, AloneKeepsInv DEF q
<1>4. CASE ~host
  <2>1. q = base
    BY <1>4 DEF StoreChanged
  <2>2. PageStep(base, base)
    BY <1>2, StepSame
  <2>3. base.previous = page.previous
    BY <1>2 DEF Begins
  <2> HIDE DEF base, q
  <2> QED
    BY <1>1, <1>2, <1>4, <2>1, <2>2, <2>3, AloneKeepsInv DEF q
<1> QED
  BY <1>3, <1>4

(* What the user does.                                                         *)
LEMMA GestureAlone ==
  ASSUME Inv, Gesture, UNCHANGED <<pending, nextId>>
  PROVE  Alone(active')
<1>1. gestures \in Nat
  <2>1. TypeOK
    BY DEF Inv
  <2> QED
    BY <2>1 DEF TypeOK
<1>2. /\ gestures' = gestures + 1 /\ host' = host /\ client' = client /\ failed' = failed
      /\ fromWorker' = fromWorker /\ worker' = worker /\ pending' = pending /\ nextId' = nextId
  BY DEF Gesture
<1> QED
  BY <1>1, <1>2 DEF Alone, Taken

LEMMA TypeKeepsInv ==
  ASSUME Inv, NEW text \in NormalTexts, Type(text)
  PROVE  Inv'
<1>1. /\ Begins(page) /\ page \in Pages /\ active \in Paths /\ active \in Present(page.files)
      /\ host => Agrees(page)
  BY PageBegins
<1>2. Alone(active')
  BY GestureAlone DEF Type
<1>3. text \in Texts /\ Normal[text] = text /\ page.models[active] # None /\ active' = active
  BY NormalIs DEF Type, NormalTexts
<1>4. CASE host
  <2>1. PICK order \in Orders : EndTurn(ModelChanged(page, active, text, order))
    BY <1>4 DEF Type
  <2> DEFINE q == ModelChanged(page, active, text, order)
  <2>2. PageStep(page, q) /\ Agrees(q)
    BY <1>1, <1>3, <1>4, EditStep
  <2> HIDE DEF q
  <2> QED
    BY <1>1, <1>2, <1>3, <1>4, <2>1, <2>2, AloneKeepsInv DEF q
<1>5. CASE ~host
  <2> DEFINE files == [page.files EXCEPT ![active] = text]
             base == WithFiles(files)
             q == Push(base, active, text)
  <2>1. files \in Trees /\ \A p \in Paths : files[p] = IF p = active THEN text ELSE page.files[p]
    BY <1>1, <1>3, PageFields DEF Trees
  <2>2. Present(files) = Present(page.files)
    BY <1>1, <1>3, <2>1, NoneAssumption DEF Present
  <2>3. files \in Workspaces
    BY <1>1, <2>1, <2>2 DEF Workspaces
  <2>4. Begins(base) /\ base.files = files /\ base \in Pages /\ base.models = page.models
        /\ base.previous = page.previous
    <3> HIDE DEF files
    <3>1. Begins(base) /\ base.files = files
      BY <2>3, StoreBegins
    <3> HIDE DEF base
    <3> QED
      BY <3>1 DEF Begins
  <2>5. PageStep(base, q) /\ q.previous = base.previous
    <3> HIDE DEF base
    <3> QED
      BY <1>1, <1>3, <2>4, PushStep
  <2>6. q = [page EXCEPT !.files[active] = text, !.models[active] = Pushed(@, text)]
    BY <1>1, <1>3 DEF WithFiles, Push, Pages
  <2>7. EndTurn(q)
    <3>1. EndTurn([page EXCEPT !.files[active] = text, !.models[active] = Pushed(@, text)])
      BY <1>5 DEF Type
    <3> HIDE DEF q
    <3> QED
      BY <2>6, <3>1
  <2>8. active' \in Present(base.files)
    <3> HIDE DEF files, base
    <3> QED
      BY <1>1, <1>3, <2>2, <2>4
  <2> HIDE DEF files, base, q
  <2> QED
    BY <1>2, <1>5, <2>4, <2>5, <2>7, <2>8, AloneKeepsInv
<1> QED
  BY <1>4, <1>5

LEMMA SetActiveKeepsInv ==
  ASSUME Inv, NEW p \in Paths, SetActive(p)
  PROVE  Inv'
<1>1. page.files \in Workspaces
  BY PageBegins DEF Begins
<1>2. active' \in Present(page.files)
  BY DEF SetActive, Present
<1>3. Alone(active') /\ StoreSet(page.files)
  BY GestureAlone DEF SetActive
<1> QED
  BY <1>1, <1>2, <1>3, StoreSetKeepsInv

(* A workspace in which one file is replaced.                                  *)
LEMMA OneFile ==
  ASSUME NEW files \in Trees, NEW p \in Paths, NEW text \in Texts \cup {None},
         NEW new, new = [files EXCEPT ![p] = text]
  PROVE  /\ new \in Trees
         /\ \A x \in Paths : new[x] = IF x = p THEN text ELSE files[x]
BY DEF Trees

LEMMA CreateFileKeepsInv ==
  ASSUME Inv, NEW p \in Paths, CreateFile(p)
  PROVE  Inv'
<1> DEFINE files == [page.files EXCEPT ![p] = NewText]
<1>1. page.files \in Trees
  BY PageBegins
<1>2. NewText \in Texts /\ NewText # None
  BY NormalIs, TextsAssumption, NoneAssumption DEF NormalTexts
<1>3. files \in Trees /\ files[p] = NewText
  BY <1>1, <1>2, OneFile
<1>4. Alone(active') /\ StoreSet(files) /\ active' = p
  BY GestureAlone DEF CreateFile
<1> HIDE DEF files
<1>5. p \in Present(files)
  BY <1>2, <1>3 DEF Present
<1>6. files \in Workspaces
  BY <1>3, <1>5 DEF Workspaces
<1> QED
  BY <1>4, <1>5, <1>6, StoreSetKeepsInv

LEMMA RenameFileKeepsInv ==
  ASSUME Inv, NEW from \in Paths, NEW to \in Paths, RenameFile(from, to)
  PROVE  Inv'
<1> DEFINE files == [page.files EXCEPT ![from] = None, ![to] = page.files[from]]
<1>1. page.files \in Trees /\ active \in Present(page.files)
  BY PageBegins
<1>2. page.files[from] # None /\ page.files[to] = None /\ from # to
  BY DEF RenameFile
<1>3. page.files[from] \in Texts
  BY <1>1, <1>2, TreeValue
<1>4. files \in Trees
      /\ \A x \in Paths : files[x] = IF x = to THEN page.files[from]
                                     ELSE IF x = from THEN None ELSE page.files[x]
  BY <1>1, <1>2, <1>3 DEF Trees
<1>5. Alone(active') /\ StoreSet(files) /\ active' = IF active = from THEN to ELSE active
  BY GestureAlone DEF RenameFile
<1> HIDE DEF files
<1>6. active' \in Present(files)
  BY <1>1, <1>2, <1>4, <1>5 DEF Present
<1>7. files \in Workspaces
  BY <1>4, <1>6 DEF Workspaces
<1> QED
  BY <1>5, <1>6, <1>7, StoreSetKeepsInv

LEMMA DeleteFileKeepsInv ==
  ASSUME Inv, NEW p \in Paths, DeleteFile(p)
  PROVE  Inv'
<1> DEFINE files == [page.files EXCEPT ![p] = None]
           left == Present(page.files) \ {p}
<1>1. page.files \in Trees /\ active \in Present(page.files)
  BY PageBegins
<1>2. files \in Trees /\ \A x \in Paths : files[x] = IF x = p THEN None ELSE page.files[x]
  BY <1>1 DEF Trees
<1>3. Alone(active') /\ StoreSet(files)
  BY GestureAlone DEF DeleteFile
<1>4. left # {} /\ active' \in IF active = p THEN left ELSE {active}
  BY DEF DeleteFile
<1> HIDE DEF files
<1>5. active' \in left
  BY <1>1, <1>4
<1>6. active' \in Present(files)
  BY <1>2, <1>5 DEF Present
<1>7. files \in Workspaces
  BY <1>2, <1>6 DEF Workspaces
<1> QED
  BY <1>3, <1>6, <1>7, StoreSetKeepsInv

LEMMA LoadExampleKeepsInv ==
  ASSUME Inv, NEW files \in Examples, LoadExample(files)
  PROVE  Inv'
<1>1. files \in Workspaces
  BY ExamplesAssumption
<1>2. Alone(active') /\ StoreSet(files) /\ active' \in Present(files)
  BY GestureAlone DEF LoadExample
<1> QED
  BY <1>1, <1>2, StoreSetKeepsInv

(* The editor takes the model of its path, or makes it: with the host there is *)
(* one.                                                                        *)
LEMMA EditorEffectKeepsInv ==
  ASSUME Inv, EditorEffect
  PROVE  Inv'
<1> DEFINE text == page.files[active]
<1>1. /\ Begins(page) /\ page \in Pages /\ active \in Paths /\ active \in Present(page.files)
      /\ page.files \in Trees
      /\ host => Agrees(page)
  BY PageBegins
<1>2. text \in Texts
  BY <1>1, TreeValue DEF Present
<1>3. Alone(active') /\ active' = active
  <2>1. gestures \in Nat
    <3>1. TypeOK
      BY DEF Inv
    <3> QED
      BY <3>1 DEF TypeOK
  <2>2. /\ active' = active /\ host' = host /\ client' = client /\ failed' = failed
        /\ pending' = pending /\ nextId' = nextId /\ fromWorker' = fromWorker
        /\ worker' = worker /\ gestures' = gestures
    BY DEF EditorEffect
  <2> QED
    BY <2>1, <2>2 DEF Alone, Taken
<1>4. PICK order \in Orders :
        EndTurn(CASE page.models[active] = None -> CreateModel(page, active, text)
                  [] page.models[active] # None /\ host -> ModelChanged(page, active, text, order)
                  [] OTHER -> [page EXCEPT !.models[active] = Pushed(@, text)])
  BY DEF EditorEffect
<1>5. CASE page.models[active] = None
  <2> DEFINE q == CreateModel(page, active, text)
  <2>1. ~host
    BY <1>1, <1>5 DEF Agrees, Mirrors, Present
  <2>2. PageStep(page, q) /\ q.previous = page.previous
    <3> HIDE DEF text
    <3> QED
      BY <1>1, <1>2, <1>5, CreateStep
  <2>3. EndTurn(q)
    <3> HIDE DEF text
    <3> QED
      BY <1>4, <1>5
  <2> HIDE DEF q
  <2> QED
    BY <1>1, <1>3, <2>1, <2>2, <2>3, AloneKeepsInv
<1>6. CASE page.models[active] # None /\ host
  <2> DEFINE q == ModelChanged(page, active, text, order)
  <2>1. PageStep(page, q) /\ Agrees(q)
    <3> HIDE DEF text
    <3> QED
      BY <1>1, <1>2, <1>6, EditStep
  <2>2. EndTurn(q)
    <3> HIDE DEF text
    <3> QED
      BY <1>4, <1>6
  <2> HIDE DEF q
  <2> QED
    BY <1>1, <1>3, <1>6, <2>1, <2>2, AloneKeepsInv
<1>7. CASE page.models[active] # None /\ ~host
  <2> DEFINE q == Push(page, active, text)
  <2>1. PageStep(page, q) /\ q.previous = page.previous
    <3> HIDE DEF text
    <3> QED
      BY <1>1, <1>2, <1>7, PushStep
  <2>2. EndTurn(q)
    <3> HIDE DEF text
    <3> QED
      BY <1>4, <1>7 DEF Push
  <2> HIDE DEF q
  <2> QED
    BY <1>1, <1>3, <1>7, <2>1, <2>2, AloneKeepsInv
<1> QED
  BY <1>5, <1>6, <1>7

-------------------------------------------------------------------------------
(* Answers to requests.                                                        *)

(* An answer is taken from the queue.                                          *)
LEMMA AnswerTaken ==
  ASSUME Inv, fromWorker # << >>, Head(fromWorker).kind = "response", fromWorker' = Tail(fromWorker)
  PROVE  Taken
<1>1. fromWorker \in Seq(Replies)
  BY Types DEF Inv
<1>2. Head(fromWorker) \in Replies
  BY <1>1, TailParts
<1>3. Head(fromWorker) \in Responses
  BY <1>2, ReplyKinds
<1> QED
  BY <1>3 DEF Taken

LEMMA AttachKeepsInv ==
  ASSUME Inv, fromWorker # << >>, Head(fromWorker).kind = "response",
         NEW r \in pending, IsInitialize(r), pending' = pending \ {r},
         NEW m, Attach(m), UNCHANGED <<nextId, gestures>>
  PROVE  Inv'
<1>1. /\ Begins(page) /\ page \in Pages /\ active \in Present(page.files)
  BY PageBegins
<1>2. TypeOK /\ RequestInv
  BY DEF Inv
<1>3. /\ client' = "attached" /\ host' = TRUE /\ fromWorker' = Tail(fromWorker)
      /\ active' = active /\ failed' = failed /\ worker' = worker
      /\ \E order \in Orders : EndTurn(WorkspaceSync(order)[StartModelHost(page)])
  BY DEF Attach
<1>4. Taken
  BY <1>3, AnswerTaken
<1>5. client = "booting" /\ host \in BOOLEAN /\ ~host
  <2>1. host \in BOOLEAN /\ (host => client = "attached")
    BY <1>2 DEF TypeOK
  <2>2. client = "booting"
    BY <1>2 DEF RequestInv
  <2> QED
    BY <2>1, <2>2
<1>6. pending' \subseteq pending /\ \A x \in pending' : ~IsInitialize(x)
  <2>1. pending \subseteq Waiting
    BY <1>2 DEF TypeOK
  <2>2. ASSUME NEW x \in pending', IsInitialize(x) PROVE FALSE
    <3>1. x \in pending /\ x # r
      OBVIOUS
    <3>2. x.id = 1 /\ r.id = 1
      BY <1>2, <2>2, <3>1 DEF RequestInv
    <3>3. x \in [id : Nat, kind : {"initialize"}, versions : {None}]
          /\ r \in [id : Nat, kind : {"initialize"}, versions : {None}]
      BY <2>1, <2>2, <3>1 DEF Waiting, IsInitialize
    <3> QED
      BY <3>1, <3>2, <3>3
  <2> QED
    BY <2>2
<1>7. PICK order \in Orders : EndTurn(WorkspaceSync(order)[StartModelHost(page)])
  BY <1>3
<1> DEFINE s == StartModelHost(page)
           q == WorkspaceSync(order)[s]
<1>8. s.files = page.files /\ PageStep(page, s) /\ Mirrors(s)
  BY <1>1, StartStep
<1>9. EndTurn(q)
  BY <1>7
<1> HIDE DEF s
<1>10. s \in Pages
  BY <1>8 DEF PageStep
<1>11. q.files = s.files /\ q.models = s.models /\ q.previous = s.files /\ PageStep(s, q)
  BY <1>10, SyncStep
<1> HIDE DEF q
<1>12. PageStep(page, q)
  BY <1>1, <1>8, <1>11, StepTwice
<1>13. Agrees(q)
  BY <1>8, <1>11 DEF Agrees, Mirrors
<1>14. nextId' = nextId /\ gestures' \in Nat
  BY <1>2 DEF TypeOK
<1>15. Turn(page, q)
  BY <1>1, <1>3, <1>4, <1>5, <1>6, <1>9, <1>12, <1>13, <1>14 DEF Turn
<1> QED
  BY <1>15, TurnKeepsInv

(* The answer of a rename is applied, or rejected.                             *)
LEMMA RenameAnswerKeepsInv ==
  ASSUME Inv, fromWorker # << >>, NEW m, m = Head(fromWorker), m.kind = "response",
         NEW r \in pending, ~IsInitialize(r), pending' = pending \ {r},
         NEW order \in Orders, NEW texts \in [m.targets -> NormalTexts],
         ApplyWorkspaceEdit(r, m, texts, order), fromWorker' = Tail(fromWorker),
         UNCHANGED <<active, host, client, failed, worker>>, UNCHANGED <<nextId, gestures>>
  PROVE  Inv'
<1>1. /\ Begins(page) /\ page \in Pages /\ active \in Present(page.files)
      /\ host => Agrees(page)
  BY PageBegins
<1>2. host
  BY DEF Inv, RequestInv
<1>3. Taken
  BY AnswerTaken
<1>4. Alone(active') /\ active' = active
  <2>1. gestures \in Nat
    <3>1. TypeOK
      BY DEF Inv
    <3> QED
      BY <3>1 DEF TypeOK
  <2>2. /\ active' = active /\ host' = host /\ client' = client /\ failed' = failed
        /\ worker' = worker /\ nextId' = nextId /\ gestures' = gestures
    OBVIOUS
  <2> QED
    BY <1>3, <2>1, <2>2 DEF Alone
<1>5. CASE WorkspaceEditTargetsAreCurrent(r, m)
  <2> DEFINE q == Edited(page, m.targets, texts, order)
  <2>1. m \in Responses
    <3>1. fromWorker \in Seq(Replies)
      BY Types DEF Inv
    <3>2. m \in Replies
      BY <3>1, TailParts
    <3> QED
      BY <3>2, ReplyKinds
  <2>2. m.targets \in SUBSET Paths
    BY <2>1 DEF Responses
  <2>3. m.targets \in SUBSET Present(page.files)
    <3> SUFFICES ASSUME NEW p \in m.targets PROVE p \in Present(page.files)
      OBVIOUS
    <3>1. p \in Paths /\ page.models[p] # None
      BY <1>5, <2>2 DEF WorkspaceEditTargetsAreCurrent
    <3> QED
      BY <1>1, <1>2, <3>1 DEF Agrees, Mirrors, Present
  <2>4. PageStep(page, q) /\ Agrees(q)
    BY <1>1, <1>2, <2>3, EditedStep
  <2>5. EndTurn(q)
    BY <1>5 DEF ApplyWorkspaceEdit
  <2> HIDE DEF q
  <2> QED
    BY <1>1, <1>2, <1>4, <2>4, <2>5, AloneKeepsInv
<1>6. CASE ~WorkspaceEditTargetsAreCurrent(r, m)
  <2>1. page' = page /\ toWorker' = toWorker
    BY <1>6 DEF ApplyWorkspaceEdit
  <2>2. EndTurn(page)
    <3>1. page.outgoing = << >>
      BY <1>1 DEF Begins
    <3>2. [page EXCEPT !.outgoing = << >>] = page
      BY <1>1, <3>1 DEF Pages
    <3>3. toWorker \o << >> = toWorker
      <4>1. toWorker \in Seq(Sent)
        BY Types DEF Inv
      <4> QED
        BY <4>1
    <3> QED
      BY <2>1, <3>1, <3>2, <3>3 DEF EndTurn
  <2>3. PageStep(page, page)
    BY <1>1, StepSame
  <2> QED
    BY <1>1, <1>2, <1>4, <2>2, <2>3, AloneKeepsInv
<1> QED
  BY <1>5, <1>6

LEMMA HandleResponseKeepsInv ==
  ASSUME Inv, HandleResponse
  PROVE  Inv'
<1> DEFINE m == Head(fromWorker)
<1>1. fromWorker # << >> /\ m.kind = "response" /\ UNCHANGED <<nextId, gestures>>
  BY DEF HandleResponse
<1>2. PICK r \in pending :
        /\ r.id = m.id
        /\ pending' = pending \ {r}
        /\ \/ IsInitialize(r) /\ Attach(m)
           \/ /\ ~IsInitialize(r)
              /\ \E order \in Orders, texts \in [m.targets -> NormalTexts] :
                     ApplyWorkspaceEdit(r, m, texts, order)
              /\ fromWorker' = Tail(fromWorker)
              /\ UNCHANGED <<active, host, client, failed, worker>>
  BY DEF HandleResponse
<1>3. CASE IsInitialize(r) /\ Attach(m)
  BY <1>1, <1>2, <1>3, AttachKeepsInv
<1>4. CASE /\ ~IsInitialize(r)
           /\ \E order \in Orders, texts \in [m.targets -> NormalTexts] :
                  ApplyWorkspaceEdit(r, m, texts, order)
           /\ fromWorker' = Tail(fromWorker)
           /\ UNCHANGED <<active, host, client, failed, worker>>
  BY <1>1, <1>2, <1>4, RenameAnswerKeepsInv
<1> QED
  BY <1>2, <1>3, <1>4

(* Nothing changes but the requests that wait and an answer that is taken.     *)
LEMMA QuietKeepsInv ==
  ASSUME Inv, pending' \subseteq pending, Taken,
         UNCHANGED <<page, active, host, client, failed, nextId, toWorker, worker, gestures>>
  PROVE  Inv'
<1>1. Begins(page) /\ page \in Pages /\ active \in Present(page.files) /\ host \in BOOLEAN
  BY PageBegins
<1>2. host => Agrees(page)
  BY PageBegins
<1>3. EndTurn(page)
  <2>1. page.outgoing = << >>
    BY <1>1 DEF Begins
  <2>2. [page EXCEPT !.outgoing = << >>] = page
    BY <1>1, <2>1 DEF Pages
  <2>3. toWorker \o << >> = toWorker
    <3>1. toWorker \in Seq(Sent)
      BY Types DEF Inv
    <3> QED
      BY <3>1
  <2> QED
    BY <2>1, <2>2, <2>3 DEF EndTurn
<1>4. PageStep(page, page)
  BY <1>1, StepSame
<1>5. Alone(active') /\ active' = active
  <2>1. gestures \in Nat
    <3>1. TypeOK
      BY DEF Inv
    <3> QED
      BY <3>1 DEF TypeOK
  <2>2. /\ active' = active /\ host' = host /\ client' = client /\ failed' = failed
        /\ worker' = worker /\ nextId' = nextId /\ gestures' = gestures
    OBVIOUS
  <2> QED
    BY <2>1, <2>2 DEF Alone
<1> QED
  BY <1>1, <1>2, <1>3, <1>4, <1>5, AloneKeepsInv

LEMMA IgnoreResponseKeepsInv ==
  ASSUME Inv, IgnoreResponse
  PROVE  Inv'
<1>1. Taken
  BY AnswerTaken DEF IgnoreResponse
<1> QED
  BY <1>1, QuietKeepsInv DEF IgnoreResponse

LEMMA StutterKeepsInv ==
  ASSUME Inv, UNCHANGED vars
  PROVE  Inv'
BY QuietKeepsInv DEF vars, Taken

-------------------------------------------------------------------------------
(* The worker goes.                                                            *)

(* What the parts of the invariant say of the page hold while it stays.        *)
LEMMA PageStays ==
  ASSUME PageInv, page' = page, host' = host
  PROVE  PageInv'
BY DEF PageInv, Numbered, Mirrors

(* The client lets the worker go: it was booting, and no host runs.            *)
LEMMA DetachKeepsInv ==
  ASSUME Inv, Detach, NEW r \in pending, IsInitialize(r), failed' \in BOOLEAN
  PROVE  Inv'
<1>1. TypeOK /\ PageInv /\ RequestInv
  BY DEF Inv
<1>2. /\ client' = "detached" /\ pending' = {} /\ toWorker' = << >> /\ fromWorker' = << >>
      /\ worker' = [worker EXCEPT !.state = "dead"]
      /\ page' = page /\ active' = active /\ host' = host /\ nextId' = nextId /\ gestures' = gestures
  BY DEF Detach
<1>3. ~host /\ host \in BOOLEAN
  <2>1. client = "booting"
    BY <1>1 DEF RequestInv
  <2> QED
    BY <1>1, <2>1 DEF TypeOK
<1>4. worker' \in [state : {"loading", "ready", "dead"}, docs : Trees] /\ worker'.state = "dead"
  BY <1>1, <1>2 DEF TypeOK
<1>5. TypeOK'
  <2>1. page' \in Pages /\ page'.files \in Workspaces /\ page'.outgoing = << >>
        /\ active' \in Present(page'.files) /\ nextId' \in Nat /\ gestures' \in Nat
    BY <1>1, <1>2 DEF TypeOK
  <2>2. host' \in BOOLEAN /\ ~host'
    BY <1>2, <1>3
  <2> QED
    BY <1>2, <1>4, <2>1, <2>2 DEF TypeOK
<1>6. PageInv'
  BY <1>1, <1>2, PageStays
<1>7. RequestInv' /\ RenameInv'
  BY <1>2 DEF RequestInv, RenameInv
<1>8. WorkerInv' /\ ServerInv' /\ MarkersInv'
  BY <1>2, <1>4 DEF WorkerInv, ServerInv, MarkersInv
<1> QED
  BY <1>5, <1>6, <1>7, <1>8 DEF Inv

LEMMA TimeoutKeepsInv ==
  ASSUME Inv, NEW r \in pending, Timeout(r)
  PROVE  Inv'
<1>1. CASE IsInitialize(r) /\ Detach
  <2>1. failed' \in BOOLEAN
    <3>1. failed' = failed
      BY DEF Timeout
    <3>2. TypeOK
      BY DEF Inv
    <3> QED
      BY <3>1, <3>2 DEF TypeOK
  <2> QED
    BY <1>1, <2>1, DetachKeepsInv
<1>2. CASE /\ ~IsInitialize(r)
           /\ pending' = pending \ {r}
           /\ UNCHANGED <<page, active, host, client, nextId, toWorker, fromWorker, worker, gestures>>
  <2>1. failed' = failed
    BY DEF Timeout
  <2>2. Taken
    BY <1>2 DEF Taken
  <2> QED
    BY <1>2, <2>1, <2>2, QuietKeepsInv
<1> QED
  BY <1>1, <1>2 DEF Timeout

(* A tail of the replies.                                                      *)
LEMMA TailReplies ==
  ASSUME TypeOK, fromWorker # << >>, fromWorker' = Tail(fromWorker)
  PROVE  /\ fromWorker' \in Seq(Replies)
         /\ Head(fromWorker) \in Replies
         /\ \E i \in DOMAIN fromWorker : fromWorker[i] = Head(fromWorker)
         /\ \A j \in DOMAIN fromWorker' : \E i \in DOMAIN fromWorker : fromWorker'[j] = fromWorker[i]
         /\ \A i \in DOMAIN fromWorker : fromWorker[i] # Head(fromWorker) =>
              \E j \in DOMAIN fromWorker' : fromWorker'[j] = fromWorker[i]
<1> DEFINE q == fromWorker
           n == Len(q)
           t == fromWorker'
<1>1. q \in Seq(Replies) /\ DOMAIN q = 1 .. n /\ q # << >> /\ t = Tail(q)
  BY Types
<1>2. /\ n \in Nat \ {0} /\ t \in Seq(Replies) /\ Len(t) = n - 1 /\ Head(q) = q[1] /\ q[1] \in Replies
      /\ \A i \in 1 .. n - 1 : t[i] = q[i + 1]
      /\ \A k \in 1 .. n : k = 1 \/ \E i \in 1 .. n - 1 : k = i + 1
  BY <1>1, TailParts
<1> HIDE DEF n, t, q
<1>3. DOMAIN t = 1 .. n - 1
  <2>1. DOMAIN t = 1 .. Len(t)
    BY <1>2, LenProperties
  <2> QED
    BY <1>2, <2>1
<1>4. \A j \in DOMAIN t : \E i \in DOMAIN q : t[j] = q[i]
  <2> TAKE j \in DOMAIN t
  <2>1. j + 1 \in 1 .. n /\ t[j] = q[j + 1]
    BY <1>2, <1>3
  <2> QED
    BY <1>1, <2>1
<1>5. \A i \in DOMAIN q : q[i] # Head(q) => \E j \in DOMAIN t : t[j] = q[i]
  <2> SUFFICES ASSUME NEW i \in DOMAIN q, q[i] # Head(q) PROVE \E j \in DOMAIN t : t[j] = q[i]
    OBVIOUS
  <2>1. i \in 1 .. n /\ i # 1
    BY <1>1, <1>2
  <2>2. PICK j \in 1 .. n - 1 : i = j + 1
    BY <1>2, <2>1
  <2> QED
    BY <1>2, <1>3, <2>2
<1>6. \E i \in DOMAIN q : q[i] = Head(q)
  BY <1>1, <1>2
<1> QED
  BY <1>2, <1>4, <1>5, <1>6 DEF q, t

LEMMA HandleFailureKeepsInv ==
  ASSUME Inv, HandleFailure
  PROVE  Inv'
<1>0. fromWorker # << >> /\ Head(fromWorker).kind = "failure" /\ failed' = TRUE /\ FailWorker
  BY DEF HandleFailure
<1>1. CASE (\E r \in pending : IsInitialize(r)) /\ Detach
  BY <1>0, <1>1, DetachKeepsInv
<1>2. CASE /\ \A r \in pending : ~IsInitialize(r)
           /\ pending' = {}
           /\ fromWorker' = Tail(fromWorker)
           /\ UNCHANGED <<page, active, host, client, nextId, toWorker, worker, gestures>>
  <2>1. TypeOK /\ PageInv /\ RequestInv /\ WorkerInv
    BY DEF Inv
  <2>2. /\ page' = page /\ active' = active /\ host' = host /\ client' = client
        /\ nextId' = nextId /\ toWorker' = toWorker /\ worker' = worker /\ gestures' = gestures
    BY <1>2
  <2>3. /\ fromWorker' \in Seq(Replies)
        /\ Head(fromWorker) \in Replies
        /\ \E i \in DOMAIN fromWorker : fromWorker[i] = Head(fromWorker)
        /\ \A j \in DOMAIN fromWorker' : \E i \in DOMAIN fromWorker : fromWorker'[j] = fromWorker[i]
    BY <1>0, <1>2, <2>1, TailReplies
  <2>4. worker.state = "dead"
    <3>1. Head(fromWorker) \in Failures
      BY <1>0, <2>3, ReplyKinds
    <3> QED
      BY <2>1, <2>3, <3>1 DEF WorkerInv
  <2>5. TypeOK'
    <3>1. page' \in Pages /\ page'.files \in Workspaces /\ page'.outgoing = << >>
          /\ active' \in Present(page'.files) /\ nextId' \in Nat /\ gestures' \in Nat
      BY <2>1, <2>2 DEF TypeOK
    <3>2. client' \in {"booting", "attached", "detached"} /\ host' \in BOOLEAN
          /\ (host' => client' = "attached")
      BY <2>1, <2>2 DEF TypeOK
    <3>3. failed' \in BOOLEAN /\ pending' = {}
      BY <1>0, <1>2
    <3>4. toWorker' \in Seq(Documents \cup Requests)
      BY <2>1, <2>2 DEF TypeOK
    <3>5. worker' \in [state : {"loading", "ready", "dead"}, docs : Trees]
      BY <2>1, <2>2 DEF TypeOK
    <3> QED
      BY <2>3, <3>1, <3>2, <3>3, <3>4, <3>5 DEF TypeOK, Replies
  <2>6. PageInv'
    BY <2>1, <2>2, PageStays
  <2>7. RequestInv'
    BY <1>2, <2>1, <2>2, <2>3 DEF RequestInv
  <2>8. WorkerInv' /\ ServerInv' /\ MarkersInv'
    BY <1>0, <2>2, <2>4 DEF WorkerInv, ServerInv, MarkersInv
  <2>9. RenameInv'
    BY <1>2 DEF RenameInv
  <2> QED
    BY <2>5, <2>6, <2>7, <2>8, <2>9 DEF Inv
<1> QED
  BY <1>0, <1>1, <1>2 DEF FailWorker

(* A reply that comes last.                                                    *)
LEMMA OneReply ==
  ASSUME TypeOK, NEW m \in Replies, fromWorker' = Append(fromWorker, m)
  PROVE  /\ fromWorker' \in Seq(Replies)
         /\ \A j \in DOMAIN fromWorker' : fromWorker'[j] = m \/ \E i \in DOMAIN fromWorker : fromWorker'[j] = fromWorker[i]
         /\ \A i \in DOMAIN fromWorker : i \in DOMAIN fromWorker' /\ fromWorker'[i] = fromWorker[i]
         /\ \E j \in DOMAIN fromWorker' : fromWorker'[j] = m
<1> DEFINE q == fromWorker
           t == fromWorker'
           n == Len(q)
<1>1. q \in Seq(Replies) /\ DOMAIN q = 1 .. n /\ t = Append(q, m) /\ n \in Nat
  BY Types, LenProperties
<1>2. /\ t \in Seq(Replies) /\ Len(t) = n + 1 /\ t[n + 1] = m
      /\ \A i \in 1 .. n : t[i] = q[i]
  BY <1>1, AppendProperties
<1>3. DOMAIN t = 1 .. n + 1
  <2> HIDE DEF t, n, q
  <2>1. DOMAIN t = 1 .. Len(t)
    BY <1>2, LenProperties
  <2> QED
    BY <1>2, <2>1
<1> HIDE DEF t, n, q
<1>4. \A j \in DOMAIN t : t[j] = m \/ \E i \in DOMAIN q : t[j] = q[i]
  <2> TAKE j \in DOMAIN t
  <2>1. j = n + 1 \/ j \in 1 .. n
    BY <1>1, <1>3
  <2> QED
    BY <1>1, <1>2, <2>1
<1>5. \A i \in DOMAIN q : i \in DOMAIN t /\ t[i] = q[i]
  BY <1>1, <1>2, <1>3
<1>6. \E j \in DOMAIN t : t[j] = m
  BY <1>1, <1>2, <1>3
<1> QED
  BY <1>2, <1>4, <1>5, <1>6 DEF t, q

(* The worker fails: it says so, and handles nothing any more.                 *)
LEMMA FailsKeepsInv ==
  ASSUME Inv, worker.state # "dead", worker' = [worker EXCEPT !.state = "dead"],
         toWorker' = << >>, fromWorker' = Append(fromWorker, [kind |-> "failure"]), WorkerOnly
  PROVE  Inv'
<1> DEFINE m == [kind |-> "failure"]
<1>1. TypeOK /\ PageInv /\ RequestInv /\ RenameInv
  BY DEF Inv
<1>2. /\ page' = page /\ active' = active /\ host' = host /\ client' = client /\ failed' = failed
      /\ pending' = pending /\ nextId' = nextId /\ gestures' = gestures
  BY DEF WorkerOnly
<1>3. m \in Failures /\ m \in Replies /\ m \notin Responses
  BY DEF Failures, Replies, Responses
<1>4. /\ fromWorker' \in Seq(Replies)
      /\ \A j \in DOMAIN fromWorker' : fromWorker'[j] = m \/ \E i \in DOMAIN fromWorker : fromWorker'[j] = fromWorker[i]
      /\ \A i \in DOMAIN fromWorker : i \in DOMAIN fromWorker' /\ fromWorker'[i] = fromWorker[i]
      /\ \E j \in DOMAIN fromWorker' : fromWorker'[j] = m
  <2> HIDE DEF m
  <2>1. fromWorker' = Append(fromWorker, m)
    BY DEF m
  <2> QED
    BY <1>1, <1>3, <2>1, OneReply
<1>5. worker' \in [state : {"loading", "ready", "dead"}, docs : Trees] /\ worker'.state = "dead"
  BY <1>1 DEF TypeOK
<1> HIDE DEF m
<1>6. TypeOK'
  <2>1. page' \in Pages /\ page'.files \in Workspaces /\ page'.outgoing = << >>
        /\ active' \in Present(page'.files) /\ gestures' \in Nat
    BY <1>1, <1>2 DEF TypeOK
  <2>2. client' \in {"booting", "attached", "detached"} /\ host' \in BOOLEAN
        /\ (host' => client' = "attached") /\ failed' \in BOOLEAN
    BY <1>1, <1>2 DEF TypeOK
  <2>3. (failed' => pending' = {}) /\ pending' \subseteq Waiting /\ nextId' \in Nat
        /\ \A r \in pending' : r.id < nextId'
    BY <1>1, <1>2 DEF TypeOK
  <2> QED
    BY <1>4, <1>5, <2>1, <2>2, <2>3 DEF TypeOK, Replies
<1>7. PageInv'
  BY <1>1, <1>2, PageStays
<1>8. RequestInv'
  <2>1. \A r \in pending' : IF IsInitialize(r) THEN client' = "booting" /\ r.id = 1 ELSE host'
    BY <1>1, <1>2 DEF RequestInv
  <2>2. \A i \in DOMAIN fromWorker' : fromWorker'[i] \in Responses => fromWorker'[i].id < nextId'
    BY <1>1, <1>2, <1>3, <1>4 DEF RequestInv
  <2> QED
    BY <2>1, <2>2 DEF RequestInv, IsInitialize
<1>9. WorkerInv' /\ ServerInv' /\ MarkersInv'
  BY <1>3, <1>4, <1>5 DEF WorkerInv, ServerInv, MarkersInv
<1>10. RenameInv'
  <2> SUFFICES ASSUME NEW r \in pending', NEW p \in Paths, ~IsInitialize(r), r.versions[p] # None
               PROVE  /\ r.versions[p].object < page'.created
                      /\ IsNoted(r, p)' =>
                           /\ r.versions[p].version <= page'.models[p].version
                           /\ r.versions[p].version = page'.models[p].version => NotedText(r, p)'
    BY DEF RenameInv, IsInitialize
  <2>1. /\ r.versions[p].object < page.created
        /\ IsNoted(r, p) =>
             /\ r.versions[p].version <= page.models[p].version
             /\ r.versions[p].version = page.models[p].version => NotedText(r, p)
    BY <1>1, <1>2 DEF RenameInv
  <2>2. NotedText(r, p) => NotedText(r, p)'
    <3> SUFFICES ASSUME NotedText(r, p),
                        NEW j \in DOMAIN fromWorker', fromWorker'[j] \in Responses, fromWorker'[j].id = r.id
                 PROVE  Normal[fromWorker'[j].basis[p]] = page'.models[p].text
      BY <1>5 DEF NotedText
    <3>1. PICK i \in DOMAIN fromWorker : fromWorker'[j] = fromWorker[i]
      BY <1>3, <1>4
    <3> QED
      BY <1>2, <3>1 DEF NotedText
  <2> QED
    BY <1>2, <2>1, <2>2 DEF IsNoted
<1> QED
  BY <1>6, <1>7, <1>8, <1>9, <1>10 DEF Inv

(* The worker comes up.                                                        *)
LEMMA BootKeepsInv ==
  ASSUME Inv, Boot
  PROVE  Inv'
<1>1. TypeOK /\ PageInv /\ RequestInv /\ WorkerInv /\ ServerInv /\ RenameInv
  BY DEF Inv
<1>2. /\ page' = page /\ active' = active /\ host' = host /\ client' = client /\ failed' = failed
      /\ pending' = pending /\ nextId' = nextId /\ gestures' = gestures
      /\ toWorker' = toWorker /\ fromWorker' = fromWorker
      /\ worker.state = "loading" /\ worker' = [worker EXCEPT !.state = "ready"]
  BY DEF Boot, WorkerOnly
<1>3. fromWorker = << >> /\ ~host /\ ~failed
  BY <1>1, <1>2 DEF WorkerInv
<1>4. /\ worker' \in [state : {"loading", "ready", "dead"}, docs : Trees]
      /\ worker'.state = "ready" /\ worker'.docs = worker.docs
  BY <1>1, <1>2 DEF TypeOK
<1>5. TypeOK'
  <2>1. page' \in Pages /\ page'.files \in Workspaces /\ page'.outgoing = << >>
        /\ active' \in Present(page'.files) /\ gestures' \in Nat
    BY <1>1, <1>2 DEF TypeOK
  <2>2. client' \in {"booting", "attached", "detached"} /\ host' \in BOOLEAN
        /\ (host' => client' = "attached") /\ failed' \in BOOLEAN
    BY <1>1, <1>2 DEF TypeOK
  <2>3. (failed' => pending' = {}) /\ pending' \subseteq Waiting /\ nextId' \in Nat
        /\ \A r \in pending' : r.id < nextId'
    BY <1>1, <1>2 DEF TypeOK
  <2>4. toWorker' \in Seq(Documents \cup Requests)
        /\ fromWorker' \in Seq(Publishes \cup Responses \cup Failures)
    BY <1>1, <1>2 DEF TypeOK
  <2> QED
    BY <1>4, <2>1, <2>2, <2>3, <2>4 DEF TypeOK
<1>6. PageInv'
  BY <1>1, <1>2, PageStays
<1>7. RequestInv'
  BY <1>1, <1>2 DEF RequestInv, IsInitialize
<1>8. WorkerInv' /\ MarkersInv'
  BY <1>2, <1>3, <1>4 DEF WorkerInv, MarkersInv
<1>9. ServerInv'
  BY <1>1, <1>2, <1>4 DEF ServerInv
<1>10. RenameInv'
  <2>1. \A r, p : NotedText(r, p) <=> NotedText(r, p)'
    BY <1>2, <1>4 DEF NotedText
  <2> QED
    BY <1>1, <1>2, <2>1 DEF RenameInv, IsNoted, IsInitialize
<1> QED
  BY <1>5, <1>6, <1>7, <1>8, <1>9, <1>10 DEF Inv

LEMMA BootFailsKeepsInv ==
  ASSUME Inv, BootFails
  PROVE  Inv'
BY FailsKeepsInv DEF BootFails

LEMMA CrashKeepsInv ==
  ASSUME Inv, Crash
  PROVE  Inv'
BY FailsKeepsInv DEF Crash

-------------------------------------------------------------------------------
(* Markers.                                                                    *)
LEMMA HandlePublishKeepsInv ==
  ASSUME Inv, HandlePublish
  PROVE  Inv'
<1> DEFINE m == Head(fromWorker)
<1>1. TypeOK /\ PageInv /\ RequestInv /\ WorkerInv /\ ServerInv /\ MarkersInv /\ RenameInv
  BY DEF Inv
<1>2. /\ fromWorker # << >> /\ m.kind = "publish" /\ fromWorker' = Tail(fromWorker)
      /\ page' = IF page.models[m.path] = None THEN page
                 ELSE [page EXCEPT !.models[m.path].markers = m.of]
      /\ active' = active /\ host' = host /\ client' = client /\ failed' = failed
      /\ pending' = pending /\ nextId' = nextId /\ gestures' = gestures
      /\ toWorker' = toWorker /\ worker' = worker
  BY DEF HandlePublish
<1>3. /\ fromWorker' \in Seq(Replies)
      /\ m \in Replies
      /\ \A j \in DOMAIN fromWorker' : \E i \in DOMAIN fromWorker : fromWorker'[j] = fromWorker[i]
      /\ \A i \in DOMAIN fromWorker : fromWorker[i] # m =>
           \E j \in DOMAIN fromWorker' : fromWorker'[j] = fromWorker[i]
  BY <1>1, <1>2, TailReplies
<1>4. m \in Publishes /\ m \notin Failures /\ m.path \in Paths /\ m.of \in Trees \cup {None}
  <2>1. m \in Publishes
    BY <1>2, <1>3, ReplyKinds
  <2> QED
    BY <2>1 DEF Publishes, Failures
<1>5. page \in Pages /\ page.outgoing = << >> /\ page.models \in [Paths -> Models \cup {None}]
  <2>1. page \in Pages /\ page.outgoing = << >>
    BY <1>1 DEF TypeOK
  <2> QED
    BY <2>1, PageFields
<1> HIDE DEF m
<1>6. /\ page'.files = page.files /\ page'.previous = page.previous
      /\ page'.created = page.created /\ page'.outgoing = page.outgoing
      /\ page' \in Pages
      /\ \A p \in Paths :
           /\ page'.models[p] = None <=> page.models[p] = None
           /\ page.models[p] # None =>
                /\ page'.models[p].text = page.models[p].text
                /\ page'.models[p].version = page.models[p].version
                /\ page'.models[p].object = page.models[p].object
                /\ page'.models[p].markers = IF p = m.path THEN m.of ELSE page.models[p].markers
  <2>1. CASE page.models[m.path] = None
    BY <1>2, <1>5, <2>1
  <2>2. CASE page.models[m.path] # None
    <3> DEFINE old == page.models[m.path]
               new == [old EXCEPT !.markers = m.of]
    <3>1. old \in Models
      BY <1>4, <1>5, <2>2
    <3>2. new \in Models /\ new.text = old.text /\ new.version = old.version /\ new.object = old.object
          /\ new.markers = m.of
      BY <1>4, <3>1 DEF Models
    <3>3. new # None
      BY <3>2, ModelFields
    <3> DEFINE models == [page.models EXCEPT ![m.path] = new]
    <3>4. page' = [page EXCEPT !.models = models]
      BY <1>2, <1>5, <2>2 DEF Pages
    <3> HIDE DEF new
    <3>5. models \in [Paths -> Models \cup {None}]
          /\ \A p \in Paths : models[p] = IF p = m.path THEN new ELSE page.models[p]
      BY <1>4, <1>5, <3>2
    <3> HIDE DEF models
    <3>6. /\ page' \in Pages /\ page'.models = models /\ page'.files = page.files
          /\ page'.previous = page.previous /\ page'.created = page.created
          /\ page'.outgoing = page.outgoing
      BY <1>5, <3>4, <3>5 DEF Pages
    <3> QED
      BY <2>2, <3>2, <3>3, <3>5, <3>6
  <2> QED
    BY <2>1, <2>2
<1>7. TypeOK'
  <2>1. page' \in Pages /\ page'.files \in Workspaces /\ page'.outgoing = << >>
        /\ active' \in Present(page'.files) /\ gestures' \in Nat
    BY <1>1, <1>2, <1>6 DEF TypeOK
  <2>2. client' \in {"booting", "attached", "detached"} /\ host' \in BOOLEAN
        /\ (host' => client' = "attached") /\ failed' \in BOOLEAN
    BY <1>1, <1>2 DEF TypeOK
  <2>3. (failed' => pending' = {}) /\ pending' \subseteq Waiting /\ nextId' \in Nat
        /\ \A r \in pending' : r.id < nextId'
    BY <1>1, <1>2 DEF TypeOK
  <2>4. toWorker' \in Seq(Documents \cup Requests)
        /\ worker' \in [state : {"loading", "ready", "dead"}, docs : Trees]
    BY <1>1, <1>2 DEF TypeOK
  <2> QED
    BY <1>3, <2>1, <2>2, <2>3, <2>4 DEF TypeOK, Replies
<1>8. PageInv'
  <2>1. Numbered(page')
    BY <1>1, <1>6 DEF PageInv, Numbered
  <2>2. host' => Mirrors(page') /\ page'.previous = page'.files
    BY <1>1, <1>2, <1>6 DEF PageInv, Mirrors
  <2>3. ~host' => page'.previous = [p \in Paths |-> None]
    BY <1>1, <1>2, <1>6 DEF PageInv
  <2> QED
    BY <2>1, <2>2, <2>3 DEF PageInv
<1>9. RequestInv'
  <2>1. \A r \in pending' : IF IsInitialize(r) THEN client' = "booting" /\ r.id = 1 ELSE host'
    BY <1>1, <1>2 DEF RequestInv
  <2>2. \A i \in DOMAIN fromWorker' : fromWorker'[i] \in Responses => fromWorker'[i].id < nextId'
    BY <1>1, <1>2, <1>3 DEF RequestInv
  <2>3. \A i \in DOMAIN toWorker' : toWorker'[i] \in Requests => toWorker'[i].id < nextId'
    BY <1>1, <1>2 DEF RequestInv
  <2> QED
    BY <2>1, <2>2, <2>3 DEF RequestInv, IsInitialize
<1>10. WorkerInv'
  <2>1. worker.state # "loading"
    BY <1>1, <1>2 DEF WorkerInv
  <2>2. failed \/ (\E i \in DOMAIN fromWorker' : fromWorker'[i] \in Failures) => worker.state = "dead"
    BY <1>1, <1>3 DEF WorkerInv
  <2>3. worker.state = "dead" /\ ~failed /\ client # "detached" =>
          \E i \in DOMAIN fromWorker' : fromWorker'[i] \in Failures
    BY <1>1, <1>3, <1>4 DEF WorkerInv
  <2> QED
    BY <1>2, <2>1, <2>2, <2>3 DEF WorkerInv
<1>11. ServerInv'
  BY <1>1, <1>2, <1>6 DEF ServerInv
<1>12. MarkersInv'
  <2> SUFFICES ASSUME worker'.state = "ready", host', \A i \in DOMAIN toWorker' : toWorker'[i] \notin Documents,
                      NEW p \in Present(page'.files)
               PROVE  IsShown(fromWorker', page'.models[p].markers, worker'.docs, p)
    BY DEF MarkersInv
  <2>1. p \in Paths /\ p \in Present(page.files)
    BY <1>6 DEF Present
  <2>2. IsShown(fromWorker, page.models[p].markers, worker.docs, p)
    BY <1>1, <1>2, <2>1 DEF MarkersInv
  <2>3. page.models[p] # None
    BY <1>1, <1>2, <2>1 DEF PageInv, Mirrors, Present
  <2>4. fromWorker \in Seq(Replies)
    BY <1>1, Types
  <2>5. CASE p = m.path
    <3>1. IsShown(Tail(fromWorker), m.of, worker.docs, p)
      BY <1>2, <1>4, <2>2, <2>4, <2>5, ShownPublished DEF m
    <3> QED
      BY <1>2, <1>6, <2>1, <2>3, <2>5, <3>1
  <2>6. CASE p # m.path
    <3>1. IsShown(Tail(fromWorker), page.models[p].markers, worker.docs, p)
      BY <1>2, <1>4, <2>2, <2>4, <2>6, ShownWithout DEF m
    <3> QED
      BY <1>2, <1>6, <2>1, <2>3, <2>6, <3>1
  <2> QED
    BY <2>5, <2>6
<1>13. RenameInv'
  <2> SUFFICES ASSUME NEW r \in pending', NEW p \in Paths, ~IsInitialize(r), r.versions[p] # None
               PROVE  /\ r.versions[p].object < page'.created
                      /\ IsNoted(r, p)' =>
                           /\ r.versions[p].version <= page'.models[p].version
                           /\ r.versions[p].version = page'.models[p].version => NotedText(r, p)'
    BY DEF RenameInv, IsInitialize
  <2>1. /\ r.versions[p].object < page.created
        /\ IsNoted(r, p) =>
             /\ r.versions[p].version <= page.models[p].version
             /\ r.versions[p].version = page.models[p].version => NotedText(r, p)
    BY <1>1, <1>2 DEF RenameInv
  <2>2. ASSUME IsNoted(r, p)' PROVE IsNoted(r, p)
    BY <1>6, <2>2 DEF IsNoted
  <2>3. ASSUME page.models[p] # None, NotedText(r, p) PROVE NotedText(r, p)'
    <3>1. page'.models[p].text = page.models[p].text
      BY <1>6, <2>3
    <3> QED
      BY <1>2, <1>3, <2>3, <3>1 DEF NotedText
  <2> QED
    BY <1>6, <2>1, <2>2, <2>3 DEF IsNoted
<1> QED
  BY <1>7, <1>8, <1>9, <1>10, <1>11, <1>12, <1>13 DEF Inv

-------------------------------------------------------------------------------
(* The server handles a message and replies: to a request with an answer for   *)
(* the documents it has.                                                       *)
Serves(more) ==
    /\ worker.state = "ready" /\ toWorker # << >> /\ toWorker' = Tail(toWorker)
    /\ worker' = [worker EXCEPT !.docs = Handled(worker.docs, Head(toWorker))]
    /\ fromWorker' = fromWorker \o more
    /\ more \in Seq(Publishes \cup Responses)
    /\ \A k \in DOMAIN more : more[k] \in Responses =>
           Head(toWorker) \in Requests /\ more[k].id = Head(toWorker).id /\ more[k].basis = worker.docs

LEMMA ServesParts ==
  ASSUME Inv, NEW more, Serves(more)
  PROVE  /\ toWorker' \in Seq(Sent)
         /\ \A i \in DOMAIN toWorker' :
              /\ i + 1 \in DOMAIN toWorker /\ toWorker'[i] = toWorker[i + 1]
              /\ After(worker'.docs, toWorker')[i - 1] = After(worker.docs, toWorker)[i]
         /\ 1 \in DOMAIN toWorker /\ Head(toWorker) = toWorker[1] /\ Head(toWorker) \in Sent
         /\ After(worker.docs, toWorker)[0] = worker.docs
         /\ \A i \in DOMAIN toWorker : i = 1 \/ \E j \in DOMAIN toWorker' : i = j + 1
         /\ worker'.docs = Handled(worker.docs, Head(toWorker)) /\ worker'.docs \in Trees
         /\ worker'.state = "ready" /\ worker' \in [state : {"loading", "ready", "dead"}, docs : Trees]
<1> DEFINE s == toWorker
           t == toWorker'
           n == Len(s)
           docs == worker.docs
           x == Handled(docs, Head(s))
<1>1. TypeOK
  BY DEF Inv
<1>2. s \in Seq(Sent) /\ DOMAIN s = 1 .. n /\ docs \in Trees /\ worker = [state |-> worker.state, docs |-> docs]
  BY <1>1, Types
<1>3. s # << >> /\ t = Tail(s) /\ worker.state = "ready" /\ worker' = [worker EXCEPT !.docs = x]
  BY DEF Serves
<1>4. /\ n \in Nat \ {0} /\ t \in Seq(Sent) /\ Len(t) = n - 1 /\ Head(s) = s[1] /\ s[1] \in Sent
      /\ \A i \in 1 .. n - 1 : t[i] = s[i + 1]
      /\ \A k \in 1 .. n : k = 1 \/ \E i \in 1 .. n - 1 : k = i + 1
  BY <1>2, <1>3, TailParts
<1>5. x \in Trees
  BY <1>2, <1>4, HandledType
<1>6. worker' = [state |-> "ready", docs |-> x]
  BY <1>2, <1>3
<1>7. \A i \in 0 .. n - 1 : After(x, t)[i] = After(docs, s)[i + 1]
  <2> HIDE DEF docs
  <2> QED
    BY <1>2, <1>3, AfterTail
<1>8. After(docs, s)[0] = docs
  BY <1>2, AfterIs
<1> HIDE DEF n, t, s, x, docs
<1>9. DOMAIN t = 1 .. n - 1
  <2>1. DOMAIN t = 1 .. Len(t)
    BY <1>4, LenProperties
  <2> QED
    BY <1>4, <2>1
<1>10. ASSUME NEW i \in DOMAIN t
       PROVE  i + 1 \in DOMAIN s /\ t[i] = s[i + 1] /\ After(x, t)[i - 1] = After(docs, s)[i]
  <2>1. i \in 1 .. n - 1 /\ i + 1 \in 1 .. n /\ i - 1 \in 0 .. n - 1 /\ (i - 1) + 1 = i
    BY <1>4, <1>9
  <2>2. After(x, t)[i - 1] = After(docs, s)[(i - 1) + 1]
    BY <1>7, <2>1
  <2> QED
    BY <1>2, <1>4, <2>1, <2>2
<1>11. 1 \in DOMAIN s /\ \A i \in DOMAIN s : i = 1 \/ \E j \in DOMAIN t : i = j + 1
  BY <1>2, <1>4, <1>9
<1> QED
  BY <1>4, <1>5, <1>6, <1>8, <1>10, <1>11 DEF s, t, x, docs

(* What the page then has to handle.                                           *)
LEMMA ServesReplies ==
  ASSUME Inv, NEW more, Serves(more)
  PROVE  /\ fromWorker' \in Seq(Replies) /\ more \in Seq(Replies)
         /\ \A j \in DOMAIN fromWorker' :
              \/ \E i \in DOMAIN fromWorker : fromWorker'[j] = fromWorker[i]
              \/ \E k \in DOMAIN more : fromWorker'[j] = more[k]
         /\ \A k \in DOMAIN more : more[k] \notin Failures
<1> DEFINE q == fromWorker
           t == fromWorker'
           m == Len(q)
           n == Len(more)
<1>1. q \in Seq(Replies) /\ DOMAIN q = 1 .. m
  BY Types DEF Inv
<1>2. t = q \o more /\ more \in Seq(Publishes \cup Responses)
  BY DEF Serves
<1>3. DOMAIN more = 1 .. n /\ n \in Nat /\ \A k \in 1 .. n : more[k] \in Publishes \cup Responses
  BY <1>2, LenProperties, ElementOfSeq
<1>4. more \in Seq(Replies)
  BY <1>2 DEF Replies
<1>5. /\ m \in Nat /\ t \in Seq(Replies) /\ Len(t) = m + n
      /\ \A i \in 1 .. m : t[i] = q[i]
      /\ \A j \in 1 .. n : t[m + j] = more[j]
      /\ \A k \in 1 .. m + n : k \in 1 .. m \/ \E j \in 1 .. n : k = m + j
  BY <1>1, <1>2, <1>4, ConcatParts
<1>6. \A k \in DOMAIN more : more[k] \notin Failures
  BY <1>3 DEF Failures, Publishes, Responses
<1> HIDE DEF m, n, t, q
<1>7. DOMAIN t = 1 .. m + n
  <2>1. DOMAIN t = 1 .. Len(t)
    BY <1>5, LenProperties
  <2> QED
    BY <1>5, <2>1
<1>8. ASSUME NEW j \in DOMAIN t
      PROVE  (\E i \in DOMAIN q : t[j] = q[i]) \/ (\E k \in DOMAIN more : t[j] = more[k])
  <2>1. j \in 1 .. m \/ \E k \in 1 .. n : j = m + k
    BY <1>5, <1>7
  <2>2. CASE j \in 1 .. m
    BY <1>1, <1>5, <2>2
  <2>3. CASE \E k \in 1 .. n : j = m + k
    <3>1. PICK k \in 1 .. n : j = m + k
      BY <2>3
    <3>2. t[m + k] = more[k]
      BY <1>5
    <3> QED
      BY <1>3, <3>1, <3>2
  <2> QED
    BY <2>1, <2>2, <2>3
<1> QED
  BY <1>4, <1>5, <1>6, <1>8 DEF q, t

LEMMA ServesKeepsInv ==
  ASSUME Inv, NEW more, Serves(more), WorkerOnly, MarkersInv'
  PROVE  Inv'
<1>1. TypeOK /\ PageInv /\ RequestInv /\ WorkerInv /\ ServerInv /\ RenameInv
  BY DEF Inv
<1>2. /\ page' = page /\ active' = active /\ host' = host /\ client' = client /\ failed' = failed
      /\ pending' = pending /\ nextId' = nextId /\ gestures' = gestures
  BY DEF WorkerOnly
<1>3. /\ toWorker' \in Seq(Sent)
      /\ \A i \in DOMAIN toWorker' :
           /\ i + 1 \in DOMAIN toWorker /\ toWorker'[i] = toWorker[i + 1]
           /\ After(worker'.docs, toWorker')[i - 1] = After(worker.docs, toWorker)[i]
      /\ 1 \in DOMAIN toWorker /\ Head(toWorker) = toWorker[1]
      /\ After(worker.docs, toWorker)[0] = worker.docs
      /\ worker'.docs = Handled(worker.docs, Head(toWorker))
      /\ worker'.state = "ready" /\ worker' \in [state : {"loading", "ready", "dead"}, docs : Trees]
  BY ServesParts
<1>4. /\ fromWorker' \in Seq(Replies)
      /\ \A j \in DOMAIN fromWorker' :
           \/ \E i \in DOMAIN fromWorker : fromWorker'[j] = fromWorker[i]
           \/ \E k \in DOMAIN more : fromWorker'[j] = more[k]
      /\ \A k \in DOMAIN more : more[k] \notin Failures
  BY ServesReplies
<1>5. /\ worker.state = "ready" /\ toWorker # << >> /\ toWorker' = Tail(toWorker)
      /\ \A k \in DOMAIN more : more[k] \in Responses =>
           Head(toWorker) \in Requests /\ more[k].id = Head(toWorker).id /\ more[k].basis = worker.docs
  BY DEF Serves
<1>6. TypeOK'
  <2>1. page' \in Pages /\ page'.files \in Workspaces /\ page'.outgoing = << >>
        /\ active' \in Present(page'.files) /\ gestures' \in Nat
    BY <1>1, <1>2 DEF TypeOK
  <2>2. client' \in {"booting", "attached", "detached"} /\ host' \in BOOLEAN
        /\ (host' => client' = "attached") /\ failed' \in BOOLEAN
    BY <1>1, <1>2 DEF TypeOK
  <2>3. (failed' => pending' = {}) /\ pending' \subseteq Waiting /\ nextId' \in Nat
        /\ \A r \in pending' : r.id < nextId'
    BY <1>1, <1>2 DEF TypeOK
  <2> QED
    BY <1>3, <1>4, <2>1, <2>2, <2>3 DEF TypeOK, Replies, Sent
<1>7. PageInv'
  BY <1>1, <1>2, PageStays
<1>8. RequestInv'
  <2>1. \A r \in pending' : IF IsInitialize(r) THEN client' = "booting" /\ r.id = 1 ELSE host'
    BY <1>1, <1>2 DEF RequestInv
  <2>2. ASSUME NEW j \in DOMAIN fromWorker', fromWorker'[j] \in Responses
        PROVE  fromWorker'[j].id < nextId'
    <3>1. CASE \E i \in DOMAIN fromWorker : fromWorker'[j] = fromWorker[i]
      BY <1>1, <1>2, <2>2, <3>1 DEF RequestInv
    <3>2. CASE \E k \in DOMAIN more : fromWorker'[j] = more[k]
      <4>1. Head(toWorker) \in Requests /\ fromWorker'[j].id = Head(toWorker).id
        BY <1>5, <2>2, <3>2
      <4> QED
        BY <1>1, <1>2, <1>3, <4>1 DEF RequestInv
    <3> QED
      BY <1>4, <3>1, <3>2
  <2>3. \A i \in DOMAIN toWorker' : toWorker'[i] \in Requests => toWorker'[i].id < nextId'
    BY <1>1, <1>2, <1>3 DEF RequestInv
  <2> QED
    BY <2>1, <2>2, <2>3 DEF RequestInv, IsInitialize
<1>9. WorkerInv'
  <2>1. ~failed /\ \A i \in DOMAIN fromWorker : fromWorker[i] \notin Failures
    BY <1>1, <1>5 DEF WorkerInv
  <2>2. \A j \in DOMAIN fromWorker' : fromWorker'[j] \notin Failures
    BY <1>4, <2>1
  <2> QED
    BY <1>2, <1>3, <2>1, <2>2 DEF WorkerInv
<1>10. ServerInv'
  <2>1. toWorker \in Seq(Sent) /\ worker.docs \in Trees
    BY <1>1, Types
  <2>2. Tells(worker.docs, toWorker, page.previous)
    BY <1>1, <1>5 DEF ServerInv
  <2>3. Tells(Handled(worker.docs, Head(toWorker)), Tail(toWorker), page.previous)
    BY <1>5, <2>1, <2>2, TellsTail
  <2> QED
    BY <1>2, <1>3, <1>5, <2>3 DEF ServerInv
<1>11. RenameInv'
  <2> SUFFICES ASSUME NEW r \in pending', NEW p \in Paths, ~IsInitialize(r), r.versions[p] # None
               PROVE  /\ r.versions[p].object < page'.created
                      /\ IsNoted(r, p)' =>
                           /\ r.versions[p].version <= page'.models[p].version
                           /\ r.versions[p].version = page'.models[p].version => NotedText(r, p)'
    BY DEF RenameInv, IsInitialize
  <2>1. /\ r.versions[p].object < page.created
        /\ IsNoted(r, p) =>
             /\ r.versions[p].version <= page.models[p].version
             /\ r.versions[p].version = page.models[p].version => NotedText(r, p)
    BY <1>1, <1>2 DEF RenameInv
  <2>2. ASSUME NotedText(r, p) PROVE NotedText(r, p)'
    <3>1. \A i \in DOMAIN toWorker : toWorker[i] \in Requests /\ toWorker[i].id = r.id =>
               Normal[After(worker.docs, toWorker)[i - 1][p]] = page.models[p].text
      BY <1>5, <2>2 DEF NotedText
    <3>2. ASSUME NEW i \in DOMAIN toWorker', toWorker'[i] \in Requests, toWorker'[i].id = r.id
          PROVE  Normal[After(worker'.docs, toWorker')[i - 1][p]] = page'.models[p].text
      <4>1. i + 1 \in DOMAIN toWorker /\ toWorker'[i] = toWorker[i + 1]
            /\ After(worker'.docs, toWorker')[i - 1] = After(worker.docs, toWorker)[i]
        BY <1>3
      <4>2. Normal[After(worker.docs, toWorker)[(i + 1) - 1][p]] = page.models[p].text
        BY <3>1, <3>2, <4>1
      <4>3. i \in Nat /\ (i + 1) - 1 = i
        <5>1. DOMAIN toWorker' = 1 .. Len(toWorker')
          BY <1>3, LenProperties
        <5> QED
          BY <5>1
      <4> QED
        BY <1>2, <4>1, <4>2, <4>3
    <3>3. ASSUME NEW j \in DOMAIN fromWorker', fromWorker'[j] \in Responses, fromWorker'[j].id = r.id
          PROVE  Normal[fromWorker'[j].basis[p]] = page'.models[p].text
      <4>1. CASE \E i \in DOMAIN fromWorker : fromWorker'[j] = fromWorker[i]
        <5>1. PICK i \in DOMAIN fromWorker : fromWorker'[j] = fromWorker[i]
          BY <4>1
        <5> QED
          BY <1>2, <2>2, <3>3, <5>1 DEF NotedText
      <4>2. CASE \E k \in DOMAIN more : fromWorker'[j] = more[k]
        <5>1. /\ Head(toWorker) \in Requests /\ fromWorker'[j].id = Head(toWorker).id
              /\ fromWorker'[j].basis = worker.docs
          BY <1>5, <3>3, <4>2
        <5>2. toWorker[1] \in Requests /\ toWorker[1].id = r.id
          BY <1>3, <3>3, <5>1
        <5>3. Normal[After(worker.docs, toWorker)[1 - 1][p]] = page.models[p].text
          BY <1>3, <3>1, <5>2
        <5> QED
          BY <1>2, <1>3, <5>1, <5>3
      <4> QED
        BY <1>4, <4>1, <4>2
    <3> QED
      BY <3>2, <3>3 DEF NotedText
  <2> QED
    BY <1>2, <2>1, <2>2 DEF IsNoted
<1> QED
  BY <1>6, <1>7, <1>8, <1>9, <1>10, <1>11 DEF Inv

(* After a notification every document it leaves open has diagnostics, once.   *)
LEMMA PublishedOnce ==
  ASSUME NEW docs \in Trees, NEW m \in Documents, docs[m.path] = m.text,
         NEW more, more = PublishOpenDocumentDiagnostics(docs, m)
  PROVE  /\ more \in Seq(Publishes)
         /\ \A p \in Present(docs) :
              \E i \in 1 .. Len(more) :
                /\ more[i] \in Publishes /\ more[i].path = p /\ more[i].of = docs
                /\ \A k \in 1 .. Len(more) : k # i => more[k].path # p
<1> DEFINE open == UriOrder[Present(docs)]
           n == Len(open)
           all == [i \in 1 .. n |-> [kind |-> "publish", path |-> open[i], of |-> docs]]
           first == [kind |-> "publish", path |-> m.path, of |-> None]
<1>1. /\ open \in Seq(Paths) /\ IsInjective(open) /\ Range(open) = Present(docs)
  <2>1. Present(docs) \in SUBSET Paths
    BY DEF Present
  <2> QED
    BY <2>1, OrdersAssumption
<1>2. n \in Nat /\ DOMAIN open = 1 .. n
  BY <1>1, LenProperties
<1>3. \A p \in Present(docs) : \E i \in 1 .. n : open[i] = p
  BY <1>1, <1>2 DEF Range
<1>4. \A i, k \in 1 .. n : open[i] = open[k] => i = k
  BY <1>1, <1>2 DEF IsInjective
<1>5. \A i \in 1 .. n : open[i] \in Paths
  BY <1>1, <1>2
<1>6. more = IF m.kind = "close" THEN << first >> \o all ELSE all
  BY <1>2 DEF PublishOpenDocumentDiagnostics
<1>7. m.path \in Paths /\ (m.kind = "close" => m.text = None)
  BY DEF Documents
<1>8. first \in Publishes
  BY <1>7 DEF Publishes
<1> HIDE DEF n, open
<1>9. \A i \in 1 .. n : all[i] \in Publishes /\ all[i].path = open[i] /\ all[i].of = docs
  BY <1>5 DEF Publishes
<1>10. all \in Seq(Publishes) /\ Len(all) = n
  <2>1. all \in [1 .. n -> Publishes]
    BY <1>9
  <2> HIDE DEF all
  <2> QED
    BY <1>2, <2>1
<1> HIDE DEF all
<1>11. ASSUME NEW p \in Present(docs)
       PROVE  \E i \in 1 .. n :
                /\ all[i] \in Publishes /\ all[i].path = p /\ all[i].of = docs
                /\ \A k \in 1 .. n : k # i => all[k].path # p
  <2>1. PICK i \in 1 .. n : open[i] = p
    BY <1>3
  <2>2. \A k \in 1 .. n : k # i => all[k].path # p
    BY <1>4, <1>9, <2>1
  <2> QED
    BY <1>9, <2>1, <2>2
<1>12. CASE m.kind # "close"
  BY <1>6, <1>10, <1>11, <1>12
<1>13. CASE m.kind = "close"
  <2>1. more = << first >> \o all
    BY <1>6, <1>13
  <2>2. << first >> \in Seq(Publishes) /\ Len(<< first >>) = 1 /\ << first >>[1] = first
    BY <1>8
  <2> HIDE DEF first
  <2> DEFINE s == << first >>
  <2>3. s \in Seq(Publishes) /\ Len(s) = 1 /\ s[1] = first /\ more = s \o all
    BY <2>1, <2>2
  <2> HIDE DEF s
  <2>4. /\ more \in Seq(Publishes) /\ Len(more) = 1 + n
        /\ \A i \in 1 .. 1 : more[i] = s[i]
        /\ \A j \in 1 .. n : more[1 + j] = all[j]
        /\ \A k \in 1 .. 1 + n : k \in 1 .. 1 \/ \E j \in 1 .. n : k = 1 + j
    <3>0. s \in Seq(Publishes) /\ all \in Seq(Publishes)
      BY <1>10, <2>3
    <3>1. /\ s \o all \in Seq(Publishes) /\ Len(s \o all) = Len(s) + Len(all)
          /\ \A i \in 1 .. Len(s) : (s \o all)[i] = s[i]
          /\ \A j \in 1 .. Len(all) : (s \o all)[Len(s) + j] = all[j]
          /\ \A k \in 1 .. Len(s) + Len(all) :
               k \in 1 .. Len(s) \/ \E j \in 1 .. Len(all) : k = Len(s) + j
      BY <3>0, ConcatParts
    <3> QED
      BY <1>10, <2>3, <3>1
  <2>5. more[1] = first
    <3>1. 1 \in 1 .. 1
      OBVIOUS
    <3> QED
      BY <2>3, <2>4, <3>1
  <2>6. ASSUME NEW p \in Present(docs)
        PROVE  \E i \in 1 .. 1 + n :
                 /\ more[i] \in Publishes /\ more[i].path = p /\ more[i].of = docs
                 /\ \A k \in 1 .. 1 + n : k # i => more[k].path # p
    <3>1. PICK i \in 1 .. n :
            /\ all[i] \in Publishes /\ all[i].path = p /\ all[i].of = docs
            /\ \A k \in 1 .. n : k # i => all[k].path # p
      BY <1>11
    <3>2. more[1 + i] = all[i] /\ 1 + i \in 1 .. 1 + n
      BY <1>2, <2>4
    <3>3. first.path # p
      BY <1>7, <1>13 DEF first, Present
    <3>4. ASSUME NEW k \in 1 .. 1 + n, k # 1 + i PROVE more[k].path # p
      <4>1. CASE k = 1
        BY <2>5, <3>3, <4>1
      <4>2. CASE k # 1
        <5>1. PICK j \in 1 .. n : k = 1 + j
          BY <2>4, <4>2
        <5>2. j # i /\ more[k] = all[j]
          BY <2>4, <3>4, <5>1
        <5> QED
          BY <3>1, <5>2
      <4> QED
        BY <4>1, <4>2
    <3> QED
      BY <3>1, <3>2, <3>4
  <2> QED
    BY <2>4, <2>6
<1> QED
  BY <1>12, <1>13

LEMMA HandleDocumentKeepsInv ==
  ASSUME Inv, HandleDocument
  PROVE  Inv'
<1> DEFINE m == Head(toWorker)
           docs == Handled(worker.docs, m)
           more == PublishOpenDocumentDiagnostics(docs, m)
<1>1. TypeOK /\ PageInv /\ ServerInv
  BY DEF Inv
<1>2. /\ worker.state = "ready" /\ toWorker # << >> /\ m \in Documents
      /\ worker' = [worker EXCEPT !.docs = docs]
      /\ fromWorker' = fromWorker \o more
      /\ toWorker' = Tail(toWorker)
  BY DEF HandleDocument
<1>3. toWorker \in Seq(Sent) /\ worker.docs \in Trees
  BY <1>1, Types
<1>4. m \in Sent /\ docs \in Trees
  BY <1>2, <1>3, HandledType DEF Sent
<1>5. docs[m.path] = m.text
  <2>1. m.path \in Paths
    BY <1>2 DEF Documents
  <2>2. docs = [worker.docs EXCEPT ![m.path] = m.text]
    BY <1>2 DEF Handled
  <2> HIDE DEF m, docs
  <2> QED
    BY <1>3, <2>1, <2>2 DEF Trees
<1> HIDE DEF docs, m
<1>6. /\ more \in Seq(Publishes)
      /\ \A p \in Present(docs) :
           \E i \in 1 .. Len(more) :
             /\ more[i] \in Publishes /\ more[i].path = p /\ more[i].of = docs
             /\ \A k \in 1 .. Len(more) : k # i => more[k].path # p
  BY <1>2, <1>4, <1>5, PublishedOnce
<1> HIDE DEF more
<1>7. Serves(more)
  <2>1. more \in Seq(Publishes \cup Responses)
    BY <1>6
  <2>2. \A k \in DOMAIN more : more[k] \notin Responses
    <3>1. \A k \in DOMAIN more : more[k] \in Publishes
      BY <1>6, LenProperties, ElementOfSeq
    <3> QED
      BY <3>1 DEF Publishes, Responses
  <2> QED
    BY <1>2, <2>1, <2>2 DEF Serves, docs, m
<1>8. WorkerOnly
  BY DEF HandleDocument
<1>9. MarkersInv'
  <2> SUFFICES ASSUME host', \A i \in DOMAIN toWorker' : toWorker'[i] \notin Documents,
                      NEW p \in Present(page'.files)
               PROVE  IsShown(fromWorker', page'.models[p].markers, worker'.docs, p)
    BY DEF MarkersInv
  <2>1. page' = page /\ host
    BY <1>8 DEF WorkerOnly
  <2>2. Tells(worker.docs, toWorker, page.previous)
    BY <1>1, <1>2 DEF ServerInv
  <2>3. Tells(docs, toWorker', page.previous)
    BY <1>2, <1>3, <2>2, TellsTail DEF docs, m
  <2>4. toWorker' \in Seq(Sent) /\ worker'.docs = docs
    BY <1>7, ServesParts DEF docs, m
  <2>5. docs = page.files
    <3>1. docs = page.previous
      BY <1>4, <2>3, <2>4, TellsWithoutDocuments
    <3> QED
      BY <1>1, <2>1, <3>1 DEF PageInv
  <2>6. PICK i \in 1 .. Len(more) :
          /\ more[i] \in Publishes /\ more[i].path = p /\ more[i].of = docs
          /\ \A k \in 1 .. Len(more) : k # i => more[k].path # p
    BY <1>6, <2>1, <2>5
  <2>7. fromWorker \in Seq(Replies) /\ more \in Seq(Replies)
    BY <1>1, <1>6, Types DEF Replies
  <2>8. IsShown(fromWorker \o more, page'.models[p].markers, docs, p)
    BY <2>6, <2>7, ShownFresh
  <2> QED
    BY <1>2, <2>4, <2>8
<1> QED
  BY <1>7, <1>8, <1>9, ServesKeepsInv

LEMMA HandleRequestKeepsInv ==
  ASSUME Inv, NEW targets \in SUBSET Paths, HandleRequest(targets)
  PROVE  Inv'
<1> DEFINE m == Head(toWorker)
           reply == [kind |-> "response", id |-> m.id, targets |-> targets, basis |-> worker.docs]
           more == << reply >>
<1>1. TypeOK /\ MarkersInv
  BY DEF Inv
<1>2. /\ worker.state = "ready" /\ toWorker # << >> /\ m \in Requests
      /\ worker' = worker /\ fromWorker' = Append(fromWorker, reply)
      /\ toWorker' = Tail(toWorker) /\ WorkerOnly
  BY DEF HandleRequest
<1>3. /\ toWorker \in Seq(Sent) /\ worker.docs \in Trees /\ fromWorker \in Seq(Replies)
      /\ worker = [state |-> worker.state, docs |-> worker.docs]
  BY <1>1, Types
<1>4. m.id \in Nat /\ m \notin Documents
  BY <1>2, NoRequestIsDocument DEF Requests
<1>5. reply \in Responses /\ reply \notin Publishes /\ reply.id = m.id /\ reply.basis = worker.docs
  BY <1>3, <1>4 DEF Responses, Publishes
<1>6. worker' = [worker EXCEPT !.docs = Handled(worker.docs, m)]
  <2>1. Handled(worker.docs, m) = worker.docs
    BY <1>4 DEF Handled
  <2> HIDE DEF m
  <2> QED
    BY <1>2, <1>3, <2>1
<1> HIDE DEF reply
<1>7. fromWorker' = fromWorker \o more
  BY <1>2, <1>3, <1>5 DEF Replies
<1>8. Serves(more)
  <2>1. more \in Seq(Publishes \cup Responses) /\ DOMAIN more = {1} /\ more[1] = reply
    BY <1>5
  <2> HIDE DEF more
  <2> QED
    BY <1>2, <1>5, <1>6, <1>7, <2>1 DEF Serves
<1>9. MarkersInv'
  <2> SUFFICES ASSUME host', \A i \in DOMAIN toWorker' : toWorker'[i] \notin Documents,
                      NEW p \in Present(page'.files)
               PROVE  IsShown(fromWorker', page'.models[p].markers, worker'.docs, p)
    BY DEF MarkersInv
  <2>1. page' = page /\ host
    BY <1>2 DEF WorkerOnly
  <2>2. /\ Head(toWorker) = toWorker[1]
        /\ \A i \in DOMAIN toWorker' : toWorker'[i] = toWorker[i + 1]
        /\ \A i \in DOMAIN toWorker : i = 1 \/ \E j \in DOMAIN toWorker' : i = j + 1
    BY <1>8, ServesParts
  <2>3. \A i \in DOMAIN toWorker : toWorker[i] \notin Documents
    BY <1>4, <2>2
  <2>4. IsShown(fromWorker, page.models[p].markers, worker.docs, p)
    BY <1>1, <1>2, <2>1, <2>3 DEF MarkersInv
  <2>5. IsShown(Append(fromWorker, reply), page.models[p].markers, worker.docs, p)
    BY <1>3, <1>5, <2>4, ShownStill DEF Replies
  <2> QED
    BY <1>2, <2>1, <2>5
<1> HIDE DEF more
<1> QED
  BY <1>2, <1>8, <1>9, ServesKeepsInv

-------------------------------------------------------------------------------
(* A rename is requested for the versions that the models have.                *)
LEMMA RequestRenameKeepsInv ==
  ASSUME Inv, RequestRename
  PROVE  Inv'
<1> DEFINE versions == [p \in Paths |->
               IF page.models[p] = None THEN None
               ELSE [version |-> page.models[p].version, object |-> page.models[p].object]]
           new == [id |-> nextId, kind |-> "rename", versions |-> versions]
           m == [kind |-> "rename", id |-> nextId]
           s == toWorker
           n == Len(s)
           t == toWorker'
<1>1. TypeOK /\ PageInv /\ RequestInv /\ WorkerInv /\ ServerInv /\ MarkersInv /\ RenameInv
  BY DEF Inv
<1>2. /\ page' = page /\ active' = active /\ host' = host /\ client' = client /\ failed' = failed
      /\ fromWorker' = fromWorker /\ worker' = worker /\ gestures' = gestures + 1
      /\ host /\ ~failed /\ nextId' = nextId + 1
      /\ pending' = pending \cup {new} /\ t = Append(s, m)
  BY DEF RequestRename, Gesture
<1>3. /\ page \in Pages /\ page.models \in [Paths -> Models \cup {None}] /\ nextId \in Nat
      /\ pending \subseteq Waiting /\ (\A r \in pending : r.id < nextId /\ r.id \in Nat) /\ gestures \in Nat
  <2>1. page \in Pages /\ nextId \in Nat /\ gestures \in Nat
    BY <1>1 DEF TypeOK
  <2>2. pending \subseteq Waiting /\ \A r \in pending : r.id < nextId
    BY <1>1 DEF TypeOK
  <2>3. \A r \in Waiting : r.id \in Nat
    BY DEF Waiting
  <2> QED
    BY <2>1, <2>2, <2>3, PageFields
<1>4. versions \in [Paths -> Versions \cup {None}]
  <2> SUFFICES ASSUME NEW p \in Paths, page.models[p] # None
               PROVE  [version |-> page.models[p].version, object |-> page.models[p].object] \in Versions
    OBVIOUS
  <2>1. page.models[p] \in Models
    BY <1>3
  <2> QED
    BY <2>1, ModelFields DEF Versions
<1>5. \A p \in Paths : versions[p] # None =>
        /\ page.models[p] # None
        /\ versions[p].version = page.models[p].version /\ versions[p].object = page.models[p].object
  OBVIOUS
<1> HIDE DEF versions
<1>6. new \in Waiting /\ ~IsInitialize(new) /\ new.id = nextId /\ new.versions = versions
  BY <1>3, <1>4 DEF Waiting, IsInitialize
<1>7. m \in Requests /\ m \in Sent /\ m \notin Documents /\ m.id = nextId
  BY <1>3, NoRequestIsDocument DEF Requests, Sent
<1> HIDE DEF new, m
<1>8. s \in Seq(Sent) /\ DOMAIN s = 1 .. n /\ n \in Nat /\ worker.docs \in Trees
  BY <1>1, Types, LenProperties
<1> HIDE DEF s, n, t
<1>9. /\ t \in Seq(Sent) /\ Len(t) = n + 1 /\ t[n + 1] = m
      /\ \A i \in 1 .. n : t[i] = s[i]
  BY <1>2, <1>7, <1>8, AppendProperties DEF n
<1>10. DOMAIN t = 1 .. n + 1
  <2>1. DOMAIN t = 1 .. Len(t)
    BY <1>9, LenProperties
  <2> QED
    BY <1>9, <2>1
<1>11. \A i \in DOMAIN t : i = n + 1 \/ i \in DOMAIN s
  BY <1>8, <1>10
<1>12. t = s \o << m >> /\ << m >> \in Seq(Sent)
  BY <1>2, <1>7, <1>8
<1>13. \A i \in DOMAIN t : After(worker.docs, t)[i - 1] = After(worker.docs, s)[i - 1]
  <2> TAKE i \in DOMAIN t
  <2>1. i - 1 \in 0 .. n
    BY <1>8, <1>10
  <2>2. \A k \in 0 .. Len(s) : After(worker.docs, s \o << m >>)[k] = After(worker.docs, s)[k]
    BY <1>8, <1>12, AfterConcat
  <2> QED
    BY <1>12, <2>1, <2>2 DEF n
<1>14. TypeOK'
  <2>1. page' \in Pages /\ page'.files \in Workspaces /\ page'.outgoing = << >>
        /\ active' \in Present(page'.files) /\ gestures' \in Nat
    BY <1>1, <1>2, <1>3 DEF TypeOK
  <2>2. client' \in {"booting", "attached", "detached"} /\ host' \in BOOLEAN
        /\ (host' => client' = "attached") /\ failed' \in BOOLEAN /\ ~failed'
    BY <1>1, <1>2 DEF TypeOK
  <2>3. pending' \subseteq Waiting /\ nextId' \in Nat /\ \A r \in pending' : r.id < nextId'
    BY <1>2, <1>3, <1>6
  <2>4. fromWorker' \in Seq(Publishes \cup Responses \cup Failures)
        /\ worker' \in [state : {"loading", "ready", "dead"}, docs : Trees]
    BY <1>1, <1>2 DEF TypeOK
  <2> QED
    BY <1>9, <2>1, <2>2, <2>3, <2>4 DEF TypeOK, Sent, t
<1>15. PageInv'
  BY <1>1, <1>2, PageStays
<1>16. RequestInv'
  <2>1. \A r \in pending' : IF IsInitialize(r) THEN client' = "booting" /\ r.id = 1 ELSE host'
    BY <1>1, <1>2, <1>6 DEF RequestInv
  <2>2. ASSUME NEW i \in DOMAIN t, t[i] \in Requests PROVE t[i].id < nextId + 1
    <3>1. CASE i = n + 1
      BY <1>3, <1>7, <1>9, <3>1
    <3>2. CASE i \in DOMAIN s
      <4>1. t[i] = s[i] /\ s[i] \in Requests
        BY <1>8, <1>9, <2>2, <3>2
      <4>2. s[i].id < nextId /\ s[i].id \in Nat
        BY <1>1, <3>2, <4>1 DEF RequestInv, Requests, s
      <4> QED
        BY <1>3, <4>1, <4>2
    <3> QED
      BY <1>11, <3>1, <3>2
  <2>3. ASSUME NEW i \in DOMAIN fromWorker, fromWorker[i] \in Responses PROVE fromWorker[i].id < nextId + 1
    <3>1. fromWorker[i].id < nextId /\ fromWorker[i].id \in Nat
      BY <1>1, <2>3 DEF RequestInv, Responses
    <3> QED
      BY <1>3, <3>1
  <2> QED
    BY <1>2, <2>1, <2>2, <2>3 DEF RequestInv, IsInitialize, t
<1>17. WorkerInv'
  BY <1>1, <1>2 DEF WorkerInv
<1>18. page.previous \in Trees /\ page.previous = page.files /\ Mirrors(page)
  BY <1>1, <1>2, <1>3, PageFields DEF PageInv
<1>19. ServerInv'
  <2> SUFFICES ASSUME worker.state # "dead" PROVE Tells(worker.docs, t, page.previous)
    BY <1>2 DEF ServerInv, t
  <2>1. Tells(worker.docs, s, page.previous)
    BY <1>1 DEF ServerInv, s
  <2>2. Tells(page.previous, << m >>, page.previous)
    BY <1>7, <1>18, TellsRequest
  <2>3. Tells(worker.docs, s \o << m >>, page.previous)
    BY <1>8, <1>12, <1>18, <2>1, <2>2, TellsConcat
  <2> QED
    BY <1>12, <2>3
<1>20. MarkersInv'
  <2>1. (\A i \in DOMAIN t : t[i] \notin Documents) => \A i \in DOMAIN s : s[i] \notin Documents
    BY <1>8, <1>9, <1>10
  <2> QED
    BY <1>1, <1>2, <2>1 DEF MarkersInv, s, t
<1>21. RenameInv'
  <2> SUFFICES ASSUME NEW r \in pending', NEW p \in Paths, ~IsInitialize(r), r.versions[p] # None
               PROVE  /\ r.versions[p].object < page'.created
                      /\ IsNoted(r, p)' =>
                           /\ r.versions[p].version <= page'.models[p].version
                           /\ r.versions[p].version = page'.models[p].version => NotedText(r, p)'
    BY DEF RenameInv, IsInitialize
  <2>1. CASE r \in pending
    <3>1. /\ r.versions[p].object < page.created
          /\ IsNoted(r, p) =>
               /\ r.versions[p].version <= page.models[p].version
               /\ r.versions[p].version = page.models[p].version => NotedText(r, p)
      BY <1>1, <2>1 DEF RenameInv
    <3>2. ASSUME NotedText(r, p) PROVE NotedText(r, p)'
      <4>1. ASSUME worker.state # "dead", NEW i \in DOMAIN t, t[i] \in Requests, t[i].id = r.id
            PROVE  Normal[After(worker.docs, t)[i - 1][p]] = page.models[p].text
        <5>1. i # n + 1
          BY <1>3, <1>7, <1>9, <2>1, <4>1
        <5>2. i \in DOMAIN s /\ t[i] = s[i]
          BY <1>8, <1>9, <1>11, <5>1
        <5>3. Normal[After(worker.docs, s)[i - 1][p]] = page.models[p].text
          BY <3>2, <4>1, <5>2 DEF NotedText, s
        <5> QED
          BY <1>13, <5>3
      <4> QED
        BY <1>2, <3>2, <4>1 DEF NotedText, t
    <3> QED
      BY <1>2, <3>1, <3>2 DEF IsNoted
  <2>2. CASE r = new
    <3>1. /\ page.models[p] # None
          /\ r.versions[p].version = page.models[p].version /\ r.versions[p].object = page.models[p].object
      BY <1>5, <1>6, <2>2
    <3>2. page.models[p] \in Models
      BY <1>3, <3>1
    <3>3. r.versions[p].object < page.created
      BY <1>1, <3>1 DEF PageInv, Numbered
    <3>4. r.versions[p].version <= page.models[p].version
      BY <3>1, <3>2, ModelFields
    <3>5. ASSUME worker.state # "dead", NEW i \in DOMAIN t, t[i] \in Requests, t[i].id = r.id
          PROVE  Normal[After(worker.docs, t)[i - 1][p]] = page.models[p].text
      <4>1. i = n + 1
        <5>1. SUFFICES ASSUME i \in DOMAIN s PROVE FALSE
          BY <1>11
        <5>2. t[i] = s[i] /\ s[i] \in Requests
          BY <1>8, <1>9, <3>5, <5>1
        <5>3. s[i].id < nextId
          BY <1>1, <5>1, <5>2 DEF RequestInv, s
        <5> QED
          BY <1>3, <1>6, <2>2, <3>5, <5>2, <5>3
      <4>2. After(worker.docs, s)[n] = page.previous
        BY <1>1, <3>5 DEF ServerInv, Tells, s, n
      <4>3. After(worker.docs, t)[i - 1] = page.previous
        <5>1. i - 1 = n
          BY <1>8, <4>1
        <5>2. After(worker.docs, t)[i - 1] = After(worker.docs, s)[i - 1]
          BY <1>13
        <5> QED
          BY <4>2, <5>1, <5>2
      <4> QED
        BY <1>18, <3>1, <4>3 DEF Mirrors
    <3>6. \A j \in DOMAIN fromWorker : fromWorker[j] \in Responses => fromWorker[j].id # r.id
      <4> SUFFICES ASSUME NEW j \in DOMAIN fromWorker, fromWorker[j] \in Responses PROVE fromWorker[j].id # r.id
        OBVIOUS
      <4>1. fromWorker[j].id < nextId
        BY <1>1 DEF RequestInv
      <4> QED
        BY <1>3, <1>6, <2>2, <4>1
    <3>7. NotedText(r, p)'
      BY <1>2, <3>5, <3>6 DEF NotedText, t
    <3> QED
      BY <1>2, <3>3, <3>4, <3>7
  <2> QED
    BY <1>2, <2>1, <2>2
<1> QED
  BY <1>14, <1>15, <1>16, <1>17, <1>19, <1>20, <1>21 DEF Inv

-------------------------------------------------------------------------------
LEMMA StepKeepsInv == Inv /\ [Next]_vars => Inv'
<1> SUFFICES ASSUME Inv, [Next]_vars PROVE Inv'
  OBVIOUS
<1>1. ASSUME NEW text \in NormalTexts, Type(text) PROVE Inv'
  BY <1>1, TypeKeepsInv
<1>2. ASSUME NEW p \in Paths, SetActive(p) PROVE Inv'
  BY <1>2, SetActiveKeepsInv
<1>3. ASSUME NEW p \in Paths, CreateFile(p) PROVE Inv'
  BY <1>3, CreateFileKeepsInv
<1>4. ASSUME NEW p \in Paths, DeleteFile(p) PROVE Inv'
  BY <1>4, DeleteFileKeepsInv
<1>5. ASSUME NEW from \in Paths, NEW to \in Paths, RenameFile(from, to) PROVE Inv'
  BY <1>5, RenameFileKeepsInv
<1>6. ASSUME NEW files \in Examples, LoadExample(files) PROVE Inv'
  BY <1>6, LoadExampleKeepsInv
<1>7. CASE RequestRename
  BY <1>7, RequestRenameKeepsInv
<1>8. CASE EditorEffect
  BY <1>8, EditorEffectKeepsInv
<1>9. CASE Boot \/ BootFails \/ Crash
  BY <1>9, BootKeepsInv, BootFailsKeepsInv, CrashKeepsInv
<1>10. CASE HandleDocument
  BY <1>10, HandleDocumentKeepsInv
<1>11. ASSUME NEW targets \in SUBSET Paths, HandleRequest(targets) PROVE Inv'
  BY <1>11, HandleRequestKeepsInv
<1>12. CASE HandleMessage
  BY <1>12, HandleResponseKeepsInv, IgnoreResponseKeepsInv, HandlePublishKeepsInv,
     HandleFailureKeepsInv DEF HandleMessage
<1>13. ASSUME NEW r \in pending, Timeout(r) PROVE Inv'
  BY <1>13, TimeoutKeepsInv
<1>14. CASE UNCHANGED vars
  BY <1>14, StutterKeepsInv
<1>15. CASE User
  BY <1>1, <1>2, <1>3, <1>4, <1>5, <1>6, <1>7, <1>15 DEF User
<1>16. CASE Handle
  BY <1>10, <1>11, <1>16 DEF Handle
<1> QED
  BY <1>8, <1>9, <1>12, <1>13, <1>14, <1>15, <1>16 DEF Next

LEMMA InvAlways == Spec => []Inv
BY InitInv, StepKeepsInv, PTL DEF Spec

-------------------------------------------------------------------------------
(* What the properties say follows from the invariant.                         *)
LEMMA ServerIsMirrored ==
  ASSUME Inv
  PROVE  ServerMirrorsStore
<1> SUFFICES ASSUME host, worker.state = "ready"
             PROVE  /\ ServerWillHave = page.files
                    /\ toWorker # << >> /\ Head(toWorker) \in Documents =>
                         (worker.docs[Head(toWorker).path] = None <=> Head(toWorker).kind = "open")
  BY DEF ServerMirrorsStore
<1>1. TypeOK /\ PageInv /\ ServerInv
  BY DEF Inv
<1>2. toWorker \in Seq(Sent) /\ worker.docs \in Trees
  BY <1>1, Types
<1>3. Tells(worker.docs, toWorker, page.files)
  BY <1>1 DEF PageInv, ServerInv
<1>4. ServerWillHave = page.files
  BY <1>3 DEF Tells, ServerWillHave
<1>5. ASSUME toWorker # << >>, Head(toWorker) \in Documents
      PROVE  worker.docs[Head(toWorker).path] = None <=> Head(toWorker).kind = "open"
  <2>1. Len(toWorker) \in Nat \ {0} /\ Head(toWorker) = toWorker[1]
    BY <1>2, <1>5, TailParts
  <2>2. 1 \in 1 .. Len(toWorker) /\ 1 - 1 = 0
    BY <2>1
  <2>3. After(worker.docs, toWorker)[0] = worker.docs
    BY <1>2, AfterIs
  <2>4. After(worker.docs, toWorker)[1 - 1][toWorker[1].path] = None <=> toWorker[1].kind = "open"
    BY <1>3, <1>5, <2>1, <2>2 DEF Tells
  <2> QED
    BY <2>1, <2>2, <2>3, <2>4
<1> QED
  BY <1>4, <1>5

LEMMA MarkersAreShown ==
  ASSUME Inv
  PROVE  MarkersAreCurrent
<1> SUFFICES ASSUME Quiet, NEW p \in Paths, page.models[p] # None
             PROVE  page.models[p].markers = page.files
  BY DEF MarkersAreCurrent
<1>1. TypeOK /\ PageInv /\ WorkerInv /\ ServerInv /\ MarkersInv
  BY DEF Inv
<1>2. host /\ ~failed /\ toWorker = << >> /\ fromWorker = << >>
  BY DEF Quiet
<1>3. worker.docs \in Trees /\ worker.state \in {"loading", "ready", "dead"}
  BY <1>1, Types
<1>4. client = "attached"
  BY <1>1, <1>2 DEF TypeOK
<1>5. DOMAIN fromWorker = {} /\ DOMAIN toWorker = {}
  BY <1>2
<1>6. worker.state = "ready"
  BY <1>1, <1>2, <1>3, <1>4, <1>5 DEF WorkerInv
<1>7. page.files[p] # None
  BY <1>1, <1>2 DEF PageInv, Mirrors
<1>8. IsShown(fromWorker, page.models[p].markers, worker.docs, p)
  BY <1>1, <1>2, <1>5, <1>6, <1>7 DEF MarkersInv, Present
<1>9. page.models[p].markers = worker.docs
  <2>1. 0 .. Len(fromWorker) = {0}
    BY <1>2
  <2> QED
    BY <1>8, <2>1 DEF IsShown, ShownAt
<1>10. worker.docs = page.files
  <2>1. Tells(worker.docs, toWorker, page.files)
    BY <1>1, <1>2, <1>6 DEF PageInv, ServerInv
  <2>2. toWorker \in Seq(Sent) /\ \A i \in DOMAIN toWorker : toWorker[i] \notin Documents
    BY <1>1, <1>5, Types
  <2> QED
    BY <1>3, <2>1, <2>2, TellsWithoutDocuments
<1> QED
  BY <1>9, <1>10

LEMMA EditsAreKept ==
  ASSUME Inv
  PROVE  RenameKeepsEdits
<1> DEFINE m == Head(fromWorker)
<1> SUFFICES ASSUME NEW r \in Applying, NEW p \in m.targets,
                    r.versions[p] # None, r.versions[p].object = page.models[p].object
             PROVE  Normal[m.basis[p]] = page.models[p].text
  BY DEF RenameKeepsEdits, Fits
<1>1. TypeOK /\ RenameInv
  BY DEF Inv
<1>2. /\ fromWorker # << >> /\ m.kind = "response" /\ r \in pending /\ r.id = m.id
      /\ ~IsInitialize(r) /\ WorkspaceEditTargetsAreCurrent(r, m)
  BY DEF Applying
<1>3. /\ fromWorker \in Seq(Replies) /\ DOMAIN fromWorker = 1 .. Len(fromWorker)
  BY <1>1, Types
<1>4. Len(fromWorker) \in Nat \ {0} /\ m = fromWorker[1] /\ m \in Replies
  BY <1>2, <1>3, TailParts
<1>5. 1 \in DOMAIN fromWorker /\ m \in Responses
  BY <1>2, <1>3, <1>4, ReplyKinds
<1>6. p \in Paths
  BY <1>5 DEF Responses
<1>7. page.models[p] # None /\ r.versions[p].version = page.models[p].version
  BY <1>2 DEF WorkspaceEditTargetsAreCurrent
<1>8. NotedText(r, p)
  BY <1>1, <1>2, <1>6, <1>7 DEF RenameInv, IsNoted
<1> HIDE DEF m
<1> QED
  BY <1>2, <1>4, <1>5, <1>8 DEF NotedText

-------------------------------------------------------------------------------
\* For any paths, texts, line endings, examples and orders of keys, and however
\* the user's gestures, the editor's effects, the messages of the worker, its
\* failures and the timers interleave: the models have the store's texts up to
\* line endings (startModelHost), the notifications on their way take an
\* unbroken server from what it has to what the store has, opening exactly what
\* it lacks (startWorkspaceSync), and when all is handled the markers are those
\* of the present files (publish_open_document_diagnostics).
THEOREM MirrorsStay == FairSpec => []MirrorsAgree
<1>1. Inv => MirrorsAgree
  <2> SUFFICES ASSUME Inv PROVE MirrorsAgree
    OBVIOUS
  <2>1. TypeOK /\ PageInv
    BY DEF Inv
  <2>2. ModelsMirrorStore
    BY <2>1 DEF PageInv, Mirrors, ModelsMirrorStore
  <2> QED
    BY <2>1, <2>2, ServerIsMirrored, MarkersAreShown DEF MirrorsAgree
<1> QED
  BY <1>1, InvAlways, PTL DEF FairSpec

\* In all those runs the answer of a rename edits a model that was there when it
\* was requested only if the model has the text the server computed the edits
\* for (workspaceEditTargetsAreCurrent compares versions, never texts).
THEOREM RenamesFit == FairSpec => []RenameKeepsEdits
<1>1. Inv => RenameKeepsEdits
  BY EditsAreKept
<1> QED
  BY <1>1, InvAlways, PTL DEF FairSpec
=============================================================================
