---------------------------- MODULE Delivery_proofs ----------------------------
(***************************************************************************)
(* Proofs about NotificationQueue, for any notifications, calls, workers,  *)
(* retries and faults, and that it implements NotificationContract; about  *)
(* BackgroundJobs, for any jobs, attempts and mishaps; and about the two   *)
(* together.  What happens to a job depends on that job alone, so its      *)
(* invariant is one of a job t and of how often its calls took effect, m.  *)
(***************************************************************************)
EXTENDS MCDelivery, SequenceTheorems, TLAPS

-----------------------------------------------------------------------------
(* Notifications: documents *)

\* A save writes what the handler modified and leaves the rest as it is.
LEMMA SavedDoc ==
  ASSUME NEW now \in NoteDoc, NEW old \in NoteDoc, NEW new \in NoteDoc
  PROVE  LET doc == Saved(now, old, new)
         IN  /\ doc \in NoteDoc
             /\ doc.life = now.life /\ doc.userId = now.userId
             /\ doc.status = (IF new.status # old.status THEN new.status ELSE now.status)
             /\ doc.retry = (IF new.retry # old.retry THEN new.retry ELSE now.retry)
             /\ doc.sentAt = (IF new.sentAt # old.sentAt THEN new.sentAt ELSE now.sentAt)
             /\ doc.readAt = (IF new.readAt # old.readAt THEN new.readAt ELSE now.readAt)
<1> DEFINE st == Modified(now.status, old.status, new.status)
           re == Modified(now.retry, old.retry, new.retry)
           se == Modified(now.sentAt, old.sentAt, new.sentAt)
           fa == Modified(now.failAt, old.failAt, new.failAt)
           rd == Modified(now.readAt, old.readAt, new.readAt)
<1>1. /\ st \in NoteStatus /\ re \in Nat
      /\ se \in BOOLEAN /\ fa \in BOOLEAN /\ rd \in BOOLEAN
  BY DEF NoteDoc, Modified
<1>2. Saved(now, old, new) = [now EXCEPT !.status = st, !.retry = re, !.sentAt = se,
                                         !.failAt = fa, !.readAt = rd]
  BY DEF Saved
<1> HIDE DEF st, re, se, fa, rd
<1>3. /\ Saved(now, old, new) \in NoteDoc
      /\ Saved(now, old, new).life = now.life /\ Saved(now, old, new).userId = now.userId
      /\ Saved(now, old, new).status = st /\ Saved(now, old, new).retry = re
      /\ Saved(now, old, new).sentAt = se /\ Saved(now, old, new).readAt = rd
  BY ZenonT(40), <1>1, <1>2 DEF NoteDoc
<1>4. QED
  BY <1>3 DEF st, re, se, rd, Modified

\* The documents that the handlers build are documents.
LEMMA NoDocType ==
  /\ NoDoc \in NoteDoc
  /\ [NoDoc EXCEPT !.life = "deleted"] \in NoteDoc
  /\ NoDoc.status = "pending" /\ ~ NoDoc.sentAt /\ ~ NoDoc.readAt /\ NoDoc.retry = 0
BY DEF NoDoc, NoteDoc, NoteStatus

\* A new notification is a document.
LEMMA NewDocType ==
  ASSUME NEW u \in Users
  PROVE  LET doc == [NoDoc EXCEPT !.life = "stored", !.userId = u]
         IN  /\ doc \in NoteDoc /\ doc.life = "stored" /\ doc.userId = u
             /\ doc.status = "pending" /\ ~ doc.sentAt /\ ~ doc.readAt /\ doc.retry = 0
BY DEF NoDoc, NoteDoc, NoteStatus

\* What is left of a deleted notification is a document.
LEMMA GoneType ==
  LET doc == [NoDoc EXCEPT !.life = "deleted"]
  IN  /\ doc \in NoteDoc /\ doc.life = "deleted"
      /\ doc.status = "pending" /\ ~ doc.sentAt /\ ~ doc.readAt /\ doc.retry = 0
BY DEF NoDoc, NoteDoc, NoteStatus

\* Marking as read keeps the type and sets readAt.
LEMMA ReadingType ==
  ASSUME NEW doc \in NoteDoc
  PROVE  /\ Reading(doc) \in NoteDoc
         /\ Reading(doc).life = doc.life /\ Reading(doc).userId = doc.userId
         /\ Reading(doc).status = "read" /\ Reading(doc).readAt
         /\ Reading(doc).sentAt = doc.sentAt /\ Reading(doc).retry = doc.retry
BY DEF Reading, NoteDoc, NoteStatus

\* The copy of a delivery, marked as sent.
SentCopy(old) == [old EXCEPT !.status = "sent", !.sentAt = TRUE]

\* The copy that is saved as sent has the type of documents.
LEMMA SentType ==
  ASSUME NEW old \in NoteDoc
  PROVE  /\ SentCopy(old) \in NoteDoc
         /\ SentCopy(old).status = "sent" /\ SentCopy(old).sentAt
         /\ SentCopy(old).retry = old.retry /\ SentCopy(old).readAt = old.readAt
BY DEF SentCopy, NoteDoc, NoteStatus

\* The copy of a failure, with the failure counted, and given up when they are spent.
Counted(old) == [old EXCEPT !.retry = @ + 1, !.failAt = TRUE]
FailedCopy(old) == IF Spent(Counted(old)) THEN [Counted(old) EXCEPT !.status = "failed"]
                                          ELSE Counted(old)

\* The copy with a counted failure, given up or not, has the type of documents.
LEMMA FailedType ==
  ASSUME NEW old \in NoteDoc
  PROVE  /\ FailedCopy(old) \in NoteDoc /\ Counted(old) \in NoteDoc
         /\ FailedCopy(old).retry = old.retry + 1
         /\ FailedCopy(old).sentAt = old.sentAt /\ FailedCopy(old).readAt = old.readAt
         /\ FailedCopy(old).status = (IF old.retry + 1 >= MaxRetries THEN "failed"
                                                                     ELSE old.status)
         /\ Spent(Counted(old)) <=> old.retry + 1 >= MaxRetries
<1>1. /\ Counted(old) \in NoteDoc /\ Counted(old).retry = old.retry + 1
      /\ Counted(old).sentAt = old.sentAt /\ Counted(old).readAt = old.readAt
      /\ Counted(old).status = old.status
  <2>1. old.retry \in Nat /\ old.retry + 1 \in Nat
    BY DEF NoteDoc
  <2>2. \A k \in Nat : LET d == [old EXCEPT !.retry = k, !.failAt = TRUE]
                      IN  /\ d \in NoteDoc /\ d.retry = k /\ d.sentAt = old.sentAt
                          /\ d.readAt = old.readAt /\ d.status = old.status
    BY DEF NoteDoc
  <2>3. QED
    BY <2>1, <2>2 DEF Counted
<1>2. Spent(Counted(old)) <=> old.retry + 1 >= MaxRetries
  BY <1>1 DEF Spent
<1>3. \A d \in NoteDoc : LET f == [d EXCEPT !.status = "failed"]
                         IN  /\ f \in NoteDoc /\ f.status = "failed" /\ f.retry = d.retry
                             /\ f.sentAt = d.sentAt /\ f.readAt = d.readAt
  BY DEF NoteDoc, NoteStatus
<1>4. QED
  BY <1>1, <1>2, <1>3 DEF FailedCopy

-----------------------------------------------------------------------------
(* Notifications: workers *)

\* A worker that goes on keeps its notification; one that is finished has none.
LEMMA GotoType ==
  ASSUME TypeOK, NEW w \in Workers, worker[w].op # "idle", NEW op \in WorkerOps,
         NEW copy \in NoteDoc, Goto(w, op, copy)
  PROVE  /\ worker' \in [Workers -> Job]
         /\ worker'[w] = [op |-> op, n |-> worker[w].n, copy |-> copy]
         /\ \A v \in Workers : v # w => worker'[v] = worker[v]
<1>1. worker[w].n \in Notes \cup {NoNote}
  BY DEF TypeOK, Job
<1>2. [op |-> op, n |-> worker[w].n, copy |-> copy] \in Job
  BY <1>1 DEF Job
<1>3. QED
  BY <1>2 DEF TypeOK, Goto

\* A worker whose job is over is idle, and the others are left alone.
LEMMA FinishedType ==
  ASSUME TypeOK, NEW w \in Workers, Finished(w)
  PROVE  /\ worker' \in [Workers -> Job]
         /\ worker'[w].op = "idle" /\ worker'[w].n = NoNote
         /\ \A v \in Workers : v # w => worker'[v] = worker[v]
<1>1. NoJob \in Job /\ NoJob.op = "idle" /\ NoJob.n = NoNote
  BY NoDocType DEF NoJob, Job, WorkerOps
<1>2. QED
  BY <1>1 DEF TypeOK, Finished

-----------------------------------------------------------------------------
(* What the steps do to the documents *)

\* A document that a step stores is pending and nobody has read it.
Fresh(n) ==
  /\ note[n].life = "none" /\ note'[n].life = "stored" /\ note'[n].userId \in Users
  /\ note'[n].status = "pending" /\ ~ note'[n].sentAt /\ ~ note'[n].readAt
  /\ note'[n].retry = 0

\* One that its owner read, and one that he deleted.
WasRead(n) ==
  /\ Exists(n) /\ note'[n].life = "stored" /\ note'[n].userId = note[n].userId
  /\ note'[n].status = "read" /\ note'[n].readAt
  /\ note'[n].sentAt = note[n].sentAt /\ note'[n].retry = note[n].retry
WasDeleted(n) ==
  /\ Exists(n) /\ note'[n].life = "deleted"
  /\ note'[n].status = "pending" /\ ~ note'[n].sentAt /\ ~ note'[n].readAt
  /\ note'[n].retry = 0

\* The recipient that is looked up is a user.
LEMMA RecipientType == \A r \in Users \cup Barbers : Recipient(r) \in Users
BY ConstantsOK DEF Recipient

\* A call stores a new notification of a user, which it has to add to the queue.
LEMMA CreateEffect ==
  ASSUME TypeOK, NEW s \in Senders, NEW n \in Notes, NEW r \in Users \cup Barbers,
         CreateNotification(s, n, r)
  PROVE  /\ note' \in [Notes -> NoteDoc] /\ Fresh(n)
         /\ \A m \in Notes : m # n => note'[m] = note[m]
<1> DEFINE doc == [NoDoc EXCEPT !.life = "stored", !.userId = Recipient(r)]
<1>1. /\ doc \in NoteDoc /\ doc.life = "stored" /\ doc.userId \in Users
      /\ doc.status = "pending" /\ ~ doc.sentAt /\ ~ doc.readAt /\ doc.retry = 0
  BY RecipientType, NewDocType
<1>2. note' = [note EXCEPT ![n] = doc] /\ note[n].life = "none"
  BY DEF CreateNotification
<1> HIDE DEF doc
<1>3. note' \in [Notes -> NoteDoc] /\ note'[n] = doc
      /\ \A m \in Notes : m # n => note'[m] = note[m]
  BY <1>1, <1>2 DEF TypeOK
<1>4. QED
  BY <1>1, <1>2, <1>3 DEF Fresh

\* Every document that a broadcast stores is one that it will add to the queue.
LEMMA BroadcastEffect ==
  ASSUME TypeOK, NEW s \in Senders, NEW users \in SUBSET Users, Broadcast(s, users)
  PROVE  /\ note' \in [Notes -> NoteDoc]
         /\ sender[s] = NoCall
         /\ \E add \in SUBSET Notes :
              /\ sender' = [sender EXCEPT ![s] = [op |-> "add", left |-> 0, add |-> add]]
              /\ \A n \in Notes : IF n \in add THEN Fresh(n) ELSE note'[n] = note[n]
         /\ UNCHANGED <<jobVars, history, faults>>
<1>1. PICK ids \in [users -> {n \in Notes : note[n].life = "none"}] :
        /\ note' = [n \in Notes |->
                     IF \E u \in users : ids[u] = n
                     THEN [NoDoc EXCEPT !.life = "stored",
                                        !.userId = CHOOSE u \in users : ids[u] = n]
                     ELSE note[n]]
        /\ sender' = [sender EXCEPT ![s] = [op |-> "add", left |-> 0,
                                            add |-> {ids[u] : u \in users}]]
  BY DEF Broadcast
<1> DEFINE add == {ids[u] : u \in users}
           owner(n) == CHOOSE u \in users : ids[u] = n
           doc(n) == [NoDoc EXCEPT !.life = "stored", !.userId = owner(n)]
<1>2. add \in SUBSET Notes /\ \A n \in add : note[n].life = "none"
  OBVIOUS
<1>3. \A n \in add : owner(n) \in Users
  OBVIOUS
<1>4. \A n \in add : /\ doc(n) \in NoteDoc /\ doc(n).life = "stored"
                     /\ doc(n).userId \in Users /\ doc(n).status = "pending"
                     /\ ~ doc(n).sentAt /\ ~ doc(n).readAt /\ doc(n).retry = 0
  <2>1. \A u \in Users :
          LET d == [NoDoc EXCEPT !.life = "stored", !.userId = u]
          IN  /\ d \in NoteDoc /\ d.life = "stored" /\ d.userId = u
              /\ d.status = "pending" /\ ~ d.sentAt /\ ~ d.readAt /\ d.retry = 0
    BY NewDocType
  <2> HIDE DEF owner, add
  <2>2. QED
    BY <1>3, <2>1
<1>5. \A n \in Notes : note'[n] = IF n \in add THEN doc(n) ELSE note[n]
  BY <1>1
<1> HIDE DEF doc, owner
<1>6. \A n \in Notes : IF n \in add THEN Fresh(n) ELSE note'[n] = note[n]
  BY <1>2, <1>4, <1>5 DEF Fresh
<1>7. note' \in [Notes -> NoteDoc]
  <2>1. \A n \in Notes : note'[n] \in NoteDoc
    BY <1>4, <1>5 DEF TypeOK
  <2>2. QED
    BY <1>1, <2>1
<1>8. QED
  BY <1>1, <1>2, <1>6, <1>7 DEF Broadcast

\* An owner reads or deletes his notifications, and nothing else happens.
OwnerStep(u) ==
  \/ \E n \in Notes : MarkAsRead(u, n) \/ DeleteNotification(u, n)
  \/ MarkAllAsRead(u) \/ DeleteAllNotifications(u)

LEMMA OwnerEffect ==
  ASSUME TypeOK, NEW u \in Users, OwnerStep(u)
  PROVE  /\ note' \in [Notes -> NoteDoc]
         /\ \A n \in Notes : note'[n] = note[n] \/ WasRead(n) \/ WasDeleted(n)
         /\ UNCHANGED <<sender, jobVars, history, faults>>
<1> DEFINE gone == [NoDoc EXCEPT !.life = "deleted"]
<1>1. OwnedBy(u) \subseteq Notes /\ \A n \in OwnedBy(u) : Exists(n)
  BY DEF OwnedBy
<1>2. \A n \in Notes : note[n] \in NoteDoc
  BY DEF TypeOK
<1>3. /\ gone \in NoteDoc /\ gone.life = "deleted" /\ gone.status = "pending"
      /\ ~ gone.sentAt /\ ~ gone.readAt /\ gone.retry = 0
  BY GoneType
<1>4. \A n \in Notes : /\ Reading(note[n]) \in NoteDoc
                       /\ Reading(note[n]).life = note[n].life
                       /\ Reading(note[n]).userId = note[n].userId
                       /\ Reading(note[n]).status = "read" /\ Reading(note[n]).readAt
                       /\ Reading(note[n]).sentAt = note[n].sentAt
                       /\ Reading(note[n]).retry = note[n].retry
  BY <1>2, ReadingType
<1> HIDE DEF gone
<1>5. /\ DOMAIN note' = Notes /\ note' = [n \in Notes |-> note'[n]]
      /\ \A n \in Notes : \/ note'[n] = note[n]
                          \/ Exists(n) /\ note'[n] = Reading(note[n])
                          \/ Exists(n) /\ note'[n] = gone
  <2>1. ASSUME NEW n \in Notes, MarkAsRead(u, n) \/ DeleteNotification(u, n)
        PROVE  /\ n \in OwnedBy(u)
               /\ \/ note' = [note EXCEPT ![n] = Reading(note[n])]
                  \/ note' = [note EXCEPT ![n] = gone]
    BY <2>1 DEF MarkAsRead, DeleteNotification, gone
  <2>2. CASE \E n \in Notes : MarkAsRead(u, n) \/ DeleteNotification(u, n)
    BY <1>1, <2>1, <2>2 DEF TypeOK
  <2>3. CASE MarkAllAsRead(u)
    BY <1>1, <2>3 DEF MarkAllAsRead
  <2>4. CASE DeleteAllNotifications(u)
    BY <1>1, <2>4 DEF DeleteAllNotifications, gone
  <2>5. QED
    BY <2>2, <2>3, <2>4 DEF OwnerStep
<1>6. \A n \in Notes : /\ note'[n] \in NoteDoc
                       /\ note'[n] = note[n] \/ WasRead(n) \/ WasDeleted(n)
  BY <1>2, <1>3, <1>4, <1>5 DEF WasRead, WasDeleted, Exists
<1>7. UNCHANGED <<sender, jobVars, history, faults>>
  BY DEF OwnerStep, MarkAsRead, DeleteNotification, MarkAllAsRead, DeleteAllNotifications
<1>8. QED
  BY <1>5, <1>6, <1>7

\* A worker writes its document, and the fields it did not modify stay.
Stores(n, old, new) ==
  /\ note' = [note EXCEPT ![n] = Saved(note[n], old, new)]
  /\ new.readAt = old.readAt
Kept(n, old, new) ==
  /\ note' \in [Notes -> NoteDoc]
  /\ \A m \in Notes : m # n => note'[m] = note[m]
  /\ note'[n].life = note[n].life /\ note'[n].userId = note[n].userId
  /\ note'[n].readAt = note[n].readAt
  /\ note'[n].status = (IF new.status # old.status THEN new.status ELSE note[n].status)
  /\ note'[n].retry = (IF new.retry # old.retry THEN new.retry ELSE note[n].retry)
  /\ note'[n].sentAt = (IF new.sentAt # old.sentAt THEN new.sentAt ELSE note[n].sentAt)

LEMMA StoreEffect ==
  ASSUME TypeOK, NEW n \in Notes, NEW old \in NoteDoc, NEW new \in NoteDoc,
         Stores(n, old, new)
  PROVE  Kept(n, old, new)
<1> DEFINE doc == Saved(note[n], old, new)
<1>1. note[n] \in NoteDoc
  BY DEF TypeOK
<1>2. /\ doc \in NoteDoc /\ doc.life = note[n].life /\ doc.userId = note[n].userId
      /\ doc.status = (IF new.status # old.status THEN new.status ELSE note[n].status)
      /\ doc.retry = (IF new.retry # old.retry THEN new.retry ELSE note[n].retry)
      /\ doc.sentAt = (IF new.sentAt # old.sentAt THEN new.sentAt ELSE note[n].sentAt)
      /\ doc.readAt = (IF new.readAt # old.readAt THEN new.readAt ELSE note[n].readAt)
  BY <1>1, SavedDoc
<1>3. note' = [note EXCEPT ![n] = doc] /\ new.readAt = old.readAt
  BY DEF Stores
<1>4. doc.readAt = note[n].readAt
  BY <1>2, <1>3
<1> HIDE DEF doc
<1>5. /\ note' \in [Notes -> NoteDoc] /\ note'[n] = doc
      /\ \A m \in Notes : m # n => note'[m] = note[m]
  BY <1>2, <1>3 DEF TypeOK
<1>6. QED
  BY <1>2, <1>4, <1>5 DEF Kept

-----------------------------------------------------------------------------
(* Notifications: the inductive invariants *)

\* A worker with a job has a notification; a call that creates has one left to create
\* and none to add.
NotesInv ==
  /\ TypeOK
  /\ \A w \in Workers : worker[w].op # "idle" => worker[w].n \in Notes
  /\ \A s \in Senders : sender[s].op = "create" => sender[s].left > 0 /\ sender[s].add = {}

\* What is about to be saved as sent has passed its channel, and the retries that documents and
\* copies count are failures that happened.
EarnedSoFar ==
  /\ \A w \in Workers :
       /\ worker[w].op = "save" => worker[w].n \in Passed
       /\ worker[w].op = "count" => worker[w].copy.retry + 1 <= failures[worker[w].n]
  /\ \A n \in Notes : note[n].retry <= failures[n]

\* A worker has a job of a notification that existed, and the copy of one that is still
\* pending is pending.
PendingCopies ==
  \A w \in Workers :
    worker[w].op # "idle"
      => /\ note[worker[w].n].life # "none"
         /\ Exists(worker[w].n) /\ note[worker[w].n].status = "pending"
              => worker[w].copy.status = "pending"

\* What does not exist yet was not read.
UnreadBefore == \A n \in Notes : note[n].life = "none" => ~ note[n].readAt

EarnedInv == NotesInv /\ EarnedSoFar /\ StatusIsEarned
QueuedInv == NotesInv /\ PendingCopies /\ PendingIsQueued
ReadInv == NotesInv /\ UnreadBefore

-----------------------------------------------------------------------------
(* What the workers do *)

\* What has passed its channel stays so, and is the same when nothing is delivered.
LEMMA PassedGrows == delivered \subseteq delivered' => Passed \subseteq Passed'
BY DEF Passed, Went
LEMMA PassedKept == delivered' = delivered => Passed' = Passed
BY DEF Passed, Went

\* Whatever its channel did with it, a delivered notification has passed it.
LEMMA PassedOnce ==
  ASSUME NEW n \in Notes, NEW way \in Ways, delivered' = delivered \cup {<<n, way>>}
  PROVE  n \in Passed'
BY DEF Passed, Went, Ways

\* A busy worker has a notification and a copy of it.
LEMMA BusyType ==
  ASSUME NotesInv, NEW w \in Workers, worker[w].op # "idle"
  PROVE  /\ worker[w].n \in Notes /\ worker[w].copy \in NoteDoc
         /\ note[worker[w].n] \in NoteDoc
<1>1. worker[w].n \in Notes /\ worker[w] \in Job
  BY DEF NotesInv, TypeOK
<1>2. QED
  BY <1>1 DEF NotesInv, TypeOK, Job

\* The worker is finished, or goes on with the notification n.
Moved(w, n) ==
  /\ worker' \in [Workers -> Job]
  /\ \A v \in Workers : v # w => worker'[v] = worker[v]
  /\ \/ worker'[w].op = "idle" /\ worker'[w].n = NoNote
     \/ worker'[w].op # "idle" /\ worker'[w].n = n

\* What a save leaves as it is: the other documents, and whose and how alive its own is.
Stored(n) ==
  /\ note' \in [Notes -> NoteDoc]
  /\ \A m \in Notes : m # n => note'[m] = note[m]
  /\ note'[n].life = note[n].life /\ note'[n].userId = note[n].userId
  /\ note'[n].readAt = note[n].readAt

\* A load takes one job; the worker has a copy of a notification, or is idle still.
LEMMA LoadEffect ==
  ASSUME NotesInv, NEW w \in Workers, NEW n \in Notes, ProcessLoad(w, n)
  PROVE  /\ waiting' \in [Notes -> Nat]
         /\ \A m \in Notes : m # n => waiting'[m] = waiting[m]
         /\ Moved(w, n)
         /\ worker[w].op = "idle" /\ worker[w].n = NoNote
         /\ IF Exists(n) THEN /\ worker'[w].op = "deliver" /\ worker'[w].n = n
                              /\ worker'[w].copy = note[n]
                         ELSE worker' = worker
<1>1. waiting' \in [Notes -> Nat] /\ \A m \in Notes : m # n => waiting'[m] = waiting[m]
  BY DEF ProcessLoad, NotesInv, TypeOK
<1>2. worker[w].op = "idle" /\ worker[w].n = NoNote /\ worker \in [Workers -> Job]
  BY DEF ProcessLoad, NoJob, NotesInv, TypeOK
<1>3. [op |-> "deliver", n |-> n, copy |-> note[n]] \in Job
  BY DEF Job, WorkerOps, NotesInv, TypeOK
<1>4. CASE Exists(n)
  <2>1. worker' = [worker EXCEPT ![w] = [op |-> "deliver", n |-> n, copy |-> note[n]]]
    BY <1>4 DEF ProcessLoad
  <2>2. QED
    BY <1>1, <1>2, <1>3, <1>4, <2>1 DEF Moved
<1>5. CASE ~ Exists(n)
  BY <1>1, <1>2, <1>5 DEF ProcessLoad, Moved
<1>6. QED
  BY <1>4, <1>5

\* A delivered notification is saved as sent, or was deleted meanwhile.
LEMMA SaveEffect ==
  ASSUME NotesInv, NEW w \in Workers, ProcessSave(w)
  PROVE  LET n == worker[w].n
         IN  /\ n \in Notes /\ Stored(n) /\ Moved(w, n)
             /\ worker[w].op = "save" /\ worker'[w].op \in {"idle", "failure"}
             /\ \/ note'[n].status = "sent"
                \/ note'[n].status = note[n].status /\ worker[w].copy.status = "sent"
                \/ note' = note /\ ~ Exists(n)
             /\ note'[n].retry = note[n].retry
<1> DEFINE n == worker[w].n
           old == worker[w].copy
<1>1. worker[w].op = "save" /\ n \in Notes /\ old \in NoteDoc /\ note[n] \in NoteDoc
  <2>1. worker[w].op = "save"
    BY DEF ProcessSave
  <2>2. QED
    BY <2>1, BusyType
<1>2. CASE Exists(n)
  <2>1. note' = [note EXCEPT ![n] = Saved(note[n], old, SentCopy(old))] /\ Finished(w)
    BY <1>2 DEF ProcessSave, SentCopy
  <2>2. /\ SentCopy(old) \in NoteDoc /\ SentCopy(old).status = "sent"
        /\ SentCopy(old).retry = old.retry /\ SentCopy(old).readAt = old.readAt
    BY <1>1, SentType
  <2>3. /\ Stored(n) /\ note'[n].retry = note[n].retry
        /\ note'[n].status = (IF "sent" # old.status THEN "sent" ELSE note[n].status)
    <3> DEFINE new == SentCopy(old)
    <3>1. TypeOK /\ new \in NoteDoc /\ Stores(n, old, new)
      BY <2>1, <2>2 DEF NotesInv, Stores
    <3>2. new.status = "sent" /\ new.retry = old.retry
      BY <2>2
    <3> HIDE DEF n, old, new
    <3>3. Kept(n, old, new)
      BY <1>1, <3>1, StoreEffect
    <3>4. QED
      BY <3>2, <3>3 DEF Stored, Kept
  <2>4. Moved(w, n) /\ worker'[w].op = "idle"
    BY <2>1, FinishedType DEF Moved, NotesInv
  <2>5. QED
    BY <1>1, <2>3, <2>4
<1>3. CASE ~ Exists(n)
  <2>1. Goto(w, "failure", old) /\ note' = note
    BY <1>3 DEF ProcessSave
  <2>2. Moved(w, n) /\ worker'[w].op = "failure"
    <3>1. TypeOK /\ "failure" \in WorkerOps /\ worker[w].op # "idle"
      BY <1>1 DEF NotesInv, WorkerOps
    <3>2. /\ worker' \in [Workers -> Job]
          /\ worker'[w] = [op |-> "failure", n |-> worker[w].n, copy |-> old]
          /\ \A v \in Workers : v # w => worker'[v] = worker[v]
      BY <1>1, <2>1, <3>1, GotoType
    <3>3. QED
      BY <3>2 DEF Moved
  <2>3. Stored(n)
    BY <2>1 DEF Stored, NotesInv, TypeOK
  <2>4. QED
    BY <1>1, <1>3, <2>1, <2>2, <2>3
<1>4. QED
  BY <1>2, <1>3

\* A counted failure is saved, and the next attempt is prepared or given up.
LEMMA CountEffect ==
  ASSUME NotesInv, NEW w \in Workers, FailureSave(w)
  PROVE  LET n == worker[w].n
             old == worker[w].copy
         IN  /\ n \in Notes /\ old \in NoteDoc /\ Stored(n) /\ Moved(w, n)
             /\ worker[w].op = "count" /\ failedJob' \in [Notes -> Nat]
             /\ note'[n].sentAt = note[n].sentAt
             /\ note'[n].retry \in {note[n].retry, old.retry + 1}
             /\ \/ note'[n].status = "failed" /\ old.retry + 1 >= MaxRetries
                \/ note'[n].status = note[n].status
             /\ worker'[w].op \in {"idle", "requeue"}
             /\ \/ ~ Exists(n) /\ failedJob'[n] > 0 /\ note' = note
                   /\ \A m \in Notes : m # n => failedJob'[m] = failedJob[m]
                \/ /\ Exists(n) /\ failedJob' = failedJob
                   /\ \/ old.status = "failed"
                      \/ note'[n].status = "failed"
                      \/ worker'[w].n = n /\ worker'[w].op = "requeue"
                         /\ worker'[w].copy.status = old.status
<1> DEFINE n == worker[w].n
           old == worker[w].copy
           new == FailedCopy(old)
<1>1. worker[w].op = "count" /\ n \in Notes /\ old \in NoteDoc /\ note[n] \in NoteDoc
  <2>1. worker[w].op = "count"
    BY DEF FailureSave
  <2>2. QED
    BY <2>1, BusyType
<1>2. /\ new \in NoteDoc /\ new.retry = old.retry + 1
      /\ new.sentAt = old.sentAt /\ new.readAt = old.readAt
      /\ new.status = (IF old.retry + 1 >= MaxRetries THEN "failed" ELSE old.status)
      /\ Spent(Counted(old)) <=> old.retry + 1 >= MaxRetries
  BY <1>1, FailedType
<1>3. failedJob \in [Notes -> Nat] /\ old.retry \in Nat
  BY <1>1 DEF NotesInv, TypeOK, NoteDoc
<1>4. CASE Exists(n)
  <2>1. /\ note' = [note EXCEPT ![n] = Saved(note[n], old, new)]
        /\ IF Spent(Counted(old)) THEN Finished(w) ELSE Goto(w, "requeue", new)
        /\ failedJob' = failedJob
    BY <1>4 DEF FailureSave, FailedCopy, Counted
  <2> HIDE DEF n, old, new
  <2>2. /\ Stored(n) /\ note'[n].sentAt = note[n].sentAt
        /\ note'[n].status = (IF new.status # old.status THEN new.status ELSE note[n].status)
        /\ note'[n].retry = (IF new.retry # old.retry THEN new.retry ELSE note[n].retry)
    <3>1. TypeOK /\ Stores(n, old, new)
      BY <1>2, <2>1 DEF NotesInv, Stores
    <3>2. Kept(n, old, new)
      BY <1>1, <1>2, <3>1, StoreEffect
    <3>3. note'[n].sentAt = note[n].sentAt
      BY <1>2, <3>2 DEF Kept
    <3>4. QED
      BY <3>2, <3>3 DEF Stored, Kept
  <2>3. CASE Spent(Counted(old))
    <3>1. Moved(w, n) /\ worker'[w].op = "idle"
      BY <2>1, <2>3, FinishedType DEF Moved, NotesInv
    <3>2. QED
      BY <1>1, <1>2, <1>3, <1>4, <2>1, <2>2, <2>3, <3>1 DEF n, old
  <2>4. CASE ~ Spent(Counted(old))
    <3>1. worker' \in [Workers -> Job]
          /\ worker'[w] = [op |-> "requeue", n |-> worker[w].n, copy |-> new]
          /\ \A v \in Workers : v # w => worker'[v] = worker[v]
      BY <1>1, <1>2, <2>1, <2>4, GotoType DEF NotesInv, WorkerOps
    <3>2. Moved(w, n) /\ worker'[w].op = "requeue" /\ worker'[w].n = n
          /\ worker'[w].copy.status = old.status
      BY <1>2, <2>4, <3>1 DEF Moved, n
    <3>3. QED
      BY <1>1, <1>2, <1>3, <1>4, <2>1, <2>2, <2>4, <3>2 DEF n, old
  <2>5. QED
    BY <2>3, <2>4
<1>5. CASE ~ Exists(n)
  <2>1. failedJob' = [failedJob EXCEPT ![n] = @ + 1] /\ Finished(w) /\ note' = note
    BY <1>5 DEF FailureSave
  <2>2. Moved(w, n) /\ worker'[w].op = "idle"
    BY <2>1, FinishedType DEF Moved, NotesInv
  <2>3. /\ failedJob' \in [Notes -> Nat] /\ failedJob'[n] > 0
        /\ \A m \in Notes : m # n => failedJob'[m] = failedJob[m]
    BY <1>1, <1>3, <2>1
  <2>4. Stored(n)
    BY <2>1 DEF Stored, NotesInv, TypeOK
  <2>5. QED
    BY <1>1, <1>5, <2>1, <2>2, <2>3, <2>4
<1>6. QED
  BY <1>4, <1>5

\* The steps of a worker that write no document.
PlainStep(w) ==
  \/ Deliver(w) \/ FailureLoad(w) \/ Requeue(w)
  \/ ProcessSaveFails(w) \/ FailureThrows(w) \/ WorkerDies(w)

\* The notification stays in hand unless it is gone; what is about to be saved as sent
\* has passed its channel, and a failure that is about to be counted has happened.
PlainOutcome(w, n) ==
  /\ Moved(w, n) /\ worker'[w].op \in {"idle", "save", "failure", "count"}
  /\ waiting' \in [Notes -> Nat] /\ failedJob' \in [Notes -> Nat]
  /\ \A m \in Notes : waiting[m] <= waiting'[m] /\ failedJob[m] <= failedJob'[m]
  /\ worker'[w].n = n \/ waiting'[n] > 0 \/ failedJob'[n] > 0 \/ ~ Exists(n)
  /\ worker'[w].op \in {"save", "failure"} => worker'[w].copy = worker[w].copy
  /\ worker'[w].op = "count" => worker'[w].copy = note[n] /\ failures'[n] = failures[n] + 1
  /\ worker'[w].op = "save" => n \in Passed'
  /\ delivered \subseteq delivered' /\ delivered' \subseteq Notes \X Ways
  /\ failures' \in [Notes -> Nat] /\ \A m \in Notes : failures[m] <= failures'[m]

LEMMA PlainEffect ==
  ASSUME NotesInv, NEW w \in Workers, PlainStep(w)
  PROVE  /\ worker[w].op # "idle" /\ worker[w].n \in Notes
         /\ note' = note /\ sender' = sender /\ lost' = lost
         /\ faults' \in 0 .. MaxFaults
         /\ PlainOutcome(w, worker[w].n)
<1> DEFINE n == worker[w].n
           old == worker[w].copy
<1>1. worker[w].op # "idle"
  BY DEF PlainStep, Deliver, FailureLoad, Requeue, ProcessSaveFails, FailureThrows, WorkerDies
<1>2. n \in Notes /\ old \in NoteDoc /\ note[n] \in NoteDoc
  BY <1>1, BusyType
<1>3. /\ TypeOK /\ waiting \in [Notes -> Nat] /\ failedJob \in [Notes -> Nat]
      /\ failures \in [Notes -> Nat] /\ delivered \subseteq Notes \X Ways
      /\ faults \in 0 .. MaxFaults /\ MaxFaults \in Nat
  BY ConstantsOK DEF NotesInv, TypeOK
<1>4. note' = note /\ sender' = sender /\ lost' = lost
  BY DEF PlainStep, Deliver, FailureLoad, Requeue, ProcessSaveFails, FailureThrows, WorkerDies,
         history
<1>5. faults' \in 0 .. MaxFaults
  BY <1>3 DEF PlainStep, Deliver, FailureLoad, Requeue, ProcessSaveFails, FailureThrows,
              WorkerDies, Fault
<1>6. ASSUME NEW op \in {"save", "failure", "count"}, NEW copy \in NoteDoc, Goto(w, op, copy)
      PROVE  /\ Moved(w, n) /\ worker'[w].op = op /\ worker'[w].n = n
             /\ worker'[w].copy = copy
  <2>1. op \in WorkerOps
    BY <1>6 DEF WorkerOps
  <2>2. /\ worker' \in [Workers -> Job]
        /\ worker'[w] = [op |-> op, n |-> worker[w].n, copy |-> copy]
        /\ \A v \in Workers : v # w => worker'[v] = worker[v]
    BY <1>1, <1>3, <1>6, <2>1, GotoType
  <2>3. QED
    BY <1>6, <2>2 DEF Moved
<1>7. ASSUME Finished(w)
      PROVE  Moved(w, n) /\ worker'[w].op = "idle"
  BY <1>3, <1>7, FinishedType DEF Moved
<1>8. \A k \in Nat : k <= k /\ k <= k + 1 /\ k + 1 > 0 /\ k + 1 \in Nat
  OBVIOUS
<1> HIDE DEF n, old
<1>9. PlainOutcome(w, n)
  <2>1. CASE Deliver(w)
    <3>1. /\ UNCHANGED <<waiting, failedJob, failures>>
          /\ \/ /\ \E way \in Ways : delivered' = delivered \cup {<<n, way>>}
                /\ Goto(w, "save", old)
             \/ delivered' = delivered /\ Goto(w, "failure", old)
      BY <2>1 DEF Deliver, n, old
    <3>2. CASE /\ \E way \in Ways : delivered' = delivered \cup {<<n, way>>}
               /\ Goto(w, "save", old)
      <4>1. Moved(w, n) /\ worker'[w].op = "save" /\ worker'[w].n = n /\ worker'[w].copy = old
        BY <1>2, <1>6, <3>2
      <4>2. PICK way \in Ways : delivered' = delivered \cup {<<n, way>>}
        BY <3>2
      <4>3. n \in Passed' /\ delivered \subseteq delivered' /\ delivered' \subseteq Notes \X Ways
        BY <1>2, <1>3, <4>2, PassedOnce
      <4>4. QED
        BY <1>2, <1>3, <1>8, <3>1, <4>1, <4>3 DEF PlainOutcome, old
    <3>3. CASE delivered' = delivered /\ Goto(w, "failure", old)
      <4>1. Moved(w, n) /\ worker'[w].op = "failure" /\ worker'[w].n = n
            /\ worker'[w].copy = old
        BY <1>2, <1>6, <3>3
      <4>2. QED
        BY <1>2, <1>3, <1>8, <3>1, <3>3, <4>1 DEF PlainOutcome, old
    <3>4. QED
      BY <3>1, <3>2, <3>3
  <2>2. CASE FailureLoad(w)
    <3>1. /\ UNCHANGED <<waiting, failedJob, delivered>>
          /\ failures' = [failures EXCEPT ![n] = failures[n] + 1]
          /\ IF Exists(n) THEN Goto(w, "count", note[n]) ELSE Finished(w)
      BY <2>2 DEF FailureLoad, n
    <3>2. /\ failures' \in [Notes -> Nat] /\ failures'[n] = failures[n] + 1
          /\ \A m \in Notes : failures[m] <= failures'[m]
      BY <1>2, <1>3, <3>1
    <3>3. CASE Exists(n)
      <4>1. Moved(w, n) /\ worker'[w].op = "count" /\ worker'[w].n = n
            /\ worker'[w].copy = note[n]
        BY <1>2, <1>6, <3>1, <3>3
      <4>2. QED
        BY <1>3, <1>8, <3>1, <3>2, <4>1 DEF PlainOutcome
    <3>4. CASE ~ Exists(n)
      <4>1. Moved(w, n) /\ worker'[w].op = "idle"
        BY <1>7, <3>1, <3>4
      <4>2. QED
        BY <1>3, <1>8, <3>1, <3>2, <3>4, <4>1 DEF PlainOutcome
    <3>5. QED
      BY <3>3, <3>4
  <2>3. CASE Requeue(w) \/ WorkerDies(w)
    <3>1. /\ UNCHANGED <<failedJob, delivered, failures>>
          /\ waiting' = [waiting EXCEPT ![n] = waiting[n] + 1] /\ Finished(w)
      BY <2>3 DEF Requeue, WorkerDies, n, history
    <3>2. /\ waiting' \in [Notes -> Nat] /\ waiting'[n] > 0
          /\ \A m \in Notes : waiting[m] <= waiting'[m]
      BY <1>2, <1>3, <3>1
    <3>3. Moved(w, n) /\ worker'[w].op = "idle"
      BY <1>7, <3>1
    <3>4. QED
      BY <1>3, <1>8, <3>1, <3>2, <3>3 DEF PlainOutcome
  <2>4. CASE ProcessSaveFails(w)
    <3>1. UNCHANGED <<waiting, failedJob, delivered, failures>> /\ Goto(w, "failure", old)
      BY <2>4 DEF ProcessSaveFails, old, history
    <3>2. Moved(w, n) /\ worker'[w].op = "failure" /\ worker'[w].n = n /\ worker'[w].copy = old
      BY <1>2, <1>6, <3>1
    <3>3. QED
      BY <1>3, <1>8, <3>1, <3>2 DEF PlainOutcome, old
  <2>5. CASE FailureThrows(w)
    <3>1. /\ UNCHANGED <<waiting, delivered, failures>>
          /\ failedJob' = [failedJob EXCEPT ![n] = failedJob[n] + 1] /\ Finished(w)
      BY <2>5 DEF FailureThrows, n, history
    <3>2. /\ failedJob' \in [Notes -> Nat] /\ failedJob'[n] > 0
          /\ \A m \in Notes : failedJob[m] <= failedJob'[m]
      BY <1>2, <1>3, <3>1
    <3>3. Moved(w, n) /\ worker'[w].op = "idle"
      BY <1>7, <3>1
    <3>4. QED
      BY <1>3, <1>8, <3>1, <3>2, <3>3 DEF PlainOutcome
  <2>6. QED
    BY <2>1, <2>2, <2>3, <2>4, <2>5 DEF PlainStep
<1>10. QED
  BY <1>1, <1>2, <1>4, <1>5, <1>9 DEF n

-----------------------------------------------------------------------------
(* What the calls and the administrators do *)

CallStep(s) ==
  \/ \E left \in 1 .. 2 : Send(s, left)
  \/ \E n \in Notes, r \in Users \cup Barbers : CreateNotification(s, n, r)
  \/ \E users \in SUBSET Users \ {{}} : Broadcast(s, users)
  \/ \E n \in Notes : Enqueue(s, n)
  \/ SendAbort(s)

\* What a call stores it will add to the queue; what it had to add it adds, keeps for
\* later, or loses.
CallDocs(s) ==
  /\ note' \in [Notes -> NoteDoc]
  /\ \A n \in Notes : note'[n] = note[n] \/ (Fresh(n) /\ n \in sender'[s].add)
CallState(s) ==
  /\ sender' \in [Senders -> Call]
  /\ \A t \in Senders : t # s => sender'[t] = sender[t]
  /\ sender'[s].op = "create" => sender'[s].left > 0 /\ sender'[s].add = {}
CallQueue(s) ==
  /\ waiting' \in [Notes -> Nat] /\ \A n \in Notes : waiting[n] <= waiting'[n]
  /\ lost' \in [Notes -> BOOLEAN] /\ \A n \in Notes : lost[n] => lost'[n]
  /\ \A n \in sender[s].add : n \in sender'[s].add \/ waiting'[n] > 0 \/ lost'[n]
CallFrame ==
  /\ faults' \in 0 .. MaxFaults
  /\ failedJob' = failedJob /\ worker' = worker
  /\ delivered' = delivered /\ failures' = failures
CallOutcome(s) == CallDocs(s) /\ CallState(s) /\ CallQueue(s) /\ CallFrame

\* The call that is over.
LEMMA NoCallType == NoCall \in Call /\ NoCall.op = "idle" /\ NoCall.add = {}
BY DEF NoCall, Call, SenderOps

\* Every step of a call has that outcome.
LEMMA CallEffect ==
  ASSUME NotesInv, NEW s \in Senders, CallStep(s)
  PROVE  CallOutcome(s)
<1>1. /\ TypeOK /\ note \in [Notes -> NoteDoc] /\ waiting \in [Notes -> Nat]
      /\ lost \in [Notes -> BOOLEAN] /\ faults \in 0 .. MaxFaults
      /\ sender \in [Senders -> Call] /\ MaxFaults \in Nat
  BY ConstantsOK DEF NotesInv, TypeOK
<1>2. sender[s].left \in Nat /\ sender[s].add \in SUBSET Notes /\ sender[s].op \in SenderOps
  BY <1>1 DEF Call
<1>3. \A k \in Nat : k <= k /\ k <= k + 1 /\ k + 1 > 0 /\ k + 1 \in Nat
  OBVIOUS
<1>4. ASSUME NEW left \in 1 .. 2, Send(s, left)
      PROVE  CallOutcome(s)
  <2> DEFINE call == [op |-> "create", left |-> left, add |-> {}]
  <2>1. /\ sender[s].add = {} /\ sender' = [sender EXCEPT ![s] = call]
        /\ UNCHANGED <<note, waiting, lost, faults, failedJob, worker, delivered, failures>>
    BY <1>4, NoCallType DEF Send, jobVars, history
  <2>2. call \in Call /\ call.op = "create" /\ call.left > 0 /\ call.add = {}
    BY DEF Call, SenderOps
  <2> HIDE DEF call
  <2>3. /\ sender' \in [Senders -> Call] /\ sender'[s] = call
        /\ \A t \in Senders : t # s => sender'[t] = sender[t]
    BY <1>1, <2>1, <2>2
  <2>4. CallDocs(s)
    BY <1>1, <2>1 DEF CallDocs, Fresh
  <2>5. CallState(s)
    BY <2>2, <2>3 DEF CallState
  <2>6. CallQueue(s)
    BY <1>1, <1>3, <2>1 DEF CallQueue
  <2>7. CallFrame
    BY <1>1, <2>1 DEF CallFrame
  <2>8. QED
    BY <2>4, <2>5, <2>6, <2>7 DEF CallOutcome
<1>5. ASSUME NEW n \in Notes, NEW r \in Users \cup Barbers, CreateNotification(s, n, r)
      PROVE  CallOutcome(s)
  <2> DEFINE call == [op |-> "add", left |-> sender[s].left - 1, add |-> {n}]
  <2>1. sender[s].left > 0 /\ sender[s].add = {}
    BY <1>5 DEF CreateNotification, NotesInv
  <2>2. call \in Call /\ call.op = "add" /\ call.add = {n}
    <3>1. sender[s].left - 1 \in Nat
      BY <1>2, <2>1
    <3>2. QED
      BY <3>1 DEF Call, SenderOps
  <2>3. sender' = [sender EXCEPT ![s] = call]
    <3>1. sender[s] = [op |-> sender[s].op, left |-> sender[s].left, add |-> sender[s].add]
      BY <1>1 DEF Call
    <3>2. sender' = [sender EXCEPT ![s].op = "add", ![s].add = {n},
                                   ![s].left = sender[s].left - 1]
      BY <1>5 DEF CreateNotification
    <3>3. QED
      BY <1>1, <3>1, <3>2 DEF Call
  <2>4. UNCHANGED <<waiting, lost, faults, failedJob, worker, delivered, failures>>
    BY <1>5 DEF CreateNotification, jobVars, history
  <2>5. /\ note' \in [Notes -> NoteDoc] /\ Fresh(n)
        /\ \A m \in Notes : m # n => note'[m] = note[m]
    BY <1>1, <1>5, CreateEffect
  <2> HIDE DEF call
  <2>6. /\ sender' \in [Senders -> Call] /\ sender'[s] = call
        /\ \A t \in Senders : t # s => sender'[t] = sender[t]
    BY <1>1, <2>2, <2>3
  <2>7. \A m \in Notes : note'[m] = note[m] \/ (Fresh(m) /\ m \in sender'[s].add)
    BY <2>2, <2>5, <2>6 DEF Fresh
  <2>8. CallDocs(s)
    BY <2>5, <2>7 DEF CallDocs
  <2>9. CallState(s)
    BY <2>2, <2>6 DEF CallState
  <2>10. CallQueue(s)
    BY <1>1, <1>3, <2>1, <2>4 DEF CallQueue
  <2>11. CallFrame
    BY <1>1, <2>4 DEF CallFrame
  <2>12. QED
    BY <2>8, <2>9, <2>10, <2>11 DEF CallOutcome
<1>6. ASSUME NEW users \in SUBSET Users, Broadcast(s, users)
      PROVE  CallOutcome(s)
  <2>1. PICK add \in SUBSET Notes :
          /\ sender' = [sender EXCEPT ![s] = [op |-> "add", left |-> 0, add |-> add]]
          /\ \A n \in Notes : IF n \in add THEN Fresh(n) ELSE note'[n] = note[n]
    BY <1>1, <1>6, BroadcastEffect
  <2>2. /\ note' \in [Notes -> NoteDoc] /\ sender[s] = NoCall
        /\ UNCHANGED <<jobVars, history, faults>>
    BY <1>1, <1>6, BroadcastEffect
  <2>3. /\ sender[s].add = {}
        /\ UNCHANGED <<waiting, lost, faults, failedJob, worker, delivered, failures>>
    BY <2>2, NoCallType DEF jobVars, history
  <2> DEFINE call == [op |-> "add", left |-> 0, add |-> add]
  <2>4. call \in Call /\ call.op = "add" /\ call.add = add
    BY DEF Call, SenderOps
  <2>5. sender' = [sender EXCEPT ![s] = call]
    BY <2>1
  <2> HIDE DEF call
  <2>6. /\ sender' \in [Senders -> Call] /\ sender'[s] = call
        /\ \A t \in Senders : t # s => sender'[t] = sender[t]
    BY <1>1, <2>4, <2>5
  <2>7. \A n \in Notes : note'[n] = note[n] \/ (Fresh(n) /\ n \in sender'[s].add)
    BY <2>1, <2>4, <2>6 DEF Fresh
  <2>8. CallDocs(s)
    BY <2>2, <2>7 DEF CallDocs
  <2>9. CallState(s)
    BY <2>4, <2>6 DEF CallState
  <2>10. CallQueue(s)
    BY <1>1, <1>3, <2>3 DEF CallQueue
  <2>11. CallFrame
    BY <1>1, <2>3 DEF CallFrame
  <2>12. QED
    BY <2>8, <2>9, <2>10, <2>11 DEF CallOutcome
<1>7. ASSUME NEW n \in Notes, Enqueue(s, n)
      PROVE  CallOutcome(s)
  <2> DEFINE rest == sender[s].add \ {n}
             call == IF rest # {} THEN [sender[s] EXCEPT !.add = rest]
                     ELSE IF sender[s].left > 0
                          THEN [sender[s] EXCEPT !.op = "create", !.add = {}]
                     ELSE NoCall
  <2>1. /\ call \in Call /\ call.add = rest
        /\ call.op = "create" => call.left > 0 /\ call.add = {}
    <3>1. rest \in SUBSET Notes /\ sender[s] \in Call /\ sender[s].op = "add"
      BY <1>1, <1>7 DEF Call, Enqueue
    <3>2. \A add \in SUBSET Notes :
            LET c == [sender[s] EXCEPT !.add = add]
            IN  c \in Call /\ c.op = "add" /\ c.add = add
      BY <3>1 DEF Call
    <3>3. LET c == [sender[s] EXCEPT !.op = "create", !.add = {}]
          IN  c \in Call /\ c.op = "create" /\ c.left = sender[s].left /\ c.add = {}
      BY <3>1 DEF Call, SenderOps
    <3> HIDE DEF rest
    <3>4. CASE rest # {}
      BY <3>1, <3>2, <3>4
    <3>5. CASE rest = {} /\ sender[s].left > 0
      BY <3>3, <3>5
    <3>6. CASE rest = {} /\ ~ (sender[s].left > 0)
      BY <3>6, NoCallType
    <3>7. QED
      BY <3>4, <3>5, <3>6
  <2>2. sender' = [sender EXCEPT ![s] = call]
    BY <1>7 DEF Enqueue
  <2>3. /\ waiting' = [waiting EXCEPT ![n] = waiting[n] + 1]
        /\ UNCHANGED <<note, lost, faults, failedJob, worker, delivered, failures>>
    BY <1>7 DEF Enqueue, history
  <2>4. /\ waiting' \in [Notes -> Nat] /\ waiting'[n] > 0
        /\ \A m \in Notes : waiting[m] <= waiting'[m]
    BY <1>1, <2>3
  <2> HIDE DEF call
  <2>5. /\ sender' \in [Senders -> Call] /\ sender'[s] = call
        /\ \A t \in Senders : t # s => sender'[t] = sender[t]
    BY <1>1, <2>1, <2>2
  <2>6. \A m \in sender[s].add : m \in sender'[s].add \/ waiting'[m] > 0
    BY <2>1, <2>4, <2>5
  <2>7. CallDocs(s)
    BY <1>1, <2>3 DEF CallDocs, Fresh
  <2>8. CallState(s)
    BY <2>1, <2>5 DEF CallState
  <2>9. CallQueue(s)
    BY <1>1, <2>3, <2>4, <2>6 DEF CallQueue
  <2>10. CallFrame
    BY <1>1, <2>3 DEF CallFrame
  <2>11. QED
    BY <2>7, <2>8, <2>9, <2>10 DEF CallOutcome
<1>8. ASSUME SendAbort(s)
      PROVE  CallOutcome(s)
  <2>1. /\ sender' = [sender EXCEPT ![s] = NoCall]
        /\ lost' = [n \in Notes |-> lost[n] \/ n \in sender[s].add]
        /\ UNCHANGED <<note, waiting, failedJob, worker, delivered, failures>>
        /\ faults' \in 0 .. MaxFaults
    BY <1>1, <1>8 DEF SendAbort, Fault, jobVars
  <2>2. /\ sender' \in [Senders -> Call] /\ sender'[s] = NoCall
        /\ \A t \in Senders : t # s => sender'[t] = sender[t]
    BY <1>1, <2>1, NoCallType
  <2>3. /\ lost' \in [Notes -> BOOLEAN] /\ \A n \in Notes : lost[n] => lost'[n]
        /\ \A n \in sender[s].add : lost'[n]
    BY <1>1, <1>2, <2>1
  <2>4. CallDocs(s)
    BY <1>1, <2>1 DEF CallDocs, Fresh
  <2>5. CallState(s)
    BY <2>2, NoCallType DEF CallState
  <2>6. CallQueue(s)
    BY <1>1, <1>3, <2>1, <2>3 DEF CallQueue
  <2>7. CallFrame
    BY <1>1, <2>1 DEF CallFrame
  <2>8. QED
    BY <2>4, <2>5, <2>6, <2>7 DEF CallOutcome
<1>9. QED
  BY <1>4, <1>5, <1>6, <1>7, <1>8 DEF CallStep

\* An administrator clears the queue or retries its failed jobs: a job is elsewhere or
\* lost.
LEMMA QueueEffect ==
  ASSUME NotesInv, ClearQueue \/ RetryFailedJobs
  PROVE  /\ waiting' \in [Notes -> Nat] /\ failedJob' \in [Notes -> Nat]
         /\ lost' \in [Notes -> BOOLEAN] /\ \A n \in Notes : lost[n] => lost'[n]
         /\ \A n \in Notes : waiting[n] > 0 \/ failedJob[n] > 0
                               => waiting'[n] > 0 \/ failedJob'[n] > 0 \/ lost'[n]
         /\ UNCHANGED <<note, sender, worker, delivered, failures, faults>>
<1>1. /\ waiting \in [Notes -> Nat] /\ failedJob \in [Notes -> Nat]
      /\ lost \in [Notes -> BOOLEAN]
  BY DEF NotesInv, TypeOK
<1>2. CASE ClearQueue
  <2>1. /\ waiting' = [n \in Notes |-> 0] /\ lost' = [n \in Notes |-> lost[n] \/ waiting[n] > 0]
        /\ UNCHANGED <<note, sender, failedJob, worker, delivered, failures, faults>>
    BY <1>2 DEF ClearQueue
  <2>2. QED
    BY <1>1, <2>1
<1>3. CASE RetryFailedJobs
  <2>1. /\ waiting' = [n \in Notes |-> waiting[n] + failedJob[n]]
        /\ failedJob' = [n \in Notes |-> 0]
        /\ UNCHANGED <<note, sender, worker, delivered, failures, lost, faults>>
    BY <1>3 DEF RetryFailedJobs, history
  <2>2. QED
    BY <1>1, <2>1
<1>4. QED
  BY <1>2, <1>3

\* An administrator pauses or resumes the queue, or nothing happens.
Rests == UNCHANGED <<note, sender, jobVars, history, faults>>

\* Otherwise a step is a call's, a worker's, an administrator's or an owner's.
LEMMA Steps ==
  ASSUME [Next]_vars
  PROVE  \/ \E s \in Senders : CallStep(s)
         \/ \E w \in Workers : \/ \E n \in Notes : ProcessLoad(w, n)
                               \/ ProcessSave(w) \/ FailureSave(w) \/ PlainStep(w)
         \/ ClearQueue \/ RetryFailedJobs
         \/ \E u \in Users : OwnerStep(u)
         \/ Rests
<1>1. CASE Next
  BY <1>1 DEF Next, CallStep, Process, PlainStep, OwnerStep, PauseNotifications,
              ResumeNotifications, Rests
<1>2. CASE UNCHANGED vars
  BY <1>2 DEF vars, Rests
<1>3. QED
  BY <1>1, <1>2

\* The queue is paused or it is not.
LEMMA HaltedStep == TypeOK /\ [Next]_vars => halted' \in BOOLEAN
<1> SUFFICES ASSUME TypeOK, [Next]_vars, ~ PauseNotifications, ~ ResumeNotifications
             PROVE  halted' = halted
  BY DEF TypeOK, PauseNotifications, ResumeNotifications
<1>1. ASSUME NEW s \in Senders, CallStep(s)
      PROVE  halted' = halted
  BY <1>1 DEF CallStep, Send, CreateNotification, Broadcast, Enqueue, SendAbort
<1>2. ASSUME NEW w \in Workers,
             (\E n \in Notes : ProcessLoad(w, n)) \/ ProcessSave(w) \/ FailureSave(w)
      PROVE  halted' = halted
  BY <1>2 DEF ProcessLoad, ProcessSave, FailureSave
<1>3. ASSUME NEW w \in Workers, PlainStep(w)
      PROVE  halted' = halted
  BY <1>3 DEF PlainStep, Deliver, FailureLoad, Requeue, ProcessSaveFails, FailureThrows,
              WorkerDies
<1>4. ASSUME NEW u \in Users, OwnerStep(u)
      PROVE  halted' = halted
  BY <1>4 DEF OwnerStep, MarkAsRead, MarkAllAsRead, DeleteNotification, DeleteAllNotifications
<1>5. CASE ClearQueue \/ RetryFailedJobs \/ UNCHANGED vars
  BY <1>5 DEF ClearQueue, RetryFailedJobs, vars
<1>6. QED
  BY <1>1, <1>2, <1>3, <1>4, <1>5 DEF Next, CallStep, Process, PlainStep, OwnerStep

-----------------------------------------------------------------------------
(* The invariants are preserved *)

\* The invariant holds before anything is stored.
LEMMA NotesInit == Init => NotesInv
<1> SUFFICES ASSUME Init PROVE NotesInv
  OBVIOUS
<1>1. NoJob \in Job /\ NoJob.op = "idle"
  BY NoDocType DEF NoJob, Job, WorkerOps
<1>2. NoDoc \in NoteDoc /\ NoDoc.life # "stored"
  BY NoDocType DEF NoDoc
<1>3. /\ note \in [Notes -> NoteDoc] /\ \A n \in Notes : ~ Exists(n)
      /\ sender \in [Senders -> Call] /\ \A s \in Senders : sender[s].op = "idle"
      /\ worker \in [Workers -> Job] /\ \A w \in Workers : worker[w].op = "idle"
  BY <1>1, <1>2, NoCallType DEF Init, Exists
<1>4. /\ waiting \in [Notes -> Nat] /\ failedJob \in [Notes -> Nat]
      /\ failures \in [Notes -> Nat] /\ lost \in [Notes -> BOOLEAN]
      /\ faults \in 0 .. MaxFaults
  BY ConstantsOK DEF Init
<1>5. delivered \subseteq Notes \X Ways
  BY DEF Init
<1>6. halted \in BOOLEAN
  BY DEF Init
<1>7. QED
  BY <1>3, <1>4, <1>5, <1>6 DEF NotesInv, TypeOK

\* What a step of a worker changes, whichever step it is: the documents keep their life,
\* owner and reader's mark, and the calls and what was lost stay.
HandlerStep(w) ==
  \/ \E n \in Notes : ProcessLoad(w, n)
  \/ ProcessSave(w) \/ FailureSave(w) \/ PlainStep(w)
HandlerDocs ==
  /\ note' \in [Notes -> NoteDoc]
  /\ \A n \in Notes : /\ note'[n].life = note[n].life
                      /\ note'[n].userId = note[n].userId
                      /\ note'[n].readAt = note[n].readAt
HandlerRest(w) ==
  /\ worker' \in [Workers -> Job]
  /\ \A v \in Workers : v # w => worker'[v] = worker[v]
  /\ worker'[w].op # "idle" => worker'[w].n \in Notes
  /\ waiting' \in [Notes -> Nat] /\ failedJob' \in [Notes -> Nat]
  /\ failures' \in [Notes -> Nat] /\ delivered' \subseteq Notes \X Ways
  /\ faults' \in 0 .. MaxFaults
  /\ sender' = sender /\ lost' = lost

\* Every step of a worker has one of these outcomes.
LEMMA HandlerEffect ==
  ASSUME NotesInv, NEW w \in Workers, HandlerStep(w)
  PROVE  HandlerDocs /\ HandlerRest(w)
<1>1. /\ note \in [Notes -> NoteDoc] /\ waiting \in [Notes -> Nat]
      /\ failedJob \in [Notes -> Nat] /\ failures \in [Notes -> Nat]
      /\ delivered \subseteq Notes \X Ways /\ faults \in 0 .. MaxFaults
  BY DEF NotesInv, TypeOK
<1>2. ASSUME NEW n \in Notes, ProcessLoad(w, n)
      PROVE  HandlerDocs /\ HandlerRest(w)
  <2>1. /\ UNCHANGED <<note, sender, failedJob, delivered, failures, lost, faults>>
    BY <1>2 DEF ProcessLoad, history
  <2>2. waiting' \in [Notes -> Nat] /\ Moved(w, n)
    BY <1>2, LoadEffect
  <2>3. HandlerRest(w)
    BY <1>1, <2>1, <2>2 DEF HandlerRest, Moved
  <2>4. QED
    BY <1>1, <2>1, <2>3 DEF HandlerDocs
<1>3. ASSUME ProcessSave(w)
      PROVE  HandlerDocs /\ HandlerRest(w)
  <2>1. UNCHANGED <<sender, waiting, failedJob, delivered, failures, lost, faults>>
    BY <1>3 DEF ProcessSave, history
  <2>2. worker[w].n \in Notes /\ Stored(worker[w].n) /\ Moved(w, worker[w].n)
    BY <1>3, SaveEffect
  <2>3. HandlerRest(w)
    BY <1>1, <2>1, <2>2 DEF HandlerRest, Moved
  <2>4. QED
    BY <2>2, <2>3 DEF HandlerDocs, Stored
<1>4. ASSUME FailureSave(w)
      PROVE  HandlerDocs /\ HandlerRest(w)
  <2>1. UNCHANGED <<sender, waiting, delivered, failures, lost, faults>>
    BY <1>4 DEF FailureSave, history
  <2>2. /\ worker[w].n \in Notes /\ Stored(worker[w].n) /\ Moved(w, worker[w].n)
        /\ failedJob' \in [Notes -> Nat]
    BY <1>4, CountEffect
  <2>3. HandlerRest(w)
    BY <1>1, <2>1, <2>2 DEF HandlerRest, Moved
  <2>4. QED
    BY <2>2, <2>3 DEF HandlerDocs, Stored
<1>5. ASSUME PlainStep(w)
      PROVE  HandlerDocs /\ HandlerRest(w)
  <2>1. /\ worker[w].n \in Notes /\ note' = note /\ sender' = sender /\ lost' = lost
        /\ faults' \in 0 .. MaxFaults /\ PlainOutcome(w, worker[w].n)
    BY <1>5, PlainEffect
  <2>2. HandlerRest(w)
    BY <2>1 DEF HandlerRest, PlainOutcome, Moved
  <2>3. QED
    BY <1>1, <2>1, <2>2 DEF HandlerDocs
<1>6. QED
  BY <1>2, <1>3, <1>4, <1>5 DEF HandlerStep

\* Every step keeps the types and the workers' notifications.
LEMMA NotesStep == NotesInv /\ [Next]_vars => NotesInv'
<1> SUFFICES ASSUME NotesInv, [Next]_vars PROVE NotesInv'
  OBVIOUS
<1> USE DEF Exists
<1>1. TypeOK /\ halted' \in BOOLEAN
  BY HaltedStep DEF NotesInv
<1>2. ASSUME NEW s \in Senders, CallStep(s)
      PROVE  NotesInv'
  <2>1. CallDocs(s) /\ CallState(s) /\ CallQueue(s) /\ CallFrame
    BY <1>2, CallEffect DEF CallOutcome
  <2>2. \A n \in Notes : note'[n].life = "stored" => note'[n].userId \in Users
    BY <1>1, <2>1 DEF CallDocs, Fresh, TypeOK
  <2>3. \A t \in Senders : sender'[t].op = "create"
                             => sender'[t].left > 0 /\ sender'[t].add = {}
    BY <2>1 DEF CallState, NotesInv
  <2>4. QED
    BY <1>1, <2>1, <2>2, <2>3 DEF NotesInv, TypeOK, CallDocs, CallState, CallQueue, CallFrame
<1>3. ASSUME NEW w \in Workers, HandlerStep(w)
      PROVE  NotesInv'
  <2>1. HandlerDocs /\ HandlerRest(w)
    BY <1>3, HandlerEffect
  <2>2. \A n \in Notes : note'[n].life = "stored" => note'[n].userId \in Users
    BY <1>1, <2>1 DEF HandlerDocs, TypeOK
  <2>3. \A v \in Workers : worker'[v].op # "idle" => worker'[v].n \in Notes
    BY <2>1 DEF HandlerRest, NotesInv
  <2>4. QED
    BY <1>1, <2>1, <2>2, <2>3 DEF NotesInv, TypeOK, HandlerDocs, HandlerRest
<1>4. CASE ClearQueue \/ RetryFailedJobs
  <2>1. /\ waiting' \in [Notes -> Nat] /\ failedJob' \in [Notes -> Nat]
        /\ lost' \in [Notes -> BOOLEAN]
        /\ UNCHANGED <<note, sender, worker, delivered, failures, faults>>
    BY <1>4, QueueEffect
  <2>2. QED
    BY <1>1, <2>1 DEF NotesInv, TypeOK
<1>5. ASSUME NEW u \in Users, OwnerStep(u)
      PROVE  NotesInv'
  <2>1. /\ note' \in [Notes -> NoteDoc]
        /\ \A n \in Notes : note'[n] = note[n] \/ WasRead(n) \/ WasDeleted(n)
        /\ UNCHANGED <<sender, jobVars, history, faults>>
    BY <1>1, <1>5, OwnerEffect
  <2>2. \A n \in Notes : note'[n].life = "stored" => note'[n].userId \in Users
    BY <1>1, <2>1 DEF TypeOK, WasRead, WasDeleted
  <2>3. QED
    BY <1>1, <2>1, <2>2 DEF NotesInv, TypeOK, jobVars, history
<1>6. CASE Rests
  BY <1>1, <1>6 DEF NotesInv, TypeOK, Rests, jobVars, history
<1>7. QED
  BY <1>2, <1>3, <1>4, <1>5, <1>6, Steps DEF HandlerStep

\* The notifications, the calls and the jobs have their types; in particular every stored
\* notification belongs to a user, whether its recipient was given as a user or as a
\* barber profile.
THEOREM NotesTypeCorrect == Spec => []TypeOK
<1>1. NotesInv => TypeOK
  BY DEF NotesInv
<1>2. QED
  BY NotesInit, NotesStep, <1>1, PTL DEF Spec

-----------------------------------------------------------------------------
(* A reader's mark stays *)

\* No step takes the mark of a reader back.
LEMMA ReadStep ==
  ReadInv /\ [Next]_vars
    => /\ UnreadBefore'
       /\ \A n \in Notes : note[n].readAt /\ note'[n].life = "stored" => note'[n].readAt
<1> SUFFICES ASSUME ReadInv, [Next]_vars
             PROVE  \A n \in Notes :
                      /\ note'[n].life = "none" => ~ note'[n].readAt
                      /\ note[n].readAt /\ note'[n].life = "stored" => note'[n].readAt
  BY DEF UnreadBefore
<1>1. NotesInv /\ TypeOK /\ \A n \in Notes : note[n].life = "none" => ~ note[n].readAt
  BY DEF ReadInv, NotesInv, UnreadBefore
<1>2. ASSUME NEW s \in Senders, CallStep(s)
      PROVE  \A n \in Notes : note'[n] = note[n] \/ Fresh(n)
  BY <1>1, <1>2, CallEffect DEF CallOutcome, CallDocs
<1>3. ASSUME NEW w \in Workers, HandlerStep(w)
      PROVE  \A n \in Notes : note'[n].life = note[n].life /\ note'[n].readAt = note[n].readAt
  BY <1>1, <1>3, HandlerEffect DEF HandlerDocs
<1>4. CASE ClearQueue \/ RetryFailedJobs
  BY <1>1, <1>4, QueueEffect
<1>5. ASSUME NEW u \in Users, OwnerStep(u)
      PROVE  \A n \in Notes : note'[n] = note[n] \/ WasRead(n) \/ WasDeleted(n)
  BY <1>1, <1>5, OwnerEffect
<1>6. CASE \E s \in Senders : CallStep(s)
  BY <1>1, <1>2, <1>6 DEF Fresh
<1>7. CASE \E w \in Workers : HandlerStep(w)
  BY <1>1, <1>3, <1>7
<1>8. CASE \E u \in Users : OwnerStep(u)
  BY <1>1, <1>5, <1>8 DEF WasRead, WasDeleted
<1>9. CASE Rests
  BY <1>1, <1>9 DEF Rests
<1>10. QED
  BY <1>4, <1>6, <1>7, <1>8, <1>9, Steps DEF HandlerStep

\* Nothing exists before the first call, and nothing is read.
LEMMA ReadInit == Init => ReadInv
<1>1. Init => NotesInv
  BY NotesInit
<1>2. Init => UnreadBefore
  BY NoDocType DEF Init, UnreadBefore
<1>3. QED
  BY <1>1, <1>2 DEF ReadInv

\* The mark of a reader stays for as long as the notification is stored: no worker that
\* saves a copy it loaded before the mark takes readAt back.
THEOREM ReadMarksStay == Spec => ReadMarkStays
<1>1. Init => ReadInv
  BY ReadInit
<1>2. ReadInv /\ [Next]_vars => ReadInv'
  BY NotesStep, ReadStep DEF ReadInv
<1>3. ReadInv /\ [Next]_vars
        => [\A n \in Notes : note[n].readAt /\ note'[n].life = "stored" => note'[n].readAt]_vars
  BY ReadStep
<1>4. QED
  BY <1>1, <1>2, <1>3, PTL DEF Spec, ReadMarkStays

-----------------------------------------------------------------------------
(* The status of a notification is earned *)

\* EarnedSoFar and StatusIsEarned, for one worker and for one notification.
WorkerEarned(w) ==
  /\ worker[w].op = "save" => worker[w].n \in Passed
  /\ worker[w].op = "count" => worker[w].copy.retry + 1 <= failures[worker[w].n]
DocEarned(n) ==
  /\ note[n].retry <= failures[n]
  /\ note[n].status = "sent" \/ note[n].sentAt => n \in Passed
  /\ note[n].status = "failed" => failures[n] >= MaxRetries

\* The two invariants, taken one worker and one notification at a time.
LEMMA EarnedParts ==
  EarnedSoFar /\ StatusIsEarned
    <=> (\A w \in Workers : WorkerEarned(w)) /\ (\A n \in Notes : DocEarned(n))
BY DEF EarnedSoFar, StatusIsEarned, WorkerEarned, DocEarned

\* A delivery and a failure stay what they were.
LEMMA HistoryGrows ==
  ASSUME EarnedInv, delivered \subseteq delivered', failures' \in [Notes -> Nat],
         \A n \in Notes : failures[n] <= failures'[n]
  PROVE  /\ \A n \in Notes : note'[n] = note[n] => DocEarned(n)'
         /\ \A w \in Workers : worker'[w] = worker[w] => WorkerEarned(w)'
<1>1. /\ \A n \in Notes : DocEarned(n)
      /\ \A w \in Workers : WorkerEarned(w)
      /\ TypeOK /\ \A w \in Workers : worker[w].op # "idle" => worker[w].n \in Notes
  BY EarnedParts DEF EarnedInv, NotesInv
<1>2. failures \in [Notes -> Nat] /\ \A n \in Notes : note[n].retry \in Nat
  BY <1>1 DEF TypeOK, NoteDoc
<1>3. \A w \in Workers : worker[w].copy.retry \in Nat
  BY <1>1 DEF TypeOK, Job, NoteDoc
<1>4. MaxRetries \in Nat
  BY ConstantsOK
<1>5. \A n \in Notes : note'[n] = note[n] => DocEarned(n)'
  BY <1>1, <1>2, <1>4, PassedGrows DEF DocEarned
<1>6. \A w \in Workers : worker'[w] = worker[w] => WorkerEarned(w)'
  BY <1>1, <1>2, <1>3, PassedGrows DEF WorkerEarned
<1>7. QED
  BY <1>5, <1>6

\* Every step keeps every status earned, and the copies of the workers as well.
LEMMA EarnedStep == EarnedInv /\ [Next]_vars => (EarnedSoFar /\ StatusIsEarned)'
<1> SUFFICES ASSUME EarnedInv, [Next]_vars
             PROVE  (\A w \in Workers : WorkerEarned(w)') /\ (\A n \in Notes : DocEarned(n)')
  BY DEF EarnedSoFar, StatusIsEarned, WorkerEarned, DocEarned
<1>1. /\ NotesInv /\ TypeOK
      /\ \A n \in Notes : DocEarned(n)
      /\ \A w \in Workers : WorkerEarned(w)
  BY EarnedParts DEF EarnedInv, NotesInv
<1>2. /\ failures \in [Notes -> Nat] /\ MaxRetries \in Nat \ {0}
      /\ \A n \in Notes : note[n].retry \in Nat /\ note[n].sentAt \in BOOLEAN
  BY <1>1, ConstantsOK DEF TypeOK, NoteDoc
<1>3. ASSUME delivered' = delivered, failures' = failures
      PROVE  /\ \A n \in Notes : note'[n] = note[n] => DocEarned(n)'
             /\ \A w \in Workers : worker'[w] = worker[w] => WorkerEarned(w)'
  <2>1. /\ delivered \subseteq delivered' /\ failures' \in [Notes -> Nat]
        /\ \A n \in Notes : failures[n] <= failures'[n]
    BY <1>2, <1>3
  <2>2. QED
    BY <2>1, HistoryGrows
<1>4. ASSUME NEW n \in Notes, failures' = failures, note'[n].retry = 0,
             note'[n].status \in {"pending"}, ~ note'[n].sentAt
      PROVE  DocEarned(n)'
  BY <1>2, <1>4 DEF DocEarned
<1>5. CASE \E s \in Senders : CallStep(s)
  <2>1. PICK s \in Senders : CallStep(s)
    BY <1>5
  <2>2. CallDocs(s) /\ CallFrame
    BY <1>1, <2>1, CallEffect DEF CallOutcome
  <2>3. \A n \in Notes : DocEarned(n)'
    BY <1>3, <1>4, <2>2 DEF CallDocs, CallFrame, Fresh
  <2>4. \A w \in Workers : WorkerEarned(w)'
    BY <1>3, <2>2 DEF CallFrame
  <2>5. QED
    BY <2>3, <2>4
<1>6. ASSUME NEW w \in Workers, NEW n \in Notes, ProcessLoad(w, n)
      PROVE  (\A v \in Workers : WorkerEarned(v)') /\ (\A m \in Notes : DocEarned(m)')
  <2>1. note' = note /\ delivered' = delivered /\ failures' = failures
    BY <1>6 DEF ProcessLoad, history
  <2>2. Moved(w, n) /\ worker'[w].op \in {"idle", "deliver"}
    BY <1>1, <1>6, LoadEffect
  <2>3. WorkerEarned(w)'
    BY <2>2 DEF WorkerEarned
  <2>4. QED
    BY <1>3, <2>1, <2>2, <2>3 DEF Moved
<1>7. ASSUME NEW w \in Workers, ProcessSave(w)
      PROVE  (\A v \in Workers : WorkerEarned(v)') /\ (\A m \in Notes : DocEarned(m)')
  <2>1. delivered' = delivered /\ failures' = failures
    BY <1>7 DEF ProcessSave, history
  <2>2. PICK n \in Notes : n = worker[w].n
    BY <1>1, <1>7, SaveEffect
  <2>3. /\ Stored(n) /\ Moved(w, n)
        /\ worker[w].op = "save" /\ worker'[w].op \in {"idle", "failure"}
        /\ note'[n].status = "sent" \/ note'[n].status = note[n].status
        /\ note'[n].retry = note[n].retry
    BY <1>1, <1>7, <2>2, SaveEffect
  <2>4. n \in Passed
    BY <1>1, <2>2, <2>3 DEF WorkerEarned
  <2>5. DocEarned(n)'
    BY <1>1, <2>1, <2>3, <2>4, PassedKept DEF DocEarned
  <2>6. \A m \in Notes : DocEarned(m)'
    BY <1>3, <2>1, <2>3, <2>5 DEF Stored
  <2>7. WorkerEarned(w)'
    BY <2>3 DEF WorkerEarned
  <2>8. QED
    BY <1>3, <2>1, <2>3, <2>6, <2>7 DEF Moved
<1>8. ASSUME NEW w \in Workers, FailureSave(w)
      PROVE  (\A v \in Workers : WorkerEarned(v)') /\ (\A m \in Notes : DocEarned(m)')
  <2> DEFINE old == worker[w].copy
  <2>1. delivered' = delivered /\ failures' = failures
    BY <1>8 DEF FailureSave, history
  <2>2. PICK n \in Notes : n = worker[w].n
    BY <1>1, <1>8, CountEffect
  <2>3. /\ old \in NoteDoc /\ Stored(n) /\ Moved(w, n)
        /\ worker[w].op = "count" /\ worker'[w].op \in {"idle", "requeue"}
        /\ note'[n].sentAt = note[n].sentAt
        /\ note'[n].retry \in {note[n].retry, old.retry + 1}
        /\ \/ note'[n].status = "failed" /\ old.retry + 1 >= MaxRetries
           \/ note'[n].status = note[n].status
    BY <1>1, <1>8, <2>2, CountEffect
  <2>4. old.retry \in Nat /\ old.retry + 1 <= failures[n]
    BY <1>1, <2>2, <2>3 DEF WorkerEarned, NoteDoc
  <2>5. DocEarned(n)'
    <3>1. note'[n].retry <= failures[n]
      BY <1>1, <2>3, <2>4 DEF DocEarned
    <3>2. note'[n].status = "failed" => failures[n] >= MaxRetries
      BY <1>1, <1>2, <2>3, <2>4 DEF DocEarned
    <3>3. note'[n].status = "sent" \/ note'[n].sentAt => n \in Passed
      BY <1>1, <2>3 DEF DocEarned
    <3>4. QED
      BY <2>1, <3>1, <3>2, <3>3, PassedKept DEF DocEarned
  <2>6. \A m \in Notes : DocEarned(m)'
    BY <1>3, <2>1, <2>3, <2>5 DEF Stored
  <2>7. WorkerEarned(w)'
    BY <2>3 DEF WorkerEarned
  <2>8. QED
    BY <1>3, <2>1, <2>3, <2>6, <2>7 DEF Moved
<1>9. ASSUME NEW w \in Workers, PlainStep(w)
      PROVE  (\A v \in Workers : WorkerEarned(v)') /\ (\A m \in Notes : DocEarned(m)')
  <2> DEFINE n == worker[w].n
  <2>1. n \in Notes /\ note' = note /\ PlainOutcome(w, n)
    BY <1>1, <1>9, PlainEffect
  <2>2. /\ delivered \subseteq delivered' /\ failures' \in [Notes -> Nat]
        /\ \A m \in Notes : failures[m] <= failures'[m]
        /\ \A v \in Workers : v # w => worker'[v] = worker[v]
    BY <2>1 DEF PlainOutcome, Moved
  <2>3. WorkerEarned(w)'
    <3>1. /\ worker'[w].op = "idle" \/ worker'[w].n = n
          /\ worker'[w].op = "save" => n \in Passed'
          /\ worker'[w].op = "count" => /\ worker'[w].copy = note[n]
                                        /\ failures'[n] = failures[n] + 1
      BY <2>1 DEF PlainOutcome, Moved
    <3>2. note[n].retry + 1 <= failures[n] + 1
      BY <1>1, <1>2, <2>1 DEF DocEarned
    <3>3. QED
      BY <3>1, <3>2 DEF WorkerEarned
  <2>4. QED
    BY <2>1, <2>2, <2>3, HistoryGrows
<1>10. CASE ClearQueue \/ RetryFailedJobs
  <2>1. /\ note' = note /\ worker' = worker
        /\ delivered' = delivered /\ failures' = failures
    BY <1>1, <1>10, QueueEffect
  <2>2. QED
    BY <1>3, <2>1
<1>11. CASE \E u \in Users : OwnerStep(u)
  <2>1. PICK u \in Users : OwnerStep(u)
    BY <1>11
  <2>2. /\ \A n \in Notes : note'[n] = note[n] \/ WasRead(n) \/ WasDeleted(n)
        /\ UNCHANGED <<sender, jobVars, history, faults>>
    BY <1>1, <2>1, OwnerEffect
  <2>3. worker' = worker /\ delivered' = delivered /\ failures' = failures
    BY <2>2 DEF jobVars, history
  <2>4. \A n \in Notes : WasRead(n) => DocEarned(n)'
    BY <1>1, <1>2, <2>3, PassedKept DEF WasRead, DocEarned
  <2>5. \A n \in Notes : WasDeleted(n) => DocEarned(n)'
    BY <1>4, <2>3 DEF WasDeleted
  <2>6. QED
    BY <1>3, <2>2, <2>3, <2>4, <2>5
<1>12. CASE Rests
  <2>1. /\ note' = note /\ worker' = worker
        /\ delivered' = delivered /\ failures' = failures
    BY <1>12 DEF Rests, jobVars, history
  <2>2. QED
    BY <1>3, <2>1
<1>13. QED
  BY <1>5, <1>6, <1>7, <1>8, <1>9, <1>10, <1>11, <1>12, Steps

\* Nothing is sent, counted or given up before the first call.
LEMMA EarnedInit == Init => EarnedInv
<1>1. Init => NotesInv
  BY NotesInit
<1>2. Init => EarnedSoFar /\ StatusIsEarned
  <2> SUFFICES ASSUME Init PROVE EarnedSoFar /\ StatusIsEarned
    OBVIOUS
  <2>1. \A n \in Notes : note[n] = NoDoc /\ failures[n] = 0
    BY DEF Init
  <2>2. \A w \in Workers : worker[w].op = "idle"
    BY DEF Init, NoJob
  <2>3. QED
    BY <2>1, <2>2, NoDocType DEF EarnedSoFar, StatusIsEarned
<1>3. QED
  BY <1>1, <1>2 DEF EarnedInv

\* A notification that claims to have been sent was taken or skipped by its channel, and
\* one that was given up failed maxRetries times, for any number of workers, stale copies, crashes
\* and retries of failed jobs.
THEOREM StatusesAreEarned == Spec => []StatusIsEarned
<1>1. Init => EarnedInv
  BY EarnedInit
<1>2. EarnedInv /\ [Next]_vars => EarnedInv'
  <2>1. EarnedInv /\ [Next]_vars => NotesInv'
    BY NotesStep DEF EarnedInv
  <2>2. QED
    BY <2>1, EarnedStep DEF EarnedInv
<1>3. EarnedInv => StatusIsEarned
  BY DEF EarnedInv
<1>4. QED
  BY <1>1, <1>2, <1>3, PTL DEF Spec

-----------------------------------------------------------------------------
(* A pending notification is in hand *)

CopyPending(w) ==
  worker[w].op # "idle"
    => /\ note[worker[w].n].life # "none"
       /\ Exists(worker[w].n) /\ note[worker[w].n].status = "pending"
            => worker[w].copy.status = "pending"
Queued(n) == Exists(n) /\ note[n].status = "pending" => InHand(n) \/ lost[n]

\* No step makes a notification pending again, or undoes that it was stored.
PendingOnlyOnce ==
  \A n \in Notes : /\ note[n].life # "none" => note'[n].life # "none"
                   /\ note[n].life # "none" /\ Exists(n)' => Exists(n)
                   /\ note[n].life # "none" /\ Exists(n)' /\ note'[n].status = "pending"
                        => note[n].status = "pending"

\* The copies of the workers stay what they were when no worker changes.
LEMMA CopiesKept ==
  ASSUME QueuedInv, PendingOnlyOnce
  PROVE  \A w \in Workers : worker'[w] = worker[w] => CopyPending(w)'
<1>1. /\ \A w \in Workers : CopyPending(w)
      /\ \A w \in Workers : worker[w].op # "idle" => worker[w].n \in Notes
  BY DEF QueuedInv, PendingCopies, CopyPending, NotesInv
<1>2. QED
  BY <1>1 DEF CopyPending, PendingOnlyOnce, Exists

\* A pending notification stays in hand when its jobs, its calls and the workers that
\* have it stay.
LEMMA HandKept ==
  ASSUME QueuedInv, NEW n \in Notes, note'[n] = note[n],
         waiting[n] > 0 \/ failedJob[n] > 0
           => waiting'[n] > 0 \/ failedJob'[n] > 0 \/ lost'[n],
         \A s \in Senders : n \in sender[s].add
                              => n \in sender'[s].add \/ waiting'[n] > 0 \/ lost'[n],
         \A w \in Workers : worker[w].n = n => worker'[w].n = n \/ waiting'[n] > 0,
         lost[n] => lost'[n]
  PROVE  Queued(n)'
<1>1. Exists(n) /\ note[n].status = "pending" => InHand(n) \/ lost[n]
  BY DEF QueuedInv, PendingIsQueued
<1>2. InHand(n) \/ lost[n] => (InHand(n) \/ lost[n])'
  BY DEF InHand
<1>3. QED
  BY <1>1, <1>2 DEF Queued, Exists

\* Every step keeps the pending notifications in hand.
LEMMA QueuedStep == QueuedInv /\ [Next]_vars => (PendingCopies /\ PendingIsQueued)'
<1> SUFFICES ASSUME QueuedInv, [Next]_vars
             PROVE  (\A w \in Workers : CopyPending(w)') /\ (\A n \in Notes : Queued(n)')
  BY DEF PendingCopies, PendingIsQueued, CopyPending, Queued
<1>1. /\ NotesInv /\ TypeOK
      /\ \A w \in Workers : CopyPending(w)
      /\ \A n \in Notes : Queued(n)
  BY DEF QueuedInv, NotesInv, PendingCopies, PendingIsQueued, CopyPending, Queued
<1>2. /\ waiting \in [Notes -> Nat] /\ failedJob \in [Notes -> Nat] /\ NoNote \notin Notes
  BY <1>1, ConstantsOK DEF TypeOK
<1>3. ASSUME \A n \in Notes : note'[n] = note[n]
      PROVE  PendingOnlyOnce
  BY <1>3 DEF PendingOnlyOnce, Exists
<1>4. CASE \E s \in Senders : CallStep(s)
  <2>1. PICK s \in Senders : CallStep(s)
    BY <1>4
  <2>2. CallDocs(s) /\ CallState(s) /\ CallQueue(s) /\ CallFrame
    BY <1>1, <2>1, CallEffect DEF CallOutcome
  <2>3. PendingOnlyOnce
    BY <2>2 DEF CallDocs, Fresh, PendingOnlyOnce, Exists
  <2>4. \A w \in Workers : CopyPending(w)'
    BY <2>2, <2>3, CopiesKept DEF CallFrame
  <2>5. ASSUME NEW n \in Notes
        PROVE  Queued(n)'
    <3>1. CASE Fresh(n) /\ n \in sender'[s].add
      BY <3>1 DEF Queued, InHand
    <3>2. CASE note'[n] = note[n]
      <4>1. /\ waiting[n] <= waiting'[n] /\ waiting'[n] \in Nat
            /\ failedJob' = failedJob /\ worker' = worker
            /\ lost[n] => lost'[n]
            /\ \A t \in Senders : n \in sender[t].add
                 => n \in sender'[t].add \/ waiting'[n] > 0 \/ lost'[n]
        BY <2>2 DEF CallState, CallQueue, CallFrame
      <4>2. waiting[n] > 0 => waiting'[n] > 0
        BY <1>2, <4>1
      <4>3. QED
        BY <3>2, <4>1, <4>2, HandKept
    <3>3. QED
      BY <2>2, <3>1, <3>2 DEF CallDocs
  <2>6. QED
    BY <2>4, <2>5
<1>5. ASSUME NEW w \in Workers, NEW m \in Notes, ProcessLoad(w, m)
      PROVE  (\A v \in Workers : CopyPending(v)') /\ (\A n \in Notes : Queued(n)')
  <2>1. note' = note /\ sender' = sender /\ failedJob' = failedJob /\ lost' = lost
    BY <1>5 DEF ProcessLoad, history
  <2>2. /\ \A n \in Notes : n # m => waiting'[n] = waiting[n]
        /\ Moved(w, m) /\ worker[w].n = NoNote /\ worker[w].op = "idle"
        /\ IF Exists(m) THEN /\ worker'[w].op = "deliver" /\ worker'[w].n = m
                             /\ worker'[w].copy = note[m]
                        ELSE worker' = worker
    BY <1>1, <1>5, LoadEffect
  <2>3. CopyPending(w)'
    BY <2>1, <2>2 DEF CopyPending, Exists
  <2>4. \A v \in Workers : CopyPending(v)'
    <3>1. PendingOnlyOnce
      BY <1>3, <2>1
    <3>2. QED
      BY <2>2, <2>3, <3>1, CopiesKept DEF Moved
  <2>5. ASSUME NEW n \in Notes
        PROVE  Queued(n)'
    <3>1. CASE n = m
      BY <2>1, <2>2, <3>1 DEF Queued, InHand, Exists
    <3>2. CASE n # m
      <4>1. \A v \in Workers : worker[v].n = n => worker'[v].n = n
        BY <1>2, <2>2 DEF Moved
      <4>2. QED
        BY <2>1, <2>2, <3>2, <4>1, HandKept
    <3>3. QED
      BY <3>1, <3>2
  <2>6. QED
    BY <2>4, <2>5
<1>6. ASSUME NEW w \in Workers, ProcessSave(w)
      PROVE  (\A v \in Workers : CopyPending(v)') /\ (\A n \in Notes : Queued(n)')
  <2>1. UNCHANGED <<sender, waiting, failedJob, lost>>
    BY <1>6 DEF ProcessSave, history
  <2>2. PICK m \in Notes : m = worker[w].n
    BY <1>1, <1>6, SaveEffect
  <2>3. /\ Stored(m) /\ Moved(w, m)
        /\ worker[w].op = "save" /\ worker'[w].op \in {"idle", "failure"}
        /\ \/ note'[m].status = "sent"
           \/ note'[m].status = note[m].status /\ worker[w].copy.status = "sent"
           \/ note' = note /\ ~ Exists(m)
    BY <1>1, <1>6, <2>2, SaveEffect
  <2>4. PendingOnlyOnce
    BY <2>3 DEF Stored, PendingOnlyOnce, Exists
  <2>5. ~ (Exists(m)' /\ note'[m].status = "pending")
    <3>1. note'[m].life = note[m].life
      BY <2>3 DEF Stored
    <3>2. Exists(m) /\ note[m].status = "pending" => worker[w].copy.status = "pending"
      BY <1>1, <2>2, <2>3 DEF CopyPending
    <3>3. QED
      BY <2>3, <3>1, <3>2 DEF Exists
  <2>6. note[m].life # "none"
    BY <1>1, <2>2, <2>3 DEF CopyPending
  <2>7. \A v \in Workers : CopyPending(v)'
    <3>1. CopyPending(w)'
      BY <2>3, <2>4, <2>5, <2>6 DEF CopyPending, Moved, PendingOnlyOnce
    <3>2. QED
      BY <2>3, <2>4, <3>1, CopiesKept DEF Moved
  <2>8. ASSUME NEW n \in Notes
        PROVE  Queued(n)'
    <3>1. CASE n = m
      BY <2>5, <3>1 DEF Queued
    <3>2. CASE n # m
      <4>1. \A v \in Workers : worker[v].n = n => worker'[v].n = n
        BY <2>2, <2>3, <3>2 DEF Moved
      <4>2. note'[n] = note[n]
        BY <2>3, <3>2 DEF Stored
      <4>3. QED
        BY <2>1, <4>1, <4>2, HandKept
    <3>3. QED
      BY <3>1, <3>2
  <2>9. QED
    BY <2>7, <2>8
<1>7. ASSUME NEW w \in Workers, FailureSave(w)
      PROVE  (\A v \in Workers : CopyPending(v)') /\ (\A n \in Notes : Queued(n)')
  <2>1. UNCHANGED <<sender, waiting, lost>>
    BY <1>7 DEF FailureSave, history
  <2>2. PICK m \in Notes : m = worker[w].n
    BY <1>1, <1>7, CountEffect
  <2> DEFINE old == worker[w].copy
  <2>3. /\ Stored(m) /\ Moved(w, m) /\ worker[w].op = "count"
        /\ note'[m].status = "failed" \/ note'[m].status = note[m].status
        /\ worker'[w].op \in {"idle", "requeue"}
        /\ \/ /\ ~ Exists(m) /\ failedJob'[m] > 0 /\ note' = note
              /\ \A n \in Notes : n # m => failedJob'[n] = failedJob[n]
           \/ /\ Exists(m) /\ failedJob' = failedJob
              /\ \/ old.status = "failed"
                 \/ note'[m].status = "failed"
                 \/ /\ worker'[w].n = m /\ worker'[w].op = "requeue"
                    /\ worker'[w].copy.status = old.status
    BY <1>1, <1>7, <2>2, CountEffect
  <2>4. /\ note'[m].life = note[m].life
        /\ \A n \in Notes : n # m => note'[n] = note[n] /\ failedJob'[n] = failedJob[n]
    BY <2>3 DEF Stored
  <2>5. PendingOnlyOnce
    BY <2>3, <2>4 DEF PendingOnlyOnce, Exists
  <2>6. Exists(m) /\ note[m].status = "pending" => old.status = "pending"
    BY <1>1, <2>2, <2>3 DEF CopyPending
  <2>7. Exists(m)' /\ note'[m].status = "pending"
          => worker'[w].n = m /\ worker'[w].copy.status = "pending"
    BY <2>3, <2>4, <2>6 DEF Exists
  <2>8. note[m].life # "none"
    BY <1>1, <2>2, <2>3 DEF CopyPending
  <2> HIDE DEF old
  <2>9. \A v \in Workers : CopyPending(v)'
    <3>1. CopyPending(w)'
      BY <2>3, <2>4, <2>7, <2>8 DEF CopyPending, Moved
    <3>2. QED
      BY <2>3, <2>5, <3>1, CopiesKept DEF Moved
  <2>10. ASSUME NEW n \in Notes
         PROVE  Queued(n)'
    <3>1. CASE n = m
      BY <2>7, <3>1 DEF Queued, InHand
    <3>2. CASE n # m
      <4>1. \A v \in Workers : worker[v].n = n => worker'[v].n = n
        BY <2>2, <2>3, <3>2 DEF Moved
      <4>2. QED
        BY <2>1, <2>4, <3>2, <4>1, HandKept
    <3>3. QED
      BY <3>1, <3>2
  <2>11. QED
    BY <2>9, <2>10
<1>8. ASSUME NEW w \in Workers, PlainStep(w)
      PROVE  (\A v \in Workers : CopyPending(v)') /\ (\A n \in Notes : Queued(n)')
  <2>1. PICK m \in Notes : m = worker[w].n
    BY <1>1, <1>8, PlainEffect
  <2>2. /\ worker[w].op # "idle" /\ note' = note /\ sender' = sender /\ lost' = lost
        /\ PlainOutcome(w, m)
    BY <1>1, <1>8, <2>1, PlainEffect
  <2>3. PendingOnlyOnce
    BY <1>3, <2>2
  <2>4. /\ note[m].life # "none"
        /\ Exists(m) /\ note[m].status = "pending" => worker[w].copy.status = "pending"
    BY <1>1, <2>1, <2>2 DEF CopyPending
  <2>5. \A v \in Workers : CopyPending(v)'
    <3>1. CopyPending(w)'
      BY <2>2, <2>4 DEF CopyPending, PlainOutcome, Moved, Exists
    <3>2. QED
      BY <2>2, <2>3, <3>1, CopiesKept DEF PlainOutcome, Moved
  <2>6. ASSUME NEW n \in Notes
        PROVE  Queued(n)'
    <3>1. /\ waiting[n] <= waiting'[n] /\ failedJob[n] <= failedJob'[n]
          /\ waiting'[n] \in Nat /\ failedJob'[n] \in Nat
      BY <2>2 DEF PlainOutcome
    <3>2. /\ waiting[n] > 0 => waiting'[n] > 0
          /\ failedJob[n] > 0 => failedJob'[n] > 0
      BY <1>2, <3>1
    <3>3. CASE n = m
      BY <2>2, <3>3 DEF Queued, InHand, PlainOutcome, Exists
    <3>4. CASE n # m
      <4>1. \A v \in Workers : worker[v].n = n => worker'[v].n = n
        BY <2>1, <2>2, <3>4 DEF PlainOutcome, Moved
      <4>2. QED
        BY <2>2, <3>2, <4>1, HandKept
    <3>5. QED
      BY <3>3, <3>4
  <2>7. QED
    BY <2>5, <2>6
<1>9. CASE ClearQueue \/ RetryFailedJobs
  <2>1. /\ \A n \in Notes : lost[n] => lost'[n]
        /\ \A n \in Notes : waiting[n] > 0 \/ failedJob[n] > 0
                              => waiting'[n] > 0 \/ failedJob'[n] > 0 \/ lost'[n]
        /\ note' = note /\ sender' = sender /\ worker' = worker
    BY <1>1, <1>9, QueueEffect
  <2>2. \A w \in Workers : CopyPending(w)'
    BY <1>3, <2>1, CopiesKept
  <2>3. \A n \in Notes : Queued(n)'
    BY <2>1, HandKept
  <2>4. QED
    BY <2>2, <2>3
<1>10. CASE \E u \in Users : OwnerStep(u)
  <2>1. PICK u \in Users : OwnerStep(u)
    BY <1>10
  <2>2. /\ \A n \in Notes : note'[n] = note[n] \/ WasRead(n) \/ WasDeleted(n)
        /\ UNCHANGED <<sender, jobVars, history, faults>>
    BY <1>1, <2>1, OwnerEffect
  <2>3. UNCHANGED <<sender, waiting, failedJob, worker, lost>>
    BY <2>2 DEF jobVars, history
  <2>4. PendingOnlyOnce
    BY <2>2 DEF PendingOnlyOnce, WasRead, WasDeleted, Exists
  <2>5. \A w \in Workers : CopyPending(w)'
    BY <2>3, <2>4, CopiesKept
  <2>6. \A n \in Notes : note'[n] = note[n] => Queued(n)'
    BY <2>3, HandKept
  <2>7. \A n \in Notes : WasRead(n) \/ WasDeleted(n) => Queued(n)'
    BY DEF Queued, WasRead, WasDeleted, Exists
  <2>8. QED
    BY <2>2, <2>5, <2>6, <2>7
<1>11. CASE Rests
  <2>1. UNCHANGED <<note, sender, waiting, failedJob, worker, lost>>
    BY <1>11 DEF Rests, jobVars, history
  <2>2. \A w \in Workers : CopyPending(w)'
    BY <1>3, <2>1, CopiesKept
  <2>3. \A n \in Notes : Queued(n)'
    BY <2>1, HandKept
  <2>4. QED
    BY <2>2, <2>3
<1>12. QED
  BY <1>4, <1>5, <1>6, <1>7, <1>8, <1>9, <1>10, <1>11, Steps

\* Nothing is pending before the first call, and no worker has a copy.
LEMMA QueuedInit == Init => QueuedInv
<1>1. Init => NotesInv
  BY NotesInit
<1>2. Init => PendingCopies /\ PendingIsQueued
  <2> SUFFICES ASSUME Init PROVE PendingCopies /\ PendingIsQueued
    OBVIOUS
  <2>1. \A n \in Notes : ~ Exists(n)
    BY DEF Init, NoDoc, Exists
  <2>2. \A w \in Workers : worker[w].op = "idle"
    BY DEF Init, NoJob
  <2>3. QED
    BY <2>1, <2>2 DEF PendingCopies, PendingIsQueued
<1>3. QED
  BY <1>1, <1>2 DEF QueuedInv

\* A pending notification has a job, waiting or failed, or a worker, or a call that will
\* add its job, unless its job was lost: no interleaving of workers, owners and
\* administrators drops it otherwise.
THEOREM PendingIsInHand == Spec => []PendingIsQueued
<1>1. Init => QueuedInv
  BY QueuedInit
<1>2. QueuedInv /\ [Next]_vars => QueuedInv'
  <2>1. QueuedInv /\ [Next]_vars => NotesInv'
    BY NotesStep DEF QueuedInv
  <2>2. QED
    BY <2>1, QueuedStep DEF QueuedInv
<1>3. QueuedInv => PendingIsQueued
  BY DEF QueuedInv
<1>4. QED
  BY <1>1, <1>2, <1>3, PTL DEF Spec

-----------------------------------------------------------------------------
(* The refinement of NotificationContract *)

\* What the contract sees of the workers: what they know of what was delivered, counted
\* and stored.
KeptInv == EarnedInv /\ QueuedInv

\* The steps of the contract, and its stuttering.
NoteContractNext == Contract!Next \/ UNCHANGED Contract!vars

\* A step that changes neither a phase nor an owner nor a mark nor the history of a
\* notification is a stuttering step.
LEMMA NoteStutters ==
  ASSUME \A n \in Notes : /\ Phase(n)' = Phase(n)
                          /\ note'[n].userId = note[n].userId
                          /\ note'[n].readAt = note[n].readAt,
         delivered' = delivered, failures' = failures
  PROVE  NoteContractNext
<1>1. [n \in Notes |-> Phase(n)]' = [n \in Notes |-> Phase(n)]
  OBVIOUS
<1>2. [n \in Notes |-> note[n].userId]' = [n \in Notes |-> note[n].userId]
  OBVIOUS
<1>3. [n \in Notes |-> note[n].readAt]' = [n \in Notes |-> note[n].readAt]
  OBVIOUS
<1>4. QED
  BY <1>1, <1>2, <1>3 DEF NoteContractNext, Contract!vars, Went

\* The same when no document changes.
LEMMA SameNotes ==
  ASSUME note' = note
  PROVE  /\ [n \in Notes |-> Phase(n)]' = [n \in Notes |-> Phase(n)]
         /\ [n \in Notes |-> note[n].userId]' = [n \in Notes |-> note[n].userId]
         /\ [n \in Notes |-> note[n].readAt]' = [n \in Notes |-> note[n].readAt]
BY DEF Phase

\* Notifications that change their phase together.
LEMMA Become ==
  ASSUME NEW ns \in SUBSET Notes, NEW from, NEW to,
         \A n \in ns : Phase(n) \in from /\ Phase(n)' = to,
         \A n \in Notes \ ns : Phase(n)' = Phase(n)
  PROVE  Contract!Become(ns, from, to)
BY DEF Contract!Become, Contract!Set

\* One notification whose status changes, with its owner and its mark left alone, was
\* settled after it had passed its channel, or given up after maxRetries failures.
LEMMA StatusSteps ==
  ASSUME NotesInv, NEW n \in Notes, Stored(n),
         delivered' = delivered, failures' = failures,
         Exists(n) \/ note' = note,
         \/ note'[n].status = note[n].status
         \/ note'[n].status = "sent" /\ n \in Passed
         \/ note'[n].status = "failed" /\ failures[n] >= MaxRetries
  PROVE  NoteContractNext
<1>1. /\ \A m \in Notes : /\ note'[m].userId = note[m].userId
                          /\ note'[m].readAt = note[m].readAt
      /\ \A m \in Notes : m # n => Phase(m)' = Phase(m)
  BY DEF Stored, Phase
<1>2. /\ [m \in Notes |-> note[m].userId]' = [m \in Notes |-> note[m].userId]
      /\ [m \in Notes |-> note[m].readAt]' = [m \in Notes |-> note[m].readAt]
  BY <1>1
<1>3. CASE Phase(n)' = Phase(n)
  BY <1>1, <1>3, NoteStutters
<1>4. CASE Phase(n)' # Phase(n)
  <2>1. Exists(n) /\ note'[n].life = "stored"
    BY <1>4 DEF Exists, Phase, Stored
  <2>2. Phase(n) = note[n].status /\ Phase(n)' = note'[n].status
    BY <2>1 DEF Exists, Phase
  <2>3. Phase(n) \in Contract!Kept
    BY <2>2 DEF NotesInv, TypeOK, NoteDoc, NoteStatus, Contract!Kept
  <2>4. CASE note'[n].status = "sent" /\ n \in Passed
    <3>1. Contract!Become({n}, Contract!Kept, "sent")
      BY <1>1, <2>2, <2>3, <2>4, Become
    <3>2. Contract!Settle(n)
      BY <1>2, <2>4, <3>1 DEF Contract!Settle, Passed, Went
    <3>3. QED
      BY <3>2 DEF NoteContractNext, Contract!Next
  <2>5. CASE note'[n].status = "failed" /\ failures[n] >= MaxRetries
    <3>1. Contract!Become({n}, Contract!Kept, "failed")
      BY <1>1, <2>2, <2>3, <2>5, Become
    <3>2. Contract!GiveUp(n)
      BY <1>2, <2>5, <3>1 DEF Contract!GiveUp, Went
    <3>3. QED
      BY <3>2 DEF NoteContractNext, Contract!Next
  <2>6. QED
    BY <1>4, <2>2, <2>4, <2>5
<1>5. QED
  BY <1>3, <1>4

\* Notifications that a call stores arrive.
LEMMA ArriveSteps ==
  ASSUME NotesInv, NEW ns \in SUBSET Notes, note' \in [Notes -> NoteDoc],
         \A n \in Notes : IF n \in ns THEN Fresh(n) ELSE note'[n] = note[n],
         UnreadBefore, delivered' = delivered, failures' = failures
  PROVE  NoteContractNext
<1>1. Contract!Become(ns, {"none"}, "pending")
  <2>1. \A n \in ns : Phase(n) \in {"none"} /\ Phase(n)' = "pending"
    BY DEF Fresh, Phase
  <2>2. \A n \in Notes \ ns : Phase(n)' = Phase(n)
    BY DEF Phase
  <2>3. QED
    BY <2>1, <2>2, Become
<1>2. /\ [n \in Notes |-> note[n].userId]' \in [Notes -> Users \cup {NoUser}]
      /\ \A n \in Notes : IF n \in ns THEN note'[n].userId \in Users
                                      ELSE note'[n].userId = note[n].userId
  BY DEF Fresh, NoteDoc
<1>3. [n \in Notes |-> note[n].readAt]' = [n \in Notes |-> note[n].readAt]
  <2>1. \A n \in Notes : note[n].readAt \in BOOLEAN /\ note'[n].readAt \in BOOLEAN
    BY DEF NotesInv, TypeOK, NoteDoc
  <2>2. \A n \in Notes : note'[n].readAt = note[n].readAt
    BY <2>1 DEF Fresh, UnreadBefore
  <2>3. QED
    BY <2>2
<1>4. Contract!Arrive(ns)
  BY <1>1, <1>2, <1>3 DEF Contract!Arrive, Went
<1>5. QED
  BY <1>4 DEF NoteContractNext, Contract!Next

\* Notifications of one user that he reads.
LEMMA ReadSteps ==
  ASSUME NotesInv, NEW u \in Users, NEW ns \in SUBSET OwnedBy(u),
         \A n \in Notes : note'[n] = IF n \in ns THEN Reading(note[n]) ELSE note[n],
         delivered' = delivered, failures' = failures
  PROVE  NoteContractNext
<1>1. /\ ns \in SUBSET Notes
      /\ \A n \in ns : note[n].life = "stored" /\ note[n].userId = u
  BY DEF OwnedBy, Exists
<1>2. \A n \in ns : /\ note'[n].life = "stored" /\ note'[n].userId = note[n].userId
                    /\ note'[n].status = "read" /\ note'[n].readAt = TRUE
                    /\ note[n].status \in NoteStatus
  <2>1. \A n \in Notes : note[n] \in NoteDoc
    BY DEF NotesInv, TypeOK
  <2>2. \A n \in Notes : LET doc == Reading(note[n])
                         IN  /\ doc.life = note[n].life /\ doc.userId = note[n].userId
                             /\ doc.status = "read" /\ doc.readAt = TRUE
    BY <2>1 DEF Reading, NoteDoc
  <2>3. QED
    BY <1>1, <2>1, <2>2 DEF NoteDoc
<1>3. Contract!Become(ns, Contract!Kept, "read")
  <2>1. \A n \in ns : Phase(n) \in Contract!Kept /\ Phase(n)' = "read"
    BY <1>1, <1>2 DEF Phase, NoteStatus, Contract!Kept
  <2>2. \A n \in Notes \ ns : Phase(n)' = Phase(n)
    BY DEF Phase
  <2>3. QED
    BY <1>1, <2>1, <2>2, Become
<1>4. [n \in Notes |-> note[n].userId]' = [n \in Notes |-> note[n].userId]
  BY <1>2
<1>5. [n \in Notes |-> note[n].readAt]'
        = Contract!Set([n \in Notes |-> note[n].readAt], ns, TRUE)
  BY <1>2 DEF Contract!Set
<1>6. Contract!Read(u, ns)
  BY <1>1, <1>3, <1>4, <1>5 DEF Contract!Read, Went
<1>7. QED
  BY <1>1, <1>6 DEF NoteContractNext, Contract!Next

\* Notifications of one user that he deletes.
LEMMA DiscardSteps ==
  ASSUME NotesInv, NEW u \in Users, NEW ns \in SUBSET OwnedBy(u),
         \A n \in Notes : note'[n] = IF n \in ns THEN [NoDoc EXCEPT !.life = "deleted"]
                                                 ELSE note[n],
         delivered' = delivered, failures' = failures
  PROVE  NoteContractNext
<1>1. /\ ns \in SUBSET Notes
      /\ \A n \in ns : note[n].life = "stored" /\ note[n].userId = u
  BY DEF OwnedBy, Exists
<1>2. \A n \in ns : /\ note'[n].life = "deleted" /\ note'[n].userId = NoUser
                    /\ note'[n].readAt = FALSE /\ note[n].status \in NoteStatus
  <2>1. LET doc == [NoDoc EXCEPT !.life = "deleted"]
        IN  doc.life = "deleted" /\ doc.userId = NoUser /\ doc.readAt = FALSE
    BY DEF NoDoc
  <2>2. \A n \in Notes : note[n].status \in NoteStatus
    BY DEF NotesInv, TypeOK, NoteDoc
  <2>3. QED
    BY <1>1, <2>1, <2>2
<1>3. Contract!Become(ns, Contract!Kept, "gone")
  <2>1. \A n \in ns : Phase(n) \in Contract!Kept /\ Phase(n)' = "gone"
    BY <1>1, <1>2 DEF Phase, NoteStatus, Contract!Kept
  <2>2. \A n \in Notes \ ns : Phase(n)' = Phase(n)
    BY DEF Phase
  <2>3. QED
    BY <1>1, <2>1, <2>2, Become
<1>4. [n \in Notes |-> note[n].userId]'
        = Contract!Set([n \in Notes |-> note[n].userId], ns, NoUser)
  BY <1>2 DEF Contract!Set
<1>5. [n \in Notes |-> note[n].readAt]'
        = Contract!Set([n \in Notes |-> note[n].readAt], ns, FALSE)
  BY <1>2 DEF Contract!Set
<1>6. Contract!Discard(u, ns)
  BY <1>1, <1>3, <1>4, <1>5 DEF Contract!Discard, Went
<1>7. QED
  BY <1>1, <1>6 DEF NoteContractNext, Contract!Next

\* A worker delivers, fails, gives its job back or saves within the contract.
LEMMA WorkerKeeps ==
  ASSUME KeptInv, NEW w \in Workers, HandlerStep(w)
  PROVE  NoteContractNext
<1>1. /\ NotesInv /\ TypeOK
      /\ WorkerEarned(w)
      /\ worker[w].op # "idle" => note[worker[w].n].life # "none"
  BY EarnedParts DEF KeptInv, EarnedInv, QueuedInv, NotesInv, PendingCopies
<1>2. ASSUME note' = note, delivered' = delivered, failures' = failures
      PROVE  NoteContractNext
  BY <1>2, SameNotes DEF NoteContractNext, Contract!vars, Went
<1>3. ASSUME NEW n \in Notes, ProcessLoad(w, n)
      PROVE  NoteContractNext
  BY <1>2, <1>3 DEF ProcessLoad, history
<1>4. CASE ProcessSave(w)
  <2>1. delivered' = delivered /\ failures' = failures
    BY <1>4 DEF ProcessSave, history
  <2>2. PICK n \in Notes : n = worker[w].n
    BY <1>1, <1>4, SaveEffect
  <2>3. /\ Stored(n) /\ worker[w].op = "save"
        /\ note'[n].status = "sent" \/ note'[n].status = note[n].status
    BY <1>1, <1>4, <2>2, SaveEffect
  <2>4. n \in Passed
    BY <1>1, <2>2, <2>3 DEF WorkerEarned
  <2>5. Exists(n) \/ note' = note
    BY <1>4, <2>2 DEF ProcessSave
  <2>6. QED
    BY <1>1, <2>1, <2>3, <2>4, <2>5, StatusSteps
<1>5. CASE FailureSave(w)
  <2> DEFINE old == worker[w].copy
  <2>1. delivered' = delivered /\ failures' = failures
    BY <1>5 DEF FailureSave, history
  <2>2. PICK n \in Notes : n = worker[w].n
    BY <1>1, <1>5, CountEffect
  <2>3. /\ old \in NoteDoc /\ Stored(n) /\ worker[w].op = "count"
        /\ \/ note'[n].status = "failed" /\ old.retry + 1 >= MaxRetries
           \/ note'[n].status = note[n].status
        /\ Exists(n) \/ note' = note
    BY <1>1, <1>5, <2>2, CountEffect
  <2>4. old.retry + 1 <= failures[n] /\ old.retry \in Nat /\ failures[n] \in Nat
    BY <1>1, <2>2, <2>3 DEF WorkerEarned, NoteDoc, TypeOK
  <2>5. \/ note'[n].status = "failed" /\ failures[n] >= MaxRetries
        \/ note'[n].status = note[n].status
    BY <2>3, <2>4, ConstantsOK
  <2>6. QED
    BY <1>1, <2>1, <2>3, <2>5, StatusSteps
<1>6. CASE Deliver(w) \/ FailureLoad(w)
  <2>1. PlainStep(w)
    BY <1>6 DEF PlainStep
  <2>2. worker[w].op # "idle" /\ worker[w].n \in Notes /\ note' = note
    BY <1>1, <2>1, PlainEffect
  <2>3. PICK n \in Notes : n = worker[w].n
    BY <2>2
  <2>4. Phase(n) # "none"
    BY <1>1, <2>2, <2>3 DEF Phase, TypeOK, NoteDoc, NoteStatus
  <2>5. [m \in Notes |-> Phase(m)][n] # "none"
    BY <2>4
  <2>6. CASE Deliver(w)
    <3>1. /\ \/ delivered' = delivered \/ delivered' = delivered \cup {<<n, "taken">>}
             \/ delivered' = delivered \cup {<<n, "skipped">>}
          /\ failures' = failures
      BY <2>3, <2>6 DEF Deliver, Ways
    <3>2. CASE delivered' = delivered \cup {<<n, "taken">>}
      <4>1. Went("taken")' = Went("taken") \cup {n} /\ Went("skipped")' = Went("skipped")
        BY <2>2, <2>3, <3>2 DEF Went
      <4>2. Contract!Hand(n)
        BY <2>2, <2>5, <3>1, <4>1, SameNotes DEF Contract!Hand
      <4>3. QED
        BY <4>2 DEF NoteContractNext, Contract!Next
    <3>3. CASE delivered' = delivered \cup {<<n, "skipped">>}
      <4>1. Went("skipped")' = Went("skipped") \cup {n} /\ Went("taken")' = Went("taken")
        BY <2>2, <2>3, <3>3 DEF Went
      <4>2. Contract!Skip(n)
        BY <2>2, <2>5, <3>1, <4>1, SameNotes DEF Contract!Skip
      <4>3. QED
        BY <4>2 DEF NoteContractNext, Contract!Next
    <3>4. CASE delivered' = delivered
      BY <1>2, <2>2, <3>1, <3>4
    <3>5. QED
      BY <3>1, <3>2, <3>3, <3>4
  <2>7. CASE FailureLoad(w)
    <3>1. failures' = [failures EXCEPT ![n] = @ + 1] /\ delivered' = delivered
      BY <2>3, <2>7 DEF FailureLoad
    <3>2. Contract!Miss(n)
      BY <2>2, <2>5, <3>1, SameNotes DEF Contract!Miss, Went
    <3>3. QED
      BY <3>2 DEF NoteContractNext, Contract!Next
  <2>8. QED
    BY <1>6, <2>6, <2>7
<1>7. CASE Requeue(w) \/ ProcessSaveFails(w) \/ FailureThrows(w) \/ WorkerDies(w)
  BY <1>2, <1>7 DEF Requeue, ProcessSaveFails, FailureThrows, WorkerDies, history
<1>8. QED
  BY <1>3, <1>4, <1>5, <1>6, <1>7 DEF HandlerStep, PlainStep

\* A call stores its notifications within the contract.
LEMMA CallKeepsContract ==
  ASSUME NotesInv, UnreadBefore, NEW s \in Senders, CallStep(s)
  PROVE  NoteContractNext
<1>1. TypeOK
  BY DEF NotesInv
<1>2. delivered' = delivered /\ failures' = failures
  BY CallEffect DEF CallOutcome, CallFrame
<1>3. ASSUME NEW n \in Notes, NEW r \in Users \cup Barbers, CreateNotification(s, n, r)
      PROVE  NoteContractNext
  <2>1. /\ note' \in [Notes -> NoteDoc] /\ Fresh(n)
        /\ \A m \in Notes : m # n => note'[m] = note[m]
    BY <1>1, <1>3, CreateEffect
  <2>2. \A m \in Notes : IF m \in {n} THEN Fresh(m) ELSE note'[m] = note[m]
    BY <2>1
  <2>3. QED
    BY <1>2, <2>1, <2>2, ArriveSteps
<1>4. ASSUME NEW users \in SUBSET Users \ {{}}, Broadcast(s, users)
      PROVE  NoteContractNext
  <2>1. PICK add \in SUBSET Notes :
          \A n \in Notes : IF n \in add THEN Fresh(n) ELSE note'[n] = note[n]
    BY <1>1, <1>4, BroadcastEffect
  <2>2. note' \in [Notes -> NoteDoc]
    BY <1>1, <1>4, BroadcastEffect
  <2>3. QED
    BY <1>2, <2>1, <2>2, ArriveSteps
<1>5. CASE (\E left \in 1 .. 2 : Send(s, left)) \/ (\E n \in Notes : Enqueue(s, n)) \/ SendAbort(s)
  <2>1. note' = note
    BY <1>5 DEF Send, Enqueue, SendAbort
  <2>2. QED
    BY <1>2, <2>1, SameNotes DEF NoteContractNext, Contract!vars, Went
<1>6. QED
  BY <1>3, <1>4, <1>5 DEF CallStep

\* Every step of the senders, the workers, the owners and the administrators is a step
\* of the contract, or none.
LEMMA NoteContractStep ==
  ASSUME KeptInv, UnreadBefore, [Next]_vars
  PROVE  NoteContractNext
<1>1. NotesInv /\ TypeOK
  BY DEF KeptInv, EarnedInv, NotesInv
<1>2. ASSUME note' = note, delivered' = delivered, failures' = failures
      PROVE  NoteContractNext
  BY <1>2, SameNotes DEF NoteContractNext, Contract!vars, Went
<1>3. ASSUME NEW u \in Users, OwnerStep(u)
      PROVE  NoteContractNext
  <2>1. delivered' = delivered /\ failures' = failures
    BY <1>1, <1>3, OwnerEffect DEF history
  <2>2. note \in [Notes -> NoteDoc] /\ OwnedBy(u) \subseteq Notes
    BY <1>1 DEF TypeOK, OwnedBy
  <2>3. ASSUME NEW n \in Notes, MarkAsRead(u, n)
        PROVE  NoteContractNext
    <3>1. /\ {n} \in SUBSET OwnedBy(u)
          /\ \A m \in Notes : note'[m] = IF m \in {n} THEN Reading(note[m]) ELSE note[m]
      BY <2>2, <2>3 DEF MarkAsRead
    <3>2. QED
      BY <1>1, <2>1, <3>1, ReadSteps
  <2>4. ASSUME NEW n \in Notes, DeleteNotification(u, n)
        PROVE  NoteContractNext
    <3>1. /\ {n} \in SUBSET OwnedBy(u)
          /\ \A m \in Notes : note'[m] = IF m \in {n} THEN [NoDoc EXCEPT !.life = "deleted"]
                                                      ELSE note[m]
      BY <2>2, <2>4 DEF DeleteNotification
    <3>2. QED
      BY <1>1, <2>1, <3>1, DiscardSteps
  <2>5. CASE MarkAllAsRead(u)
    <3> DEFINE ns == {n \in OwnedBy(u) : note[n].status \in Unread}
    <3>1. /\ ns \in SUBSET OwnedBy(u)
          /\ \A m \in Notes : note'[m] = IF m \in ns THEN Reading(note[m]) ELSE note[m]
      BY <2>2, <2>5 DEF MarkAllAsRead
    <3> HIDE DEF ns
    <3>2. QED
      BY <1>1, <2>1, <3>1, ReadSteps
  <2>6. CASE DeleteAllNotifications(u)
    <3>1. \A m \in Notes : note'[m] = IF m \in OwnedBy(u) THEN [NoDoc EXCEPT !.life = "deleted"]
                                                          ELSE note[m]
      BY <2>2, <2>6 DEF DeleteAllNotifications
    <3>2. QED
      BY <1>1, <2>1, <3>1, DiscardSteps
  <2>7. QED
    BY <1>3, <2>3, <2>4, <2>5, <2>6 DEF OwnerStep
<1>4. CASE ClearQueue \/ RetryFailedJobs
  BY <1>1, <1>2, <1>4, QueueEffect
<1>5. CASE Rests
  BY <1>2, <1>5 DEF Rests, history
<1>6. CASE \E s \in Senders : CallStep(s)
  BY <1>1, <1>6, CallKeepsContract
<1>7. CASE \E w \in Workers : HandlerStep(w)
  BY <1>7, WorkerKeeps
<1>8. QED
  BY <1>3, <1>4, <1>5, <1>6, <1>7, Steps DEF HandlerStep

\* Before anything is created the contract is in its initial state.
LEMMA NoteContractInit == Init => Contract!Init
<1> SUFFICES ASSUME Init PROVE Contract!Init
  OBVIOUS
<1>1. \A n \in Notes : Phase(n) = "none" /\ note[n].userId = NoUser /\ note[n].readAt = FALSE
  BY DEF Init, NoDoc, Phase
<1>2. Went("taken") = {} /\ Went("skipped") = {} /\ failures = [n \in Notes |-> 0]
  BY DEF Init, Went
<1>3. QED
  BY <1>1, <1>2 DEF Contract!Init

\* The senders, the workers, the owners and the administrators of the queue together
\* implement NotificationContract: a notification is its owner's until he deletes it, is
\* pending once, and says of itself only what happened.
THEOREM ImplementsNoteContract == Spec => KeepsNoteContract
<1>1. Init => KeptInv /\ UnreadBefore /\ Contract!Init
  BY EarnedInit, QueuedInit, ReadInit, NoteContractInit DEF KeptInv, ReadInv
<1>2. KeptInv /\ UnreadBefore /\ [Next]_vars => (KeptInv /\ UnreadBefore)'
  <2>1. KeptInv /\ [Next]_vars => KeptInv'
    BY NotesStep, EarnedStep, QueuedStep DEF KeptInv, EarnedInv, QueuedInv
  <2>2. KeptInv /\ UnreadBefore /\ [Next]_vars => UnreadBefore'
    BY ReadStep DEF KeptInv, EarnedInv, ReadInv
  <2>3. QED
    BY <2>1, <2>2
<1>3. KeptInv /\ UnreadBefore /\ [Next]_vars => [Contract!Next]_(Contract!vars)
  BY NoteContractStep DEF NoteContractNext
<1>4. QED
  BY <1>1, <1>2, <1>3, PTL DEF Spec, KeepsNoteContract, Contract!Spec

-----------------------------------------------------------------------------
(* Jobs: the inductive invariant *)

Task == [kind : AllKinds, state : TaskStates, plan : Seq(Calls),
         failing : BOOLEAN, tries : Nat, stalls : Nat]

\* Types; the calls that are left are calls of the kind, and only an attempt in progress
\* has calls left, or a catch that runs.
Typed(t, m) ==
  /\ t \in Task /\ m \in [Calls -> Nat]
  /\ Elements(t.plan) \subseteq Elements(IF t.failing THEN Rescue(t.kind) ELSE Script(t.kind))
  /\ t.state # "active" => t.plan = <<>> /\ ~ t.failing

Untried(t) == t.tries = 0 /\ t.stalls = 0

\* What was never tried has done nothing.
UntriedDidNothing(t, m) ==
  t.state \in {"none", "delayed", "waiting"} /\ Untried(t) => \A c \in Calls : m[c] = 0

\* Only a cleanup may miss a notice, when an earlier attempt was broken off.
Covered(t, m, c) == m[c] > 0 \/ (t.kind = "cleanup" /\ c[1] # "cancel" /\ ~ Untried(t))

\* An attempt that has not thrown has each call of the job before it, or behind it.
CallsAreInHand(t, m) ==
  t.state = "active" /\ ~ t.failing =>
    \A c \in Elements(Script(t.kind)) : c \in Elements(t.plan) \/ Covered(t, m, c)

\* A job that is done has made its calls, and one given up is spent.
EndIsEarned(t, m) ==
  /\ t.state = "done" => \A c \in Elements(Script(t.kind)) : Covered(t, m, c)
  /\ t.state = "failed" => t.tries >= Attempts[t.kind] \/ t.stalls > 1

Charge == <<"stripe", "charge">>
PaidNotices == {<<"push", "paid">>, <<"email", "paid">>}
Cancels == {<<"cancel", b>> : b \in Elements(Expirable)}

\* What NoticesAreTrue says of one job.
Announced(m) ==
  /\ \A n \in PaidNotices : m[n] <= m[Charge]
  /\ \A c \in Cancels : m[c] <= 1

\* The places at which process-payment can be.
PaymentPlans == {Script("payment"), Notices("paid"), << <<"email", "paid">> >>, <<>>}

\* As long as an announcement is before the job, and its charge behind it, that charge
\* is not announced.
ChargeComesFirst(t, m) ==
  t.kind = "payment" /\ ~ t.failing =>
    /\ t.plan \in PaymentPlans
    /\ \A n \in PaidNotices \cap Elements(t.plan) :
         Charge \notin Elements(t.plan) => m[n] < m[Charge]

Distinct(s) == \A i, k \in DOMAIN s : s[i] = s[k] => i = k

\* A cleanup is about to cancel only what it has not cancelled, and each booking once.
CancelsAreNew(t, m) ==
  /\ \A c \in Cancels \cap Elements(t.plan) : m[c] = 0
  /\ t.kind = "cleanup" => Distinct(t.plan)

Good(t, m) ==
  /\ Typed(t, m) /\ UntriedDidNothing(t, m) /\ CallsAreInHand(t, m) /\ EndIsEarned(t, m)
  /\ Announced(m) /\ ChargeComesFirst(t, m) /\ CancelsAreNew(t, m)

JobsInv ==
  /\ task \in [Jobs -> Task] /\ made \in [Jobs -> [Calls -> Nat]]
  /\ \A j \in Jobs : Good(task[j], made[j])
  /\ paused \subseteq AdminQueues
  /\ mishaps \in 0 .. MaxMishaps
  /\ retried \in 0 .. MaxRetried

-----------------------------------------------------------------------------
(* Jobs: plans *)

Plan(s) == s \in Seq(Elements(s))

\* The elements of a sequence are those of its parts.
LEMMA ConcatElements ==
  ASSUME NEW s, NEW t, Plan(s), Plan(t)
  PROVE  Plan(s \o t) /\ Elements(s \o t) = Elements(s) \cup Elements(t)
<1> DEFINE S == Elements(s) \cup Elements(t)
<1>1. s \in Seq(S) /\ t \in Seq(S)
  BY SeqMonotonic DEF Plan
<1>2. \A u : Elements(u) = Range(u)
  BY DEF Elements, Range
<1>3. s \o t \in Seq(S) /\ Range(s \o t) = Range(s) \cup Range(t)
  BY <1>1, ConcatProperties, RangeConcatenation
<1>4. QED
  BY <1>2, <1>3 DEF Plan

\* Taking the head of a sequence.
LEMMA TakeHead ==
  ASSUME NEW S, NEW s \in Seq(S), s # <<>>
  PROVE  /\ Head(s) \in S /\ Tail(s) \in Seq(S)
         /\ Elements(s) = {Head(s)} \cup Elements(Tail(s))
         /\ Distinct(s) => Distinct(Tail(s)) /\ Head(s) \notin Elements(Tail(s))
<1>1. /\ Head(s) = s[1] /\ Len(s) \in Nat \ {0} /\ DOMAIN s = 1 .. Len(s)
      /\ Tail(s) \in Seq(S) /\ DOMAIN Tail(s) = 1 .. (Len(s) - 1)
      /\ \A i \in 1 .. (Len(s) - 1) : Tail(s)[i] = s[i + 1]
  BY HeadTailProperties, LenProperties, EmptySeq
<1>2. Elements(Tail(s)) = {s[i] : i \in 2 .. Len(s)}
  <2>1. ASSUME NEW i \in 2 .. Len(s) PROVE s[i] \in Elements(Tail(s))
    <3>1. i - 1 \in 1 .. (Len(s) - 1) /\ Tail(s)[i - 1] = s[i]
      BY <1>1
    <3>2. QED
      BY <1>1, <3>1 DEF Elements
  <2>2. ASSUME NEW i \in 1 .. (Len(s) - 1) PROVE Tail(s)[i] \in {s[k] : k \in 2 .. Len(s)}
    BY <1>1
  <2>3. QED
    BY <1>1, <2>1, <2>2 DEF Elements
<1>3. Elements(s) = {Head(s)} \cup Elements(Tail(s))
  <2>1. 1 .. Len(s) = {1} \cup 2 .. Len(s)
    BY <1>1
  <2>2. QED
    BY <1>1, <1>2, <2>1 DEF Elements
<1>4. ASSUME Distinct(s) PROVE Distinct(Tail(s)) /\ Head(s) \notin Elements(Tail(s))
  BY <1>1, <1>2, <1>4 DEF Distinct
<1>5. QED
  BY <1>1, <1>3, <1>4, HeadTailProperties

\* The two notices.
LEMMA TwoNotices ==
  ASSUME NEW a
  PROVE  Plan(Notices(a)) /\ Elements(Notices(a)) = {<<"push", a>>, <<"email", a>>}
<1> DEFINE x == <<"push", a>>
           y == <<"email", a>>
<1>1. Notices(a) = <<x, y>>
  BY DEF Notices
<1> HIDE DEF x, y
<1>2. DOMAIN <<x, y>> = {1, 2} /\ <<x, y>>[1] = x /\ <<x, y>>[2] = y
  OBVIOUS
<1>3. Elements(Notices(a)) = {x, y}
  BY <1>1, <1>2 DEF Elements
<1>4. Notices(a) \in Seq({x, y})
  BY <1>1
<1>5. QED
  BY <1>3, <1>4 DEF Plan, x, y

\* A plan of one call.
LEMMA OneCall ==
  ASSUME NEW c
  PROVE  Plan(<<c>>) /\ Elements(<<c>>) = {c}
<1>1. DOMAIN <<c>> = {1} /\ <<c>>[1] = c
  OBVIOUS
<1>2. Elements(<<c>>) = {c}
  BY <1>1 DEF Elements
<1>3. <<c>> \in Seq({c})
  OBVIOUS
<1>4. QED
  BY <1>2, <1>3 DEF Plan

\* What one booking asks of a cleanup.
LEMMA OneCleanup ==
  ASSUME NEW b
  PROVE  /\ Plan(CleanupOf(b))
         /\ Elements(CleanupOf(b)) = {<<"cancel", b>>, <<"push", b>>, <<"email", b>>}
<1> DEFINE c == <<"cancel", b>>
<1>1. Plan(<<c>>) /\ Elements(<<c>>) = {c}
  BY OneCall
<1>2. CleanupOf(b) = <<c>> \o Notices(b)
  BY DEF CleanupOf
<1> HIDE DEF c
<1>3. Plan(CleanupOf(b)) /\ Elements(CleanupOf(b)) = {c} \cup Elements(Notices(b))
  BY <1>1, <1>2, TwoNotices, ConcatElements
<1>4. QED
  BY <1>3, TwoNotices DEF c

\* No plan at all.
LEMMA NoCalls == Plan(<<>>) /\ Elements(<<>>) = {}
<1>1. DOMAIN <<>> = {}
  OBVIOUS
<1>2. QED
  BY <1>1 DEF Plan, Elements

\* Plans with the calls they consist of.
LEMMA Scripts ==
  /\ \A k \in {"reminder", "confirmation", "cancellation", "completion"} :
       /\ Plan(Script(k))
       /\ Elements(Script(k)) = Elements(Notices("customer")) \cup Elements(Notices("barber"))
  /\ Plan(Script("payment"))
  /\ Elements(Script("payment")) = {Charge} \cup PaidNotices
  /\ Plan(Script("refund"))
  /\ Elements(Script("refund")) = {<<"stripe", "refund">>} \cup Elements(Notices("refunded"))
  /\ Plan(Script("payout")) /\ Elements(Script("payout")) = {<<"stripe", "transfer">>}
  /\ Plan(Script("mail")) /\ Elements(Script("mail")) = {<<"smtp", "mail">>}
  /\ Plan(Script("log")) /\ Elements(Script("log")) = {}
  /\ Plan(Script("cleanup"))
  /\ Elements(Script("cleanup")) =
       Elements(CleanupOf(Expirable[1])) \cup Elements(CleanupOf(Expirable[2]))
<1>1. ASSUME NEW k \in {"reminder", "confirmation", "cancellation", "completion"}
      PROVE  /\ Plan(Script(k))
             /\ Elements(Script(k)) = Elements(Notices("customer")) \cup Elements(Notices("barber"))
  <2>1. Script(k) = Notices("customer") \o Notices("barber")
    BY DEF Script
  <2>2. Plan(Notices("customer")) /\ Plan(Notices("barber"))
    BY TwoNotices
  <2>3. QED
    BY <2>1, <2>2, ConcatElements
<1>2. Plan(Script("payment")) /\ Elements(Script("payment")) = {Charge} \cup PaidNotices
  <2>1. Script("payment") = <<Charge>> \o Notices("paid")
    BY DEF Script, Charge
  <2>2. Elements(Notices("paid")) = PaidNotices
    BY TwoNotices DEF PaidNotices
  <2>3. Plan(<<Charge>>) /\ Elements(<<Charge>>) = {Charge} /\ Plan(Notices("paid"))
    BY TwoNotices, OneCall
  <2>4. QED
    BY <2>1, <2>2, <2>3, ConcatElements
<1>3. /\ Plan(Script("refund"))
      /\ Elements(Script("refund")) = {<<"stripe", "refund">>} \cup Elements(Notices("refunded"))
  <2> DEFINE c == <<"stripe", "refund">>
  <2>1. Script("refund") = <<c>> \o Notices("refunded")
    BY DEF Script
  <2> HIDE DEF c
  <2>2. Plan(Script("refund")) /\ Elements(Script("refund")) = {c} \cup Elements(Notices("refunded"))
    <3>1. Plan(<<c>>) /\ Elements(<<c>>) = {c} /\ Plan(Notices("refunded"))
      BY TwoNotices, OneCall
    <3>2. QED
      BY <2>1, <3>1, ConcatElements
  <2>3. QED
    BY <2>2 DEF c
<1>4. Plan(Script("payout")) /\ Elements(Script("payout")) = {<<"stripe", "transfer">>}
  <2>1. Script("payout") = << <<"stripe", "transfer">> >>
    BY DEF Script
  <2>2. QED
    BY <2>1, OneCall
<1>5. Plan(Script("mail")) /\ Elements(Script("mail")) = {<<"smtp", "mail">>}
  <2>1. Script("mail") = << <<"smtp", "mail">> >>
    BY DEF Script
  <2>2. QED
    BY <2>1, OneCall
<1>6. Plan(Script("log")) /\ Elements(Script("log")) = {}
  BY NoCalls DEF Script
<1>7. /\ Plan(Script("cleanup"))
      /\ Elements(Script("cleanup")) =
           Elements(CleanupOf(Expirable[1])) \cup Elements(CleanupOf(Expirable[2]))
  <2>1. Script("cleanup") = CleanupOf(Expirable[1]) \o CleanupOf(Expirable[2])
    BY DEF Script
  <2>2. QED
    BY <2>1, OneCleanup, ConcatElements
<1>8. QED
  BY <1>1, <1>2, <1>3, <1>4, <1>5, <1>6, <1>7

\* Every plan is a sequence of calls.
LEMMA PlansAreCalls ==
  ASSUME NEW k \in AllKinds
  PROVE  /\ Plan(Script(k)) /\ Script(k) \in Seq(Calls) /\ Elements(Script(k)) \subseteq Calls
         /\ Plan(Rescue(k)) /\ Rescue(k) \in Seq(Calls) /\ Elements(Rescue(k)) \subseteq Calls
<1>1. Plan(Script(k))
  BY Scripts DEF AllKinds
<1>2. Plan(Rescue(k))
  BY TwoNotices, NoCalls DEF Rescue
<1>3. Elements(Script(k)) \subseteq Calls /\ Elements(Rescue(k)) \subseteq Calls
  BY DEF Calls
<1>4. QED
  BY <1>1, <1>2, <1>3, SeqMonotonic DEF Plan

\* The bookings a cleanup may find.
LEMMA TwoExpirable == /\ Expirable[1] = "booking1" /\ Expirable[2] = "booking2"
                      /\ Cancels = {<<"cancel", "booking1">>, <<"cancel", "booking2">>}
<1>1. DOMAIN Expirable = {1, 2} /\ Expirable[1] = "booking1" /\ Expirable[2] = "booking2"
  BY DEF Expirable
<1>2. Elements(Expirable) = {"booking1", "booking2"}
  BY <1>1 DEF Elements
<1>3. QED
  BY <1>1, <1>2 DEF Cancels

\* Only process-payment charges and announces, and only a cleanup cancels.
LEMMA WhoseCalls ==
  ASSUME NEW k \in AllKinds
  PROVE  /\ k # "payment" => Elements(Script(k)) \cap PaidNotices = {}
         /\ k # "cleanup" => Elements(Script(k)) \cap Cancels = {}
         /\ Elements(Rescue(k)) \cap (PaidNotices \cup Cancels) = {}
<1>1. PaidNotices \cap Cancels = {} /\ Charge \notin Cancels
  BY TwoExpirable DEF PaidNotices, Charge
<1>2. ASSUME NEW a \in {"customer", "barber", "refunded", "not paid"}
      PROVE  Elements(Notices(a)) \cap (PaidNotices \cup Cancels) = {}
  <2>1. Elements(Notices(a)) = {<<"push", a>>, <<"email", a>>}
    BY TwoNotices
  <2>2. PaidNotices \cap {<<"push", a>>, <<"email", a>>} = {}
    <3>1. a # "paid"
      OBVIOUS
    <3>2. \A v, w : <<v, a>> # <<w, "paid">>
      BY <3>1
    <3>3. QED
      BY <3>2 DEF PaidNotices
  <2>3. Cancels \cap {<<"push", a>>, <<"email", a>>} = {}
    <3>1. \A v, w : <<"cancel", v>> # <<"push", w>> /\ <<"cancel", v>> # <<"email", w>>
      OBVIOUS
    <3>2. QED
      BY <3>1, TwoExpirable
  <2>4. QED
    BY <2>1, <2>2, <2>3
<1>3. ASSUME NEW b \in {"booking1", "booking2"}
      PROVE  Elements(CleanupOf(b)) \cap PaidNotices = {}
  BY OneCleanup DEF PaidNotices
<1>4. Elements(Rescue(k)) \cap (PaidNotices \cup Cancels) = {}
  BY <1>2, NoCalls DEF Rescue
<1>5. CASE k \in {"reminder", "confirmation", "cancellation", "completion"}
  BY <1>2, <1>4, <1>5, Scripts
<1>6. CASE k = "payment"
  BY <1>1, <1>4, <1>6, Scripts
<1>7. CASE k = "refund"
  <2>1. <<"stripe", "refund">> \notin PaidNotices \cup Cancels
    BY TwoExpirable DEF PaidNotices
  <2>2. QED
    <3>1. Elements(Script(k)) = {<<"stripe", "refund">>} \cup Elements(Notices("refunded"))
      BY <1>7, Scripts
    <3>2. Elements(Notices("refunded")) \cap (PaidNotices \cup Cancels) = {}
      BY <1>2
    <3>3. QED
      BY <1>4, <2>1, <3>1, <3>2
<1>8. CASE k \in {"payout", "mail", "log"}
  <2>1. <<"stripe", "transfer">> \notin PaidNotices \cup Cancels
        /\ <<"smtp", "mail">> \notin PaidNotices \cup Cancels
    BY TwoExpirable DEF PaidNotices
  <2>2. QED
    BY <1>4, <1>8, <2>1, Scripts
<1>9. CASE k = "cleanup"
  BY <1>3, <1>4, <1>9, Scripts, TwoExpirable
<1>10. QED
  BY <1>5, <1>6, <1>7, <1>8, <1>9 DEF AllKinds

\* Two plans without repetition and without a common call, one after the other.
LEMMA ConcatDistinct ==
  ASSUME NEW s, NEW t, Plan(s), Plan(t), Distinct(s), Distinct(t),
         Elements(s) \cap Elements(t) = {}
  PROVE  Distinct(s \o t)
<1> DEFINE S == Elements(s) \cup Elements(t)
<1>1. s \in Seq(S) /\ t \in Seq(S)
  BY SeqMonotonic DEF Plan
<1>2. /\ Len(s) \in Nat /\ DOMAIN s = 1 .. Len(s) /\ Len(t) \in Nat /\ DOMAIN t = 1 .. Len(t)
      /\ DOMAIN (s \o t) = 1 .. (Len(s) + Len(t))
      /\ \A i \in 1 .. (Len(s) + Len(t)) :
           (s \o t)[i] = IF i <= Len(s) THEN s[i] ELSE t[i - Len(s)]
  BY <1>1, ConcatProperties, LenProperties
<1> DEFINE u == s \o t
<1>3. ASSUME NEW i \in DOMAIN u, NEW k \in DOMAIN u, u[i] = u[k], i <= Len(s)
      PROVE  i = k
  <2>1. i \in DOMAIN s /\ u[i] = s[i] /\ s[i] \in Elements(s)
    BY <1>2, <1>3 DEF Elements
  <2>2. CASE k <= Len(s)
    <3>1. k \in DOMAIN s /\ u[k] = s[k]
      BY <1>2, <2>2
    <3>2. s[i] = s[k]
      BY <1>3, <2>1, <3>1
    <3>3. QED
      BY <2>1, <3>1, <3>2 DEF Distinct
  <2>3. CASE k > Len(s)
    <3>1. k - Len(s) \in DOMAIN t /\ u[k] = t[k - Len(s)] /\ u[k] \in Elements(t)
      BY <1>2, <2>3 DEF Elements
    <3>2. QED
      BY <1>3, <2>1, <3>1
  <2>4. QED
    BY <1>2, <2>2, <2>3
<1>4. ASSUME NEW i \in DOMAIN u, NEW k \in DOMAIN u, u[i] = u[k], i > Len(s), k > Len(s)
      PROVE  i = k
  <2>1. i - Len(s) \in DOMAIN t /\ k - Len(s) \in DOMAIN t
        /\ u[i] = t[i - Len(s)] /\ u[k] = t[k - Len(s)]
    BY <1>2, <1>4
  <2>2. i - Len(s) = k - Len(s)
    BY <1>4, <2>1 DEF Distinct
  <2>3. QED
    BY <1>2, <2>2
<1>5. DOMAIN u \subseteq Nat
  BY <1>2
<1> HIDE DEF u
<1>6. Distinct(u)
  BY <1>2, <1>3, <1>4, <1>5 DEF Distinct
<1>7. QED
  BY <1>6 DEF u

\* A cleanup lists the calls for one booking once.
LEMMA CleanupDistinct ==
  ASSUME NEW b
  PROVE  Distinct(CleanupOf(b))
<1> DEFINE c == <<"cancel", b>>
           x == <<"push", b>>
           y == <<"email", b>>
<1>1. Notices(b) = <<x, y>> /\ CleanupOf(b) = <<c>> \o <<x, y>>
  BY DEF Notices, CleanupOf
<1>2. c # x /\ c # y /\ x # y
  OBVIOUS
<1>3. Elements(<<x, y>>) = {x, y} /\ Plan(<<x, y>>)
  BY <1>1, TwoNotices
<1> HIDE DEF c, x, y
<1>4. Distinct(<<c>>) /\ Distinct(<<x, y>>)
  BY <1>2 DEF Distinct
<1>5. Plan(<<c>>) /\ Elements(<<c>>) = {c}
  BY OneCall
<1>6. QED
  BY <1>1, <1>2, <1>3, <1>4, <1>5, ConcatDistinct

\* What an attempt plans, given what took effect before.
Requested(m, b) == IF m[<<"cancel", b>>] = 0 THEN CleanupOf(b) ELSE <<>>
PlanFor(k, m) ==
  IF k = "cleanup" THEN Requested(m, Expirable[1]) \o Requested(m, Expirable[2]) ELSE Script(k)

\* A cleanup plans the calls for the bookings it has not cancelled.
LEMMA CleanupPlans ==
  ASSUME NEW m
  PROVE  /\ Plan(PlanFor("cleanup", m)) /\ Distinct(PlanFor("cleanup", m))
         /\ Elements(PlanFor("cleanup", m)) =
              Elements(Requested(m, "booking1")) \cup Elements(Requested(m, "booking2"))
         /\ Elements(PlanFor("cleanup", m)) \subseteq Elements(Script("cleanup"))
         /\ \A c \in Cancels \cap Elements(PlanFor("cleanup", m)) : m[c] = 0
<1>1. PlanFor("cleanup", m) = Requested(m, "booking1") \o Requested(m, "booking2")
  BY TwoExpirable DEF PlanFor
<1>2. ASSUME NEW b
      PROVE  /\ Plan(Requested(m, b)) /\ Distinct(Requested(m, b))
             /\ Elements(Requested(m, b)) \subseteq Elements(CleanupOf(b))
             /\ Elements(Requested(m, b)) # {} => m[<<"cancel", b>>] = 0
  <2>1. Distinct(<<>>)
    BY DEF Distinct
  <2>2. QED
    BY <2>1, OneCleanup, CleanupDistinct, NoCalls DEF Requested
<1>3. Elements(CleanupOf("booking1")) \cap Elements(CleanupOf("booking2")) = {}
  <2>1. \A v, w : <<v, "booking1">> # <<w, "booking2">>
    OBVIOUS
  <2>2. QED
    BY <2>1, OneCleanup
<1>4. Plan(PlanFor("cleanup", m)) /\ Distinct(PlanFor("cleanup", m))
  <2> DEFINE r == Requested(m, "booking1")
             s == Requested(m, "booking2")
  <2>1. Plan(r) /\ Plan(s) /\ Distinct(r) /\ Distinct(s) /\ Elements(r) \cap Elements(s) = {}
    BY <1>2, <1>3
  <2> HIDE DEF r, s
  <2>2. Plan(r \o s) /\ Distinct(r \o s)
    BY <2>1, ConcatElements, ConcatDistinct
  <2>3. QED
    BY <1>1, <2>2 DEF r, s
<1>5. Elements(PlanFor("cleanup", m)) =
        Elements(Requested(m, "booking1")) \cup Elements(Requested(m, "booking2"))
  BY <1>1, <1>2, ConcatElements
<1>6. Elements(PlanFor("cleanup", m)) \subseteq Elements(Script("cleanup"))
  BY <1>2, <1>5, Scripts, TwoExpirable
<1>7. ASSUME NEW c \in Cancels, c \in Elements(PlanFor("cleanup", m))
      PROVE  m[c] = 0
  <2>1. c \in Elements(CleanupOf("booking1")) => c = <<"cancel", "booking1">>
    BY <1>7, OneCleanup, TwoExpirable
  <2>2. c \in Elements(CleanupOf("booking2")) => c = <<"cancel", "booking2">>
    BY <1>7, OneCleanup, TwoExpirable
  <2>3. QED
    BY <1>2, <1>5, <1>7, <2>1, <2>2
<1>8. QED
  BY <1>4, <1>5, <1>6, <1>7

-----------------------------------------------------------------------------
(* The life of a job *)

\* The calls that the properties name are calls.
LEMMA NamedCalls == Charge \in Calls /\ PaidNotices \subseteq Calls /\ Cancels \subseteq Calls
<1>1. {Charge} \cup PaidNotices \subseteq Calls
  BY PlansAreCalls, Scripts DEF AllKinds
<1>2. Elements(Script("cleanup")) \subseteq Calls
  BY PlansAreCalls DEF AllKinds
<1>3. Cancels \subseteq Elements(Script("cleanup"))
  BY Scripts, TwoExpirable, OneCleanup
<1>4. QED
  BY <1>1, <1>2, <1>3

\* A job that is not being tried asks for nothing but its history.
LEMMA IdleIsGood ==
  ASSUME NEW t \in Task, NEW m \in [Calls -> Nat], Announced(m),
         t.state # "active", t.state # "done", t.plan = <<>>, ~ t.failing,
         UntriedDidNothing(t, m),
         t.state = "failed" => t.tries >= Attempts[t.kind] \/ t.stalls > 1
  PROVE  Good(t, m)
<1>1. Elements(t.plan) = {} /\ Distinct(t.plan)
  BY NoCalls DEF Distinct
<1>2. Typed(t, m)
  BY <1>1 DEF Typed
<1>3. CallsAreInHand(t, m) /\ EndIsEarned(t, m)
  BY DEF CallsAreInHand, EndIsEarned
<1>4. ChargeComesFirst(t, m) /\ CancelsAreNew(t, m)
  BY <1>1 DEF ChargeComesFirst, CancelsAreNew, PaymentPlans
<1>5. QED
  BY <1>2, <1>3, <1>4 DEF Good

\* A job is added.
LEMMA AddKeeps ==
  ASSUME NEW t, NEW m, Good(t, m), t.state = "none",
         NEW k \in AllKinds, NEW s \in {"delayed", "waiting"}
  PROVE  Good([t EXCEPT !.kind = k, !.state = s], m)
<1>1. PICK u : u = [t EXCEPT !.kind = k, !.state = s]
  OBVIOUS
<1>2. t \in Task /\ m \in [Calls -> Nat] /\ t.plan = <<>> /\ ~ t.failing
  BY DEF Good, Typed
<1>3. u \in Task /\ u.state = s /\ u.plan = <<>> /\ ~ u.failing
      /\ u.tries = t.tries /\ u.stalls = t.stalls
  BY <1>1, <1>2 DEF Task, TaskStates
<1>4. UntriedDidNothing(u, m)
  BY <1>3 DEF Good, UntriedDidNothing, Untried
<1>5. Good(u, m)
  BY <1>2, <1>3, <1>4, IdleIsGood DEF Good
<1>6. QED
  BY <1>1, <1>5

\* The administrator's and the clock's steps: from one state without an attempt to another.
Shifts(s, n) ==
  \/ s = "delayed" /\ n = "waiting"
  \/ s \in {"waiting", "delayed"} /\ n = "cleared"
  \/ s = "failed" /\ n = "waiting"

\* A job becomes due, is cleared, or is retried; one that was given up had been tried.
LEMMA ShiftKeeps ==
  ASSUME NEW t, NEW m, Good(t, m), NEW n, Shifts(t.state, n)
  PROVE  Good([t EXCEPT !.state = n], m)
<1>1. PICK u : u = [t EXCEPT !.state = n]
  OBVIOUS
<1>2. t \in Task /\ m \in [Calls -> Nat] /\ t.plan = <<>> /\ ~ t.failing
  BY DEF Good, Typed, Shifts
<1>3. u \in Task /\ u.state = n /\ u.plan = <<>> /\ ~ u.failing
      /\ u.tries = t.tries /\ u.stalls = t.stalls /\ n \in {"waiting", "cleared"}
  BY <1>1, <1>2 DEF Task, TaskStates, Shifts
<1>4. t.state = "failed" => ~ Untried(t)
  <2>1. Attempts[t.kind] \in Nat \ {0} /\ t.tries \in Nat
    BY <1>2, JobConstants DEF Task
  <2>2. QED
    BY <2>1 DEF Good, EndIsEarned, Untried
<1>5. UntriedDidNothing(u, m)
  BY <1>3, <1>4 DEF Good, UntriedDidNothing, Untried, Shifts
<1>6. Good(u, m)
  BY <1>2, <1>3, <1>5, IdleIsGood DEF Good
<1>7. QED
  BY <1>1, <1>6

\* An attempt begins.
LEMMA StartKeeps ==
  ASSUME NEW t, NEW m, Good(t, m), t.state = "waiting"
  PROVE  Good([t EXCEPT !.state = "active", !.plan = PlanFor(t.kind, m)], m)
<1>1. PICK p : p = PlanFor(t.kind, m)
  OBVIOUS
<1>2. PICK u : u = [t EXCEPT !.state = "active", !.plan = p]
  OBVIOUS
<1>3. t \in Task /\ m \in [Calls -> Nat] /\ t.kind \in AllKinds /\ t.failing = FALSE
  BY DEF Good, Typed, Task
<1>4. t.kind # "cleanup" => p = Script(t.kind)
  BY <1>1 DEF PlanFor
<1>5. p \in Seq(Calls) /\ Elements(p) \subseteq Elements(Script(t.kind))
  <2>1. CASE t.kind = "cleanup"
    <3>1. Plan(p) /\ Elements(p) \subseteq Elements(Script(t.kind))
      BY <1>1, <2>1, CleanupPlans
    <3>2. QED
      BY <1>3, <3>1, PlansAreCalls, SeqMonotonic DEF Plan
  <2>2. QED
    BY <1>3, <1>4, <2>1, PlansAreCalls
<1>6. /\ u \in Task /\ u.kind = t.kind /\ u.state = "active" /\ u.plan = p
      /\ u.failing = FALSE /\ u.tries = t.tries /\ u.stalls = t.stalls
  BY <1>2, <1>3, <1>5 DEF Task, TaskStates
<1>7. Typed(u, m) /\ UntriedDidNothing(u, m) /\ EndIsEarned(u, m)
  BY <1>3, <1>5, <1>6 DEF Typed, UntriedDidNothing, EndIsEarned
<1>8. CallsAreInHand(u, m)
  <2>1. SUFFICES ASSUME NEW c \in Elements(Script(t.kind))
                 PROVE  c \in Elements(p) \/ Covered(u, m, c)
    BY <1>6 DEF CallsAreInHand
  <2>2. CASE t.kind # "cleanup"
    BY <1>4, <2>2
  <2>3. CASE t.kind = "cleanup"
    <3>1. PICK b \in {"booking1", "booking2"} : c \in Elements(CleanupOf(b))
      BY <2>1, <2>3, Scripts, TwoExpirable
    <3>2. m[<<"cancel", b>>] = 0 => Elements(CleanupOf(b)) \subseteq Elements(p)
      BY <1>1, <2>3, CleanupPlans DEF Requested
    <3>3. <<"cancel", b>> \in Calls /\ m[<<"cancel", b>>] \in Nat
      BY <1>3, NamedCalls, TwoExpirable
    <3>4. c = <<"cancel", b>> \/ c[1] # "cancel"
      BY <3>1, OneCleanup
    <3>5. Untried(t) => m[<<"cancel", b>>] = 0
      BY <3>3 DEF Good, UntriedDidNothing
    <3>6. QED
      BY <1>6, <2>3, <3>1, <3>2, <3>3, <3>4, <3>5 DEF Covered, Untried
  <2>4. QED
    BY <2>2, <2>3
<1>9. ChargeComesFirst(u, m)
  <2>1. t.kind = "payment" => p = Script("payment") /\ Charge \in Elements(p)
    BY <1>4, Scripts
  <2>2. QED
    BY <1>6, <2>1 DEF ChargeComesFirst, PaymentPlans
<1>10. CancelsAreNew(u, m)
  <2>1. CASE t.kind = "cleanup"
    BY <1>1, <1>6, <2>1, CleanupPlans DEF CancelsAreNew
  <2>2. CASE t.kind # "cleanup"
    BY <1>3, <1>4, <1>6, <2>2, WhoseCalls DEF CancelsAreNew
  <2>3. QED
    BY <2>1, <2>2
<1>11. Good(u, m)
  BY <1>7, <1>8, <1>9, <1>10 DEF Good
<1>12. QED
  BY <1>1, <1>2, <1>11

\* An attempt that fails.
LEMMA EndFails ==
  ASSUME NEW t \in Task, NEW m \in [Calls -> Nat], Announced(m)
  PROVE  Good(Ended(t, FALSE), m)
<1>1. PICK s : s = IF t.tries + 1 < Attempts[t.kind] THEN "delayed" ELSE "failed"
  OBVIOUS
<1>2. PICK n : n = t.tries + 1
  OBVIOUS
<1>3. Ended(t, FALSE) = [t EXCEPT !.state = s, !.tries = n, !.plan = <<>>, !.failing = FALSE]
  BY <1>1, <1>2 DEF Ended
<1>4. PICK u : u = [t EXCEPT !.state = s, !.tries = n, !.plan = <<>>, !.failing = FALSE]
  OBVIOUS
<1>5. n \in Nat \ {0} /\ s \in {"delayed", "failed"} /\ <<>> \in Seq(Calls)
  BY <1>1, <1>2 DEF Task
<1>6. /\ u \in Task /\ u.kind = t.kind /\ u.state = s /\ u.tries = n /\ u.plan = <<>>
      /\ u.failing = FALSE
  BY <1>4, <1>5 DEF Task, TaskStates
<1>7. UntriedDidNothing(u, m)
  BY <1>5, <1>6 DEF UntriedDidNothing, Untried
<1>8. s = "failed" => n >= Attempts[t.kind]
  BY <1>1, <1>2, JobConstants DEF Task
<1>9. Good(u, m)
  BY <1>5, <1>6, <1>7, <1>8, IdleIsGood
<1>10. QED
  BY <1>3, <1>4, <1>9

\* A call throws.
LEMMA ThrowKeeps ==
  ASSUME NEW t \in Task, NEW m \in [Calls -> Nat], Announced(m), t.state = "active"
  PROVE  Good(Thrown(t), m)
<1>1. CASE ~ t.failing /\ Rescue(t.kind) # <<>>
  <2>1. PICK r : r = Rescue("payment")
    OBVIOUS
  <2>2. t.kind = "payment" /\ Thrown(t) = [t EXCEPT !.plan = r, !.failing = TRUE]
    BY <1>1, <2>1 DEF Thrown, Rescue
  <2>3. PICK u : u = [t EXCEPT !.plan = r, !.failing = TRUE]
    OBVIOUS
  <2>4. r \in Seq(Calls) /\ Elements(r) \cap Cancels = {}
    BY <2>1, PlansAreCalls, WhoseCalls DEF AllKinds
  <2>5. /\ u \in Task /\ u.kind = "payment" /\ u.state = "active" /\ u.plan = r
        /\ u.failing = TRUE
    BY <2>2, <2>3, <2>4 DEF Task
  <2>6. Typed(u, m) /\ UntriedDidNothing(u, m) /\ CallsAreInHand(u, m) /\ EndIsEarned(u, m)
    BY <2>1, <2>5 DEF Typed, UntriedDidNothing, CallsAreInHand, EndIsEarned
  <2>7. ChargeComesFirst(u, m) /\ CancelsAreNew(u, m)
    BY <2>4, <2>5 DEF ChargeComesFirst, CancelsAreNew
  <2>8. QED
    BY <2>2, <2>3, <2>6, <2>7 DEF Good
<1>2. CASE ~ (~ t.failing /\ Rescue(t.kind) # <<>>)
  BY <1>2, EndFails DEF Thrown
<1>3. QED
  BY <1>1, <1>2

\* The worker dies.
LEMMA StallKeeps ==
  ASSUME NEW t, NEW m, Good(t, m)
  PROVE  Good([t EXCEPT !.state = IF t.stalls = 0 THEN "waiting" ELSE "failed",
                        !.plan = <<>>, !.failing = FALSE, !.stalls = @ + 1], m)
<1>1. PICK s : s = IF t.stalls = 0 THEN "waiting" ELSE "failed"
  OBVIOUS
<1>2. PICK n : n = t.stalls + 1
  OBVIOUS
<1>3. PICK u : u = [t EXCEPT !.state = s, !.plan = <<>>, !.failing = FALSE, !.stalls = n]
  OBVIOUS
<1>4. t \in Task /\ m \in [Calls -> Nat]
  BY DEF Good, Typed
<1>5. n \in Nat \ {0} /\ s \in {"waiting", "failed"} /\ (s = "failed" => n > 1)
      /\ <<>> \in Seq(Calls)
  BY <1>1, <1>2, <1>4 DEF Task
<1>6. /\ u \in Task /\ u.state = s /\ u.plan = <<>> /\ u.failing = FALSE /\ u.stalls = n
  BY <1>3, <1>4, <1>5 DEF Task, TaskStates
<1>7. UntriedDidNothing(u, m)
  BY <1>5, <1>6 DEF UntriedDidNothing, Untried
<1>8. Good(u, m)
  BY <1>4, <1>5, <1>6, <1>7, IdleIsGood DEF Good
<1>9. QED
  BY <1>1, <1>2, <1>3, <1>8

\* The processor returns, or its catch throws again.
LEMMA ReturnKeeps ==
  ASSUME NEW t, NEW m, Good(t, m), t.state = "active", t.plan = <<>>
  PROVE  Good(Ended(t, ~ t.failing), m)
<1>1. t \in Task /\ m \in [Calls -> Nat] /\ Announced(m)
  BY DEF Good, Typed
<1>2. CASE t.failing
  <2>1. Ended(t, ~ t.failing) = Ended(t, FALSE)
    BY <1>2 DEF Ended
  <2>2. QED
    BY <1>1, <2>1, EndFails
<1>3. CASE ~ t.failing
  <2>1. Ended(t, ~ t.failing) =
          [t EXCEPT !.state = "done", !.tries = @, !.plan = <<>>, !.failing = FALSE]
    BY <1>3 DEF Ended
  <2>2. PICK u : u = [t EXCEPT !.state = "done", !.tries = @, !.plan = <<>>, !.failing = FALSE]
    OBVIOUS
  <2>3. <<>> \in Seq(Calls)
    OBVIOUS
  <2>4. /\ u \in Task /\ u.kind = t.kind /\ u.state = "done" /\ u.plan = <<>>
        /\ u.failing = FALSE /\ u.tries = t.tries /\ u.stalls = t.stalls
    BY <1>1, <2>2, <2>3 DEF Task, TaskStates
  <2>5. Typed(u, m) /\ UntriedDidNothing(u, m) /\ CallsAreInHand(u, m)
    BY <1>1, <2>4, NoCalls DEF Typed, UntriedDidNothing, CallsAreInHand
  <2>6. EndIsEarned(u, m)
    <3>1. \A c \in Elements(Script(t.kind)) : Covered(t, m, c)
      BY <1>3, NoCalls DEF Good, CallsAreInHand
    <3>2. QED
      BY <2>4, <3>1 DEF EndIsEarned, Covered, Untried
  <2>7. ChargeComesFirst(u, m) /\ CancelsAreNew(u, m)
    BY <2>4, NoCalls DEF ChargeComesFirst, CancelsAreNew, PaymentPlans, Distinct
  <2>8. QED
    BY <1>1, <2>1, <2>2, <2>5, <2>6, <2>7 DEF Good
<1>4. QED
  BY <1>2, <1>3

\* The first call of a plan that begins with it, and the rest.
LEMMA HeadTailOfConcat ==
  ASSUME NEW S, NEW c \in S, NEW s \in Seq(S)
  PROVE  Head(<<c>> \o s) = c /\ Tail(<<c>> \o s) = s
<1>1. <<c>> \in Seq(S) /\ Len(<<c>>) = 1 /\ <<c>>[1] = c /\ Len(s) \in Nat
  BY LenProperties
<1>2. PICK u : u = <<c>> \o s
  OBVIOUS
<1>3. /\ u \in Seq(S) /\ Len(u) = 1 + Len(s) /\ u[1] = c
      /\ \A i \in 1 .. Len(s) : u[i + 1] = s[i]
  BY <1>1, <1>2, ConcatProperties
<1>4. u # <<>>
  BY <1>1, <1>3
<1>5. Head(u) = c /\ Tail(u) \in Seq(S) /\ Len(Tail(u)) = Len(s)
      /\ \A i \in 1 .. Len(s) : Tail(u)[i] = s[i]
  BY <1>1, <1>3, <1>4, HeadTailProperties
<1>6. Tail(u) = s
  BY <1>5, SeqEqual
<1>7. QED
  BY <1>2, <1>5, <1>6

\* process-payment goes from each of its places to the next.
LEMMA PaymentPlaces ==
  ASSUME NEW p \in PaymentPlans, p # <<>>
  PROVE  \/ /\ Head(p) = Charge /\ Charge \in Elements(p) /\ Tail(p) = Notices("paid")
            /\ Elements(Tail(p)) = PaidNotices
         \/ /\ Head(p) = <<"push", "paid">> /\ Elements(p) = PaidNotices
            /\ Tail(p) = << <<"email", "paid">> >> /\ Elements(Tail(p)) = {<<"email", "paid">>}
         \/ /\ Head(p) = <<"email", "paid">> /\ Elements(p) = {<<"email", "paid">>}
            /\ Tail(p) = <<>> /\ Elements(Tail(p)) = {}
<1>1. PICK x, y : x = <<"push", "paid">> /\ y = <<"email", "paid">>
  OBVIOUS
<1>2. Notices("paid") = <<x, y>> /\ PaidNotices = {x, y} /\ Elements(<<x, y>>) = {x, y}
  BY <1>1, TwoNotices DEF Notices, PaidNotices
<1>3. Script("payment") = <<Charge>> \o <<x, y>>
  BY <1>2 DEF Script, Charge
<1>4. PICK c : c = Charge
  OBVIOUS
<1>5. c \in {c, x, y} /\ <<x, y>> \in Seq({c, x, y})
  OBVIOUS
<1>6. Head(Script("payment")) = Charge /\ Tail(Script("payment")) = <<x, y>>
  BY <1>3, <1>4, <1>5, HeadTailOfConcat
<1>7. Head(<<x, y>>) = x /\ Tail(<<x, y>>) = <<y>> /\ Head(<<y>>) = y /\ Tail(<<y>>) = <<>>
  OBVIOUS
<1>8. Elements(<<y>>) = {y} /\ Elements(<<>>) = {}
  BY OneCall, NoCalls
<1>9. Charge \in Elements(Script("payment"))
  BY Scripts
<1>10. p \in {Script("payment"), <<x, y>>, <<y>>}
  BY <1>1, <1>2 DEF PaymentPlans
<1>11. CASE p = Script("payment")
  BY <1>2, <1>6, <1>9, <1>11
<1>12. CASE p = <<x, y>>
  BY <1>1, <1>2, <1>7, <1>8, <1>12
<1>13. CASE p = <<y>>
  BY <1>1, <1>7, <1>8, <1>13
<1>14. QED
  BY <1>10, <1>11, <1>12, <1>13

\* A call takes effect: no announcement overtakes its charge, no booking is cancelled again.
LEMMA EffectKeeps ==
  ASSUME NEW t, NEW m, Good(t, m), t.state = "active", t.plan # <<>>
  PROVE  LET h == Head(t.plan)
             e == [m EXCEPT ![h] = m[h] + 1]
         IN  h \in Calls /\ e \in [Calls -> Nat] /\ Announced(e)
<1>1. t \in Task /\ t.kind \in AllKinds /\ t.plan \in Seq(Calls) /\ m \in [Calls -> Nat]
      /\ Elements(t.plan) \subseteq Elements(IF t.failing THEN Rescue(t.kind) ELSE Script(t.kind))
  BY DEF Good, Typed, Task
<1>2. PICK h : h = Head(t.plan)
  OBVIOUS
<1>3. h \in Calls /\ h \in Elements(t.plan)
  BY <1>1, <1>2, TakeHead
<1>4. PICK e : e = [m EXCEPT ![h] = m[h] + 1]
  OBVIOUS
<1>5. /\ e \in [Calls -> Nat] /\ e[h] = m[h] + 1
      /\ \A c \in Calls : (c # h => e[c] = m[c]) /\ m[c] \in Nat
  BY <1>1, <1>3, <1>4
<1>6. ASSUME NEW n \in PaidNotices PROVE e[n] <= e[Charge]
  <2>1. m[n] <= m[Charge] /\ n \in Calls /\ Charge \in Calls /\ n # Charge
    <3>1. Charge \notin PaidNotices
      BY DEF Charge, PaidNotices
    <3>2. QED
      BY <3>1, NamedCalls DEF Good, Announced
  <2>2. CASE n # h
    BY <1>5, <2>1, <2>2
  <2>3. CASE n = h
    <3>1. t.kind = "payment" /\ ~ t.failing
      BY <1>1, <1>3, <1>6, <2>3, WhoseCalls
    <3>2. t.plan \in PaymentPlans /\ Charge \notin Elements(t.plan)
      <4>1. t.plan \in PaymentPlans
        BY <3>1 DEF Good, ChargeComesFirst
      <4>2. QED
        BY <1>2, <2>1, <2>3, <4>1, PaymentPlaces DEF PaidNotices, Charge
    <3>3. m[n] < m[Charge]
      BY <1>3, <1>6, <2>3, <3>1, <3>2 DEF Good, ChargeComesFirst
    <3>4. QED
      BY <1>5, <2>1, <2>3, <3>3
  <2>4. QED
    BY <2>2, <2>3
<1>7. ASSUME NEW c \in Cancels PROVE e[c] <= 1
  <2>1. c \in Calls /\ m[c] <= 1
    BY NamedCalls DEF Good, Announced
  <2>2. c = h => m[c] = 0
    BY <1>3, <1>7 DEF Good, CancelsAreNew
  <2>3. QED
    BY <1>5, <2>1, <2>2
<1>8. Announced(e)
  BY <1>6, <1>7 DEF Announced
<1>9. QED
  BY <1>2, <1>3, <1>4, <1>5, <1>8

\* A call succeeds.
LEMMA CallKeeps ==
  ASSUME NEW t, NEW m, Good(t, m), t.state = "active", t.plan # <<>>
  PROVE  LET h == Head(t.plan)
         IN  Good([t EXCEPT !.plan = Tail(t.plan)], [m EXCEPT ![h] = m[h] + 1])
<1>1. t \in Task /\ t.kind \in AllKinds /\ t.plan \in Seq(Calls) /\ m \in [Calls -> Nat]
      /\ Elements(t.plan) \subseteq Elements(IF t.failing THEN Rescue(t.kind) ELSE Script(t.kind))
  BY DEF Good, Typed, Task
<1>2. PICK h, r : h = Head(t.plan) /\ r = Tail(t.plan)
  OBVIOUS
<1>3. PICK e : e = [m EXCEPT ![h] = m[h] + 1]
  OBVIOUS
<1>4. h \in Calls /\ e \in [Calls -> Nat] /\ Announced(e)
  BY <1>2, <1>3, EffectKeeps
<1>5. e[h] = m[h] + 1 /\ \A c \in Calls : (c # h => e[c] = m[c]) /\ m[c] \in Nat
  BY <1>1, <1>3, <1>4
<1>6. /\ r \in Seq(Calls) /\ Elements(t.plan) = {h} \cup Elements(r)
      /\ Distinct(t.plan) => Distinct(r) /\ h \notin Elements(r)
  BY <1>1, <1>2, TakeHead
<1>7. PICK u : u = [t EXCEPT !.plan = r]
  OBVIOUS
<1>8. /\ u \in Task /\ u.kind = t.kind /\ u.state = "active" /\ u.plan = r
      /\ u.failing = t.failing /\ u.tries = t.tries /\ u.stalls = t.stalls
  BY <1>1, <1>6, <1>7 DEF Task
<1>9. Typed(u, e)
  BY <1>1, <1>4, <1>6, <1>8 DEF Typed
<1>10. UntriedDidNothing(u, e) /\ EndIsEarned(u, e)
  BY <1>8 DEF UntriedDidNothing, EndIsEarned
<1>11. CallsAreInHand(u, e)
  <2>1. SUFFICES ASSUME ~ t.failing, NEW c \in Elements(Script(t.kind))
                 PROVE  c \in Elements(r) \/ Covered(u, e, c)
    BY <1>8 DEF CallsAreInHand
  <2>2. c \in Elements(t.plan) \/ Covered(t, m, c)
    BY <2>1 DEF Good, CallsAreInHand
  <2>3. c \in Calls
    BY <1>1, PlansAreCalls
  <2>4. m[c] > 0 \/ c = h => e[c] > 0
    BY <1>5, <2>3
  <2>5. QED
    BY <1>6, <1>8, <2>2, <2>4 DEF Covered, Untried
<1>12. ChargeComesFirst(u, e)
  <2>1. SUFFICES ASSUME t.kind = "payment", ~ t.failing
                 PROVE  /\ r \in PaymentPlans
                        /\ \A n \in PaidNotices \cap Elements(r) :
                             Charge \notin Elements(r) => e[n] < e[Charge]
    BY <1>8 DEF ChargeComesFirst
  <2>2. t.plan \in PaymentPlans
    BY <2>1 DEF Good, ChargeComesFirst
  <2>3. r \in PaymentPlans
    BY <1>2, <2>2, PaymentPlaces DEF PaymentPlans
  <2>4. ASSUME NEW n \in PaidNotices \cap Elements(r), Charge \notin Elements(r)
        PROVE  e[n] < e[Charge]
    <3>1. n \in Calls /\ Charge \in Calls /\ n # Charge /\ m[n] <= m[Charge]
      <4>1. Charge \notin PaidNotices
        BY DEF Charge, PaidNotices
      <4>2. QED
        BY <4>1, NamedCalls DEF Good, Announced
    <3>2. CASE h = Charge
      BY <1>5, <3>1, <3>2
    <3>3. CASE h # Charge
      <4>1. Charge \notin Elements(t.plan)
        BY <1>6, <2>4, <3>3
      <4>2. m[n] < m[Charge]
        BY <1>6, <2>1, <4>1 DEF Good, ChargeComesFirst
      <4>3. n # h
        BY <1>2, <2>2, <3>3, PaymentPlaces
      <4>4. QED
        BY <1>5, <3>1, <3>3, <4>2, <4>3
    <3>4. QED
      BY <3>2, <3>3
  <2>5. QED
    BY <2>3, <2>4
<1>13. CancelsAreNew(u, e)
  <2>1. t.kind = "cleanup" => Distinct(r)
    BY <1>6 DEF Good, CancelsAreNew
  <2>2. ASSUME NEW c \in Cancels \cap Elements(r) PROVE e[c] = 0
    <3>1. t.kind = "cleanup" /\ c \in Elements(t.plan) /\ c \in Calls
      BY <1>1, <1>6, <2>2, WhoseCalls, NamedCalls
    <3>2. c # h
      BY <1>6, <2>2, <3>1 DEF Good, CancelsAreNew
    <3>3. m[c] = 0
      BY <3>1 DEF Good, CancelsAreNew
    <3>4. QED
      BY <1>5, <3>1, <3>2, <3>3
  <2>3. QED
    BY <1>8, <2>1, <2>2 DEF CancelsAreNew
<1>14. QED
  BY <1>2, <1>3, <1>4, <1>7, <1>9, <1>10, <1>11, <1>12, <1>13 DEF Good

-----------------------------------------------------------------------------
(* Jobs: the invariant is preserved *)

\* Only job j changes, to t and m.
Changes(j, t, m) == task' = [task EXCEPT ![j] = t] /\ made' = [made EXCEPT ![j] = m]

\* A change of one good job to another keeps the jobs good.
LEMMA ChangeKeeps ==
  ASSUME JobsInv, NEW j \in Jobs, NEW t, NEW m, Changes(j, t, m), Good(t, m)
  PROVE  /\ task' \in [Jobs -> Task] /\ made' \in [Jobs -> [Calls -> Nat]]
         /\ \A i \in Jobs : Good(task'[i], made'[i])
<1>1. t \in Task /\ m \in [Calls -> Nat]
  BY DEF Good, Typed
<1>2. task \in [Jobs -> Task] /\ made \in [Jobs -> [Calls -> Nat]]
      /\ \A i \in Jobs : Good(task[i], made[i])
  BY DEF JobsInv
<1>3. task' \in [Jobs -> Task] /\ made' \in [Jobs -> [Calls -> Nat]]
  BY <1>1, <1>2 DEF Changes
<1>4. ASSUME NEW i \in Jobs PROVE Good(task'[i], made'[i])
  <2>1. CASE i = j
    BY <1>2, <2>1 DEF Changes
  <2>2. CASE i # j
    <3>1. task'[i] = task[i] /\ made'[i] = made[i]
      BY <1>2, <2>2 DEF Changes
    <3>2. QED
      BY <1>2, <3>1
  <2>3. QED
    BY <2>1, <2>2
<1>5. QED
  BY <1>3, <1>4

\* What the steps of the workers and the clock do to their job.
LEMMA WorkEffect ==
  ASSUME JobsInv, NEW j \in Jobs,
         \/ \E k \in Kinds : AddJob(j, k)
         \/ JobDue(j) \/ JobWorks(j) \/ CallReplyLost(j) \/ JobStalls(j) \/ RetryFailed(j)
  PROVE  \E t, m : Changes(j, t, m) /\ Good(t, m)
<1> DEFINE Goal == \E t, m : Changes(j, t, m) /\ Good(t, m)
<1>1. Good(task[j], made[j]) /\ task[j] \in Task /\ made[j] \in [Calls -> Nat]
      /\ Announced(made[j]) /\ task \in [Jobs -> Task] /\ made \in [Jobs -> [Calls -> Nat]]
  BY DEF JobsInv, Good
<1>2. made = [made EXCEPT ![j] = made[j]]
  BY <1>1
<1>3. ASSUME NEW k \in Kinds, AddJob(j, k) PROVE Goal
  <2>1. PICK s \in {"delayed", "waiting"} : s = IF k \in Delayed THEN "delayed" ELSE "waiting"
    OBVIOUS
  <2>2. Good([task[j] EXCEPT !.kind = k, !.state = s], made[j])
    <3>1. k \in AllKinds
      BY JobConstants
    <3>2. QED
      BY <1>1, <1>3, <3>1, AddKeeps DEF AddJob
  <2>3. Changes(j, [task[j] EXCEPT !.kind = k, !.state = s], made[j])
    BY <1>1, <1>2, <1>3, <2>1 DEF AddJob, Changes
  <2>4. QED
    BY <2>2, <2>3
<1>4. ASSUME JobDue(j) \/ RetryFailed(j) PROVE Goal
  <2>1. Good([task[j] EXCEPT !.state = "waiting"], made[j])
    BY <1>1, <1>4, ShiftKeeps DEF JobDue, RetryFailed, Shifts
  <2>2. Changes(j, [task[j] EXCEPT !.state = "waiting"], made[j])
    BY <1>1, <1>2, <1>4 DEF JobDue, RetryFailed, Changes
  <2>3. QED
    BY <2>1, <2>2
<1>5. ASSUME JobStart(j) PROVE Goal
  <2>1. PICK p : p = PlanFor(task[j].kind, made[j])
    OBVIOUS
  <2>2. PlanOf(j) = p
    BY <2>1 DEF PlanOf, PlanFor, Requested
  <2>3. Good([task[j] EXCEPT !.state = "active", !.plan = p], made[j])
    BY <1>1, <1>5, <2>1, StartKeeps DEF JobStart
  <2>4. Changes(j, [task[j] EXCEPT !.state = "active", !.plan = p], made[j])
    BY <1>1, <1>2, <1>5, <2>2 DEF JobStart, Changes
  <2>5. QED
    BY <2>3, <2>4
<1>6. ASSUME CallSucceeds(j) PROVE Goal
  <2>1. PICK h, r : h = Head(task[j].plan) /\ r = Tail(task[j].plan)
    OBVIOUS
  <2>2. task[j].state = "active" /\ task[j].plan # <<>>
    BY <1>6 DEF CallSucceeds
  <2>3. Good([task[j] EXCEPT !.plan = r], [made[j] EXCEPT ![h] = made[j][h] + 1])
    BY <1>1, <2>1, <2>2, CallKeeps
  <2>4. /\ task' = [task EXCEPT ![j].plan = r]
        /\ made' = [made EXCEPT ![j][h] = @ + 1]
    BY <1>6, <2>1 DEF CallSucceeds
  <2>5. Changes(j, [task[j] EXCEPT !.plan = r], [made[j] EXCEPT ![h] = made[j][h] + 1])
    BY <1>1, <2>4 DEF Changes
  <2>6. QED
    BY <2>3, <2>5
<1>7. ASSUME CallThrows(j) PROVE Goal
  <2>1. Good(Thrown(task[j]), made[j])
    BY <1>1, <1>7, ThrowKeeps DEF CallThrows
  <2>2. Changes(j, Thrown(task[j]), made[j])
    BY <1>1, <1>2, <1>7 DEF CallThrows, Changes
  <2>3. QED
    BY <2>1, <2>2
<1>8. ASSUME CallReplyLost(j) PROVE Goal
  <2>1. PICK h : h = Head(task[j].plan)
    OBVIOUS
  <2>2. PICK e : e = [made[j] EXCEPT ![h] = made[j][h] + 1]
    OBVIOUS
  <2>3. task[j].state = "active" /\ task[j].plan # <<>>
    BY <1>8 DEF CallReplyLost
  <2>4. e \in [Calls -> Nat] /\ Announced(e)
    BY <1>1, <2>1, <2>2, <2>3, EffectKeeps
  <2>5. Good(Thrown(task[j]), e)
    BY <1>1, <2>3, <2>4, ThrowKeeps
  <2>6. made' = [made EXCEPT ![j][h] = @ + 1] /\ task' = [task EXCEPT ![j] = Thrown(@)]
    BY <1>8, <2>1 DEF CallReplyLost
  <2>7. Changes(j, Thrown(task[j]), e)
    BY <1>1, <2>2, <2>6 DEF Changes
  <2>8. QED
    BY <2>5, <2>7
<1>9. ASSUME JobReturns(j) PROVE Goal
  <2>1. Good(Ended(task[j], ~ task[j].failing), made[j])
    BY <1>1, <1>9, ReturnKeeps DEF JobReturns
  <2>2. Changes(j, Ended(task[j], ~ task[j].failing), made[j])
    BY <1>1, <1>2, <1>9 DEF JobReturns, Changes
  <2>3. QED
    BY <2>1, <2>2
<1>10. ASSUME JobStalls(j) PROVE Goal
  <2> DEFINE t == [task[j] EXCEPT !.state = IF task[j].stalls = 0 THEN "waiting" ELSE "failed",
                                  !.plan = <<>>, !.failing = FALSE, !.stalls = @ + 1]
  <2>1. Good(t, made[j])
    BY <1>1, StallKeeps
  <2>2. task' = [task EXCEPT ![j] = t] /\ made' = made
    BY <1>10 DEF JobStalls
  <2> HIDE DEF t
  <2>3. Changes(j, t, made[j])
    BY <1>2, <2>2 DEF Changes
  <2>4. QED
    BY <2>1, <2>3
<1>11. QED
  BY <1>3, <1>4, <1>5, <1>6, <1>7, <1>8, <1>9, <1>10 DEF JobWorks

\* Every step keeps every job good.
LEMMA JobsStep ==
  ASSUME JobsInv, [JobsNext]_jobsVars
  PROVE  JobsInv'
<1>1. task \in [Jobs -> Task] /\ made \in [Jobs -> [Calls -> Nat]]
      /\ \A i \in Jobs : Good(task[i], made[i])
  BY DEF JobsInv
<1>2. paused' \subseteq AdminQueues /\ mishaps' \in 0 .. MaxMishaps
      /\ retried' \in 0 .. MaxRetried
  <2>1. /\ paused' \subseteq AdminQueues
        /\ mishaps' = mishaps \/ (mishaps < MaxMishaps /\ mishaps' = mishaps + 1)
        /\ retried' = retried \/ (retried < MaxRetried /\ retried' = retried + 1)
    <3>1. CASE UNCHANGED jobsVars
      BY <3>1 DEF JobsInv, jobsVars
    <3>2. ASSUME NEW j \in Jobs,
                 \/ \E k \in Kinds : AddJob(j, k)
                 \/ JobDue(j) \/ JobWorks(j)
          PROVE  UNCHANGED <<paused, mishaps, retried>>
      BY <3>2 DEF AddJob, JobDue, JobWorks, JobStart, CallSucceeds, CallThrows, JobReturns
    <3>3. ASSUME NEW j \in Jobs, CallReplyLost(j) \/ JobStalls(j)
          PROVE  /\ UNCHANGED <<paused, retried>>
                 /\ mishaps < MaxMishaps /\ mishaps' = mishaps + 1
      BY <3>3 DEF CallReplyLost, JobStalls
    <3>4. ASSUME NEW j \in Jobs, RetryFailed(j)
          PROVE  /\ UNCHANGED <<paused, mishaps>>
                 /\ retried < MaxRetried /\ retried' = retried + 1
      BY <3>4 DEF RetryFailed
    <3>5. ASSUME NEW q \in AdminQueues, PauseQueue(q) \/ ResumeQueue(q) \/ ClearJobs(q)
          PROVE  paused' \subseteq AdminQueues /\ UNCHANGED <<mishaps, retried>>
      BY <3>5 DEF JobsInv, PauseQueue, ResumeQueue, ClearJobs
    <3>6. QED
      BY <3>1, <3>2, <3>3, <3>4, <3>5 DEF JobsNext, JobsInv
  <2>2. QED
    BY <2>1, JobConstants DEF JobsInv
<1>3. CASE UNCHANGED <<task, made>>
  BY <1>1, <1>2, <1>3 DEF JobsInv
<1>4. ASSUME NEW j \in Jobs,
             \/ \E k \in Kinds : AddJob(j, k)
             \/ JobDue(j) \/ JobWorks(j) \/ CallReplyLost(j) \/ JobStalls(j) \/ RetryFailed(j)
      PROVE  JobsInv'
  <2>1. PICK t, m : Changes(j, t, m) /\ Good(t, m)
    BY <1>4, WorkEffect
  <2>2. QED
    BY <1>2, <2>1, ChangeKeeps DEF JobsInv
<1>5. ASSUME NEW q \in AdminQueues, ClearJobs(q) PROVE JobsInv'
  <2>1. made' = made /\ DOMAIN task' = Jobs /\ task' = [i \in Jobs |-> task'[i]]
    BY <1>5 DEF ClearJobs
  <2>2. ASSUME NEW i \in Jobs PROVE Good(task'[i], made[i])
    <3>1. CASE task'[i] = task[i]
      BY <1>1, <3>1
    <3>2. CASE /\ task[i].state \in {"waiting", "delayed"}
               /\ task'[i] = [task[i] EXCEPT !.state = "cleared"]
      <4>1. Good([task[i] EXCEPT !.state = "cleared"], made[i])
        <5>1. Shifts(task[i].state, "cleared")
          BY <3>2 DEF Shifts
        <5>2. QED
          BY <1>1, <5>1, ShiftKeeps
      <4>2. QED
        BY <3>2, <4>1
    <3>3. QED
      BY <1>5, <3>1, <3>2 DEF ClearJobs
  <2>3. \A i \in Jobs : task'[i] \in Task
    BY <2>2 DEF Good, Typed
  <2>4. task' \in [Jobs -> Task]
    BY <2>1, <2>3
  <2>5. QED
    BY <1>1, <1>2, <2>1, <2>2, <2>4 DEF JobsInv
<1>6. QED
  BY <1>3, <1>4, <1>5 DEF JobsNext, jobsVars, PauseQueue, ResumeQueue

\* The first state.
LEMMA JobsFirst ==
  ASSUME JobsInit
  PROVE  JobsInv
<1>1. PICK z : z = [c \in Calls |-> 0]
  OBVIOUS
<1>2. z \in [Calls -> Nat] /\ \A c \in Calls : z[c] = 0
  BY <1>1
<1>3. Announced(z)
  BY <1>2, NamedCalls DEF Announced
<1>4. <<>> \in Seq(Calls) /\ "log" \in AllKinds /\ "none" \in TaskStates
  BY DEF AllKinds, TaskStates
<1>5. /\ NoTask \in Task /\ NoTask.state = "none" /\ NoTask.plan = <<>> /\ ~ NoTask.failing
  BY <1>4 DEF NoTask, Task
<1>6. Good(NoTask, z)
  <2>1. UntriedDidNothing(NoTask, z)
    BY <1>2 DEF UntriedDidNothing
  <2>2. QED
    BY <1>2, <1>3, <1>5, <2>1, IdleIsGood
<1>7. task = [j \in Jobs |-> NoTask] /\ made = [j \in Jobs |-> z]
  BY <1>1 DEF JobsInit
<1>8. /\ paused \subseteq AdminQueues /\ mishaps \in 0 .. MaxMishaps
      /\ retried \in 0 .. MaxRetried
  BY JobConstants DEF JobsInit
<1>9. QED
  BY <1>2, <1>5, <1>6, <1>7, <1>8 DEF JobsInv

\* The invariant holds of every behaviour.
LEMMA JobsInvariant == JobsSpec => []JobsInv
<1>1. JobsInit => JobsInv
  BY JobsFirst
<1>2. JobsInv /\ [JobsNext]_jobsVars => JobsInv'
  BY JobsStep
<1>3. QED
  BY <1>1, <1>2, PTL DEF JobsSpec

\* No step of a worker, a processor or an administrator writes a value outside the types,
\* and the calls that an attempt has left are calls of its job.
THEOREM JobsTypeCorrect == JobsSpec => []JobsTypeOK
<1>1. ASSUME JobsInv PROVE JobsTypeOK
  <2>1. ASSUME NEW j \in Jobs
        PROVE  Elements(task[j].plan) \subseteq
                 Elements(Script(task[j].kind)) \cup Elements(Rescue(task[j].kind))
    BY <1>1 DEF JobsInv, Good, Typed
  <2>2. QED
    BY <1>1, <2>1 DEF JobsInv, JobsTypeOK, Task
<1>2. QED
  BY <1>1, JobsInvariant, PTL

\* processors: a job that is done made all its calls, with the one exception of a cleanup
\* that was broken off; a job is given up only when its attempts are spent or it stalled
\* twice.  For any number of attempts, throws, lost replies, dead workers and retries.
THEOREM OutcomesAreEarned == JobsSpec => []OutcomeIsEarned
<1>1. JobsInv => OutcomeIsEarned
  BY DEF JobsInv, Good, EndIsEarned, Covered, Untried, OutcomeIsEarned, Undisturbed
<1>2. QED
  BY <1>1, JobsInvariant, PTL

\* process-payment never announces a charge that was not made, and delete-expired-bookings
\* cancels a booking once, however often they are tried.
THEOREM AnnouncedIsTrue == JobsSpec => []NoticesAreTrue
<1>1. JobsInv => NoticesAreTrue
  BY DEF JobsInv, Good, Announced, PaidNotices, Charge, Cancels, NoticesAreTrue
<1>2. QED
  BY <1>1, JobsInvariant, PTL

-----------------------------------------------------------------------------
(* Delivery *)

\* The two components share no variable: what is delivered is a behaviour of the one and
\* of the other, with the fairness of both.
THEOREM DeliveryIsBoth == DeliverySpec => Spec /\ JobsSpec
<1>1. DeliveryInit => Init /\ JobsInit
  BY DEF DeliveryInit
<1>2. [DeliveryNext]_<<focus, vars, jobsVars>> => [Next]_vars /\ [JobsNext]_jobsVars
  <2>1. SUFFICES ASSUME [DeliveryNext]_<<focus, vars, jobsVars>>
                 PROVE  [Next]_vars /\ [JobsNext]_jobsVars
    OBVIOUS
  <2>2. \/ Next /\ jobsVars' = jobsVars
        \/ JobsNext /\ vars' = vars
        \/ vars' = vars /\ jobsVars' = jobsVars
    BY <2>1 DEF DeliveryNext
  <2>3. QED
    BY <2>2
<1>3. QED
  BY <1>1, <1>2, PTL DEF DeliverySpec, Spec, JobsSpec

\* So the types of both are kept.
THEOREM DeliveryTypeCorrect == DeliverySpec => []DeliveryTypeOK
<1>1. TypeOK /\ JobsTypeOK => DeliveryTypeOK
  BY DEF DeliveryTypeOK
<1>2. QED
  BY <1>1, DeliveryIsBoth, NotesTypeCorrect, JobsTypeCorrect, PTL
===============================================================================
