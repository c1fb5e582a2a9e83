-------------------------- MODULE NotificationQueue --------------------------
(***************************************************************************)
(* NotificationsService and the processor of the notifications queue: a    *)
(* notification is stored, then a job is queued for it; a worker delivers  *)
(* it and saves its new status; a delivery that fails is counted in the    *)
(* document and queued again; meanwhile its owner reads and deletes it.    *)
(*                                                                         *)
(* The queue was registered without options by NotificationsModule, so a   *)
(* job that throws is not tried again: it stays in the list of failed jobs *)
(* until an administrator retries it.  A worker that dies leaves a stalled *)
(* job, which Bull queues again.                                           *)
(***************************************************************************)
EXTENDS Naturals, FiniteSets

CONSTANTS
  Notes,      \* the notification ids
  Users,      \* the recipients that are users
  Barbers,    \* the recipients given by the id of a barber profile
  UserOf,     \* UserOf[b]: the user of barber profile b
  NoUser,     \* the owner of a notification that does not exist
  NoNote,     \* the notification of an idle worker
  Senders,    \* bounds the calls that create notifications at the same time
  Workers,    \* bounds the jobs that are processed at the same time
  MaxRetries, \* maxRetries of a notification
  MaxFaults   \* bounds the exceptions and crashes of a behaviour

VARIABLES
  note,      \* note[n]: the document
  sender,    \* sender[s]: what a creating call has still to do
  waiting,   \* waiting[n]: the number of jobs of n that wait or are delayed
  failedJob, \* failedJob[n]: the number of jobs of n in the list of failed jobs
  worker,    \* worker[w]: the job in progress and the copy its handler loaded
  delivered, \* the pairs <<n, way>>: the channel of n returned, having taken or skipped it
  failures,  \* failures[n]: how often the handling of n failed
  lost,      \* lost[n]: a job of n was not added, or was cleared
  faults,    \* how many faults have happened
  halted     \* an administrator has paused the queue

jobVars == <<waiting, failedJob, worker>>
history == <<delivered, failures, lost>>
vars == <<note, sender, jobVars, history, faults, halted>>

-----------------------------------------------------------------------------
(* Documents *)

\* Only push skips: its user has no token or does not want pushes, or Firebase was not
\* initialised.
Ways == {"taken", "skipped"}
Went(way) == {n \in Notes : <<n, way>> \in delivered}
Passed == Went("taken") \cup Went("skipped")

NoteStatus == {"pending", "sent", "read", "failed"}

\* The fields that the handlers write; the text, the channel's data and the
\* analytics of the schema are left out.
NoteDoc == [life    : {"none", "stored", "deleted"},
            userId  : Users \cup {NoUser},
            status  : NoteStatus,
            retry   : Nat,
            sentAt  : BOOLEAN,
            failAt  : BOOLEAN,
            readAt  : BOOLEAN]
NoDoc == [life |-> "none", userId |-> NoUser, status |-> "pending", retry |-> 0,
          sentAt |-> FALSE, failAt |-> FALSE, readAt |-> FALSE]

Exists(n) == note[n].life = "stored"
Unread == {"pending", "sent"}

\* Mutant of Saved: save() writes the whole document back.
SavedWhole(now, old, new) == new

\* document.save() writes the paths that differ from what was loaded.
Modified(now, old, new) == IF new # old THEN new ELSE now
Saved(now, old, new) ==
  [now EXCEPT !.status = Modified(@, old.status, new.status),
              !.retry  = Modified(@, old.retry, new.retry),
              !.sentAt = Modified(@, old.sentAt, new.sentAt),
              !.failAt = Modified(@, old.failAt, new.failAt),
              !.readAt = Modified(@, old.readAt, new.readAt)]

SenderOps == {"idle", "create", "add"}
NoCall == [op |-> "idle", left |-> 0, add |-> {}]
Call == [op : SenderOps, left : Nat, add : SUBSET Notes]

WorkerOps == {"idle", "deliver", "save", "failure", "count", "requeue"}
NoJob == [op |-> "idle", n |-> NoNote, copy |-> NoDoc]
Job == [op : WorkerOps, n : Notes \cup {NoNote}, copy : NoteDoc]

ASSUME ConstantsOK ==
  /\ NoNote \notin Notes
  /\ NoUser \notin Users
  /\ Barbers \cap Users = {}
  /\ UserOf \in [Barbers -> Users]
  /\ MaxRetries \in Nat \ {0}
  /\ MaxFaults \in Nat

Init ==
  /\ note = [n \in Notes |-> NoDoc]
  /\ sender = [s \in Senders |-> NoCall]
  /\ waiting = [n \in Notes |-> 0]
  /\ failedJob = [n \in Notes |-> 0]
  /\ worker = [w \in Workers |-> NoJob]
  /\ delivered = {}
  /\ failures = [n \in Notes |-> 0]
  /\ lost = [n \in Notes |-> FALSE]
  /\ faults = 0
  /\ halted = FALSE

Fault == faults < MaxFaults /\ faults' = faults + 1

-----------------------------------------------------------------------------
(* Creating notifications *)

\* Mutant of Recipient: the id of a barber profile is taken for a user's.
RecipientAsGiven(r) == r

\* The recipient is looked up among the users, then among the barbers.
Recipient(r) == IF r \in Users THEN r ELSE UserOf[r]

\* createNotification, or one of the senders that call it for push and then for
\* e-mail: left notifications are to be created, one after the other.
Send(s, left) ==
  /\ sender[s] = NoCall
  /\ sender' = [sender EXCEPT ![s] = [op |-> "create", left |-> left, add |-> {}]]
  /\ UNCHANGED <<note, jobVars, history, faults, halted>>

\* The document is stored.
CreateNotification(s, n, r) ==
  /\ sender[s].op = "create" /\ note[n].life = "none"
  /\ note' = [note EXCEPT ![n] = [NoDoc EXCEPT !.life = "stored",
                                               !.userId = Recipient(r)]]
  /\ sender' = [sender EXCEPT ![s].op = "add", ![s].add = {n},
                              ![s].left = sender[s].left - 1]
  /\ UNCHANGED <<jobVars, history, faults, halted>>

\* sendSystemNotification stores all documents first.
Broadcast(s, users) ==
  /\ sender[s] = NoCall
  /\ \E ids \in [users -> {n \in Notes : note[n].life = "none"}] :
       /\ \A u, v \in users : u # v => ids[u] # ids[v]
       /\ note' = [n \in Notes |->
                    IF \E u \in users : ids[u] = n
                    THEN [NoDoc EXCEPT !.life = "stored",
                                       !.userId = CHOOSE u \in users : ids[u] = n]
                    ELSE note[n]]
       /\ sender' = [sender EXCEPT ![s] = [op |-> "add", left |-> 0,
                                           add |-> {ids[u] : u \in users}]]
  /\ UNCHANGED <<jobVars, history, faults, halted>>

\* The job of one stored document is added to the queue.
Enqueue(s, n) ==
  /\ sender[s].op = "add" /\ n \in sender[s].add
  /\ waiting' = [waiting EXCEPT ![n] = @ + 1]
  /\ LET rest == sender[s].add \ {n}
     IN  sender' = [sender EXCEPT ![s] =
                     IF rest # {} THEN [@ EXCEPT !.add = rest]
                     ELSE IF @.left > 0 THEN [@ EXCEPT !.op = "create", !.add = {}]
                     ELSE NoCall]
  /\ UNCHANGED <<note, failedJob, worker, history, faults, halted>>

\* An exception or a crash before the call is over: what it has stored and not
\* queued stays pending, and what it has not stored is never stored.
SendAbort(s) ==
  /\ sender[s].op # "idle"
  /\ Fault
  /\ lost' = [n \in Notes |-> lost[n] \/ n \in sender[s].add]
  /\ sender' = [sender EXCEPT ![s] = NoCall]
  /\ UNCHANGED <<note, jobVars, delivered, failures, halted>>

-----------------------------------------------------------------------------
(* The processor: processNotification and handleNotificationFailure *)

\* The handler goes on with another step.
Goto(w, op, copy) ==
  worker' = [worker EXCEPT ![w] = [op |-> op, n |-> worker[w].n, copy |-> copy]]
Finished(w) == worker' = [worker EXCEPT ![w] = NoJob]

\* A job is taken and its notification loaded; without one the job is done.
ProcessLoad(w, n) ==
  /\ worker[w] = NoJob /\ waiting[n] > 0 /\ ~ halted
  /\ waiting' = [waiting EXCEPT ![n] = @ - 1]
  /\ worker' = IF Exists(n)
               THEN [worker EXCEPT ![w] = [op |-> "deliver", n |-> n, copy |-> note[n]]]
               ELSE worker
  /\ UNCHANGED <<note, sender, failedJob, history, faults, halted>>

\* Mutant of Deliver: the save is made whether the channel fails or not.
DeliverAnyway(w) ==
  /\ worker[w].op = "deliver"
  /\ Goto(w, "save", worker[w].copy)
  /\ UNCHANGED <<note, sender, waiting, failedJob, history, faults, halted>>

\* The channel takes the notification, skips it without a word, or throws.
Deliver(w) ==
  LET n == worker[w].n
  IN  /\ worker[w].op = "deliver"
      /\ \/ /\ \E way \in Ways : delivered' = delivered \cup {<<n, way>>}
            /\ Goto(w, "save", worker[w].copy)
         \/ /\ Goto(w, "failure", worker[w].copy)
            /\ UNCHANGED delivered
      /\ UNCHANGED <<note, sender, waiting, failedJob, failures, lost, faults, halted>>

\* The notification is saved as sent; a document that is gone cannot be saved.
ProcessSave(w) ==
  LET n == worker[w].n
      old == worker[w].copy
      new == [old EXCEPT !.status = "sent", !.sentAt = TRUE]
  IN  /\ worker[w].op = "save"
      /\ IF Exists(n)
         THEN /\ note' = [note EXCEPT ![n] = Saved(note[n], old, new)]
              /\ Finished(w)
         ELSE Goto(w, "failure", old) /\ UNCHANGED note
      /\ UNCHANGED <<sender, waiting, failedJob, history, faults, halted>>

\* The save fails although the notification was delivered.
ProcessSaveFails(w) ==
  /\ worker[w].op = "save"
  /\ Fault
  /\ Goto(w, "failure", worker[w].copy)
  /\ UNCHANGED <<note, sender, waiting, failedJob, history, halted>>

\* handleNotificationFailure loads the notification again.
FailureLoad(w) ==
  LET n == worker[w].n
  IN  /\ worker[w].op = "failure"
      /\ failures' = [failures EXCEPT ![n] = @ + 1]
      /\ IF Exists(n) THEN Goto(w, "count", note[n]) ELSE Finished(w)
      /\ UNCHANGED <<note, sender, waiting, failedJob, delivered, lost, faults, halted>>

\* Mutant of Spent: one retry is given up.
SpentEarly(doc) == doc.retry + 1 >= MaxRetries

Spent(doc) == doc.retry >= MaxRetries

\* The failure is counted; the last one makes the notification failed.
FailureSave(w) ==
  LET n == worker[w].n
      old == worker[w].copy
      counted == [old EXCEPT !.retry = @ + 1, !.failAt = TRUE]
      new == IF Spent(counted) THEN [counted EXCEPT !.status = "failed"] ELSE counted
  IN  /\ worker[w].op = "count"
      /\ IF Exists(n)
         THEN /\ note' = [note EXCEPT ![n] = Saved(note[n], old, new)]
              /\ IF Spent(counted) THEN Finished(w) ELSE Goto(w, "requeue", new)
              /\ UNCHANGED failedJob
         ELSE /\ failedJob' = [failedJob EXCEPT ![n] = @ + 1]
              /\ Finished(w)
              /\ UNCHANGED note
      /\ UNCHANGED <<sender, waiting, history, faults, halted>>

\* Mutant of Requeue: the next attempt is not queued.
RequeueNever(w) ==
  /\ worker[w].op = "requeue"
  /\ Finished(w)
  /\ UNCHANGED <<note, sender, waiting, failedJob, history, faults, halted>>

\* The next attempt is queued with a delay.
Requeue(w) ==
  /\ worker[w].op = "requeue"
  /\ waiting' = [waiting EXCEPT ![worker[w].n] = @ + 1]
  /\ Finished(w)
  /\ UNCHANGED <<note, sender, failedJob, history, faults, halted>>

\* handleNotificationFailure throws: the job is failed.
FailureThrows(w) ==
  /\ worker[w].op \in {"failure", "count", "requeue"}
  /\ Fault
  /\ failedJob' = [failedJob EXCEPT ![worker[w].n] = @ + 1]
  /\ Finished(w)
  /\ UNCHANGED <<note, sender, waiting, history, halted>>

\* The worker dies; Bull finds the stalled job and queues it again.
WorkerDies(w) ==
  /\ worker[w].op # "idle"
  /\ Fault
  /\ waiting' = [waiting EXCEPT ![worker[w].n] = @ + 1]
  /\ Finished(w)
  /\ UNCHANGED <<note, sender, failedJob, history, halted>>

-----------------------------------------------------------------------------
(* Administrators and owners *)

\* clearQueue removes what waits; failed jobs stay.
ClearQueue ==
  /\ \E n \in Notes : waiting[n] > 0
  /\ lost' = [n \in Notes |-> lost[n] \/ waiting[n] > 0]
  /\ waiting' = [n \in Notes |-> 0]
  /\ UNCHANGED <<note, sender, failedJob, worker, delivered, failures, faults, halted>>

RetryFailedJobs ==
  /\ \E n \in Notes : failedJob[n] > 0
  /\ waiting' = [n \in Notes |-> waiting[n] + failedJob[n]]
  /\ failedJob' = [n \in Notes |-> 0]
  /\ UNCHANGED <<note, sender, worker, history, faults, halted>>

\* The workers take no more jobs, and finish those they have.
PauseNotifications ==
  /\ halted' = TRUE
  /\ UNCHANGED <<note, sender, jobVars, history, faults>>

ResumeNotifications ==
  /\ halted' = FALSE
  /\ UNCHANGED <<note, sender, jobVars, history, faults>>

OwnedBy(u) == {n \in Notes : Exists(n) /\ note[n].userId = u}
Reading(doc) == [doc EXCEPT !.status = "read", !.readAt = TRUE]

MarkAsRead(u, n) ==
  /\ n \in OwnedBy(u)
  /\ note' = [note EXCEPT ![n] = Reading(@)]
  /\ UNCHANGED <<sender, jobVars, history, faults, halted>>

MarkAllAsRead(u) ==
  /\ note' = [n \in Notes |-> IF n \in OwnedBy(u) /\ note[n].status \in Unread
                              THEN Reading(note[n]) ELSE note[n]]
  /\ UNCHANGED <<sender, jobVars, history, faults, halted>>

DeleteNotification(u, n) ==
  /\ n \in OwnedBy(u)
  /\ note' = [note EXCEPT ![n] = [NoDoc EXCEPT !.life = "deleted"]]
  /\ UNCHANGED <<sender, jobVars, history, faults, halted>>

DeleteAllNotifications(u) ==
  /\ note' = [n \in Notes |-> IF n \in OwnedBy(u) THEN [NoDoc EXCEPT !.life = "deleted"]
                                                  ELSE note[n]]
  /\ UNCHANGED <<sender, jobVars, history, faults, halted>>

-----------------------------------------------------------------------------
Process(w) ==
  \/ \E n \in Notes : ProcessLoad(w, n)
  \/ Deliver(w) \/ ProcessSave(w) \/ FailureLoad(w) \/ FailureSave(w) \/ Requeue(w)

Next ==
  \/ \E s \in Senders :
       \/ \E left \in 1 .. 2 : Send(s, left)
       \/ \E n \in Notes, r \in Users \cup Barbers : CreateNotification(s, n, r)
       \/ \E users \in SUBSET Users \ {{}} : Broadcast(s, users)
       \/ \E n \in Notes : Enqueue(s, n)
       \/ SendAbort(s)
  \/ \E w \in Workers : Process(w) \/ ProcessSaveFails(w) \/ FailureThrows(w) \/ WorkerDies(w)
  \/ ClearQueue \/ RetryFailedJobs \/ PauseNotifications \/ ResumeNotifications
  \/ \E u \in Users :
       \/ \E n \in Notes : MarkAsRead(u, n) \/ DeleteNotification(u, n)
       \/ MarkAllAsRead(u) \/ DeleteAllNotifications(u)

\* Calls run to their end and the workers go on; delays pass; an administrator owes
\* nothing.
Fairness ==
  /\ \A s \in Senders, n \in Notes : WF_vars(Enqueue(s, n))
  /\ \A w \in Workers : WF_vars(Process(w))

Spec == Init /\ [][Next]_vars /\ Fairness

-----------------------------------------------------------------------------
(* Properties *)

\* Type invariant; in particular the owner of a stored notification is a user.
TypeOK ==
  /\ note \in [Notes -> NoteDoc]
  /\ \A n \in Notes : Exists(n) => note[n].userId \in Users
  /\ sender \in [Senders -> Call]
  /\ waiting \in [Notes -> Nat]
  /\ failedJob \in [Notes -> Nat]
  /\ worker \in [Workers -> Job]
  /\ delivered \subseteq Notes \X Ways
  /\ failures \in [Notes -> Nat]
  /\ lost \in [Notes -> BOOLEAN]
  /\ faults \in 0 .. MaxFaults
  /\ halted \in BOOLEAN

\* The status of a notification is earned: one that claims to have been sent was taken
\* by its channel, or skipped for want of a token, of the user's consent or of
\* Firebase, and one is given up only after maxRetries failures, even when two workers
\* count the failures of two jobs of it.
StatusIsEarned ==
  \A n \in Notes :
    /\ note[n].status = "sent" \/ note[n].sentAt => n \in Passed
    /\ note[n].status = "failed" => failures[n] >= MaxRetries

\* The pending notifications that a job or a call will still deliver.
InHand(n) ==
  \/ waiting[n] > 0 \/ failedJob[n] > 0
  \/ \E s \in Senders : n \in sender[s].add
  \/ \E w \in Workers : worker[w].n = n

\* A pending notification has a job, or a call is about to add one, unless its job
\* was lost: by a failure between the insert and the add, or with the queue.
PendingIsQueued ==
  \A n \in Notes : Exists(n) /\ note[n].status = "pending" => InHand(n) \/ lost[n]

\* The mark of a reader survives: a worker that saves an older copy may set the
\* status back to sent, but readAt stays.
ReadMarkStays ==
  [][\A n \in Notes : note[n].readAt /\ note'[n].life = "stored" => note'[n].readAt]_vars

\* The promises of NotificationContract, seen through the document.
Phase(n) ==
  IF note[n].life = "none" THEN "none"
  ELSE IF note[n].life = "deleted" THEN "gone" ELSE note[n].status

Contract == INSTANCE NotificationContract WITH
              phase   <- [n \in Notes |-> Phase(n)],
              owner   <- [n \in Notes |-> note[n].userId],
              seen    <- [n \in Notes |-> note[n].readAt],
              handed  <- Went("taken"),
              skipped <- Went("skipped"),
              missed  <- failures

\* Every step of senders, workers, owners and administrators is a step of the
\* contract: a notification never changes its owner and never pends again, and what
\* is said of it was earned, however late a worker saves an older copy of it.
KeepsNoteContract == Contract!Spec

\* Every pending notification is sent, given up, read or deleted in the end,
\* unless its job was lost or failed, or the queue is paused.
PendingIsSettled ==
  \A n \in Notes :
    Exists(n) /\ note[n].status = "pending"
      ~> ~ (Exists(n) /\ note[n].status = "pending") \/ lost[n] \/ failedJob[n] > 0
         \/ halted
=============================================================================
