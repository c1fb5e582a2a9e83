--------------------------- MODULE BackgroundJobs ---------------------------
(***************************************************************************)
(* The jobs that JobsService adds to the Bull queues and the processors    *)
(* that run them.  A processor is a list of calls to other services, made  *)
(* one after the other; the first that throws ends the attempt, and Bull   *)
(* starts the next attempt from the beginning of the list.                 *)
(*                                                                         *)
(* The jobs that deliver notifications are those of NotificationQueue, and *)
(* delete-expired-booking is part of BookingLifecycle.                     *)
(***************************************************************************)
EXTENDS Naturals, Sequences

CONSTANTS
  Jobs,        \* the job ids
  Kinds,       \* the kinds of jobs that are added
  AdminQueues, \* the queues that administrators pause and clear
  Attempts,    \* Attempts[k]: the attempts of a job of kind k
  MaxMishaps,  \* bounds the lost replies and dead workers of a behaviour
  MaxRetried   \* bounds the jobs that administrators retry

VARIABLES
  task,    \* task[j]: the job
  made,    \* made[j][c]: how often call c of job j took effect
  paused,  \* the queues that are paused
  mishaps, \* how many replies were lost and workers died
  retried  \* how many failed jobs were retried

jobsVars == <<task, made, paused, mishaps, retried>>

-----------------------------------------------------------------------------
(* What the processors do *)

AllKinds == {"reminder", "confirmation", "cancellation", "completion", "cleanup",
             "payment", "refund", "payout", "mail", "log"}

QueueOf(k) == CASE k \in {"payment", "refund", "payout"} -> "payments"
                [] k = "mail" -> "email"
                [] OTHER -> "bookings"
Queues == {"payments", "email", "bookings"}

\* sendBookingNotification and sendPaymentNotification make a notification for
\* the push channel and one for e-mail.
Notices(about) == << <<"push", about>>, <<"email", about>> >>

\* The expired bookings that a cleanup finds, in the order of its loop.
Expirable == <<"booking1", "booking2">>
CleanupOf(b) == << <<"cancel", b>> >> \o Notices(b)

\* Mutant of Script: the money is announced before it is taken.
ScriptNoticeFirst(k) ==
  CASE k \in {"reminder", "confirmation", "cancellation", "completion"}
         -> Notices("customer") \o Notices("barber")
    [] k = "payment" -> Notices("paid") \o << <<"stripe", "charge">> >>
    [] k = "refund"  -> << <<"stripe", "refund">> >> \o Notices("refunded")
    [] k = "payout"  -> << <<"stripe", "transfer">> >>
    [] k = "mail"    -> << <<"smtp", "mail">> >>
    [] k = "cleanup" -> CleanupOf(Expirable[1]) \o CleanupOf(Expirable[2])
    [] k = "log"     -> <<>>

\* The four notices of a booking go to both parties.  Webhook events, the reminder
\* schedule, and notifications that the jobs API adds without an id are only logged.
Script(k) ==
  CASE k \in {"reminder", "confirmation", "cancellation", "completion"}
         -> Notices("customer") \o Notices("barber")
    [] k = "payment" -> << <<"stripe", "charge">> >> \o Notices("paid")
    [] k = "refund"  -> << <<"stripe", "refund">> >> \o Notices("refunded")
    [] k = "payout"  -> << <<"stripe", "transfer">> >>
    [] k = "mail"    -> << <<"smtp", "mail">> >>
    [] k = "cleanup" -> CleanupOf(Expirable[1]) \o CleanupOf(Expirable[2])
    [] k = "log"     -> <<>>

\* What the catch of process-payment does before it throws again.
Rescue(k) == IF k = "payment" THEN Notices("not paid") ELSE <<>>

Elements(s) == {s[i] : i \in DOMAIN s}
Calls == UNION {Elements(Script(k)) \cup Elements(Rescue(k)) : k \in AllKinds}

\* payment_refund is no NotificationType: the notification is refused.
Refused == Elements(Notices("refunded"))

\* The jobs that are added with a delay, or repeated at a time of the day.
Delayed == {"reminder", "payout", "mail", "cleanup"}

TaskStates == {"none", "delayed", "waiting", "active", "done", "failed", "cleared"}
NoTask == [kind |-> "log", state |-> "none", plan |-> <<>>, failing |-> FALSE,
           tries |-> 0, stalls |-> 0]

ASSUME JobConstants ==
  /\ Kinds \subseteq AllKinds
  /\ AdminQueues \subseteq Queues
  /\ Attempts \in [AllKinds -> Nat \ {0}]
  /\ MaxMishaps \in Nat
  /\ MaxRetried \in Nat

JobsInit ==
  /\ task = [j \in Jobs |-> NoTask]
  /\ made = [j \in Jobs |-> [c \in Calls |-> 0]]
  /\ paused = {}
  /\ mishaps = 0
  /\ retried = 0

-----------------------------------------------------------------------------
(* The life of a job *)

AddJob(j, k) ==
  /\ task[j].state = "none"
  /\ task' = [task EXCEPT ![j].kind = k,
                          ![j].state = IF k \in Delayed THEN "delayed" ELSE "waiting"]
  /\ UNCHANGED <<made, paused, mishaps, retried>>

\* The delay of the job, or of its next attempt, has passed.
JobDue(j) ==
  /\ task[j].state = "delayed"
  /\ task' = [task EXCEPT ![j].state = "waiting"]
  /\ UNCHANGED <<made, paused, mishaps, retried>>

\* Mutant of PlanOf: the cleanup goes through the cancelled bookings again.
PlanWhole(j) == Script(task[j].kind)

\* A cleanup looks for the bookings that are still requested.
PlanOf(j) ==
  LET requested(b) == IF made[j][<<"cancel", b>>] = 0 THEN CleanupOf(b) ELSE <<>>
  IN  IF task[j].kind = "cleanup" THEN requested(Expirable[1]) \o requested(Expirable[2])
                                  ELSE Script(task[j].kind)

JobStart(j) ==
  /\ task[j].state = "waiting" /\ QueueOf(task[j].kind) \notin paused
  /\ task' = [task EXCEPT ![j].state = "active", ![j].plan = PlanOf(j)]
  /\ UNCHANGED <<made, paused, mishaps, retried>>

\* Mutant of Ended: the catch swallows the exception.
EndedAlways(t, ok) == [t EXCEPT !.state = "done", !.plan = <<>>, !.failing = FALSE]

\* Mutant of Ended: the attempts are counted off by one.
EndedEarly(t, ok) ==
  [t EXCEPT !.state = IF ok THEN "done"
                      ELSE IF t.tries + 2 < Attempts[t.kind] THEN "delayed" ELSE "failed",
            !.tries = IF ok THEN @ ELSE @ + 1, !.plan = <<>>, !.failing = FALSE]

\* The attempt is over; one that threw is made again after a while.
Ended(t, ok) ==
  [t EXCEPT !.state = IF ok THEN "done"
                      ELSE IF t.tries + 1 < Attempts[t.kind] THEN "delayed" ELSE "failed",
            !.tries = IF ok THEN @ ELSE @ + 1, !.plan = <<>>, !.failing = FALSE]

\* Mutant of Thrown: the exception is noted and the same call made again.
ThrownKept(t) == [t EXCEPT !.failing = TRUE]

\* The next call throws: the catch runs, or the attempt ends.
Thrown(t) ==
  IF ~ t.failing /\ Rescue(t.kind) # <<>>
  THEN [t EXCEPT !.plan = Rescue(t.kind), !.failing = TRUE]
  ELSE Ended(t, FALSE)

CallSucceeds(j) ==
  LET t == task[j]
  IN  /\ t.state = "active" /\ t.plan # <<>>
      /\ Head(t.plan) \notin Refused
      /\ made' = [made EXCEPT ![j][Head(t.plan)] = @ + 1]
      /\ task' = [task EXCEPT ![j].plan = Tail(t.plan)]
      /\ UNCHANGED <<paused, mishaps, retried>>

\* Stripe declines or wants an action, the server refuses the mail, a document
\* is refused, the recipient is unknown.
CallThrows(j) ==
  /\ task[j].state = "active" /\ task[j].plan # <<>>
  /\ task' = [task EXCEPT ![j] = Thrown(@)]
  /\ UNCHANGED <<made, paused, mishaps, retried>>

\* The call takes effect and its reply is lost.
CallReplyLost(j) ==
  /\ task[j].state = "active" /\ task[j].plan # <<>>
  /\ Head(task[j].plan) \notin Refused
  /\ mishaps < MaxMishaps /\ mishaps' = mishaps + 1
  /\ made' = [made EXCEPT ![j][Head(task[j].plan)] = @ + 1]
  /\ task' = [task EXCEPT ![j] = Thrown(@)]
  /\ UNCHANGED <<paused, retried>>

\* The processor returns, or its catch throws the exception again.
JobReturns(j) ==
  /\ task[j].state = "active" /\ task[j].plan = <<>>
  /\ task' = [task EXCEPT ![j] = Ended(@, ~ @.failing)]
  /\ UNCHANGED <<made, paused, mishaps, retried>>

\* The worker dies.  Bull queues a stalled job again, once.
JobStalls(j) ==
  /\ task[j].state = "active"
  /\ mishaps < MaxMishaps /\ mishaps' = mishaps + 1
  /\ task' = [task EXCEPT ![j] =
       [task[j] EXCEPT !.state = IF task[j].stalls = 0 THEN "waiting" ELSE "failed",
                       !.plan = <<>>, !.failing = FALSE, !.stalls = @ + 1]]
  /\ UNCHANGED <<made, paused, retried>>

-----------------------------------------------------------------------------
(* The administrator *)

PauseQueue(q) ==
  /\ paused' = paused \cup {q}
  /\ UNCHANGED <<task, made, mishaps, retried>>

ResumeQueue(q) ==
  /\ paused' = paused \ {q}
  /\ UNCHANGED <<task, made, mishaps, retried>>

\* queue.empty() removes the jobs that wait or are delayed.
ClearJobs(q) ==
  /\ task' = [j \in Jobs |-> IF QueueOf(task[j].kind) = q
                                /\ task[j].state \in {"waiting", "delayed"}
                             THEN [task[j] EXCEPT !.state = "cleared"] ELSE task[j]]
  /\ UNCHANGED <<made, paused, mishaps, retried>>

\* job.retry() leaves the attempts that were made.
RetryFailed(j) ==
  /\ task[j].state = "failed"
  /\ retried < MaxRetried /\ retried' = retried + 1
  /\ task' = [task EXCEPT ![j].state = "waiting"]
  /\ UNCHANGED <<made, paused, mishaps>>

-----------------------------------------------------------------------------
JobWorks(j) == JobStart(j) \/ CallSucceeds(j) \/ CallThrows(j) \/ JobReturns(j)

JobsNext ==
  \/ \E j \in Jobs :
       \/ \E k \in Kinds : AddJob(j, k)
       \/ JobDue(j) \/ JobWorks(j) \/ CallReplyLost(j) \/ JobStalls(j) \/ RetryFailed(j)
  \/ \E q \in AdminQueues : PauseQueue(q) \/ ResumeQueue(q) \/ ClearJobs(q)

\* Delays pass and the workers go on; an administrator owes nothing.
JobsFairness ==
  \A j \in Jobs : WF_jobsVars(JobDue(j)) /\ WF_jobsVars(JobWorks(j))

JobsSpec == JobsInit /\ [][JobsNext]_jobsVars /\ JobsFairness

-----------------------------------------------------------------------------
(* Properties *)

\* Type invariant; the calls that are left are calls of the job's kind.
JobsTypeOK ==
  /\ task \in [Jobs -> [kind : AllKinds, state : TaskStates, plan : Seq(Calls),
                        failing : BOOLEAN, tries : Nat, stalls : Nat]]
  /\ \A j \in Jobs : Elements(task[j].plan) \subseteq
                       Elements(Script(task[j].kind)) \cup Elements(Rescue(task[j].kind))
  /\ made \in [Jobs -> [Calls -> Nat]]
  /\ paused \subseteq AdminQueues
  /\ mishaps \in 0 .. MaxMishaps
  /\ retried \in 0 .. MaxRetried

Undisturbed(j) == task[j].tries = 0 /\ task[j].stalls = 0

\* The end of a job is earned.  One that is done has done all it was for: both parties
\* are told, the money moved and was announced.  Only a cleanup may be done without all
\* its notices, when an earlier attempt stopped between a cancellation and its notices:
\* the next one no longer finds that booking.  One is given up only when its attempts
\* are spent or it stalled twice.
OutcomeIsEarned ==
  \A j \in Jobs :
    /\ task[j].state = "done" =>
         \A c \in Elements(Script(task[j].kind)) :
           made[j][c] > 0 \/ (task[j].kind = "cleanup" /\ c[1] # "cancel" /\ ~ Undisturbed(j))
    /\ task[j].state = "failed" =>
         task[j].tries >= Attempts[task[j].kind] \/ task[j].stalls > 1

\* Nobody is told of a payment that was not taken, in no attempt; and however often
\* a cleanup is tried it cancels a booking once.
NoticesAreTrue ==
  \A j \in Jobs :
    /\ made[j][<<"push", "paid">>] <= made[j][<<"stripe", "charge">>]
    /\ made[j][<<"email", "paid">>] <= made[j][<<"stripe", "charge">>]
    /\ \A b \in Elements(Expirable) : made[j][<<"cancel", b>>] <= 1

\* A job that was added is done, given up or cleared, or its queue is paused.
JobsSettle ==
  \A j \in Jobs :
    task[j].state \in {"delayed", "waiting", "active"}
      ~> task[j].state \in {"done", "failed", "cleared"} \/ QueueOf(task[j].kind) \in paused

\* Money moves once for a job (README.md "Idempotency Keys for duplicate prevention").
MoneyMovesOnce == \A j \in Jobs, c \in Calls : c[1] = "stripe" => made[j][c] <= 1
=============================================================================
