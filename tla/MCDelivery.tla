------------------------------ MODULE MCDelivery ------------------------------
(***************************************************************************)
(* NotificationQueue and BackgroundJobs for TLC: the queues and what their *)
(* workers do.  They share no variable: focus chooses the one that runs.   *)
(***************************************************************************)
EXTENDS NotificationQueue, BackgroundJobs, TLC

VARIABLE focus

OneUser == [b \in Barbers |-> CHOOSE u \in Users : TRUE]

\* The attempts of jobs.module.ts, and those processRefund asks for.
QueueAttempts ==
  [k \in AllKinds |-> IF k \in {"payment", "payout"} THEN 5 ELSE 3]

\* The other three notices of a booking have the script of the reminder.
MostKinds == AllKinds \ {"confirmation", "cancellation", "completion"}

DeliveryInit == focus \in {"notifications", "jobs"} /\ Init /\ JobsInit

DeliveryNext ==
  \/ focus = "notifications" /\ Next /\ UNCHANGED <<focus, jobsVars>>
  \/ focus = "jobs" /\ JobsNext /\ UNCHANGED <<focus, vars>>

\* In the initial state of the one that does not run its fair actions are disabled.
DeliverySpec ==
  DeliveryInit /\ [][DeliveryNext]_<<focus, vars, jobsVars>> /\ Fairness /\ JobsFairness

\* The notifications are alike, and their ids are used in order; faults befall one of
\* them alone, as two meet only in the queue and at its workers.
DeliveryScope ==
  LET used == {n \in Notes : note[n].life # "none"}
  IN  used = 1 .. Cardinality(used) /\ (Cardinality(used) > 1 => faults = 0)

\* Type invariant: those of the two.
DeliveryTypeOK == TypeOK /\ JobsTypeOK
=============================================================================
