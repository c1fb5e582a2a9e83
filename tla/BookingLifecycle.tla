-------------------------- MODULE BookingLifecycle --------------------------
(***************************************************************************)
(* The life of a booking: createBooking and the client operations of       *)
(* BookingsService, the Stripe webhook handlers of PaymentsService, the    *)
(* Bull job that deletes an unpaid booking after 20 minutes, and the cron  *)
(* job that does the same every 10 minutes.                                *)
(*                                                                         *)
(* Every handler of the code loads a Mongoose document, awaits, and saves  *)
(* it.  A handler is therefore two steps here, a load that keeps a copy of *)
(* the document and a save that writes back the fields the handler         *)
(* modified, and the steps of different handlers interleave.  A request    *)
(* that fails a check throws before it writes: it changes nothing and is   *)
(* no step of the model.                                                   *)
(***************************************************************************)
EXTENDS Naturals, FiniteSets

CONSTANTS
  Bookings,    \* the booking ids that createBooking may allocate
  Requests,    \* the client requests that may be in flight at the same time
  NoBooking,   \* the booking of an idle request
  Overlap,     \* <<b, c>>: same barber, scheduled within 30 minutes of each other
  PutStatuses, \* the statuses clients send in the body of PUT /bookings/:id
  RawBody,     \* the webhook handler is given the body Stripe signed
  Deliveries,  \* the deliveries of one event that may be handled side by side
  MaxHandlers, \* bounds the requests and deliveries handled at the same time
  MaxAttempts, \* "attempts" of the jobs of the bookings queue
  MaxFaults    \* bounds the exceptions, crashes and lost replies of a behaviour

VARIABLES
  life,    \* life[b]: whether the bookings collection holds document b
  booking, \* booking[b]: the document, when it is stored
  req,     \* req[r]: what client request r is doing, and the copy it has loaded
  secret,  \* secret[b]: createBooking gave the client the client secret
  overruled, \* history: the bookings a PUT gave a status that does not close them
  intent,  \* intent[b]: the PaymentIntent of b at Stripe
  sent,    \* sent[b]: the types of the events Stripe has for the intent of b
  acked,   \* acked[b]: those that were answered with 200 at least once
  hook,    \* hook[<<b, e, d>>]: the handling of delivery d of event e of b
  job,     \* job[b]: the delete-expired-booking job of b
  sweep,   \* the bookings the cron job has found expired and not yet deleted
  overdue, \* overdue[b]: paymentExpiresAt of b has passed
  faults   \* how many faults have happened

bookingVars == <<life, booking>>
clientVars  == <<req, secret, overruled>>
stripeVars  == <<intent, sent, acked, hook>>
expiryVars  == <<job, sweep, overdue>>
vars == <<life, booking, req, secret, overruled, intent, sent, acked, hook, job,
          sweep, overdue, faults>>

-----------------------------------------------------------------------------
(* Documents *)

Status == {"pending_payment", "requested", "accepted", "in_progress",
           "completed", "cancelled", "no_show", "payment_failed"}

\* The statuses that block a slot, and those that a paid booking goes through.
Blocking  == {"requested", "accepted", "in_progress"}
Confirmed == Blocking \cup {"completed"}

\* The fields the properties tell apart: payment.status, whether
\* stripePaymentIntentId, paymentExpiresAt and startedAt are set, seatReserved.
Doc == [status   : Status,
        pay      : {"pending", "completed", "failed"},
        attached : BOOLEAN,
        deadline : BOOLEAN,
        started  : BOOLEAN,
        seat     : BOOLEAN]

\* The document that createBooking inserts.
NewBooking == [status   |-> "pending_payment",
               pay      |-> "pending",
               attached |-> FALSE,
               deadline |-> TRUE,
               started  |-> FALSE,
               seat     |-> TRUE]

\* Mutant of Saved: save() writes the whole document back.
SavedWhole(now, old, new) == new

\* document.save() writes the paths that differ from what was loaded and leaves
\* the rest of the stored document as it is now.
Modified(now, old, new) == IF new # old THEN new ELSE now
Saved(now, old, new) ==
  [status   |-> Modified(now.status, old.status, new.status),
   pay      |-> Modified(now.pay, old.pay, new.pay),
   attached |-> Modified(now.attached, old.attached, new.attached),
   deadline |-> Modified(now.deadline, old.deadline, new.deadline),
   started  |-> Modified(now.started, old.started, new.started),
   seat     |-> Modified(now.seat, old.seat, new.seat)]

\* save() of a document that is gone throws and writes nothing.
Store(b, old, new) ==
  booking' = IF life[b] = "stored"
             THEN [booking EXCEPT ![b] = Saved(booking[b], old, new)]
             ELSE booking

Pending(b) == life[b] = "stored" /\ booking[b].status = "pending_payment"

-----------------------------------------------------------------------------
(* Types of the variables *)

Events == {"succeeded", "failed"}
Ops == {"idle", "insert", "intent", "attach", "schedule",
        "accept", "start", "complete", "cancel", "update"}
Idle  == [op |-> "idle", b |-> NoBooking, copy |-> NewBooking]
Quiet == [busy |-> FALSE, copy |-> NewBooking]
NoJob == [state |-> "none", tries |-> 0]

ASSUME ConstantsOK ==
  /\ NoBooking \notin Bookings
  /\ PutStatuses \subseteq Status
  /\ RawBody \in BOOLEAN
  /\ MaxAttempts \in Nat \ {0}
  /\ MaxHandlers \in Nat \ {0}
  /\ MaxFaults \in Nat

Init ==
  /\ life    = [b \in Bookings |-> "none"]
  /\ booking = [b \in Bookings |-> NewBooking]
  /\ req     = [r \in Requests |-> Idle]
  /\ secret  = [b \in Bookings |-> FALSE]
  /\ overruled = {}
  /\ intent  = [b \in Bookings |-> "none"]
  /\ sent    = [b \in Bookings |-> {}]
  /\ acked   = [b \in Bookings |-> {}]
  /\ hook    = [c \in Bookings \X Events \X Deliveries |-> Quiet]
  /\ job     = [b \in Bookings |-> NoJob]
  /\ sweep   = {}
  /\ overdue = [b \in Bookings |-> FALSE]
  /\ faults  = 0

Fault == faults < MaxFaults /\ faults' = faults + 1

Room ==
  Cardinality({r \in Requests : req[r].op # "idle"})
    + Cardinality({c \in Bookings \X Events \X Deliveries : hook[c].busy})
  < MaxHandlers

\* Request r has passed its checks and goes on with the document it holds.
Begin(r, op, b, copy) ==
  /\ req[r] = Idle /\ Room
  /\ req' = [req EXCEPT ![r] = [op |-> op, b |-> b, copy |-> copy]]
  /\ UNCHANGED <<bookingVars, secret, overruled, stripeVars, expiryVars, faults>>

-----------------------------------------------------------------------------
(* createBooking: POST /bookings *)

\* checkBarberAvailability looks for a booking of the barber within 30 minutes;
\* a booking that waits for its payment does not count.
Available(b) ==
  \A c \in Bookings : <<b, c>> \in Overlap /\ life[c] = "stored"
                        => booking[c].status \notin Blocking

\* The barber, the customer, the slot and the services pass their checks.
CreateCheck(r, b) ==
  /\ life[b] = "none"
  /\ \A q \in Requests : req[q].b # b
  /\ Available(b)
  /\ Begin(r, "insert", b, NewBooking)

CreateInsert(r) ==
  LET b == req[r].b IN
  /\ req[r].op = "insert"
  /\ life' = [life EXCEPT ![b] = "stored"]
  /\ booking' = [booking EXCEPT ![b] = NewBooking]
  /\ req' = [req EXCEPT ![r].op = "intent"]
  /\ UNCHANGED <<secret, overruled, stripeVars, expiryVars, faults>>

\* initializeBookingPayment creates the PaymentIntent at Stripe.
CreateIntent(r) ==
  LET b == req[r].b IN
  /\ req[r].op = "intent"
  /\ intent' = [intent EXCEPT ![b] = "open"]
  /\ req' = [req EXCEPT ![r].op = "attach"]
  /\ UNCHANGED <<bookingVars, secret, overruled, sent, acked, hook, expiryVars, faults>>

\* Mutant of CreateAttach: the id of the intent is not saved.
CreateAttachUnsaved(r) ==
  /\ req[r].op = "attach"
  /\ req' = [req EXCEPT ![r].op = "schedule"]
  /\ UNCHANGED <<bookingVars, secret, overruled, stripeVars, expiryVars, faults>>

\* The document created above is saved again with the id of the intent.
CreateAttach(r) ==
  LET b == req[r].b IN
  /\ req[r].op = "attach"
  /\ Store(b, req[r].copy, [req[r].copy EXCEPT !.attached = TRUE])
  /\ req' = [req EXCEPT ![r] = IF life[b] = "stored"
                               THEN [req[r] EXCEPT !.op = "schedule"]
                               ELSE Idle]
  /\ UNCHANGED <<life, secret, overruled, stripeVars, expiryVars, faults>>

\* scheduleBookingExpiry adds the delayed job, and the client gets its secret.
CreateSchedule(r) ==
  LET b == req[r].b IN
  /\ req[r].op = "schedule"
  /\ job' = [job EXCEPT ![b].state = "delayed"]
  /\ secret' = [secret EXCEPT ![b] = TRUE]
  /\ req' = [req EXCEPT ![r] = Idle]
  /\ UNCHANGED <<bookingVars, overruled, stripeVars, sweep, overdue, faults>>

-----------------------------------------------------------------------------
(* The operations of a participant on a stored booking *)

Load(r, op, b) == life[b] = "stored" /\ Begin(r, op, b, booking[b])

Save(r, op, new) ==
  /\ req[r].op = op
  /\ Store(req[r].b, req[r].copy, new)
  /\ req' = [req EXCEPT ![r] = Idle]
  /\ UNCHANGED <<life, secret, overruled, stripeVars, expiryVars, faults>>

\* Mutant of AcceptLoad: the status is not checked.
AcceptLoadAny(r, b) == Load(r, "accept", b)

AcceptLoad(r, b) == booking[b].status = "requested" /\ Load(r, "accept", b)

AcceptSave(r) ==
  Save(r, "accept", [req[r].copy EXCEPT !.status = "accepted"])

StartLoad(r, b) == booking[b].status = "accepted" /\ Load(r, "start", b)

\* Mutant of StartSave: startedAt is not set.
StartSaveUntimed(r) == Save(r, "start", [req[r].copy EXCEPT !.status = "in_progress"])

StartSave(r) ==
  Save(r, "start", [req[r].copy EXCEPT !.status = "in_progress", !.started = TRUE])

CompleteLoad(r, b) == booking[b].status = "in_progress" /\ Load(r, "complete", b)
CompleteSave(r) ==
  Save(r, "complete", [req[r].copy EXCEPT !.status = "completed", !.pay = "completed"])

\* The customer or the barber; getBarberIdByUserId throws for an administrator.
CancelLoad(r, b) ==
  booking[b].status \notin {"cancelled", "completed"} /\ Load(r, "cancel", b)
CancelSave(r) ==
  Save(r, "cancel", [req[r].copy EXCEPT !.status = "cancelled"])

\* PUT /bookings/:id checks the participant on the loaded document, and then
\* findByIdAndUpdate sets the fields of the body whatever the status is: any
\* status of the schema passes the checks of UpdateBookingDto.
Closing == {"cancelled", "no_show"}
UpdateLoad(r, b) ==
  PutStatuses # {} /\ life[b] = "stored" /\ Begin(r, "update", b, NewBooking)
UpdateWrite(r, s) ==
  LET b == req[r].b IN
  /\ req[r].op = "update"
  /\ booking' = IF life[b] = "stored"
                THEN [booking EXCEPT ![b].status = s] ELSE booking
  /\ overruled' = IF life[b] = "stored" /\ s \notin Closing
                  THEN overruled \cup {b} ELSE overruled
  /\ req' = [req EXCEPT ![r] = Idle]
  /\ UNCHANGED <<life, secret, stripeVars, expiryVars, faults>>

\* A database or Stripe call of the request throws, or the process dies.
Abort(r) ==
  /\ req[r] # Idle
  /\ Fault
  /\ req' = [req EXCEPT ![r] = Idle]
  /\ UNCHANGED <<bookingVars, secret, overruled, stripeVars, expiryVars>>

-----------------------------------------------------------------------------
(* Stripe, used through the client secret that createBooking returned.  The *)
(* code never cancels an intent, so it stays payable whatever happens to    *)
(* its booking.                                                             *)

Charge(b) ==
  /\ secret[b] /\ intent[b] = "open"
  /\ intent' = [intent EXCEPT ![b] = "charged"]
  /\ sent' = [sent EXCEPT ![b] = @ \cup {"succeeded"}]
  /\ UNCHANGED <<bookingVars, clientVars, acked, hook, expiryVars, faults>>

\* The attempt fails and the intent waits for another payment method.
Decline(b) ==
  /\ secret[b] /\ intent[b] = "open" /\ "failed" \notin sent[b]
  /\ sent' = [sent EXCEPT ![b] = @ \cup {"failed"}]
  /\ UNCHANGED <<bookingVars, clientVars, intent, acked, hook, expiryVars, faults>>

-----------------------------------------------------------------------------
(* The webhook: POST /payments/webhook.  Events arrive in any order, again   *)
(* after an answer other than 200, and now and then twice; nothing keeps two *)
(* deliveries of one event from being handled side by side.                  *)

\* constructWebhookEvent refuses a body other than the one Stripe signed.
Arrives(b, e) == RawBody /\ e \in sent[b]

\* The handler looks the booking up by the id of the intent.
Found(b) == life[b] = "stored" /\ booking[b].attached

\* Mutant of HookIgnore: an event without a booking is answered with 404.
HookIgnoreNotFound(b, e) ==
  /\ Arrives(b, e)
  /\ Found(b) /\ e = "succeeded" /\ booking[b].status # "pending_payment"
  /\ acked' = [acked EXCEPT ![b] = @ \cup {e}]
  /\ UNCHANGED <<bookingVars, clientVars, intent, sent, hook, expiryVars, faults>>

\* Nothing to do: no booking has the intent, or it no longer waits for payment.
HookIgnore(b, e) ==
  /\ Arrives(b, e)
  /\ Found(b) => e = "succeeded" /\ booking[b].status # "pending_payment"
  /\ acked' = [acked EXCEPT ![b] = @ \cup {e}]
  /\ UNCHANGED <<bookingVars, clientVars, intent, sent, hook, expiryVars, faults>>

HookLoad(b, e, d) ==
  /\ Arrives(b, e) /\ ~ hook[<<b, e, d>>].busy
  /\ Room
  /\ Found(b)
  /\ e = "succeeded" => booking[b].status = "pending_payment"
  /\ hook' = [hook EXCEPT ![<<b, e, d>>] = [busy |-> TRUE, copy |-> booking[b]]]
  /\ UNCHANGED <<bookingVars, clientVars, intent, sent, acked, expiryVars, faults>>

Paid(d) == [d EXCEPT !.status = "requested", !.pay = "completed",
                     !.seat = TRUE, !.deadline = FALSE]

\* Mutant of Failed: the payment's status is written to the booking's.
FailedStatus(d) == [d EXCEPT !.status = "failed", !.pay = "failed", !.seat = FALSE]

Failed(d) == [d EXCEPT !.status = "payment_failed", !.pay = "failed", !.seat = FALSE]

\* Stripe sees 200, unless the document is gone or the reply is lost.
HookSave(b, e, d) ==
  LET old == hook[<<b, e, d>>].copy IN
  /\ hook[<<b, e, d>>].busy
  /\ Store(b, old, IF e = "succeeded" THEN Paid(old) ELSE Failed(old))
  /\ hook' = [hook EXCEPT ![<<b, e, d>>] = Quiet]
  /\ \/ /\ life[b] = "stored"
        /\ acked' = [acked EXCEPT ![b] = @ \cup {e}]
        /\ UNCHANGED faults
     \/ life[b] # "stored" /\ UNCHANGED <<acked, faults>>
     \/ Fault /\ UNCHANGED acked
  /\ UNCHANGED <<life, clientVars, intent, sent, expiryVars>>

\* The handler dies, or the database fails, before it saves.
HookAbort(b, e, d) ==
  /\ hook[<<b, e, d>>].busy
  /\ Fault
  /\ hook' = [hook EXCEPT ![<<b, e, d>>] = Quiet]
  /\ UNCHANGED <<bookingVars, clientVars, intent, sent, acked, expiryVars>>

-----------------------------------------------------------------------------
(* Expiry: 20 minutes after its creation, a booking that waits for payment   *)
(* is deleted by its own job or by the cron job, whichever comes first.      *)

Expire(b) ==
  /\ life[b] = "stored" /\ ~ overdue[b]
  /\ overdue' = [overdue EXCEPT ![b] = TRUE]
  /\ UNCHANGED <<bookingVars, clientVars, stripeVars, job, sweep, faults>>

\* The delay of the job is as long as the payment window, and starts later.  A
\* job that completes is removed from the queue.
JobLoad(b) ==
  /\ job[b].state = "delayed" /\ overdue[b]
  /\ job' = [job EXCEPT ![b] = IF Pending(b) THEN [@ EXCEPT !.state = "loaded"] ELSE NoJob]
  /\ UNCHANGED <<bookingVars, clientVars, stripeVars, sweep, overdue, faults>>

\* findByIdAndDelete, whatever the status has become.
JobDelete(b) ==
  /\ job[b].state = "loaded"
  /\ life' = [life EXCEPT ![b] = "deleted"]
  /\ job' = [job EXCEPT ![b] = NoJob]
  /\ UNCHANGED <<booking, clientVars, stripeVars, sweep, overdue, faults>>

\* The processor throws: Bull runs the job again until its attempts are spent.
JobFail(b) ==
  /\ \/ job[b].state = "delayed" /\ overdue[b]
     \/ job[b].state = "loaded"
  /\ Fault
  /\ job' = [job EXCEPT
        ![b] = [state |-> IF @.tries + 1 < MaxAttempts THEN "delayed" ELSE "failed",
                tries |-> @.tries + 1]]
  /\ UNCHANGED <<bookingVars, clientVars, stripeVars, sweep, overdue>>

\* An administrator empties the bookings queue, or retries its failed jobs.
ClearQueue ==
  /\ \E b \in Bookings : job[b].state = "delayed"
  /\ job' = [b \in Bookings |-> IF job[b].state = "delayed" THEN NoJob ELSE job[b]]
  /\ UNCHANGED <<bookingVars, clientVars, stripeVars, sweep, overdue, faults>>

RetryFailedJobs ==
  /\ \E b \in Bookings : job[b].state = "failed"
  /\ job' = [b \in Bookings |-> IF job[b].state = "failed"
                                THEN [job[b] EXCEPT !.state = "delayed"] ELSE job[b]]
  /\ UNCHANGED <<bookingVars, clientVars, stripeVars, sweep, overdue, faults>>

\* Mutants of Expired: the cron job forgets the deadline, or the bookings whose
\* creation stopped before they had an intent.
ExpiredAny == {b \in Bookings : Pending(b) /\ booking[b].deadline}
ExpiredAttached ==
  {b \in Bookings :
     Pending(b) /\ booking[b].deadline /\ overdue[b] /\ booking[b].attached}

Expired == {b \in Bookings : Pending(b) /\ booking[b].deadline /\ overdue[b]}

SweepFind ==
  /\ sweep = {} /\ Expired # {}
  /\ sweep' = Expired
  /\ UNCHANGED <<bookingVars, clientVars, stripeVars, job, overdue, faults>>

\* deleteMany by id, one document after the other, whatever their status.
SweepDelete(b) ==
  /\ b \in sweep
  /\ life' = [life EXCEPT ![b] = "deleted"]
  /\ sweep' = sweep \ {b}
  /\ UNCHANGED <<booking, clientVars, stripeVars, job, overdue, faults>>

\* handleExpiredBookings logs the error and waits for its next run.
SweepFail ==
  /\ sweep # {}
  /\ Fault
  /\ sweep' = {}
  /\ UNCHANGED <<bookingVars, clientVars, stripeVars, job, overdue>>

-----------------------------------------------------------------------------
(* The specification *)

Create(r) ==
  \/ CreateInsert(r) \/ CreateIntent(r) \/ CreateAttach(r) \/ CreateSchedule(r)

Finish(r) ==
  \/ AcceptSave(r) \/ StartSave(r) \/ CompleteSave(r) \/ CancelSave(r)
  \/ \E s \in PutStatuses : UpdateWrite(r, s)

Ask(r, b) ==
  \/ CreateCheck(r, b)
  \/ AcceptLoad(r, b) \/ StartLoad(r, b) \/ CompleteLoad(r, b)
  \/ CancelLoad(r, b) \/ UpdateLoad(r, b)

Webhook(b, e) ==
  HookIgnore(b, e) \/ \E d \in Deliveries : HookLoad(b, e, d) \/ HookSave(b, e, d)

Next ==
  \/ \E r \in Requests : Create(r) \/ Finish(r) \/ Abort(r)
  \/ \E r \in Requests, b \in Bookings : Ask(r, b)
  \/ \E b \in Bookings : Charge(b) \/ Decline(b)
  \/ \E b \in Bookings, e \in Events :
       Webhook(b, e) \/ \E d \in Deliveries : HookAbort(b, e, d)
  \/ \E b \in Bookings : Expire(b) \/ JobLoad(b) \/ JobDelete(b) \/ JobFail(b)
  \/ ClearQueue \/ RetryFailedJobs
  \/ SweepFind \/ SweepFail
  \/ \E b \in Bookings : SweepDelete(b)

Spec == Init /\ [][Next]_vars

\* Requests run to their end; Stripe delivers an event again until it is
\* answered with 200; time passes and the cron job runs.  Clients, payers and
\* administrators owe nothing, and neither does the job: its queue can be
\* paused or emptied.
Fairness ==
  /\ \A r \in Requests : WF_vars(Create(r)) /\ WF_vars(Finish(r))
  /\ \A b \in Bookings, e \in Events :
        WF_vars(e \notin acked[b] /\ Webhook(b, e))
  /\ \A b \in Bookings : WF_vars(Expire(b)) /\ WF_vars(SweepDelete(b))
  /\ WF_vars(SweepFind)

FairSpec == Spec /\ Fairness

-----------------------------------------------------------------------------
(* Properties *)

\* Every variable holds values of its type, and a handler at work works for a
\* booking.
TypeOK ==
  /\ life    \in [Bookings -> {"none", "stored", "deleted"}]
  /\ booking \in [Bookings -> Doc]
  /\ req     \in [Requests -> [op : Ops, b : Bookings \cup {NoBooking}, copy : Doc]]
  /\ \A r \in Requests : req[r].op # "idle" => req[r].b \in Bookings
  /\ secret  \in [Bookings -> BOOLEAN]
  /\ overruled \subseteq Bookings
  /\ intent  \in [Bookings -> {"none", "open", "charged"}]
  /\ sent    \in [Bookings -> SUBSET Events]
  /\ acked   \in [Bookings -> SUBSET Events]
  /\ hook    \in [Bookings \X Events \X Deliveries -> [busy : BOOLEAN, copy : Doc]]
  /\ job     \in [Bookings -> [state : {"none", "delayed", "loaded", "failed"},
                               tries : Nat]]
  /\ sweep   \subseteq Bookings
  /\ overdue \in [Bookings -> BOOLEAN]
  /\ faults  \in Nat

\* A booking is requested, accepted, in progress or completed, or its payment
\* completed, only if Stripe charged the customer; it has failed only if Stripe
\* reported a failure.  This must survive every race of the webhook handlers
\* (payments.service.ts handlePaymentSuccess and handlePaymentFailure) with the
\* operations of bookings.service.ts.  The one excuse is a PUT that set such a
\* status by hand, which no check of updateBooking refuses; the seat is lost only
\* to a failure even then.
MoneyAgreesWithStripe ==
  \A b \in Bookings :
    /\ b \notin overruled =>
         /\ booking[b].status \in Confirmed \/ booking[b].pay = "completed"
              => intent[b] = "charged"
         /\ booking[b].status = "payment_failed" => "failed" \in sent[b]
    /\ ~ booking[b].seat => "failed" \in sent[b]

\* Once the webhook has answered 200 to the success of a payment, Stripe will
\* not insist: the booking must not be left waiting for that payment.  It rests
\* on createBooking saving the intent before it hands out the client secret, and
\* fails only where a PUT makes the booking wait again.
AckedPaymentIsRecorded ==
  \A b \in Bookings \ overruled : "succeeded" \in acked[b] => ~ Pending(b)

\* A completed booking has a startedAt, although startBooking, cancelBooking
\* and completeBooking may all act on documents that are out of date; only a PUT
\* skips the start.
CompletedWasStarted ==
  \A b \in Bookings \ overruled :
    booking[b].status = "completed" => booking[b].started

\* A booking is not deleted before its 20 minutes to pay are over, neither by
\* its job nor by the cron job.
KeptUntilDeadline ==
  \A b \in Bookings : life[b] = "deleted" => overdue[b]

\* The promises of BookingContract, seen through the document and the intent.
Phase(b) ==
  IF life[b] = "none" THEN "none"
  ELSE IF life[b] = "deleted" THEN "gone"
  ELSE IF booking[b].status = "pending_payment" THEN "awaiting"
  ELSE IF booking[b].status \in Confirmed THEN "live"
  ELSE "closed"

Contract == INSTANCE BookingContract WITH
              phase   <- [b \in Bookings |-> Phase(b)],
              charged <- [b \in Bookings |-> intent[b] = "charged"],
              due     <- overdue

\* Every step of the handlers, jobs and webhook calls is a step of the contract.
KeepsContract == Contract!Spec

\* A booking does not wait for its payment for ever: even when createBooking
\* failed half way, or the queue lost its job, the cron job deletes it.  A PUT can
\* make a paid booking, which has no deadline any more, wait without end.
PendingIsResolved ==
  \A b \in Bookings : Pending(b) ~> ~ Pending(b) \/ b \in overruled

\* The success of every payment is eventually taken note of with a 200.
ChargeIsAcknowledged ==
  \A b \in Bookings : intent[b] = "charged" ~> "succeeded" \in acked[b]

\* "Deleted unpaid expired booking", "Delete expired pending bookings": what the
\* job and the cron job delete has not been paid.
DeletesOnlyUnpaid ==
  [][\A b \in Bookings :
       life[b] = "stored" /\ life'[b] = "deleted" => booking[b].pay # "completed"]_vars

\* The booking states of the README: requested, accepted, in_progress,
\* completed in this order, and cancelled at any stage.
ReadmeStep(s, t) ==
  \/ <<s, t>> \in {<<"requested", "accepted">>, <<"accepted", "in_progress">>,
                   <<"in_progress", "completed">>}
  \/ t = "cancelled"
ReadmeStates == Confirmed \cup {"cancelled"}
FollowsReadme ==
  [][\A b \in Bookings :
       LET s == booking[b].status
           t == booking'[b].status
       IN  s # t /\ {s, t} \subseteq ReadmeStates => ReadmeStep(s, t)]_vars

\* "Webhook Processing for confirmation": a customer who was charged gets the
\* booking confirmed, unless it was cancelled or deleted meanwhile.
ChargeIsConfirmed ==
  \A b \in Bookings :
    intent[b] = "charged" ~> \/ life[b] = "deleted"
                             \/ booking[b].pay = "completed"
                             \/ booking[b].status = "cancelled"

\* "Whether seat is temporarily reserved during payment": a barber is not
\* booked twice for overlapping times.
SeatIsReserved ==
  \A b, c \in Bookings :
    <<b, c>> \in Overlap /\ life[b] = "stored" /\ life[c] = "stored"
      => ~ ({booking[b].status, booking[c].status} \subseteq Blocking)
=============================================================================
