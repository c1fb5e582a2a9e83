---------------------- MODULE BookingLifecycle_proofs ----------------------
(***************************************************************************)
(* Proofs about BookingLifecycle, for any bookings and any number of       *)
(* concurrent requests.                                                    *)
(***************************************************************************)
EXTENDS BookingLifecycle, TLAPS

-----------------------------------------------------------------------------
(* What a save does to the stored document *)

\* document.save() leaves every field alone that the handler did not modify,
\* and gives a field it modified the handler's value.
LEMMA StoreFields ==
  ASSUME TypeOK, NEW b \in Bookings, NEW old \in Doc, NEW new \in Doc,
         Store(b, old, new)
  PROVE  /\ booking' \in [Bookings -> Doc]
         /\ \A c \in Bookings : c # b => booking'[c] = booking[c]
         /\ life[b] # "stored" => booking' = booking
         /\ booking'[b].status \in {booking[b].status, new.status}
         /\ booking'[b].pay \in {booking[b].pay, new.pay}
         /\ booking'[b].attached \in {booking[b].attached, new.attached}
         /\ booking'[b].started \in {booking[b].started, new.started}
         /\ booking'[b].seat \in {booking[b].seat, new.seat}
         /\ new.status = old.status => booking'[b].status = booking[b].status
         /\ new.pay = old.pay => booking'[b].pay = booking[b].pay
         /\ new.attached = old.attached => booking'[b].attached = booking[b].attached
         /\ new.started = old.started => booking'[b].started = booking[b].started
         /\ new.seat = old.seat => booking'[b].seat = booking[b].seat
         /\ life[b] = "stored" /\ new.status # old.status
              => booking'[b].status = new.status
         /\ life[b] = "stored" /\ new.attached # old.attached
              => booking'[b].attached = new.attached
         /\ life[b] = "stored" /\ new.started # old.started
              => booking'[b].started = new.started
<1> DEFINE saved == Saved(booking[b], old, new)
<1>1. booking \in [Bookings -> Doc] /\ booking[b] \in Doc
  BY DEF TypeOK
<1>2. saved \in Doc
  BY <1>1 DEF Saved, Modified, Doc
<1>3. CASE life[b] = "stored"
  <2>1. booking' = [booking EXCEPT ![b] = saved]
    BY <1>3 DEF Store
  <2>2. booking' \in [Bookings -> Doc] /\ booking'[b] = saved
    BY <1>1, <1>2, <2>1
  <2>3. \A c \in Bookings : c # b => booking'[c] = booking[c]
    BY <1>1, <2>1
  <2>4. QED
    BY <1>3, <2>2, <2>3 DEF Saved, Modified
<1>4. CASE life[b] # "stored"
  <2>1. booking' = booking
    BY <1>4 DEF Store
  <2>2. QED
    BY <1>1, <1>4, <2>1
<1>5. QED
  BY <1>3, <1>4

-----------------------------------------------------------------------------
(* Types *)

\* A newly created document is a document.
LEMMA NewBookingType == NewBooking \in Doc
BY DEF NewBooking, Doc, Status

\* The documents that the handlers build from their copies are documents.
LEMMA EditTypes ==
  ASSUME NEW d \in Doc
  PROVE  /\ [d EXCEPT !.attached = TRUE] \in Doc
         /\ [d EXCEPT !.status = "accepted"] \in Doc
         /\ [d EXCEPT !.status = "in_progress", !.started = TRUE] \in Doc
         /\ [d EXCEPT !.status = "completed", !.pay = "completed"] \in Doc
         /\ [d EXCEPT !.status = "cancelled"] \in Doc
         /\ Paid(d) \in Doc
         /\ Failed(d) \in Doc
BY DEF Doc, Status, Paid, Failed

\* The type of a request.
ReqType == [op : Ops, b : Bookings \cup {NoBooking}, copy : Doc]

\* Beginning an operation keeps the types.
LEMMA BeginType ==
  ASSUME TypeOK, NEW r \in Requests, NEW op \in Ops, NEW b \in Bookings,
         NEW copy \in Doc, Begin(r, op, b, copy)
  PROVE  TypeOK'
<1>1. [op |-> op, b |-> b, copy |-> copy] \in ReqType
  BY DEF ReqType
<1>2. req' \in [Requests -> ReqType]
  BY <1>1 DEF TypeOK, Begin, ReqType
<1>3. \A q \in Requests : req'[q].op # "idle" => req'[q].b \in Bookings
  BY DEF TypeOK, Begin
<1>4. QED
  BY <1>2, <1>3 DEF TypeOK, Begin, ReqType, bookingVars, stripeVars, expiryVars

\* Saving a document keeps the types.
LEMMA SaveType ==
  ASSUME TypeOK, NEW r \in Requests, NEW op \in Ops \ {"idle"}, NEW new \in Doc,
         Save(r, op, new)
  PROVE  TypeOK'
<1>1. req[r].b \in Bookings /\ req[r].copy \in Doc
  BY DEF TypeOK, Save
<1>2. booking' \in [Bookings -> Doc]
  BY <1>1, StoreFields DEF Save
<1>3. req' \in [Requests -> ReqType]
  BY NewBookingType DEF TypeOK, Save, ReqType, Idle, Ops
<1>4. \A q \in Requests : req'[q].op # "idle" => req'[q].b \in Bookings
  BY DEF TypeOK, Save, Idle
<1>5. QED
  BY <1>2, <1>3, <1>4 DEF TypeOK, Save, ReqType, stripeVars, expiryVars

\* createBooking keeps the types.
LEMMA CreateType ==
  ASSUME TypeOK, NEW r \in Requests, Create(r)
  PROVE  TypeOK'
<1> USE DEF ReqType
<1> DEFINE next == {"intent", "attach", "schedule"}
<1>1. \A o \in next : req[r].op # "idle" => [req EXCEPT ![r].op = o] \in [Requests -> ReqType]
  BY SMTT(30) DEF TypeOK, Ops
<1>2. [req EXCEPT ![r] = Idle] \in [Requests -> ReqType]
  BY NewBookingType DEF TypeOK, Idle, Ops
<1>3. ASSUME CreateInsert(r) PROVE TypeOK'
  <2>1. req' \in [Requests -> ReqType] /\ req[r].b \in Bookings
    BY <1>1, <1>3 DEF TypeOK, CreateInsert
  <2>2. booking' \in [Bookings -> Doc]
    BY <1>3, NewBookingType DEF TypeOK, CreateInsert
  <2>3. life' \in [Bookings -> {"none", "stored", "deleted"}]
    BY <1>3 DEF TypeOK, CreateInsert
  <2>4. \A q \in Requests : req'[q].op # "idle" => req'[q].b \in Bookings
    BY <1>3 DEF TypeOK, CreateInsert
  <2>5. QED
    BY <1>3, <2>1, <2>2, <2>3, <2>4 DEF TypeOK, CreateInsert, stripeVars, expiryVars
<1>4. ASSUME CreateIntent(r) PROVE TypeOK'
  <2>1. req' \in [Requests -> ReqType]
    BY <1>1, <1>4 DEF TypeOK, CreateIntent
  <2>2. intent' \in [Bookings -> {"none", "open", "charged"}]
    BY <1>4 DEF TypeOK, CreateIntent
  <2>3. \A q \in Requests : req'[q].op # "idle" => req'[q].b \in Bookings
    BY <1>4 DEF TypeOK, CreateIntent
  <2>4. QED
    BY <1>4, <2>1, <2>2, <2>3 DEF TypeOK, CreateIntent, bookingVars, expiryVars
<1>5. ASSUME CreateAttach(r) PROVE TypeOK'
  <2>1. req' \in [Requests -> ReqType]
    BY <1>1, <1>2, <1>5 DEF CreateAttach
  <2>2. booking' \in [Bookings -> Doc]
    BY <1>5, EditTypes, StoreFields DEF TypeOK, CreateAttach
  <2>3. \A q \in Requests : req'[q].op # "idle" => req'[q].b \in Bookings
    BY <1>5 DEF TypeOK, CreateAttach, Idle
  <2>4. QED
    BY <1>5, <2>1, <2>2, <2>3 DEF TypeOK, CreateAttach, stripeVars, expiryVars
<1>6. ASSUME CreateSchedule(r) PROVE TypeOK'
  <2>1. req' \in [Requests -> ReqType]
    BY <1>2, <1>6 DEF CreateSchedule
  <2>2. job' \in [Bookings -> [state : {"none", "delayed", "loaded", "failed"}, tries : Nat]]
    BY <1>6 DEF TypeOK, CreateSchedule
  <2>3. \A q \in Requests : req'[q].op # "idle" => req'[q].b \in Bookings
    BY <1>6 DEF TypeOK, CreateSchedule, Idle
  <2>4. QED
    BY <1>6, <2>1, <2>2, <2>3 DEF TypeOK, CreateSchedule, bookingVars, stripeVars
<1>7. QED
  BY <1>3, <1>4, <1>5, <1>6 DEF Create

\* What Finish(r) does is a save, or the update of a status.
LEMMA FinishType ==
  ASSUME TypeOK, NEW r \in Requests, Finish(r)
  PROVE  TypeOK'
<1>1. CASE AcceptSave(r) \/ StartSave(r) \/ CompleteSave(r) \/ CancelSave(r)
  <2>1. req[r].copy \in Doc
    BY DEF TypeOK
  <2>2. QED
    BY <1>1, <2>1, EditTypes, SaveType
       DEF AcceptSave, StartSave, CompleteSave, CancelSave, Ops
<1>2. ASSUME NEW s \in PutStatuses, UpdateWrite(r, s) PROVE TypeOK'
  <2>1. s \in Status /\ req[r].b \in Bookings
    BY <1>2, ConstantsOK DEF TypeOK, UpdateWrite
  <2>2. [booking[req[r].b] EXCEPT !.status = s] \in Doc
    <3>1. booking[req[r].b] \in Doc
      BY <2>1 DEF TypeOK
    <3>2. QED
      BY <2>1, <3>1 DEF Doc
  <2>3. booking' \in [Bookings -> Doc]
    BY <1>2, <2>1, <2>2 DEF TypeOK, UpdateWrite
  <2>4. req' \in [Requests -> ReqType]
    BY <1>2, NewBookingType DEF TypeOK, UpdateWrite, ReqType, Idle, Ops
  <2>5. \A q \in Requests : req'[q].op # "idle" => req'[q].b \in Bookings
    BY <1>2 DEF TypeOK, UpdateWrite, Idle
  <2>6. overruled' \subseteq Bookings
    BY <1>2, <2>1 DEF TypeOK, UpdateWrite
  <2>7. QED
    BY <1>2, <2>3, <2>4, <2>5, <2>6
       DEF TypeOK, UpdateWrite, ReqType, stripeVars, expiryVars
<1>3. QED
  BY <1>1, <1>2 DEF Finish

\* Asking for an operation keeps the types.
LEMMA AskType ==
  ASSUME TypeOK, NEW r \in Requests, NEW b \in Bookings, Ask(r, b)
  PROVE  TypeOK'
<1>1. booking[b] \in Doc
  BY DEF TypeOK
<1>2. QED
  BY <1>1, BeginType, NewBookingType
     DEF Ask, CreateCheck, AcceptLoad, StartLoad, CompleteLoad, CancelLoad, UpdateLoad,
         Load, Ops

\* What a delivery of event e of booking b does.
HookStep(b, e) == Webhook(b, e) \/ \E d \in Deliveries : HookAbort(b, e, d)

\* A delivery is ignored, loads a copy, saves it, or dies.
LEMMA HookCases ==
  ASSUME NEW b, NEW e, HookStep(b, e)
  PROVE  \/ HookIgnore(b, e)
         \/ \E d \in Deliveries :
              HookLoad(b, e, d) \/ HookSave(b, e, d) \/ HookAbort(b, e, d)
BY DEF HookStep, Webhook

\* Stripe and the webhook keep the types.
LEMMA WebhookType ==
  ASSUME TypeOK, NEW b \in Bookings, NEW e \in Events, HookStep(b, e)
  PROVE  TypeOK'
<1> DEFINE HookType == [busy : BOOLEAN, copy : Doc]
           Calls == Bookings \X Events \X Deliveries
<1>1. Quiet \in HookType
  BY NewBookingType DEF Quiet
<1>2. CASE HookIgnore(b, e)
  BY <1>2 DEF TypeOK, HookIgnore, bookingVars, clientVars, expiryVars
<1>3. ASSUME NEW d \in Deliveries,
             HookLoad(b, e, d) \/ HookSave(b, e, d) \/ HookAbort(b, e, d)
      PROVE  TypeOK'
  <2>1. booking[b] \in Doc /\ hook[<<b, e, d>>] \in HookType
    BY DEF TypeOK
  <2>2. acked' \in [Bookings -> SUBSET Events]
          /\ hook' \in [Calls -> HookType]
          /\ booking' \in [Bookings -> Doc]
          => TypeOK'
    BY <1>3 DEF TypeOK, HookLoad, HookSave, HookAbort, Fault,
                bookingVars, clientVars, expiryVars
  <2>3. CASE HookLoad(b, e, d)
    <3>1. hook' \in [Calls -> HookType]
      BY <2>1, <2>3 DEF TypeOK, HookLoad
    <3>2. QED
      BY <2>2, <2>3, <3>1 DEF TypeOK, HookLoad, bookingVars
  <2>4. CASE HookSave(b, e, d)
    <3>1. hook' \in [Calls -> HookType]
      BY <1>1, <2>4 DEF TypeOK, HookSave
    <3>2. booking' \in [Bookings -> Doc]
      BY <2>1, <2>4, EditTypes, StoreFields DEF HookSave
    <3>3. acked' \in [Bookings -> SUBSET Events]
      BY <2>4 DEF TypeOK, HookSave
    <3>4. QED
      BY <2>2, <3>1, <3>2, <3>3
  <2>5. CASE HookAbort(b, e, d)
    BY <1>1, <2>2, <2>5 DEF TypeOK, HookAbort, bookingVars
  <2>6. QED
    BY <1>3, <2>3, <2>4, <2>5
<1>4. QED
  BY <1>2, <1>3, HookCases

\* The deletion of unpaid bookings keeps the types.
ExpiryStep ==
  \/ \E b \in Bookings :
       Expire(b) \/ JobLoad(b) \/ JobDelete(b) \/ JobFail(b) \/ SweepDelete(b)
  \/ ClearQueue \/ RetryFailedJobs \/ SweepFind \/ SweepFail

LEMMA ExpiryType ==
  ASSUME TypeOK, ExpiryStep
  PROVE  TypeOK'
<1> DEFINE JobType == [state : {"none", "delayed", "loaded", "failed"}, tries : Nat]
<1>1. NoJob \in JobType
  BY DEF NoJob
<1>2. job' \in [Bookings -> JobType]
        /\ life' \in [Bookings -> {"none", "stored", "deleted"}]
        /\ sweep' \subseteq Bookings
        /\ overdue' \in [Bookings -> BOOLEAN]
        => TypeOK'
  BY DEF TypeOK, ExpiryStep, Expire, JobLoad, JobDelete, JobFail, SweepDelete, ClearQueue,
         RetryFailedJobs, SweepFind, SweepFail, Fault, bookingVars, clientVars, stripeVars
<1>3. ASSUME NEW b \in Bookings, Expire(b) PROVE TypeOK'
  BY <1>2, <1>3 DEF TypeOK, Expire, bookingVars
<1>4. ASSUME NEW b \in Bookings, JobLoad(b) PROVE TypeOK'
  BY <1>1, <1>2, <1>4 DEF TypeOK, JobLoad, bookingVars
<1>5. ASSUME NEW b \in Bookings, JobDelete(b) PROVE TypeOK'
  BY <1>1, <1>2, <1>5 DEF TypeOK, JobDelete
<1>6. ASSUME NEW b \in Bookings, JobFail(b) PROVE TypeOK'
  BY <1>2, <1>6 DEF TypeOK, JobFail, bookingVars
<1>7. ASSUME NEW b \in Bookings, SweepDelete(b) PROVE TypeOK'
  BY <1>2, <1>7 DEF TypeOK, SweepDelete
<1>8. CASE ClearQueue
  BY <1>1, <1>2, <1>8 DEF TypeOK, ClearQueue, bookingVars
<1>9. CASE RetryFailedJobs
  BY SMTT(30), <1>2, <1>9 DEF TypeOK, RetryFailedJobs, bookingVars
<1>10. CASE SweepFind \/ SweepFail
  BY <1>2, <1>10 DEF TypeOK, SweepFind, SweepFail, Expired, bookingVars
<1>11. QED
  BY <1>3, <1>4, <1>5, <1>6, <1>7, <1>8, <1>9, <1>10 DEF ExpiryStep

\* Next, with the handlers grouped as in the lemmas.
LEMMA NextCases ==
  Next => \/ \E r \in Requests : Create(r) \/ Finish(r) \/ Abort(r)
          \/ \E r \in Requests, b \in Bookings : Ask(r, b)
          \/ \E b \in Bookings : Charge(b) \/ Decline(b)
          \/ \E b \in Bookings, e \in Events : HookStep(b, e)
          \/ ExpiryStep
BY DEF Next, HookStep, ExpiryStep

\* Every step keeps the types.
LEMMA NextType == TypeOK /\ [Next]_vars => TypeOK'
<1> SUFFICES ASSUME TypeOK, [Next]_vars PROVE TypeOK'
  OBVIOUS
<1>1. ASSUME NEW r \in Requests, Create(r) \/ Finish(r) PROVE TypeOK'
  BY <1>1, CreateType, FinishType
<1>2. ASSUME NEW r \in Requests, Abort(r) PROVE TypeOK'
  <2>1. req' \in [Requests -> ReqType]
    BY <1>2, NewBookingType DEF TypeOK, Abort, ReqType, Idle, Ops
  <2>2. \A q \in Requests : req'[q].op # "idle" => req'[q].b \in Bookings
    BY <1>2 DEF TypeOK, Abort, Idle
  <2>3. QED
    BY <1>2, <2>1, <2>2
       DEF TypeOK, Abort, ReqType, Fault, bookingVars, stripeVars, expiryVars
<1>3. ASSUME NEW r \in Requests, NEW b \in Bookings, Ask(r, b) PROVE TypeOK'
  BY <1>3, AskType
<1>4. ASSUME NEW b \in Bookings, Charge(b) \/ Decline(b) PROVE TypeOK'
  <2>1. sent' \in [Bookings -> SUBSET Events]
    <3>1. sent \in [Bookings -> SUBSET Events]
      BY DEF TypeOK
    <3>2. "succeeded" \in Events /\ "failed" \in Events
      BY DEF Events
    <3>3. QED
      BY <1>4, <3>1, <3>2 DEF Charge, Decline
  <2>2. intent' \in [Bookings -> {"none", "open", "charged"}]
    BY <1>4 DEF TypeOK, Charge, Decline
  <2>3. QED
    BY <1>4, <2>1, <2>2 DEF TypeOK, Charge, Decline, bookingVars, clientVars, expiryVars
<1>5. ASSUME NEW b \in Bookings, NEW e \in Events, HookStep(b, e)
      PROVE TypeOK'
  BY <1>5, WebhookType
<1>6. CASE ExpiryStep
  BY <1>6, ExpiryType
<1>7. CASE UNCHANGED vars
  BY <1>7 DEF TypeOK, vars
<1>8. QED
  BY <1>1, <1>2, <1>3, <1>4, <1>5, <1>6, <1>7, NextCases

\* The state a behaviour starts in has the types.
LEMMA InitType == Init => TypeOK
<1> SUFFICES ASSUME Init PROVE TypeOK
  OBVIOUS
<1>1. Idle \in ReqType /\ Quiet \in [busy : BOOLEAN, copy : Doc]
  BY NewBookingType DEF Idle, Quiet, ReqType, Ops
<1>2. QED
  BY <1>1, NewBookingType, ConstantsOK DEF Init, TypeOK, ReqType, Idle, NoJob

\* Whatever handlers, jobs and webhook calls interleave, every variable of the
\* booking model keeps its type: no handler writes a status outside the schema.
THEOREM TypeCorrect == Spec => []TypeOK
<1>1. QED
  BY InitType, NextType, PTL DEF Spec

-----------------------------------------------------------------------------
(* The inductive invariant *)

Creating == {"insert", "intent", "attach", "schedule"}
Serving  == {"accept", "start", "complete"}

\* A booking is created by one request, the only one to hold its client secret
\* until the id of the intent is saved in the document.
CreateInv ==
  /\ \A r \in Requests : req[r].op \in Creating =>
        /\ ~ secret[req[r].b]
        /\ \A q \in Requests :
              req[q].op \in Creating /\ req[q].b = req[r].b => q = r
        /\ req[r].op = "insert" <=> life[req[r].b] = "none"
        /\ req[r].op \in {"insert", "intent"} => intent[req[r].b] = "none"
        /\ req[r].op # "schedule" => req[r].copy = NewBooking
        /\ req[r].op = "schedule" => booking[req[r].b].attached
  /\ \A r \in Requests :
        req[r].op \notin Creating \cup {"idle"} => life[req[r].b] # "none"
  /\ \A b \in Bookings :
        /\ life[b] = "none" => intent[b] = "none" /\ ~ secret[b]
        /\ secret[b] => booking[b].attached

\* Stripe has events only of intents that were handed out, and the webhook
\* works on events that Stripe has.
EventInv ==
  \A b \in Bookings :
    /\ sent[b] # {} => secret[b]
    /\ "succeeded" \in sent[b] => intent[b] = "charged"
    /\ acked[b] \subseteq sent[b]
    /\ \A e \in Events, d \in Deliveries :
         hook[<<b, e, d>>].busy =>
           /\ e \in sent[b]
           /\ e = "succeeded" => hook[<<b, e, d>>].copy.status = "pending_payment"

\* A barber at work has loaded a booking that was paid, or that a PUT overruled.
MoneyInv ==
  /\ MoneyAgreesWithStripe
  /\ \A r \in Requests :
       req[r].op \in Serving /\ req[r].b \notin overruled
         => intent[req[r].b] = "charged"

\* startedAt, once set, stays set, and a copy that has it was loaded after.
StartInv ==
  /\ \A b \in Bookings \ overruled :
        booking[b].status \in {"in_progress", "completed"} => booking[b].started
  /\ \A r \in Requests : req[r].op # "idle" =>
        /\ req[r].op = "complete" /\ req[r].b \notin overruled
             => req[r].copy.started
        /\ req[r].copy.started => booking[req[r].b].started

\* What the job and the cron job are about to delete is out of time.
ExpiryInv ==
  \A b \in Bookings :
    /\ life[b] = "deleted" => overdue[b]
    /\ job[b].state = "loaded" \/ b \in sweep => overdue[b] /\ life[b] # "none"

IInv == TypeOK /\ CreateInv /\ EventInv /\ MoneyInv /\ StartInv /\ ExpiryInv
          /\ AckedPaymentIsRecorded

-----------------------------------------------------------------------------
(* What the handlers leave alone *)

\* The end of an operation touches the document of its booking only, and there
\* neither the intent nor the seat; it overrules no other booking.
LEMMA FinishFrame ==
  ASSUME TypeOK, NEW r \in Requests, Finish(r)
  PROVE  /\ req[r].op \in {"accept", "start", "complete", "cancel", "update"}
         /\ req[r].b \in Bookings
         /\ req' = [req EXCEPT ![r] = Idle]
         /\ UNCHANGED <<life, secret, intent, sent, acked, hook, job, sweep, overdue>>
         /\ booking' \in [Bookings -> Doc]
         /\ \A b \in Bookings :
              /\ b # req[r].b => booking'[b] = booking[b]
              /\ booking'[b].attached = booking[b].attached
              /\ booking'[b].seat = booking[b].seat
         /\ overruled' \in {overruled, overruled \cup {req[r].b}}
         /\ life[req[r].b] # "stored" => UNCHANGED <<booking, overruled>>
<1> DEFINE Local == \A b \in Bookings :
                     /\ b # req[r].b => booking'[b] = booking[b]
                     /\ booking'[b].attached = booking[b].attached
                     /\ booking'[b].seat = booking[b].seat
           old == req[r].copy
<1>1. old \in Doc /\ booking' \in [Bookings -> Doc]
  BY FinishType DEF TypeOK
<1>2. ASSUME NEW op \in {"accept", "start", "complete", "cancel"}, NEW new \in Doc,
             new.attached = old.attached, new.seat = old.seat, Save(r, op, new)
      PROVE  Local
  <2>1. req[r].b \in Bookings /\ Store(req[r].b, old, new)
    BY <1>2 DEF TypeOK, Save
  <2>2. QED
    BY <1>1, <1>2, <2>1, StoreFields
<1>3. ASSUME AcceptSave(r) PROVE Local
  <2> DEFINE new == [old EXCEPT !.status = "accepted"]
  <2>1. new \in Doc /\ new.attached = old.attached /\ new.seat = old.seat
    BY <1>1, EditTypes DEF Doc
  <2>2. QED
    BY <1>2, <1>3, <2>1 DEF AcceptSave
<1>4. ASSUME StartSave(r) PROVE Local
  <2> DEFINE new == [old EXCEPT !.status = "in_progress", !.started = TRUE]
  <2>1. new \in Doc /\ new.attached = old.attached /\ new.seat = old.seat
    BY <1>1, EditTypes DEF Doc
  <2>2. QED
    BY <1>2, <1>4, <2>1 DEF StartSave
<1>5. ASSUME CompleteSave(r) PROVE Local
  <2> DEFINE new == [old EXCEPT !.status = "completed", !.pay = "completed"]
  <2>1. new \in Doc /\ new.attached = old.attached /\ new.seat = old.seat
    BY <1>1, EditTypes DEF Doc
  <2>2. QED
    BY <1>2, <1>5, <2>1 DEF CompleteSave
<1>6. ASSUME CancelSave(r) PROVE Local
  <2> DEFINE new == [old EXCEPT !.status = "cancelled"]
  <2>1. new \in Doc /\ new.attached = old.attached /\ new.seat = old.seat
    BY <1>1, EditTypes DEF Doc
  <2>2. QED
    BY <1>2, <1>6, <2>1 DEF CancelSave
<1>7. ASSUME NEW s \in PutStatuses, UpdateWrite(r, s) PROVE Local
  BY <1>7 DEF TypeOK, UpdateWrite, Doc
<1>8. Local
  BY <1>3, <1>4, <1>5, <1>6, <1>7 DEF Finish
<1>9. /\ overruled' \in {overruled, overruled \cup {req[r].b}}
      /\ life[req[r].b] # "stored" => UNCHANGED <<booking, overruled>>
  BY DEF Finish, AcceptSave, StartSave, CompleteSave, CancelSave, Save, Store, UpdateWrite
<1>10. QED
  BY <1>1, <1>8, <1>9
     DEF Finish, AcceptSave, StartSave, CompleteSave, CancelSave, Save, UpdateWrite,
         TypeOK, stripeVars, expiryVars

\* A webhook call touches the document of its booking only, and there neither
\* the intent nor startedAt.
LEMMA WebhookFrame ==
  ASSUME TypeOK, NEW b \in Bookings, NEW e \in Events, HookStep(b, e)
  PROVE  /\ UNCHANGED <<life, req, secret, overruled, intent, sent, job, sweep, overdue>>
         /\ booking' \in [Bookings -> Doc]
         /\ \A c \in Bookings :
              /\ c # b => booking'[c] = booking[c]
              /\ booking'[c].attached = booking[c].attached
              /\ booking'[c].started = booking[c].started
<1> DEFINE Frame ==
             /\ UNCHANGED <<life, req, secret, overruled, intent, sent, job, sweep, overdue>>
             /\ booking' \in [Bookings -> Doc]
             /\ \A c \in Bookings :
                  /\ c # b => booking'[c] = booking[c]
                  /\ booking'[c].attached = booking[c].attached
                  /\ booking'[c].started = booking[c].started
<1>1. booking \in [Bookings -> Doc]
  BY DEF TypeOK
<1>2. CASE HookIgnore(b, e)
  BY <1>1, <1>2 DEF HookIgnore, bookingVars, clientVars, expiryVars
<1>3. ASSUME NEW d \in Deliveries, HookLoad(b, e, d) \/ HookAbort(b, e, d) PROVE Frame
  BY <1>1, <1>3 DEF HookLoad, HookAbort, bookingVars, clientVars, expiryVars
<1>4. ASSUME NEW d \in Deliveries, HookSave(b, e, d) PROVE Frame
  <2> DEFINE old == hook[<<b, e, d>>].copy
             new == IF e = "succeeded" THEN Paid(old) ELSE Failed(old)
  <2>1. old \in Doc
    BY DEF TypeOK
  <2>2. new \in Doc /\ new.attached = old.attached /\ new.started = old.started
    BY <2>1, EditTypes DEF Paid, Failed, Doc
  <2>3. Store(b, old, new)
    BY <1>4 DEF HookSave
  <2>4. QED
    BY <1>1, <1>4, <2>1, <2>2, <2>3, StoreFields DEF HookSave, clientVars, expiryVars
<1>5. QED
  BY <1>2, <1>3, <1>4, HookCases

\* The jobs write no document: they only delete.
LEMMA ExpiryFrame ==
  ASSUME TypeOK, ExpiryInv, ExpiryStep
  PROVE  /\ UNCHANGED <<booking, req, secret, overruled, intent, sent, acked, hook>>
         /\ \A b \in Bookings :
              life'[b] # life[b] => life'[b] = "deleted" /\ life[b] # "none"
BY DEF TypeOK, ExpiryInv, ExpiryStep, Expire, JobLoad, JobDelete, JobFail, SweepDelete,
       ClearQueue, RetryFailedJobs, SweepFind, SweepFail,
       bookingVars, clientVars, stripeVars

\* A booking once overruled stays so.
LEMMA OverruledStays ==
  ASSUME TypeOK, ExpiryInv, [Next]_vars
  PROVE  \A b \in Bookings \ overruled' : b \in Bookings \ overruled
<1> DEFINE Stays == overruled \subseteq overruled'
<1>1. ASSUME NEW r \in Requests, Create(r) PROVE Stays
  BY <1>1 DEF Create, CreateInsert, CreateIntent, CreateAttach, CreateSchedule
<1>2. ASSUME NEW r \in Requests, Finish(r) PROVE Stays
  BY <1>2, FinishFrame
<1>3. ASSUME NEW r \in Requests, Abort(r) PROVE Stays
  BY <1>3 DEF Abort
<1>4. ASSUME NEW r \in Requests, NEW b \in Bookings, Ask(r, b) PROVE Stays
  BY <1>4 DEF Ask, CreateCheck, AcceptLoad, StartLoad, CompleteLoad, CancelLoad,
              UpdateLoad, Load, Begin
<1>5. ASSUME NEW b \in Bookings, Charge(b) \/ Decline(b) PROVE Stays
  BY <1>5 DEF Charge, Decline, clientVars
<1>6. ASSUME NEW b \in Bookings, NEW e \in Events, HookStep(b, e) PROVE Stays
  BY <1>6, WebhookFrame
<1>7. CASE ExpiryStep
  BY <1>7, ExpiryFrame
<1>8. CASE UNCHANGED vars
  BY <1>8 DEF vars
<1>9. QED
  BY <1>1, <1>2, <1>3, <1>4, <1>5, <1>6, <1>7, <1>8, NextCases

-----------------------------------------------------------------------------
(* Every step keeps each part of the invariant *)

\* Nobody else creates the same booking, or pays for it, before its document
\* holds the intent.
LEMMA CreateStep ==
  ASSUME TypeOK, CreateInv, ExpiryInv, [Next]_vars
  PROVE  CreateInv'
<1>1. ASSUME NEW r \in Requests, CreateInsert(r) PROVE CreateInv'
  BY <1>1, NewBookingType
     DEF TypeOK, CreateInv, Creating, CreateInsert, stripeVars
<1>2. ASSUME NEW r \in Requests, CreateIntent(r) PROVE CreateInv'
  BY <1>2 DEF TypeOK, CreateInv, Creating, CreateIntent, bookingVars
<1>3. ASSUME NEW r \in Requests, CreateAttach(r) PROVE CreateInv'
  <2> DEFINE b == req[r].b
             old == req[r].copy
             new == [old EXCEPT !.attached = TRUE]
  <2>1. b \in Bookings /\ old = NewBooking /\ old \in Doc /\ new \in Doc
    BY <1>3, EditTypes DEF TypeOK, CreateInv, Creating, CreateAttach
  <2>2. new.attached = TRUE /\ old.attached = FALSE
    BY <2>1 DEF NewBooking
  <2>3. Store(b, old, new)
    BY <1>3 DEF CreateAttach
  <2>4. /\ booking' \in [Bookings -> Doc]
        /\ \A c \in Bookings : c # b => booking'[c] = booking[c]
        /\ life[b] = "stored" => booking'[b].attached
        /\ booking[b].attached => booking'[b].attached
    <3>1. /\ booking' \in [Bookings -> Doc]
          /\ \A c \in Bookings : c # b => booking'[c] = booking[c]
          /\ life[b] = "stored" /\ new.attached # old.attached
               => booking'[b].attached = new.attached
          /\ booking'[b].attached \in {booking[b].attached, new.attached}
      <4> HIDE DEF b, old, new
      <4>1. QED
        BY <2>1, <2>3, StoreFields
    <3>2. QED
      BY <2>2, <3>1
  <2>5. \A c \in Bookings : booking[c].attached => booking'[c].attached
    BY <2>1, <2>4
  <2>6. /\ req' = [req EXCEPT ![r] = IF life[b] = "stored"
                                   THEN [req[r] EXCEPT !.op = "schedule"] ELSE Idle]
        /\ UNCHANGED <<life, secret, intent>> /\ req[r].op = "attach"
    BY <1>3 DEF CreateAttach, stripeVars
  <2>7. QED
    BY <2>1, <2>4, <2>5, <2>6 DEF TypeOK, CreateInv, Creating, Idle
<1>4. ASSUME NEW r \in Requests, CreateSchedule(r) PROVE CreateInv'
  BY <1>4 DEF TypeOK, CreateInv, Creating, CreateSchedule, Idle, bookingVars, stripeVars
<1>5. ASSUME NEW r \in Requests, Finish(r) PROVE CreateInv'
  <2>1. /\ UNCHANGED <<life, secret, intent>>
        /\ req' = [req EXCEPT ![r] = Idle]
        /\ \A b \in Bookings : booking'[b].attached = booking[b].attached
    BY <1>5, FinishFrame
  <2>2. req'[r].op = "idle" /\ \A q \in Requests : q # r => req'[q] = req[q]
    BY <2>1 DEF TypeOK, Idle
  <2>3. \A q \in Requests : req[q].op # "idle" => req[q].b \in Bookings
    BY DEF TypeOK
  <2>4. QED
    BY <2>1, <2>2, <2>3 DEF CreateInv, Creating
<1>6. ASSUME NEW r \in Requests, Abort(r) PROVE CreateInv'
  BY <1>6 DEF TypeOK, CreateInv, Creating, Abort, Idle, bookingVars, stripeVars
<1>7. ASSUME NEW r \in Requests, NEW b \in Bookings, Ask(r, b) PROVE CreateInv'
  <2>1. CASE CreateCheck(r, b)
    BY <2>1 DEF TypeOK, CreateInv, Creating, CreateCheck, Begin, bookingVars, stripeVars
  <2>2. ASSUME NEW op \in Ops \ (Creating \cup {"idle"}), NEW copy \in Doc,
               life[b] = "stored", Begin(r, op, b, copy)
        PROVE  CreateInv'
    BY <2>2 DEF TypeOK, CreateInv, Creating, Begin, bookingVars, stripeVars
  <2>3. booking[b] \in Doc
    BY DEF TypeOK
  <2>4. QED
    BY <1>7, <2>1, <2>2, <2>3, NewBookingType
       DEF Ask, AcceptLoad, StartLoad, CompleteLoad, CancelLoad, UpdateLoad, Load,
           Ops, Creating
<1>8. ASSUME NEW b \in Bookings, Charge(b) \/ Decline(b) PROVE CreateInv'
  BY <1>8 DEF TypeOK, CreateInv, Creating, Charge, Decline, bookingVars, clientVars
<1>9. ASSUME NEW b \in Bookings, NEW e \in Events, HookStep(b, e)
      PROVE CreateInv'
  <2>1. /\ UNCHANGED <<life, req, secret, intent>>
        /\ \A c \in Bookings : booking'[c].attached = booking[c].attached
    BY <1>9, WebhookFrame
  <2>2. QED
    BY SMTT(30), <2>1 DEF TypeOK, CreateInv, Creating
<1>10. CASE ExpiryStep
  <2>1. /\ UNCHANGED <<booking, req, secret, intent>>
        /\ \A b \in Bookings : life'[b] = "none" <=> life[b] = "none"
    BY <1>10, ExpiryFrame
  <2>2. QED
    BY <2>1 DEF TypeOK, CreateInv, Creating
<1>11. CASE UNCHANGED vars
  BY <1>11 DEF CreateInv, vars
<1>12. QED
  BY <1>1, <1>2, <1>3, <1>4, <1>5, <1>6, <1>7, <1>8, <1>9, <1>10, <1>11, NextCases
     DEF Create

\* Charges and answers are those of intents that were handed out.
LEMMA EventStep ==
  ASSUME TypeOK, CreateInv, EventInv, ExpiryInv, [Next]_vars
  PROVE  EventInv'
<1>1. ASSUME UNCHANGED <<sent, acked, hook>>,
             \A b \in Bookings : secret[b] => secret'[b],
             \A b \in Bookings : intent[b] = "charged" => intent'[b] = "charged"
      PROVE  EventInv'
  BY <1>1 DEF EventInv
<1>2. ASSUME NEW r \in Requests, Create(r) PROVE EventInv'
  <2>1. CASE CreateIntent(r)
    BY <1>1, <2>1 DEF TypeOK, CreateInv, Creating, CreateIntent
  <2>2. CASE CreateSchedule(r)
    BY <1>1, <2>2 DEF TypeOK, CreateSchedule, stripeVars
  <2>3. CASE CreateInsert(r) \/ CreateAttach(r)
    BY <1>1, <2>3 DEF CreateInsert, CreateAttach, stripeVars
  <2>4. QED
    BY <1>2, <2>1, <2>2, <2>3 DEF Create
<1>3. ASSUME NEW r \in Requests, Finish(r) \/ Abort(r) PROVE EventInv'
  BY <1>1, <1>3, FinishFrame DEF Abort, stripeVars
<1>4. ASSUME NEW r \in Requests, NEW b \in Bookings, Ask(r, b) PROVE EventInv'
  BY <1>1, <1>4
     DEF Ask, CreateCheck, AcceptLoad, StartLoad, CompleteLoad, CancelLoad, UpdateLoad,
         Load, Begin, stripeVars
<1>5. ASSUME NEW b \in Bookings, Charge(b) \/ Decline(b) PROVE EventInv'
  <2>1. PICK e \in Events :
          /\ sent' = [sent EXCEPT ![b] = @ \cup {e}]
          /\ e = "succeeded" => intent' = [intent EXCEPT ![b] = "charged"]
          /\ e # "succeeded" => UNCHANGED intent
    BY <1>5 DEF Charge, Decline, Events
  <2>2. sent \in [Bookings -> SUBSET Events] /\ DOMAIN intent = Bookings
    BY DEF TypeOK
  <2>3. UNCHANGED <<secret, acked, hook>> /\ secret[b]
    BY <1>5 DEF Charge, Decline, clientVars
  <2>4. \A c \in Bookings : sent[c] \subseteq sent'[c]
    BY <2>1, <2>2
  <2>5. \A c \in Bookings : sent'[c] # {} => c = b \/ sent[c] # {}
    BY <2>1, <2>2
  <2>6. \A c \in Bookings :
          "succeeded" \in sent'[c] => \/ c = b /\ e = "succeeded"
                                    \/ "succeeded" \in sent[c]
    BY <2>1, <2>2
  <2>7. \A c \in Bookings :
          (c = b /\ e = "succeeded") \/ intent[c] = "charged" => intent'[c] = "charged"
    BY <2>1, <2>2
  <2>8. QED
    BY <2>3, <2>4, <2>5, <2>6, <2>7 DEF EventInv
<1>6. ASSUME NEW b \in Bookings, NEW e \in Events, HookStep(b, e)
      PROVE EventInv'
  <2>1. UNCHANGED <<secret, intent, sent>>
    BY <1>6, WebhookFrame
  <2>2. \A c \in Bookings : acked'[c] \subseteq sent[c]
    <3>1. /\ UNCHANGED acked \/ acked' = [acked EXCEPT ![b] = @ \cup {e}]
          /\ e \in sent[b]
      <4>1. CASE HookIgnore(b, e)
        BY <4>1 DEF HookIgnore, Arrives
      <4>2. ASSUME NEW d \in Deliveries, HookLoad(b, e, d)
            PROVE  UNCHANGED acked /\ e \in sent[b]
        BY <4>2 DEF HookLoad, Arrives
      <4>3. ASSUME NEW d \in Deliveries, HookSave(b, e, d) \/ HookAbort(b, e, d)
            PROVE  /\ UNCHANGED acked \/ acked' = [acked EXCEPT ![b] = @ \cup {e}]
                   /\ e \in sent[b]
        <5>1. hook[<<b, e, d>>].busy
          BY <4>3 DEF HookSave, HookAbort
        <5>2. QED
          BY <4>3, <5>1 DEF EventInv, HookSave, HookAbort
      <4>4. QED
        BY <1>6, <4>1, <4>2, <4>3, HookCases
    <3>2. DOMAIN acked = Bookings /\ \A c \in Bookings : acked[c] \subseteq sent[c]
      BY DEF TypeOK, EventInv
    <3>3. QED
      BY <2>1, <3>1, <3>2
  <2>3. \A c \in Bookings, f \in Events, g \in Deliveries :
          hook'[<<c, f, g>>].busy
            => \/ hook'[<<c, f, g>>] = hook[<<c, f, g>>]
               \/ /\ c = b /\ f = e /\ e \in sent[b]
                  /\ hook'[<<c, f, g>>].copy = booking[b]
                  /\ e = "succeeded" => booking[b].status = "pending_payment"
    <3>1. DOMAIN hook = Bookings \X Events \X Deliveries
      BY DEF TypeOK
    <3>2. CASE HookIgnore(b, e)
      BY <3>2 DEF HookIgnore
    <3>3. ASSUME NEW d \in Deliveries, HookLoad(b, e, d),
                 NEW c \in Bookings, NEW f \in Events, NEW g \in Deliveries
          PROVE  \/ hook'[<<c, f, g>>] = hook[<<c, f, g>>]
                 \/ /\ c = b /\ f = e /\ e \in sent[b]
                    /\ hook'[<<c, f, g>>].copy = booking[b]
                    /\ e = "succeeded" => booking[b].status = "pending_payment"
      <4>1. /\ hook' = [hook EXCEPT ![<<b, e, d>>] = [busy |-> TRUE, copy |-> booking[b]]]
            /\ e \in sent[b]
            /\ e = "succeeded" => booking[b].status = "pending_payment"
        BY <3>3 DEF HookLoad, Arrives
      <4>2. <<c, f, g>> \in DOMAIN hook
        BY <3>1
      <4>3. CASE <<c, f, g>> = <<b, e, d>>
        <5>1. c = b /\ f = e
          BY <4>3
        <5>2. hook'[<<c, f, g>>].copy = booking[b]
          BY <4>1, <4>2, <4>3
        <5>3. QED
          BY <4>1, <5>1, <5>2
      <4>4. CASE <<c, f, g>> # <<b, e, d>>
        BY <4>1, <4>2, <4>4
      <4>5. QED
        BY <4>3, <4>4
    <3>4. ASSUME NEW d \in Deliveries, HookSave(b, e, d) \/ HookAbort(b, e, d),
                 NEW c \in Bookings, NEW f \in Events, NEW g \in Deliveries
          PROVE  \/ hook'[<<c, f, g>>] = hook[<<c, f, g>>]
                 \/ ~ hook'[<<c, f, g>>].busy
      <4>1. hook' = [hook EXCEPT ![<<b, e, d>>] = Quiet] /\ <<c, f, g>> \in DOMAIN hook
        BY <3>1, <3>4 DEF HookSave, HookAbort
      <4>2. QED
        BY <4>1 DEF Quiet
    <3>5. QED
      BY <1>6, <3>2, <3>3, <3>4, HookCases
  <2>4. QED
    <3>1. \A c \in Bookings, f \in Events, g \in Deliveries :
            hook'[<<c, f, g>>].busy =>
              /\ f \in sent[c]
              /\ f = "succeeded" => hook'[<<c, f, g>>].copy.status = "pending_payment"
      BY <2>3 DEF EventInv
    <3>2. \A c \in Bookings : /\ sent[c] # {} => secret[c]
                              /\ "succeeded" \in sent[c] => intent[c] = "charged"
      BY DEF EventInv
    <3>3. QED
      BY <2>1, <2>2, <3>1, <3>2 DEF EventInv
<1>7. CASE ExpiryStep
  BY <1>1, <1>7, ExpiryFrame
<1>8. CASE UNCHANGED vars
  BY <1>8 DEF EventInv, vars
<1>9. QED
  BY <1>2, <1>3, <1>4, <1>5, <1>6, <1>7, <1>8, NextCases

\* No job deletes before the payment window has closed.
LEMMA ExpiryInvStep ==
  ASSUME TypeOK, CreateInv, ExpiryInv, [Next]_vars
  PROVE  ExpiryInv'
<1>1. ASSUME UNCHANGED <<life, job, sweep, overdue>> PROVE ExpiryInv'
  BY <1>1 DEF ExpiryInv
<1>2. ASSUME NEW r \in Requests, Create(r) PROVE ExpiryInv'
  <2>1. CASE CreateInsert(r)
    BY <2>1 DEF TypeOK, CreateInv, Creating, ExpiryInv, CreateInsert, expiryVars
  <2>2. CASE CreateSchedule(r)
    BY <2>2 DEF TypeOK, ExpiryInv, CreateSchedule, bookingVars
  <2>3. CASE CreateIntent(r) \/ CreateAttach(r)
    BY <1>1, <2>3 DEF CreateIntent, CreateAttach, bookingVars, expiryVars
  <2>4. QED
    BY <1>2, <2>1, <2>2, <2>3 DEF Create
<1>3. ASSUME NEW r \in Requests, Finish(r) \/ Abort(r) PROVE ExpiryInv'
  BY <1>1, <1>3, FinishFrame DEF Abort, bookingVars, expiryVars
<1>4. ASSUME NEW r \in Requests, NEW b \in Bookings, Ask(r, b) PROVE ExpiryInv'
  BY <1>1, <1>4
     DEF Ask, CreateCheck, AcceptLoad, StartLoad, CompleteLoad, CancelLoad, UpdateLoad,
         Load, Begin, bookingVars, expiryVars
<1>5. ASSUME NEW b \in Bookings, Charge(b) \/ Decline(b) PROVE ExpiryInv'
  BY <1>1, <1>5 DEF Charge, Decline, bookingVars, expiryVars
<1>6. ASSUME NEW b \in Bookings, NEW e \in Events, HookStep(b, e)
      PROVE ExpiryInv'
  BY <1>1, <1>6, WebhookFrame
<1>7. ASSUME NEW b \in Bookings,
             Expire(b) \/ JobLoad(b) \/ JobDelete(b) \/ JobFail(b) \/ SweepDelete(b)
      PROVE  ExpiryInv'
  <2>1. CASE Expire(b)
    BY <2>1 DEF TypeOK, ExpiryInv, Expire, bookingVars
  <2>2. CASE JobLoad(b)
    BY <2>2 DEF TypeOK, ExpiryInv, JobLoad, Pending, NoJob, bookingVars
  <2>3. CASE JobDelete(b)
    BY <2>3 DEF TypeOK, ExpiryInv, JobDelete, NoJob, bookingVars
  <2>4. CASE JobFail(b)
    BY <2>4 DEF TypeOK, ExpiryInv, JobFail, NoJob, bookingVars
  <2>5. CASE SweepDelete(b)
    BY <2>5 DEF TypeOK, ExpiryInv, SweepDelete, Pending, NoJob, bookingVars
  <2>6. QED
    BY <1>7, <2>1, <2>2, <2>3, <2>4, <2>5
<1>8. CASE ClearQueue \/ RetryFailedJobs
  BY <1>8 DEF TypeOK, ExpiryInv, ClearQueue, RetryFailedJobs, NoJob, bookingVars
<1>9. CASE SweepFind \/ SweepFail
  BY <1>9 DEF TypeOK, ExpiryInv, SweepFind, SweepFail, Expired, Pending, bookingVars
<1>10. CASE UNCHANGED vars
  BY <1>1, <1>10 DEF vars
<1>11. QED
  BY <1>2, <1>3, <1>4, <1>5, <1>6, <1>7, <1>8, <1>9, <1>10, NextCases DEF ExpiryStep

\* The effect of a save by request r on the document of its booking.
LEMMA SaveFields ==
  ASSUME TypeOK, NEW r \in Requests, NEW op \in Ops \ {"idle"}, NEW new \in Doc,
         Save(r, op, new)
  PROVE  LET b == req[r].b
             old == req[r].copy
         IN  /\ b \in Bookings
             /\ booking' \in [Bookings -> Doc]
             /\ booking'[b].status \in {booking[b].status, new.status}
             /\ booking'[b].pay \in {booking[b].pay, new.pay}
             /\ booking'[b].started \in {booking[b].started, new.started}
             /\ new.pay = old.pay => booking'[b].pay = booking[b].pay
             /\ new.started = old.started => booking'[b].started = booking[b].started
             /\ life[b] # "stored" => booking' = booking
             /\ life[b] = "stored" /\ new.started # old.started
                  => booking'[b].started = new.started
<1>1. req[r].b \in Bookings /\ req[r].copy \in Doc
  BY DEF TypeOK, Save
<1>2. Store(req[r].b, req[r].copy, new)
  BY DEF Save
<1>3. QED
  BY <1>1, <1>2, StoreFields

\* What the end of an operation makes of the status, the payment and startedAt.
LEMMA FinishEffect ==
  ASSUME TypeOK, StartInv, NEW r \in Requests, Finish(r)
  PROVE  LET b == req[r].b
         IN  /\ \/ booking'[b].status \in {booking[b].status, "cancelled", "no_show"}
                \/ req[r].op \in Serving /\ booking'[b].status \in Confirmed
                \/ b \in overruled'
             /\ \/ booking'[b].pay = booking[b].pay
                \/ req[r].op \in Serving /\ booking'[b].pay = "completed"
             /\ booking[b].started => booking'[b].started
             /\ booking'[b].status \in {"in_progress", "completed"} /\ b \notin overruled'
                  => booking'[b].started
<1> DEFINE b == req[r].b
           old == req[r].copy
<1>1. b \in Bookings /\ old \in Doc /\ booking[b] \in Doc /\ req[r].op # "idle"
  BY FinishFrame DEF TypeOK
<1>2. /\ b \notin overruled' =>
           /\ booking[b].status \in {"in_progress", "completed"} => booking[b].started
           /\ req[r].op = "complete" => old.started
      /\ old.started => booking[b].started
      /\ old.started \in BOOLEAN /\ booking[b].started \in BOOLEAN
  <2>1. b \notin overruled' => b \in Bookings \ overruled
    BY <1>1, FinishFrame
  <2>2. QED
    BY <1>1, <2>1 DEF StartInv, Doc
<1>3. CASE AcceptSave(r)
  <2> DEFINE new == [old EXCEPT !.status = "accepted"]
  <2>1. /\ new \in Doc /\ new.status = "accepted"
        /\ new.pay = old.pay /\ new.started = old.started
    BY <1>1, EditTypes DEF Doc
  <2>2. Save(r, "accept", new) /\ req[r].op = "accept"
    BY <1>3 DEF AcceptSave, Save
  <2>3. /\ booking'[b].status \in {booking[b].status, "accepted"}
        /\ booking'[b].pay = booking[b].pay
        /\ booking'[b].started = booking[b].started
    BY <2>1, <2>2, SaveFields DEF Ops
  <2>4. QED
    BY <1>2, <2>2, <2>3 DEF Serving, Confirmed, Blocking
<1>4. CASE StartSave(r)
  <2> DEFINE new == [old EXCEPT !.status = "in_progress", !.started = TRUE]
  <2>1. /\ new \in Doc /\ new.status = "in_progress"
        /\ new.pay = old.pay /\ new.started = TRUE
    BY <1>1, EditTypes DEF Doc
  <2>2. Save(r, "start", new) /\ req[r].op = "start"
    BY <1>4 DEF StartSave, Save
  <2>3. /\ booking'[b].status \in {booking[b].status, "in_progress"}
        /\ booking'[b].pay = booking[b].pay
        /\ booking'[b].started \in {booking[b].started, TRUE}
        /\ new.started = old.started => booking'[b].started = booking[b].started
        /\ life[b] # "stored" => booking' = booking
        /\ life[b] = "stored" /\ new.started # old.started
             => booking'[b].started = new.started
    BY ZenonT(40), <2>1, <2>2, SaveFields DEF Ops
  <2>4. booking'[b].started \/ booking' = booking
    BY <1>2, <2>1, <2>3
  <2>5. QED
    BY <1>2, <2>2, <2>3, <2>4 DEF Serving, Confirmed, Blocking
<1>5. CASE CompleteSave(r)
  <2> DEFINE new == [old EXCEPT !.status = "completed", !.pay = "completed"]
  <2>1. /\ new \in Doc /\ new.status = "completed"
        /\ new.pay = "completed" /\ new.started = old.started
    BY <1>1, EditTypes DEF Doc
  <2>2. Save(r, "complete", new) /\ req[r].op = "complete"
    BY <1>5 DEF CompleteSave, Save
  <2>3. /\ booking'[b].status \in {booking[b].status, "completed"}
        /\ booking'[b].pay \in {booking[b].pay, "completed"}
        /\ booking'[b].started = booking[b].started
    BY ZenonT(40), <2>1, <2>2, SaveFields DEF Ops
  <2>4. QED
    BY <1>2, <2>2, <2>3 DEF Serving, Confirmed
<1>6. CASE CancelSave(r)
  <2> DEFINE new == [old EXCEPT !.status = "cancelled"]
  <2>1. /\ new \in Doc /\ new.status = "cancelled"
        /\ new.pay = old.pay /\ new.started = old.started
    BY <1>1, EditTypes DEF Doc
  <2>2. Save(r, "cancel", new)
    BY <1>6 DEF CancelSave
  <2>3. /\ booking'[b].status \in {booking[b].status, "cancelled"}
        /\ booking'[b].pay = booking[b].pay
        /\ booking'[b].started = booking[b].started
    BY ZenonT(40), <2>1, <2>2, SaveFields DEF Ops
  <2>4. QED
    BY <1>2, <2>3
<1>7. ASSUME NEW s \in PutStatuses, UpdateWrite(r, s)
      PROVE  /\ \/ booking'[b].status \in {booking[b].status, "cancelled", "no_show"}
                \/ b \in overruled'
             /\ booking'[b].pay = booking[b].pay
             /\ booking'[b].started = booking[b].started
  <2>1. CASE life[b] = "stored"
    <3>1. booking' = [booking EXCEPT ![b].status = s]
      BY <1>7, <2>1 DEF UpdateWrite
    <3>2. s \in {"cancelled", "no_show"} \/ b \in overruled'
      BY <1>7, <2>1 DEF UpdateWrite, Closing
    <3>3. /\ booking'[b].status = s /\ booking'[b].pay = booking[b].pay
          /\ booking'[b].started = booking[b].started
      BY <1>1, <3>1 DEF TypeOK, Doc
    <3>4. QED
      BY <3>2, <3>3
  <2>2. CASE life[b] # "stored"
    BY <1>7, <2>2 DEF UpdateWrite
  <2>3. QED
    BY <2>1, <2>2
<1>8. QED
  BY <1>2, <1>3, <1>4, <1>5, <1>6, <1>7 DEF Finish

\* What a webhook call makes of the status, the payment and the seat.
LEMMA WebhookEffect ==
  ASSUME TypeOK, EventInv, NEW b \in Bookings, NEW e \in Events, HookStep(b, e)
  PROVE  \/ UNCHANGED <<life, booking>>
         \/ /\ e = "succeeded" /\ e \in sent[b]
            /\ life[b] = "stored" => booking'[b].status = "requested"
            /\ life[b] # "stored" => booking' = booking
            /\ booking'[b].pay \in {booking[b].pay, "completed"}
            /\ booking'[b].seat \in {booking[b].seat, TRUE}
         \/ /\ e = "failed" /\ e \in sent[b]
            /\ booking'[b].status \in {booking[b].status, "payment_failed"}
            /\ booking'[b].pay \in {booking[b].pay, "failed"}
<1>1. CASE \/ HookIgnore(b, e)
           \/ \E d \in Deliveries : HookLoad(b, e, d) \/ HookAbort(b, e, d)
  BY <1>1 DEF HookIgnore, HookLoad, HookAbort, bookingVars
<1>2. CASE \E d \in Deliveries : HookSave(b, e, d)
  <2> PICK d \in Deliveries : HookSave(b, e, d)
    BY <1>2
  <2> DEFINE old == hook[<<b, e, d>>].copy
             new == IF e = "succeeded" THEN Paid(old) ELSE Failed(old)
  <2>1. old \in Doc /\ new \in Doc
    BY EditTypes DEF TypeOK
  <2>2. Store(b, old, new) /\ hook[<<b, e, d>>].busy
    BY DEF HookSave
  <2>3. e \in sent[b]
    BY <2>2 DEF EventInv
  <2>4. /\ booking'[b].status \in {booking[b].status, new.status}
        /\ booking'[b].pay \in {booking[b].pay, new.pay}
        /\ booking'[b].seat \in {booking[b].seat, new.seat}
        /\ life[b] # "stored" => booking' = booking
        /\ life[b] = "stored" /\ new.status # old.status
             => booking'[b].status = new.status
    BY <2>1, <2>2, StoreFields
  <2>5. CASE e = "succeeded"
    <3>1. new.status = "requested" /\ new.pay = "completed" /\ new.seat = TRUE
      BY <2>1, <2>5 DEF Paid, Doc
    <3>2. old.status = "pending_payment"
      BY <2>2, <2>5 DEF EventInv
    <3>3. QED
      BY <2>3, <2>4, <2>5, <3>1, <3>2
  <2>6. CASE e = "failed"
    <3>1. new.status = "payment_failed" /\ new.pay = "failed"
      BY <2>1, <2>6 DEF Failed, Doc
    <3>2. QED
      BY <2>3, <2>4, <2>6, <3>1
  <2>7. QED
    BY <2>5, <2>6 DEF Events
<1>3. QED
  BY <1>1, <1>2, HookCases

\* A booking that is in progress or completed keeps its startedAt, and so do
\* the copies that requests have loaded.
LEMMA StartStep ==
  ASSUME TypeOK, CreateInv, StartInv, EventInv, ExpiryInv, [Next]_vars
  PROVE  StartInv'
<1> USE DEF StartInv
<1>0. \A b \in Bookings \ overruled' : b \in Bookings \ overruled
  BY OverruledStays
<1>1. ASSUME UNCHANGED <<booking, req>> PROVE StartInv'
  <2>1. \A r \in Requests : req[r].op # "idle" => req[r].b \in Bookings
    BY DEF TypeOK
  <2>2. QED
    BY <1>0, <1>1, <2>1
<1>2. ASSUME NEW r \in Requests, CreateInsert(r) PROVE StartInv'
  <2> DEFINE b == req[r].b
  <2>1. \A q \in Requests : q # r /\ req[q].op # "idle" => req[q].b # b
    BY <1>2 DEF TypeOK, Ops, CreateInv, Creating, CreateInsert
  <2>2. /\ b \in Bookings /\ req[r].op = "insert" /\ req[r].copy = NewBooking
        /\ booking' = [booking EXCEPT ![b] = NewBooking]
        /\ req' = [req EXCEPT ![r].op = "intent"]
    BY <1>2 DEF TypeOK, CreateInv, Creating, CreateInsert
  <2>3. \A q \in Requests : /\ q # r => req'[q] = req[q]
                            /\ req'[q].copy = req[q].copy /\ req'[q].b = req[q].b
    BY <2>2 DEF TypeOK
  <2>4. req'[r].op = "intent"
    BY <2>2 DEF TypeOK
  <2>5. \A c \in Bookings : booking'[c] = IF c = b THEN NewBooking ELSE booking[c]
    BY <2>2 DEF TypeOK
  <2>6. \A q \in Requests : req[q].op # "idle" => req[q].b \in Bookings
    BY DEF TypeOK
  <2>7. ~ NewBooking.started /\ NewBooking.status = "pending_payment"
    BY DEF NewBooking
  <2>8. QED
    BY <1>0, <2>1, <2>2, <2>3, <2>4, <2>5, <2>6, <2>7
<1>3. ASSUME NEW r \in Requests, CreateIntent(r) PROVE StartInv'
  BY <1>0, <1>3 DEF TypeOK, CreateIntent, bookingVars
<1>4. ASSUME NEW r \in Requests, CreateAttach(r) PROVE StartInv'
  <2> DEFINE b == req[r].b
             old == req[r].copy
             new == [old EXCEPT !.attached = TRUE]
  <2>1. /\ b \in Bookings /\ old \in Doc /\ new \in Doc /\ ~ old.started
        /\ new.status = old.status /\ new.started = old.started
    <3>1. b \in Bookings /\ old \in Doc /\ old = NewBooking
      BY <1>4 DEF TypeOK, CreateInv, Creating, CreateAttach
    <3>2. new.status = old.status /\ new.started = old.started /\ ~ old.started
      BY <3>1 DEF NewBooking
    <3>3. QED
      BY <3>1, <3>2, EditTypes
  <2>2. Store(b, old, new)
    BY <1>4 DEF CreateAttach
  <2>3. \A c \in Bookings : /\ booking'[c].status = booking[c].status
                            /\ booking'[c].started = booking[c].started
    <3>1. /\ booking'[b].status = booking[b].status
          /\ booking'[b].started = booking[b].started
          /\ \A c \in Bookings : c # b => booking'[c] = booking[c]
      <4> HIDE DEF b, old, new
      <4>1. QED
        BY <2>1, <2>2, StoreFields
    <3>2. QED
      BY <3>1
  <2>4. /\ \A q \in Requests : q # r => req'[q] = req[q]
        /\ req'[r].op # "idle" => req'[r].op = "schedule" /\ req'[r].copy = old
    BY <1>4 DEF TypeOK, CreateAttach, Idle
  <2>5. QED
    BY ZenonT(40), <1>0, <2>1, <2>3, <2>4 DEF TypeOK
<1>5. ASSUME NEW r \in Requests, CreateSchedule(r) PROVE StartInv'
  BY <1>0, <1>5 DEF TypeOK, CreateSchedule, Idle, bookingVars
<1>6. ASSUME NEW r \in Requests, Finish(r) PROVE StartInv'
  <2>1. /\ req[r].b \in Bookings
        /\ req' = [req EXCEPT ![r] = Idle]
        /\ \A c \in Bookings : c # req[r].b => booking'[c] = booking[c]
    BY <1>6, FinishFrame
  <2>2. /\ booking[req[r].b].started => booking'[req[r].b].started
        /\ booking'[req[r].b].status \in {"in_progress", "completed"}
             /\ req[r].b \notin overruled'
             => booking'[req[r].b].started
    BY <1>6, FinishEffect
  <2>3. req'[r].op = "idle" /\ \A q \in Requests : q # r => req'[q] = req[q]
    BY <2>1 DEF TypeOK, Idle
  <2>4. QED
    BY ZenonT(40), <1>0, <2>1, <2>2, <2>3 DEF TypeOK
<1>7. ASSUME NEW r \in Requests, Abort(r) PROVE StartInv'
  BY <1>0, <1>7 DEF TypeOK, Abort, Idle, bookingVars
<1>8. ASSUME NEW r \in Requests, NEW b \in Bookings, Ask(r, b) PROVE StartInv'
  <2>1. ASSUME NEW op \in Ops, NEW copy \in Doc, Begin(r, op, b, copy),
               op = "complete" /\ b \notin overruled => copy.started,
               copy.started => booking[b].started
        PROVE  StartInv'
    BY <1>0, <2>1 DEF TypeOK, Begin, bookingVars
  <2>2. booking[b] \in Doc /\ ~ NewBooking.started
    BY DEF TypeOK, NewBooking
  <2>3. CASE CreateCheck(r, b) \/ UpdateLoad(r, b)
    BY <2>1, <2>2, <2>3, NewBookingType DEF CreateCheck, UpdateLoad, Ops
  <2>4. CASE AcceptLoad(r, b) \/ StartLoad(r, b) \/ CancelLoad(r, b)
    BY <2>1, <2>2, <2>4 DEF AcceptLoad, StartLoad, CancelLoad, Load, Ops
  <2>5. CASE CompleteLoad(r, b)
    BY <2>1, <2>2, <2>5 DEF CompleteLoad, Load, Ops
  <2>6. QED
    BY <1>8, <2>3, <2>4, <2>5 DEF Ask
<1>9. ASSUME NEW b \in Bookings, Charge(b) \/ Decline(b) PROVE StartInv'
  BY <1>1, <1>9 DEF Charge, Decline, bookingVars, clientVars
<1>10. ASSUME NEW b \in Bookings, NEW e \in Events, HookStep(b, e)
       PROVE StartInv'
  <2>1. /\ UNCHANGED req
        /\ \A c \in Bookings : c # b => booking'[c] = booking[c]
        /\ \A c \in Bookings : booking'[c].started = booking[c].started
    BY <1>10, WebhookFrame
  <2>2. booking'[b].status \in {booking[b].status, "requested", "payment_failed"}
    BY <1>10, WebhookEffect
  <2>3. QED
    BY <1>0, <2>1, <2>2 DEF TypeOK
<1>11. CASE ExpiryStep
  BY <1>1, <1>11, ExpiryFrame
<1>12. CASE UNCHANGED vars
  BY <1>1, <1>12 DEF vars
<1>13. QED
  BY <1>2, <1>3, <1>4, <1>5, <1>6, <1>7, <1>8, <1>9, <1>10, <1>11, <1>12, NextCases
     DEF Create

\* The status and the payment of a document agree with what Stripe did.
LEMMA MoneyStep ==
  ASSUME TypeOK, CreateInv, EventInv, MoneyInv, StartInv, ExpiryInv,
         [Next]_vars
  PROVE  MoneyInv'
<1> USE DEF MoneyInv, MoneyAgreesWithStripe
<1>0. \A b \in Bookings \ overruled' : b \in Bookings \ overruled
  BY OverruledStays
<1>1. ASSUME UNCHANGED <<booking, req>>,
             \A b \in Bookings : intent[b] = "charged" => intent'[b] = "charged",
             \A b \in Bookings : sent[b] \subseteq sent'[b]
      PROVE  MoneyInv'
  <2>1. \A r \in Requests : req[r].op \in Serving => req[r].b \in Bookings
    BY DEF TypeOK, Serving
  <2>2. QED
    BY <1>0, <1>1, <2>1
<1>2. ASSUME NEW r \in Requests, CreateInsert(r) PROVE MoneyInv'
  <2>1. \A c \in Bookings : booking'[c] \in {booking[c], NewBooking}
    BY <1>2 DEF TypeOK, CreateInsert
  <2>2. \A q \in Requests :
          req'[q].op \in Serving
            => req[q].op \in Serving /\ req'[q].b = req[q].b /\ req[q].b \in Bookings
    BY <1>2 DEF TypeOK, Serving, CreateInsert
  <2>3. /\ NewBooking.status = "pending_payment" /\ NewBooking.pay = "pending"
        /\ NewBooking.seat = TRUE /\ "pending_payment" \notin Confirmed
    BY DEF NewBooking, Confirmed, Blocking
  <2>4. UNCHANGED <<intent, sent>>
    BY <1>2 DEF CreateInsert, stripeVars
  <2>5. QED
    BY <1>0, <2>1, <2>2, <2>3, <2>4
<1>3. ASSUME NEW r \in Requests, CreateIntent(r) PROVE MoneyInv'
  <2>1. /\ intent[req[r].b] = "none" /\ req[r].b \in Bookings
        /\ intent' = [intent EXCEPT ![req[r].b] = "open"]
        /\ UNCHANGED <<booking, sent>>
    BY <1>3 DEF TypeOK, CreateInv, Creating, CreateIntent, bookingVars
  <2>2. \A b \in Bookings : intent[b] = "charged" => intent'[b] = "charged"
    BY <2>1 DEF TypeOK
  <2>3. \A q \in Requests :
          req'[q].op \in Serving
            => req[q].op \in Serving /\ req'[q].b = req[q].b /\ req[q].b \in Bookings
    BY <1>3 DEF TypeOK, Serving, CreateIntent
  <2>4. QED
    BY <1>0, <2>1, <2>2, <2>3
<1>4. ASSUME NEW r \in Requests, CreateAttach(r) PROVE MoneyInv'
  <2> DEFINE b == req[r].b
             old == req[r].copy
             new == [old EXCEPT !.attached = TRUE]
  <2>1. /\ b \in Bookings /\ old \in Doc /\ new \in Doc
        /\ new.status = old.status /\ new.pay = old.pay /\ new.seat = old.seat
    <3>1. b \in Bookings /\ old \in Doc
      BY <1>4 DEF TypeOK, CreateAttach
    <3>2. QED
      BY <3>1, EditTypes DEF Doc
  <2>2. Store(b, old, new)
    BY <1>4 DEF CreateAttach
  <2>3. \A c \in Bookings : /\ booking'[c].status = booking[c].status
                            /\ booking'[c].pay = booking[c].pay
                            /\ booking'[c].seat = booking[c].seat
    <3>1. /\ booking'[b].status = booking[b].status
          /\ booking'[b].pay = booking[b].pay
          /\ booking'[b].seat = booking[b].seat
          /\ \A c \in Bookings : c # b => booking'[c] = booking[c]
      <4> HIDE DEF b, old, new
      <4>1. QED
        BY <2>1, <2>2, StoreFields
    <3>2. QED
      BY <3>1
  <2>4. \A q \in Requests :
          req'[q].op \in Serving
            => req[q].op \in Serving /\ req'[q].b = req[q].b /\ req[q].b \in Bookings
    BY <1>4 DEF TypeOK, Serving, CreateAttach, Idle
  <2>5. UNCHANGED <<intent, sent>>
    BY <1>4 DEF CreateAttach, stripeVars
  <2>6. QED
    BY <1>0, <2>3, <2>4, <2>5
<1>5. ASSUME NEW r \in Requests, CreateSchedule(r) \/ Abort(r) PROVE MoneyInv'
  <2>1. UNCHANGED <<booking, intent, sent>> /\ req' = [req EXCEPT ![r] = Idle]
    BY <1>5 DEF CreateSchedule, Abort, bookingVars, stripeVars
  <2>2. \A q \in Requests :
          req'[q].op \in Serving => req'[q] = req[q] /\ req[q].b \in Bookings
    BY <2>1 DEF TypeOK, Idle, Serving
  <2>3. QED
    BY <1>0, <2>1, <2>2
<1>6. ASSUME NEW r \in Requests, Finish(r) PROVE MoneyInv'
  <2> DEFINE b == req[r].b
  <2>1. /\ b \in Bookings
        /\ req' = [req EXCEPT ![r] = Idle]
        /\ UNCHANGED <<intent, sent>>
        /\ \A c \in Bookings : c # b => booking'[c] = booking[c]
        /\ \A c \in Bookings : booking'[c].seat = booking[c].seat
    BY <1>6, FinishFrame
  <2>2. /\ \/ booking'[b].status \in {booking[b].status, "cancelled", "no_show"}
           \/ req[r].op \in Serving /\ booking'[b].status \in Confirmed
           \/ b \in overruled'
        /\ \/ booking'[b].pay = booking[b].pay
           \/ req[r].op \in Serving /\ booking'[b].pay = "completed"
    BY <1>6, FinishEffect
  <2>3. req[r].op \in Serving /\ b \notin overruled' => intent[b] = "charged"
    BY <1>0, <2>1
  <2>4. /\ "payment_failed" \notin Confirmed /\ "cancelled" \notin Confirmed
        /\ "no_show" \notin Confirmed
    BY DEF Confirmed, Blocking
  <2>5. ASSUME b \notin overruled'
        PROVE  /\ booking'[b].status \in Confirmed \/ booking'[b].pay = "completed"
                    => intent[b] = "charged"
               /\ booking'[b].status = "payment_failed" => "failed" \in sent[b]
    <3>0. b \in Bookings \ overruled
      BY <1>0, <2>1, <2>5
    <3>1. booking'[b].status \in Confirmed => intent[b] = "charged"
      BY <2>2, <2>3, <2>4, <2>5, <3>0
    <3>2. booking'[b].pay = "completed" => intent[b] = "charged"
      BY <2>2, <2>3, <2>5, <3>0
    <3>3. booking'[b].status = "payment_failed" => booking[b].status = "payment_failed"
      BY <2>2, <2>4, <2>5
    <3>4. QED
      BY <3>0, <3>1, <3>2, <3>3
  <2>6. \A c \in Bookings :
          /\ c \notin overruled' =>
               /\ booking'[c].status \in Confirmed \/ booking'[c].pay = "completed"
                    => intent'[c] = "charged"
               /\ booking'[c].status = "payment_failed" => "failed" \in sent'[c]
          /\ ~ booking'[c].seat => "failed" \in sent'[c]
    BY <1>0, <2>1, <2>5
  <2>7. \A q \in Requests :
          req'[q].op \in Serving => req'[q] = req[q] /\ req[q].b \in Bookings
    BY <2>1 DEF TypeOK, Idle, Serving
  <2>8. QED
    BY <1>0, <2>1, <2>6, <2>7
<1>7. ASSUME NEW r \in Requests, NEW b \in Bookings, Ask(r, b) PROVE MoneyInv'
  <2>1. ASSUME NEW op \in Ops, NEW copy, Begin(r, op, b, copy),
               op \in Serving /\ b \notin overruled => intent[b] = "charged"
        PROVE  MoneyInv'
    BY <1>0, <2>1 DEF TypeOK, Begin, bookingVars, stripeVars
  <2>2. CASE CreateCheck(r, b) \/ CancelLoad(r, b) \/ UpdateLoad(r, b)
    BY <2>1, <2>2 DEF CreateCheck, CancelLoad, UpdateLoad, Load, Ops, Serving
  <2>3. CASE AcceptLoad(r, b) \/ StartLoad(r, b) \/ CompleteLoad(r, b)
    BY <2>1, <2>3
       DEF AcceptLoad, StartLoad, CompleteLoad, Load, Ops, Confirmed, Blocking
  <2>4. QED
    BY <1>7, <2>2, <2>3 DEF Ask
<1>8. ASSUME NEW b \in Bookings, Charge(b) \/ Decline(b) PROVE MoneyInv'
  <2>1. \A c \in Bookings : /\ intent[c] = "charged" => intent'[c] = "charged"
                            /\ sent[c] \subseteq sent'[c]
    BY <1>8 DEF TypeOK, Charge, Decline
  <2>2. QED
    BY <1>1, <1>8, <2>1 DEF Charge, Decline, bookingVars, clientVars
<1>9. ASSUME NEW b \in Bookings, NEW e \in Events, HookStep(b, e)
      PROVE MoneyInv'
  <2>1. /\ UNCHANGED <<req, intent, sent>>
        /\ \A c \in Bookings : c # b => booking'[c] = booking[c]
    BY <1>9, WebhookFrame
  <2>2. \/ UNCHANGED booking
        \/ /\ "succeeded" \in sent[b]
           /\ booking'[b].status \in {booking[b].status, "requested"}
           /\ booking'[b].seat \in {booking[b].seat, TRUE}
        \/ /\ "failed" \in sent[b]
           /\ booking'[b].status \in {booking[b].status, "payment_failed"}
           /\ booking'[b].pay \in {booking[b].pay, "failed"}
    BY <1>9, WebhookEffect
  <2>3. "succeeded" \in sent[b] => intent[b] = "charged"
    BY DEF EventInv
  <2>4. "payment_failed" \notin Confirmed
    BY DEF Confirmed, Blocking
  <2>5. /\ b \notin overruled' =>
             /\ booking'[b].status \in Confirmed \/ booking'[b].pay = "completed"
                  => intent[b] = "charged"
             /\ booking'[b].status = "payment_failed" => "failed" \in sent[b]
        /\ ~ booking'[b].seat => "failed" \in sent[b]
    BY <1>0, <2>2, <2>3, <2>4
  <2>6. \A r \in Requests : req[r].op \in Serving => req[r].b \in Bookings
    BY DEF TypeOK, Serving
  <2>7. QED
    BY <1>0, <2>1, <2>5, <2>6
<1>10. CASE ExpiryStep
  BY <1>1, <1>10, ExpiryFrame
<1>11. CASE UNCHANGED vars
  BY <1>1, <1>11 DEF vars
<1>12. QED
  BY <1>2, <1>3, <1>4, <1>5, <1>6, <1>7, <1>8, <1>9, <1>10, <1>11, NextCases DEF Create

\* An answered success stays recorded: no step makes the booking wait for its
\* payment again.
LEMMA AckStep ==
  ASSUME IInv, [Next]_vars
  PROVE  AckedPaymentIsRecorded'
<1> USE DEF AckedPaymentIsRecorded, Pending
<1>1. TypeOK /\ CreateInv /\ EventInv /\ StartInv /\ ExpiryInv /\ AckedPaymentIsRecorded
  BY DEF IInv
<1>2. \A b \in Bookings : "succeeded" \in acked[b] => secret[b] /\ life[b] # "none"
  BY <1>1 DEF EventInv, CreateInv
<1>0. \A b \in Bookings \ overruled' : b \in Bookings \ overruled
  BY <1>1, OverruledStays
<1>3. ASSUME UNCHANGED acked,
             \A b \in Bookings : life'[b] = "stored" => life[b] = "stored",
             \A b \in Bookings \ overruled' :
               booking'[b].status = "pending_payment"
                 => booking[b].status = "pending_payment"
      PROVE  AckedPaymentIsRecorded'
  BY <1>0, <1>1, <1>3
<1>4. ASSUME NEW r \in Requests, CreateInsert(r) PROVE AckedPaymentIsRecorded'
  <2>1. /\ life[req[r].b] = "none" /\ req[r].b \in Bookings
        /\ UNCHANGED acked
        /\ \A c \in Bookings :
             c # req[r].b => life'[c] = life[c] /\ booking'[c] = booking[c]
    BY <1>1, <1>4 DEF TypeOK, CreateInv, Creating, CreateInsert, stripeVars
  <2>2. QED
    BY <1>0, <1>1, <1>2, <2>1
<1>5. ASSUME NEW r \in Requests, CreateAttach(r) PROVE AckedPaymentIsRecorded'
  <2> DEFINE b == req[r].b
             old == req[r].copy
             new == [old EXCEPT !.attached = TRUE]
  <2>1. b \in Bookings /\ old \in Doc /\ new \in Doc /\ new.status = old.status
    <3>1. b \in Bookings /\ old \in Doc
      BY <1>1, <1>5 DEF TypeOK, CreateAttach
    <3>2. QED
      BY <3>1, EditTypes DEF Doc
  <2>2. Store(b, old, new) /\ UNCHANGED <<life, acked>>
    BY <1>5 DEF CreateAttach, stripeVars
  <2>3. \A c \in Bookings : booking'[c].status = booking[c].status
    <3>1. /\ booking'[b].status = booking[b].status
          /\ \A c \in Bookings : c # b => booking'[c] = booking[c]
      <4> HIDE DEF b, old, new
      <4>1. QED
        BY <1>1, <2>1, <2>2, StoreFields
    <3>2. QED
      BY <3>1
  <2>4. QED
    BY <1>3, <2>2, <2>3
<1>6. ASSUME NEW r \in Requests, CreateIntent(r) \/ CreateSchedule(r) \/ Abort(r)
      PROVE AckedPaymentIsRecorded'
  BY <1>3, <1>6 DEF CreateIntent, CreateSchedule, Abort, bookingVars, stripeVars
<1>7. ASSUME NEW r \in Requests, Finish(r) PROVE AckedPaymentIsRecorded'
  <2>1. /\ UNCHANGED <<life, acked>> /\ req[r].b \in Bookings
        /\ \A c \in Bookings : c # req[r].b => booking'[c] = booking[c]
    BY <1>1, <1>7, FinishFrame
  <2>2. \/ booking'[req[r].b].status \in {booking[req[r].b].status, "cancelled", "no_show"}
        \/ booking'[req[r].b].status \in Confirmed
        \/ req[r].b \in overruled'
    BY <1>1, <1>7, FinishEffect
  <2>3. "pending_payment" \notin Confirmed
    BY DEF Confirmed, Blocking
  <2>4. QED
    BY <1>3, <2>1, <2>2, <2>3
<1>8. ASSUME NEW r \in Requests, NEW b \in Bookings, Ask(r, b)
      PROVE AckedPaymentIsRecorded'
  BY <1>3, <1>8
     DEF Ask, CreateCheck, AcceptLoad, StartLoad, CompleteLoad, CancelLoad, UpdateLoad,
         Load, Begin, bookingVars, stripeVars
<1>9. ASSUME NEW b \in Bookings, Charge(b) \/ Decline(b) PROVE AckedPaymentIsRecorded'
  BY <1>3, <1>9 DEF Charge, Decline, bookingVars
<1>10. ASSUME NEW b \in Bookings, NEW e \in Events, HookStep(b, e)
       PROVE AckedPaymentIsRecorded'
  <2>1. /\ UNCHANGED life
        /\ \A c \in Bookings : c # b => booking'[c] = booking[c]
    BY <1>1, <1>10, WebhookFrame
  <2>2. \/ UNCHANGED booking
        \/ /\ e = "succeeded"
           /\ life[b] = "stored" => booking'[b].status = "requested"
        \/ booking'[b].status \in {booking[b].status, "payment_failed"}
    BY <1>1, <1>10, WebhookEffect
  <2>3. \A c \in Bookings : Pending(c)' => Pending(c)
    BY <2>1, <2>2
  <2>4. DOMAIN acked = Bookings
    BY <1>1 DEF TypeOK
  <2>5. CASE HookIgnore(b, e)
    <3>1. e = "succeeded" => ~ Pending(b)
      <4>1. e = "succeeded" => secret[b]
        BY <1>1, <2>5 DEF HookIgnore, Arrives, EventInv
      <4>2. secret[b] => booking[b].attached
        BY <1>1 DEF CreateInv
      <4>3. QED
        BY <2>5, <4>1, <4>2 DEF HookIgnore, Found
    <3>2. acked' = [acked EXCEPT ![b] = @ \cup {e}]
      BY <2>5 DEF HookIgnore
    <3>3. \A c \in Bookings :
            "succeeded" \in acked'[c]
              => "succeeded" \in acked[c] \/ (c = b /\ e = "succeeded")
      BY <2>4, <3>2
    <3>4. QED
      BY <1>0, <1>1, <2>3, <3>1, <3>3
  <2>6. ASSUME NEW d \in Deliveries, HookLoad(b, e, d) \/ HookAbort(b, e, d)
        PROVE  AckedPaymentIsRecorded'
    BY <1>0, <1>1, <2>3, <2>6 DEF HookLoad, HookAbort
  <2>7. ASSUME NEW d \in Deliveries, HookSave(b, e, d) PROVE AckedPaymentIsRecorded'
    <3>1. \/ UNCHANGED acked
          \/ life[b] = "stored" /\ acked' = [acked EXCEPT ![b] = @ \cup {e}]
      BY <2>7 DEF HookSave
    <3>2. \A c \in Bookings :
            "succeeded" \in acked'[c]
              => \/ "succeeded" \in acked[c]
                 \/ c = b /\ e = "succeeded" /\ life[b] = "stored"
      BY <2>4, <3>1
    <3>3. e = "succeeded" => ~ Pending(b)'
      <4>1. SUFFICES ASSUME e = "succeeded", life[b] = "stored"
                     PROVE  booking'[b].status # "pending_payment"
        BY <2>1
      <4> DEFINE old == hook[<<b, e, d>>].copy
      <4>2. old \in Doc /\ Paid(old) \in Doc /\ Store(b, old, Paid(old))
        BY <1>1, <2>7, <4>1, EditTypes DEF TypeOK, HookSave
      <4>3. old.status = "pending_payment" /\ Paid(old).status = "requested"
        BY <1>1, <2>7, <4>1, <4>2 DEF EventInv, HookSave, Paid, Doc
      <4>4. QED
        BY <1>1, <4>1, <4>2, <4>3, StoreFields
    <3>4. QED
      BY <1>0, <1>1, <2>3, <3>2, <3>3
  <2>8. QED
    BY <1>10, <2>5, <2>6, <2>7, HookCases
<1>11. CASE ExpiryStep
  BY <1>1, <1>3, <1>11, ExpiryFrame
<1>12. CASE UNCHANGED vars
  BY <1>3, <1>12 DEF vars
<1>13. QED
  BY <1>4, <1>5, <1>6, <1>7, <1>8, <1>9, <1>10, <1>11, <1>12, NextCases DEF Create

\* The state a behaviour starts in satisfies the invariant.
LEMMA InitIInv == Init => IInv
<1> SUFFICES ASSUME Init PROVE IInv
  OBVIOUS
<1>1. TypeOK
  BY InitType
<1>2. CreateInv
  BY DEF Init, CreateInv, Creating, Idle
<1>3. ExpiryInv
  BY DEF Init, ExpiryInv, NoJob
<1>4. EventInv /\ AckedPaymentIsRecorded
  <2>1. \A c \in Bookings \X Events \X Deliveries : ~ hook[c].busy
    BY DEF Init, Quiet
  <2>2. "succeeded" \in Events
    BY DEF Events
  <2>3. \A b \in Bookings : sent[b] = {} /\ acked[b] = {}
    BY DEF Init
  <2>4. QED
    BY <2>1, <2>2, <2>3 DEF EventInv, AckedPaymentIsRecorded
<1>5. MoneyInv /\ StartInv
  BY DEF Init, MoneyInv, MoneyAgreesWithStripe, StartInv, NewBooking, Serving, Idle,
         Confirmed, Blocking
<1>6. QED
  BY <1>1, <1>2, <1>3, <1>4, <1>5 DEF IInv

\* Every step keeps the invariant.
LEMMA NextIInv == IInv /\ [Next]_vars => IInv'
<1> SUFFICES ASSUME IInv, [Next]_vars PROVE IInv'
  OBVIOUS
<1>1. TypeOK /\ CreateInv /\ EventInv /\ MoneyInv /\ StartInv /\ ExpiryInv
  BY DEF IInv
<1>2. AckedPaymentIsRecorded'
  BY AckStep
<1>3. QED
  BY <1>1, <1>2, NextType, CreateStep, EventStep, MoneyStep, StartStep, ExpiryInvStep
     DEF IInv

-----------------------------------------------------------------------------
(* The theorems *)

\* The invariant holds throughout a behaviour of createBooking, its client
\* operations, the webhook and the two expiry jobs.
LEMMA Invariance == Spec => []IInv
<1>1. Init => IInv
  BY InitIInv
<1>2. IInv /\ [Next]_vars => IInv'
  BY NextIInv
<1>3. QED
  BY <1>1, <1>2, PTL DEF Spec

\* Whatever clients send, no race of webhook calls, barbers, customers, jobs and
\* failures leaves a booking confirmed or paid that Stripe did not charge, or
\* failed without a failure that Stripe reported, unless a PUT wrote its status.
THEOREM MoneySafe == Spec => []MoneyAgreesWithStripe
<1>1. IInv => MoneyAgreesWithStripe
  BY DEF IInv, MoneyInv
<1>2. QED
  BY <1>1, Invariance, PTL

\* A payment whose success the webhook has acknowledged never leaves its booking
\* waiting for payment, unless a PUT wrote the status of the booking.
THEOREM AcknowledgedIsRecorded == Spec => []AckedPaymentIsRecorded
<1>1. IInv => AckedPaymentIsRecorded
  BY DEF IInv
<1>2. QED
  BY <1>1, Invariance, PTL

\* What was completed was started, whatever copies startBooking and
\* completeBooking worked on, unless a PUT wrote the status of the booking.
THEOREM CompletedStarted == Spec => []CompletedWasStarted
<1>1. IInv => CompletedWasStarted
  BY DEF IInv, StartInv, CompletedWasStarted
<1>2. QED
  BY <1>1, Invariance, PTL

\* Neither the job nor the cron job deletes a booking before its payment window
\* has closed, whatever clients send.
THEOREM KeptUntilDue == Spec => []KeptUntilDeadline
<1>1. Init => TypeOK /\ CreateInv /\ ExpiryInv
  BY InitIInv DEF IInv
<1>2. TypeOK /\ CreateInv /\ ExpiryInv /\ [Next]_vars
        => TypeOK' /\ CreateInv' /\ ExpiryInv'
  BY NextType, CreateStep, ExpiryInvStep
<1>3. ExpiryInv => KeptUntilDeadline
  BY DEF ExpiryInv, KeptUntilDeadline
<1>4. QED
  BY <1>1, <1>2, <1>3, PTL DEF Spec

-----------------------------------------------------------------------------
(* The refinement of BookingContract *)

\* The steps of the contract, and its stuttering.
ContractNext == Contract!Next \/ UNCHANGED Contract!vars

\* A step that changes no phase, charge or deadline is a stuttering step.
LEMMA Stutters ==
  ASSUME \A b \in Bookings : Phase(b)' = Phase(b),
         \A b \in Bookings : (intent'[b] = "charged") <=> (intent[b] = "charged"),
         UNCHANGED <<overdue, overruled>>
  PROVE  ContractNext
<1>1. [b \in Bookings |-> Phase(b)]' = [b \in Bookings |-> Phase(b)]
  OBVIOUS
<1>2. [b \in Bookings |-> intent[b] = "charged"]' = [b \in Bookings |-> intent[b] = "charged"]
  OBVIOUS
<1>3. QED
  BY <1>1, <1>2 DEF ContractNext, Contract!vars

\* A step that changes the phase of one booking, and no charge or deadline.
LEMMA Moves ==
  ASSUME NEW b \in Bookings, NEW to,
         \A c \in Bookings : c # b => Phase(c)' = Phase(c),
         Phase(b)' = to, UNCHANGED <<intent, overdue>>
  PROVE  /\ [c \in Bookings |-> Phase(c)]' = [[c \in Bookings |-> Phase(c)] EXCEPT ![b] = to]
         /\ [c \in Bookings |-> intent[c] = "charged"]' = [c \in Bookings |-> intent[c] = "charged"]
OBVIOUS

\* A step that changes the status of one document keeps the contract if it makes
\* a booking live only when it is charged and never lets it wait again, or if a
\* participant has overruled the booking.
LEMMA StatusMoves ==
  ASSUME NEW b \in Bookings,
         UNCHANGED <<life, intent, overdue>>,
         life[b] \in {"none", "stored", "deleted"},
         \A c \in Bookings : c # b => booking'[c] = booking[c],
         overruled' \in {overruled, overruled \cup {b}},
         life[b] # "stored" => UNCHANGED overruled,
         life[b] = "stored" =>
           \/ booking'[b].status = booking[b].status
           \/ booking'[b].status \in Confirmed /\ intent[b] = "charged"
           \/ booking'[b].status \in {"cancelled", "no_show", "payment_failed"}
           \/ b \in overruled'
  PROVE  ContractNext
<1>1. \A c \in Bookings : c # b => Phase(c)' = Phase(c)
  BY DEF Phase
<1>2. CASE UNCHANGED overruled /\ Phase(b)' = Phase(b)
  BY <1>1, <1>2, Stutters
<1>3. CASE /\ UNCHANGED overruled
           /\ Phase(b)' = "live" /\ intent[b] = "charged" /\ Phase(b) \in {"awaiting", "closed"}
  BY <1>1, <1>3, Moves DEF ContractNext, Contract!Next, Contract!Confirm, Contract!Become
<1>4. CASE UNCHANGED overruled /\ Phase(b)' = "closed" /\ Phase(b) \in {"awaiting", "live"}
  BY <1>1, <1>4, Moves DEF ContractNext, Contract!Next, Contract!Close, Contract!Become
<1>5. CASE life[b] = "stored" /\ b \in overruled'
  <2>1. {Phase(b), Phase(b)'} \subseteq Contract!Stored
    BY <1>5 DEF Phase, Contract!Stored
  <2>2. CASE UNCHANGED overruled
    BY <1>1, <1>5, <2>1, <2>2, Moves
       DEF ContractNext, Contract!Next, Contract!Drift, Contract!Become
  <2>3. CASE overruled' = overruled \cup {b}
    BY <1>1, <2>1, <2>3, Moves DEF ContractNext, Contract!Next, Contract!Overrule
  <2>4. QED
    BY <2>2, <2>3
<1>6. CASE ~ (life[b] = "stored" /\ b \in overruled')
  <2>1. UNCHANGED overruled
    BY <1>6
  <2>2. \/ Phase(b)' = Phase(b)
        \/ Phase(b)' = "live" /\ intent[b] = "charged" /\ Phase(b) \in {"awaiting", "closed"}
        \/ Phase(b)' = "closed" /\ Phase(b) \in {"awaiting", "live"}
    BY <1>6 DEF Phase, Confirmed, Blocking
  <2>3. QED
    BY <1>2, <1>3, <1>4, <2>1, <2>2
<1>7. QED
  BY <1>5, <1>6

\* Every step of the handlers is a step of the contract, or none.
LEMMA ContractStep ==
  ASSUME IInv, [Next]_vars
  PROVE  ContractNext
<1>1. TypeOK /\ CreateInv /\ EventInv /\ MoneyInv /\ StartInv /\ ExpiryInv
  BY DEF IInv
<1>2. ASSUME UNCHANGED <<life, booking, overdue, overruled>>,
             \A b \in Bookings : (intent'[b] = "charged") <=> (intent[b] = "charged")
      PROVE  ContractNext
  BY <1>2, Stutters DEF Phase
<1>3. ASSUME NEW r \in Requests, CreateInsert(r) PROVE ContractNext
  <2>1. PICK b \in Bookings :
        /\ life[b] = "none"
        /\ life' = [life EXCEPT ![b] = "stored"]
        /\ booking' = [booking EXCEPT ![b] = NewBooking]
        /\ UNCHANGED <<intent, overdue, overruled>>
    BY <1>1, <1>3 DEF TypeOK, CreateInv, Creating, CreateInsert, stripeVars, expiryVars
  <2>2. /\ life'[b] = "stored" /\ booking'[b].status = "pending_payment"
        /\ \A c \in Bookings : c # b => life'[c] = life[c] /\ booking'[c] = booking[c]
    BY <1>1, <2>1 DEF TypeOK, NewBooking
  <2>3. Phase(b) = "none" /\ Phase(b)' = "awaiting"
    BY <2>1, <2>2 DEF Phase
  <2>4. \A c \in Bookings : c # b => Phase(c)' = Phase(c)
    BY <2>2 DEF Phase
  <2>5. QED
    BY <2>1, <2>3, <2>4, Moves
       DEF ContractNext, Contract!Next, Contract!Open, Contract!Become
<1>4. ASSUME NEW r \in Requests, CreateIntent(r) PROVE ContractNext
  <2>1. /\ req[r].b \in Bookings /\ intent[req[r].b] = "none"
        /\ intent' = [intent EXCEPT ![req[r].b] = "open"]
        /\ UNCHANGED <<life, booking, overdue, overruled>>
    BY <1>1, <1>4
       DEF TypeOK, CreateInv, Creating, CreateIntent, bookingVars, expiryVars
  <2>2. QED
    BY <1>1, <1>2, <2>1 DEF TypeOK
<1>5. ASSUME NEW r \in Requests, CreateAttach(r) PROVE ContractNext
  <2> DEFINE b == req[r].b
             old == req[r].copy
             new == [old EXCEPT !.attached = TRUE]
  <2>1. b \in Bookings /\ old \in Doc /\ new \in Doc /\ new.status = old.status
    <3>1. b \in Bookings /\ old \in Doc
      BY <1>1, <1>5 DEF TypeOK, CreateAttach
    <3>2. QED
      BY <3>1, EditTypes DEF Doc
  <2>2. Store(b, old, new) /\ UNCHANGED <<life, intent, overdue, overruled>>
    BY <1>5 DEF CreateAttach, stripeVars, expiryVars
  <2>3. /\ booking'[b].status = booking[b].status
        /\ \A c \in Bookings : c # b => booking'[c] = booking[c]
    <3> HIDE DEF b, old, new
    <3>1. QED
      BY <1>1, <2>1, <2>2, StoreFields
  <2>4. QED
    BY <1>1, <2>1, <2>2, <2>3, StatusMoves DEF TypeOK
<1>6. ASSUME NEW r \in Requests, CreateSchedule(r) \/ Abort(r) PROVE ContractNext
  BY <1>2, <1>6 DEF CreateSchedule, Abort, bookingVars, stripeVars, expiryVars
<1>7. ASSUME NEW r \in Requests, Finish(r) PROVE ContractNext
  <2> DEFINE b == req[r].b
  <2>1. /\ b \in Bookings
        /\ UNCHANGED <<life, intent, overdue>>
        /\ \A c \in Bookings : c # b => booking'[c] = booking[c]
        /\ overruled' \in {overruled, overruled \cup {b}}
        /\ life[b] # "stored" => UNCHANGED overruled
    BY <1>1, <1>7, FinishFrame
  <2>2. \/ booking'[b].status \in {booking[b].status, "cancelled", "no_show"}
        \/ req[r].op \in Serving /\ booking'[b].status \in Confirmed
        \/ b \in overruled'
    BY <1>1, <1>7, FinishEffect
  <2>3. req[r].op \in Serving /\ b \notin overruled' => intent[b] = "charged"
    BY <1>1, <2>1 DEF MoneyInv
  <2>4. life[b] \in {"none", "stored", "deleted"}
    BY <1>1, <2>1 DEF TypeOK
  <2>5. QED
    BY <2>1, <2>2, <2>3, <2>4, StatusMoves
<1>8. ASSUME NEW r \in Requests, NEW b \in Bookings, Ask(r, b) PROVE ContractNext
  BY <1>2, <1>8
     DEF Ask, CreateCheck, AcceptLoad, StartLoad, CompleteLoad, CancelLoad, UpdateLoad,
         Load, Begin, bookingVars, stripeVars, expiryVars
<1>9. ASSUME NEW b \in Bookings, Charge(b) PROVE ContractNext
  <2>1. /\ intent[b] = "open" /\ life[b] # "none"
        /\ intent' = [intent EXCEPT ![b] = "charged"]
        /\ UNCHANGED <<life, booking, overdue, overruled>>
    BY <1>1, <1>9 DEF CreateInv, Charge, bookingVars, clientVars, expiryVars
  <2>2. [c \in Bookings |-> Phase(c)]' = [c \in Bookings |-> Phase(c)] /\ Phase(b) # "none"
    BY <2>1 DEF Phase
  <2>3. [c \in Bookings |-> intent[c] = "charged"]'
          = [[c \in Bookings |-> intent[c] = "charged"] EXCEPT ![b] = TRUE]
    BY <1>1, <2>1 DEF TypeOK
  <2>4. QED
    BY <2>1, <2>2, <2>3 DEF ContractNext, Contract!Next, Contract!Pay
<1>10. ASSUME NEW b \in Bookings, Decline(b) PROVE ContractNext
  BY <1>2, <1>10 DEF Decline, bookingVars, clientVars, expiryVars
<1>11. ASSUME NEW b \in Bookings, NEW e \in Events, HookStep(b, e)
       PROVE ContractNext
  <2>1. /\ UNCHANGED <<life, intent, overdue, overruled>>
        /\ \A c \in Bookings : c # b => booking'[c] = booking[c]
    BY <1>1, <1>11, WebhookFrame
  <2>2. \/ UNCHANGED booking
        \/ "succeeded" \in sent[b] /\ (life[b] = "stored" => booking'[b].status = "requested")
        \/ booking'[b].status \in {booking[b].status, "payment_failed"}
    BY <1>1, <1>11, WebhookEffect
  <2>3. /\ "succeeded" \in sent[b] => intent[b] = "charged"
        /\ life[b] \in {"none", "stored", "deleted"} /\ "requested" \in Confirmed
    BY <1>1 DEF TypeOK, EventInv, Confirmed, Blocking
  <2>4. QED
    BY <2>1, <2>2, <2>3, StatusMoves
<1>12. ASSUME NEW b \in Bookings, Expire(b) PROVE ContractNext
  <2>1. /\ overdue' = [overdue EXCEPT ![b] = TRUE] /\ ~ overdue[b]
        /\ life[b] = "stored" /\ UNCHANGED <<life, booking, intent, overruled>>
    BY <1>12 DEF Expire, bookingVars, clientVars, stripeVars
  <2>2. /\ [c \in Bookings |-> Phase(c)]' = [c \in Bookings |-> Phase(c)]
        /\ Phase(b) \in {"awaiting", "live", "closed"}
    BY <2>1 DEF Phase
  <2>3. QED
    BY <2>1, <2>2 DEF ContractNext, Contract!Next, Contract!Lapse, Contract!Stored
<1>13. ASSUME NEW b \in Bookings, JobDelete(b) \/ SweepDelete(b) PROVE ContractNext
  <2>1. /\ life' = [life EXCEPT ![b] = "deleted"] /\ UNCHANGED <<booking, intent, overdue, overruled>>
        /\ overdue[b] /\ life[b] \in {"stored", "deleted"}
    BY <1>1, <1>13 DEF TypeOK, ExpiryInv, JobDelete, SweepDelete, clientVars, stripeVars
  <2>2. \A c \in Bookings : c # b => Phase(c)' = Phase(c)
    BY <1>1, <2>1 DEF TypeOK, Phase
  <2>3. Phase(b)' = "gone"
    BY <1>1, <2>1 DEF TypeOK, Phase
  <2>4. Phase(b) \in {"awaiting", "live", "closed", "gone"}
    BY <2>1 DEF Phase
  <2>5. CASE Phase(b) = "gone"
    BY <2>1, <2>2, <2>3, <2>5, Stutters
  <2>6. CASE Phase(b) # "gone"
    BY <2>1, <2>2, <2>3, <2>4, <2>6, Moves
       DEF ContractNext, Contract!Next, Contract!Remove, Contract!Become, Contract!Stored
  <2>7. QED
    BY <2>5, <2>6
<1>14. ASSUME NEW b \in Bookings, JobLoad(b) \/ JobFail(b) PROVE ContractNext
  BY <1>2, <1>14 DEF JobLoad, JobFail, bookingVars, clientVars, stripeVars
<1>15. CASE ClearQueue \/ RetryFailedJobs \/ SweepFind \/ SweepFail
  BY <1>2, <1>15
     DEF ClearQueue, RetryFailedJobs, SweepFind, SweepFail, bookingVars, clientVars,
         stripeVars
<1>16. CASE UNCHANGED vars
  BY <1>2, <1>16 DEF vars
<1>17. QED
  BY <1>3, <1>4, <1>5, <1>6, <1>7, <1>8, <1>9, <1>10, <1>11, <1>12, <1>13, <1>14, <1>15,
     <1>16, NextCases DEF Create, ExpiryStep

\* No booking has been asked for in the state a behaviour starts in.
LEMMA ContractInit == Init => Contract!Init
BY DEF Init, Contract!Init, Phase

\* Whatever clients send, every behaviour of the booking handlers keeps the
\* promises of BookingContract: live only when charged and never waiting again
\* until a participant overrules it, removed only when due and never back.
THEOREM ImplementsContract == Spec => KeepsContract
<1>1. Init => Contract!Init
  BY ContractInit
<1>2. IInv /\ [Next]_vars => [Contract!Next]_(Contract!vars)
  BY ContractStep DEF ContractNext
<1>3. QED
  BY <1>1, <1>2, Invariance, PTL DEF Spec, KeepsContract, Contract!Spec
=============================================================================
