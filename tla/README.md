# A TLA+ verification of the Grome backend

Grome is a NestJS server for booking barbers: MongoDB through Mongoose, Bull
queues in Redis, Stripe for payments, Socket.IO for chat. Paths below are
relative to the repository's `src/` directory, so the code is in `src/src/`.

## Inventory

| Component | State | Operations | Interacts with | What is hard, and what makes it correct | Module |
| --- | --- | --- | --- | --- | --- |
| bookings (`modules/bookings`) | `bookings` documents: status, payment, `seatReserved`, `paymentExpiresAt`, `startedAt` | create, update (PUT), cancel, accept, start, complete; availability, lists | payments (intent), jobs (expiry) | every handler loads, awaits and saves; a status decided on a stale copy; one slot for one customer; a loop over the slots of a day | `BookingLifecycle`, `BookingSlots`, `PagedLists` |
| payments (`modules/payments`) | none of its own: writes the booking and `stripeCustomerId` | create the intent, webhook success and failure, cron that deletes unpaid bookings | Stripe, bookings, users | events late, twice, in any order; delete after check; money and status agree; two customers for one user | `BookingLifecycle`, `Standing` |
| jobs (`jobs`) | four Bull queues | expiry job, notices, cleanup, e-mail, payment, refund and payout jobs; pause, resume, clear, retry | bookings, notifications, Stripe | retries of what was done, lost or emptied queues, workers that die | `BookingLifecycle`, `BackgroundJobs`, `NotificationQueue` |
| notifications (`modules/notifications`) | `notifications` documents: status, retryCount, readAt | create, broadcast, process, retry, mark as read, delete | queue, Firebase, e-mail, SMS | stored but never enqueued; sent overwrites read; two workers with one notification | `NotificationQueue`, `PagedLists` |
| auth (`modules/auth`) | users, `refreshtokens`, password and reset token of the user, OTP | sign up, sign in, refresh, sign out, change and reset password, verify the phone | users, barbers | check-then-insert; two refreshes of a token; refresh against revoke-all; a sign-up that fails half-way | `Registration`, `Sessions`, `Standing` |
| chat service (`modules/chat/chat.service.ts`) | conversations with unread counters, messages | create, send, mark as read, archive, delete | blocks, gateway | check-then-create, counters against messages, block against send, delete against send | `Chat`, `PagedLists` |
| chat gateway (`chat.gateway.ts`) | sockets per user, typing users per conversation (in memory) | connect, disconnect, join, send, typing | chat service, users | awaits between check and update; several sockets of a user | `Presence`, `Chat` |
| blocks | block documents | block, unblock | chat | a block between a check and a message | `Chat` |
| barbers | barber documents, hours, services, rating | create, update, search | services, users | the list of services is written by three operations | `Registration`, `BookingSlots`, `Catalog`, `PagedLists` |
| services | catalog, services with prices of each barber | create, rename, deactivate; add, price, remove | barbers | titles checked, then saved; an index into a list that changed | `Catalog`, `PagedLists` |
| users | profile, verification, soft delete | update, submit papers, verify, delete, restore | auth | the verdict of an administrator on papers that changed meanwhile | `Standing`, `Registration`, `Sessions`, `PagedLists` |
| category | documents ordered by a number | list, CRUD | - | pages of a list that changes | `PagedLists` |
| banner, thread | single documents | CRUD | S3 | no shared state | - |
| dashboard | - | aggregations | all | reads only | - |
| s3Storage, firebase, Stripe client, e-mail | - | I/O | services outside | only as environment | - |
| admin, wallet, promo-codes, reports, search, media | - | empty modules | - | - | - |

The components share the database, but each module's variables are the fields and
documents that its operations write; where two components write the same document
(bookings and payments, users and payments, auth and barbers) they are in one
module. What is left between modules is named in each of them.

## How the modules are written

One variable holds the documents of a collection, one the calls in progress, each
with what it has still to do and what it has read. An action is what a handler does
between two awaits, with every write it makes there: `...Load` or `...Check`, then
`...Save`, `...Insert` or `...Write`. A request that is refused changes nothing and is
no step. `save()` of Mongoose writes the fields that differ from the loaded copy;
`findOneAndUpdate`, `updateMany` and `updateOne` are one step. A throw in the middle,
a crash, a lost reply is an action of its own, bounded in number (`MaxFaults`,
`MaxAborts`, `MaxFailures`, `MaxMishaps`, `MaxChatFaults`, `MaxUnsaid`).

A *history* field or variable records what the documents do not tell (that a second
call was under way, that a number was edited since). No guard reads one. Most
properties have the form "the good thing holds, except if exactly this race
happened": they are the strongest that the code keeps, and say which race breaks them.

Above an action there may be its *mutant*, the same action with a plausible slip. No
specification uses the mutants: put in the place of the action, each makes the
property it is listed with fail, so that no property holds for want of a case.

## What is modelled

### `BookingLifecycle`

The core of the system: how a booking lives from `POST /bookings` to its
completion, cancellation or deletion, and everything that writes its document:

- `createBooking` (bookings.service.ts 215-341) with the four writes it makes:
  `CreateInsert`, `CreateIntent` (`initializeBookingPayment`), `CreateAttach`,
  `CreateSchedule`, after `CreateCheck` with `checkBarberAvailability`
  (`Available`);
- `acceptBooking`, `startBooking`, `completeBooking`, `cancelBooking`: a `...Load`
  that checks the loaded document and a `...Save`; `updateBooking` (PUT):
  `UpdateLoad` and `UpdateWrite`, which checks nothing;
- the webhook (payments.controller.ts 44-108, payments.service.ts 86-140):
  `HookIgnore`, `HookLoad`, `HookSave`, `HookAbort`. `Paid` and `Failed` are the
  two edits of the document; `acked` remembers which events Stripe saw a 200 for;
- the expiry: the Bull job of the booking (`JobLoad`, `JobDelete`, `JobFail`),
  the queue operations of an administrator (`ClearQueue`, `RetryFailedJobs`; a
  paused queue is a job that takes no step), and the cron job (`SweepFind`,
  `SweepDelete`, `SweepFail`);
- faults: `Abort`, `HookAbort`, `JobFail`, `SweepFail` and the lost reply of
  `HookSave` stand for exceptions, crashes and lost replies between two awaits.

Two external systems are modelled from how the code uses them. *Mongoose*:
`save()` writes the fields that differ from what was loaded (`Saved`), and throws
when the document is gone (`Store`). *Stripe*: an intent can be paid with the
client secret for as long as it is open (the code never cancels one), a payment
may fail and be tried again (`Charge`, `Decline`), and events come in any order,
repeatedly. A job that `findByIdAndDelete`s is a write without a copy.

A request that fails a check throws before it writes, so it is no step. Rights
of the caller are not modelled: any client may ask for any operation, which
only adds behaviours. Reads that change nothing are left out, as are the fields no property
tells apart (services, notes, address). `paymentExpiresAt` is `overdue`:
time passes at any moment, and the delay of the job (as long as the window)
ends after it.

Constants that stand for facts of the deployment:

- `PutStatuses`: the statuses clients put in the body of PUT. The code accepts
  every one of them at any time (`$set` of the whole body), and so do the theorems.
  A status that closes the booking (`Closing`: `cancelled`, `no_show`) is a step like
  any other. Any other status of a PUT may say anything of a booking whatever Stripe
  and the barber did: the history `overruled` records the bookings it happened to, and
  `MoneyAgreesWithStripe`, `AckedPaymentIsRecorded`, `CompletedWasStarted` and
  `PendingIsResolved` except those bookings and no others. `KeptUntilDeadline` and
  `ChargeIsAcknowledged` except nothing.
- `Deliveries`: the deliveries of one event that may be handled side by side. Stripe sends
  an event again when it gets no answer in time, and the controller holds no lock, so
  each delivery has a handler (`hook`) of its own.
- `MaxHandlers`: a bound for TLC on the requests and deliveries that are handled at
  the same time. The theorems hold for any.
- `RawBody`: whether the webhook handler gets the body Stripe signed. In the
  repository it does not (it passes `req.body`, main.ts fills `req.rawBody`), so
  no event passes the verification and nothing after it ever runs. `FALSE` is the
  run `booking_parsed_body`; all other runs and the proofs look at the code
  behind that line, with `TRUE` (the theorems hold for both).
- `Overlap`: which pairs of bookings are of one barber and within 30 minutes.

### `BookingContract`

The abstract specification: what a booking promises, as a phase (`none`,
`awaiting`, `live`, `closed`, `gone`), a charge and a deadline. It is live only
when charged, never waits for payment again, and is removed only when its window
has closed and then for good. `BookingLifecycle` instantiates it with
`Phase` as refinement mapping; `KeepsContract` is its specification as a
property. The contract is deliberately weak where the code is: a closed
booking may come back to life, and a paid one may be removed. A PUT is a step of the
contract as well: `Overrule` puts a stored booking into any phase and marks it, and what
was overruled may `Drift`; of the others the contract keeps its promises.

### `BookingSlots`

One day of one barber. `getAvailability` is a request in steps, as the code awaits:
`AskHours` reads the barber (bookings.service.ts 1154-1179), `AskBookings` the bookings of
the day, `Scan` is one turn of the loop over the day; between them
`createBooking` (`CreateCheck`, `CreateInsert`), the other handlers (`SaveStatus`),
PUT (`UpdateBooking`, which moves a booking unchecked), the expiry (`DeleteBooking`)
and `updateBarber` (`UpdateHours`) change the day. `Available` is
`checkBarberAvailability` with its window of 30 minutes, both ends included;
`IsBooked` is the overlap test of the slots, both ends excluded. `IsSlot` is the
reference definition, by minutes.

### `Presence`

`ChatGateway`: `connectedUsers` is `connected`, `typingUsers` is `typing`. `Connect`,
`Disconnect` to its await of `updateLastSeen`, `SayOffline` or `LastSeenFails` after it, `TypingAsk` and `TypingStart` on the two sides of the access
check. `shown` is the last event that everybody got about a user, `room` the last
that the barbers got.

### `NotificationQueue`

`NotificationsService` and the queue `notifications`. A call stores documents and adds
their jobs (`Send`, `CreateNotification`, `Broadcast`, `Enqueue`); a worker takes a job,
delivers, saves (`ProcessLoad`, `Deliver`, `ProcessSave`); a failure is loaded,
counted and queued again (`FailureLoad`, `FailureSave`, `Requeue`); owners read and delete.
`Deliver` has three ends: the channel takes the notification, it skips it, or it throws. A push
is skipped without a word when the user has no token (notifications.service.ts 414-417) or
does not want pushes (419-424), or when Firebase was not initialised (firebase.service.ts 49-54);
`processNotification` saves it as sent all the same (367-369). `delivered` tells which it was.
An administrator pauses this queue like the others (`PauseNotifications`,
`ResumeNotifications`, `halted`): the workers then take no job and finish those they have.
The queue is registered without options by `NotificationsModule`, so Bull itself
tries nothing again; `RetryFailedJobs` and `ClearQueue` are the administrator's.
Faults: `SendAbort`, `ProcessSaveFails`, `FailureThrows`, `WorkerDies` (a stalled job
is queued again).

### `NotificationContract`

The abstract specification: what a notification promises its owner, as a phase (`none`,
`pending`, `sent`, `read`, `failed`, `gone`), an owner, a mark, and what happened to it
(`handed`, `skipped`, `missed`). It is one user's until that user deletes it, pends once, is
marked by its owner alone and for good, is sent only when its channel took or skipped it and
given up only after `MaxRetries` failures: "sent" does not mean that anybody got it. `NotificationQueue` instantiates it with `Phase`;
`KeepsNoteContract` is its specification as a property. Like the code, it lets a late
worker turn what was read into sent or failed, and allows a second delivery.

### `BackgroundJobs`

The other processors. A processor is a list of calls (`Script`) made one after the
other, with the calls of its catch (`Rescue`); an attempt that throws begins
again at the head of the list. `AddJob`, `JobDue`, `JobStart`, `CallSucceeds`, `CallThrows`,
`CallReplyLost`, `JobReturns`, `JobStalls`; administrators pause, resume, clear and retry.
`cleanup-expired-bookings` looks again for the bookings that are still requested
(`PlanOf`); the repository adds no such job itself, as `cleanupExpiredBookings`
(jobs.service.ts 182) has no caller, so `AddJob` stands for a caller outside. Refund notices are always refused: `payment_refund` is no
`NotificationType` (`Refused`).

### `Registration`, `Sessions`, `Standing`

Three views of an account, which write different fields of it. `Registration`:
`signUp`, `barberSignUp` (user, then profile, then code), `socialSignIn`,
`createBarber`, and `updateProfile`, which sets a phone number that nobody looked for.
`Sessions`: a chain of refresh tokens; `refreshToken` is `RefreshLoad`, `Rotate`,
`IssueToken`; a password change is a save and then `RevokeSessions`; activation.
`Standing`: `verifyPhone` (which compares no code: the call is commented out), the
papers of a barber and the administrator's verdict, the customer at Stripe
(`CustomerLoad`, `CustomerMake`, `CustomerAttach`), soft deletion. In `Standing` the reading
of the papers by an administrator (`ReviewLoad`) is a step although no code
remembers it: the update itself looks at nothing.

### `Chat`

Conversations, messages, blocks. `createConversation` looks (`Existing`) and inserts. The
aggregate it looks with joins the booking and unwinds it (chat.service.ts 1148-1156), so it
leaves out every conversation without a booking and every one whose booking has no
document: `known` are the bookings that have one, some never had, and `BookingGone` is the
deletion by the cron job or the expiry job. A second conversation about such a booking is
made without any race. Requests name customers and barbers that exist. `createMessage`
checks access and blocks, stores and counts in one transaction (`SendStore`), and tells
the sockets after the commit; `markMessagesAsRead` marks and then resets;
`deleteConversation` saves and then sweeps. As in the code, a barber is named by the id
of the profile in some places and of the user in others: `IsBlocked` gets one of each,
`toUserId` is a profile, and the unread counter that grows is the sender's. This last is
not what the repository says it is ("Update unread count for recipient", chat.service.ts 495,
in code that is commented out; `recipientField`, line 632): `CountsWhatItSent` states what the
counters of the code do count and is proved, but it is no promise to anybody, so no run lists
it, and nothing is claimed of unread messages.

### `Catalog`

Services and the lists of barbers, with the version (`__v`) that Mongoose compares: a
push increments it, a positional `$set` requires it, a save of the whole array
does both, `updateBarber` neither. The list of a request (`Bodies`) is any list of services:
neither the DTO nor `updateBarber` refuses one that names a service twice, and the history
`doubled` marks the entries of one that does. A profile that is created with services is
`UpdateBarberServices` on the empty list.

### `PagedLists`

Twelve lists with `$skip` and `$limit`, told apart by what orders them, whether
documents leave them, and how rows and total are read; a client who walks from page 1
to `totalPages` while the list changes. Orders among equal keys are any, and
another one in each query, as MongoDB has no tie-breaker here.

### The MC modules and the proof modules

`MCBookingLifecycle`, `MCMembers`, `MCDay` and `MCDelivery` give TLC the instances. The
last three hold several components that share no variable: `focus` chooses the one that
runs, so that a run explores the union, not the product, of their states.

`BookingLifecycle_proofs`, `Sessions_proofs`, `Chat_proofs`, `Catalog_proofs` and
`PagedLists_proofs` extend one component and TLAPS. `Day_proofs` (`BookingSlots`,
`Presence`), `Delivery_proofs` (`NotificationQueue`, `BackgroundJobs`) and `Members_proofs`
(`Registration`, `Standing`, and the other four by extending their proofs) extend the MC
module of their components, and end with the step from the parts to the whole.

## Runs

| Run | Expect | Question |
| --- | --- | --- |
| `booking_safety` | pass | do the invariants and the contract survive every interleaving of two requests, two deliveries of both webhook events, both expiry jobs, PUTs and a fault? |
| `booking_liveness` | pass | is a pending booking always resolved, and every charge acknowledged, with a fault, a PUT that sets it back to pending and a job that may never run? |
| `day` | pass | is what clients are shown of a day and of each other true, and does every request for the free slots end? |
| `delivery` | pass | does no status and no notice of a payment claim what did not happen, and does everything queued settle, with lost replies, dying workers and an administrator at the queues? |
| `members` | pass | accounts, sessions, verification, chat, catalog and lists under two concurrent calls: what survives, and which races alone break it? |
| `booking_deletes_paid` | violation | do the jobs only delete what is unpaid? |
| `booking_states` | violation | does the status follow the diagram of README.md:163-164? |
| `booking_charge_lost` | violation | is every charge confirmed? |
| `booking_parsed_body` | violation | is the webhook able to take note of a charge at all? |
| `booking_double` | violation | is a slot given to one customer only? |
| `jobs_money` | violation | does a payment job charge once? |
| `presence_devices` | violation | do barbers see a user as online while one of his devices is connected? |

### Properties

`booking_safety`, `booking_liveness`:

- `MoneyAgreesWithStripe`: confirmed or paid only if charged; failed or without
  seat only if Stripe reported a failure.
- `AckedPaymentIsRecorded`: after a 200 for a success, the booking does not wait
  for payment. It rests on the order of `createBooking` (the intent is saved
  before the secret is returned) and on saves that write only modified fields.
- `CompletedWasStarted`: survives stale `startBooking` and `completeBooking`.
- These three except the bookings that a PUT has `overruled`.
- `KeptUntilDeadline`: no deletion inside the payment window.
- `KeepsContract`: the refinement.
- `PendingIsResolved` (but for overruled bookings), `ChargeIsAcknowledged`: liveness.

`day`:

- `OffersExactlyTheFree`: the answer has exactly the slots of the reference definition,
  for the hours and bookings that were read.
- `StaleOnlyByChange`: a slot on a page that overlaps a booking of the day was taken
  by a change after the bookings were read.
- `ConfirmedApart`: two live bookings within 30 minutes, neither moved by PUT, exist
  only because the earlier was not live when the later was checked. This is what is left
  of "one slot, one customer" after `booking_double`.
- `ScanEnds`: the loop ends; it needs `@Min(15)` of the DTO.
- `ShownIsTrue`, `LeavingIsShown`, `TypistsAreConnected`: what is shown agrees with the
  open sockets but for the named awaits.

`delivery`:

- `StatusIsEarned`, `PendingIsQueued`, `PendingIsSettled`: what is marked as sent was taken
  or skipped by its channel, what is given up has failed often enough; a pending
  notification is in somebody's hand or its job was lost, and it is settled in the end
  unless its job was lost or failed or its queue is paused.
- `KeepsNoteContract`: the refinement. It implies `ReadMarkStays`: a worker with an old
  copy may set the status back to sent, but not `readAt`.
- `OutcomeIsEarned`, `NoticesAreTrue`, `JobsSettle`: a job that is done did all of its
  list, one that failed spent its attempts; nobody is told of a payment that was not
  taken; every job ends, is cleared, or its queue is paused. `NoticesAreTrue` is about
  the notices of success only: the "not paid" notice that the catch of `process-payment`
  sends after a charge whose notice threw is false, and no property forbids it (`jobs_money`
  shows the charge that is then repeated).

`members`:

- `SharedOnlyByRace`, `BarberHasProfile` (Registration); `OldSessionsEnd`, `TwinsOverlap`
  (Sessions); `VerdictSeen`, `CustomerKept` (Standing);
- `ToldAreTheSent`, `DeletedIsSwept`, `DuplicatesOnlyByRace`, `BlockStopsBarber` (Chat).
  `DuplicatesOnlyByRace` is about bookings that have a document. `BlockStopsBarber` is about the barber only, because the customer's message is
  checked against the id of the profile, which no block names;
- `TitlesDiffer`, `PricesFit`, `TwiceOnlyByRace` (Catalog; a service is listed twice by
  two additions that overlap, or by one request that names it twice); `PagesFitTogether` (PagedLists).

Each run has one type invariant (`TypeOK`, `DayTypeOK`, `DeliveryTypeOK`, `MembersTypeOK`), the
conjunction of those of its modules.

### Bounds, and why they are enough

*Bookings.* One booking is enough for all but `booking_double`: bookings share only
the slot check, the sweep and the queue operations, and the first of these is
the subject of that run. Two requests are needed for a request to save a stale
copy; the jobs and the sweep are always in addition to them. In the safety run each
event has two deliveries and at most two of the requests and deliveries are handled at the
same time (`MaxHandlers`), which is any two of them side by side: what breaks these
properties is one handler that saves what another has changed since its load. In the other
runs `MaxHandlers` never binds. Requests are interchangeable, and so are deliveries (`Symmetry`,
safety only). `PutStatuses` has one status that closes a booking and one that overrules it,
`completed` for safety and `pending_payment` for liveness. `MaxAttempts` is the 3 of
jobs.module.ts, and 1 in the liveness run so that its fault spends them and
`RetryFailedJobs` happens.

*Day.* Time is counted in half hours, so `Window` and `MinDuration` are 1 (the least duration
that is a multiple of the unit); three instants, a day of three units, bookings of two
units and slots of one or two make every overlap: inside, at the edge, across
the opening and closing time. Duration 0 is among the inputs: the DTO refuses it. Two bookings, used in the order of
their ids (`DayScope`). Presence has two users with two sockets, so that one comes back while
he is leaving, and one conversation.

*Delivery.* Two notifications (a call for push and then e-mail makes two), two workers,
one user with one profile, one fault, two retries. `DeliveryScope`: ids in order, and faults only
while there is one notification. One job of every kind but the three notices that have
the reminder's script (`MostKinds`); the attempts are those of the code, 3, and 5 for
payment and payout (`QueueAttempts`); one mishap, one retry. Administrators act on one queue, as queues share nothing.

*Members.* Two concurrent calls each (interchangeable: `MembersPerms`; the lists use them
as two of three documents), two accounts, conversations, messages and services, three tokens and
customers. `MembersScope` bounds what is followed, not what an action may do: ids are
used in order; `SesScope` has the third token without failures; `ChatScope` follows either several conversations
or the messages of one whose booking stays; `CatScope` either the services or the lists; `StdScope` calls of
one kind (those of two kinds write different fields); `PagScope` drops walks whose
property already has its excuse.

Deadlock is not checked where the ids are used up and every request is answered, or
where a job may be the last: there the system may stop.

### Fairness

The steps of a request that has begun, the deletions of a sweep, the
cron job and time are weakly fair, as an event loop, a timer and a clock that
go on; Stripe's delivery of an event that has not been answered with 200 is
weakly fair, as Stripe retries. In `BookingSlots` a request goes on (`AskBookings`, `Scan`);
in `Presence` a database that is asked answers or throws; in `NotificationQueue` a call
adds its jobs and workers go on; in `BackgroundJobs` delays pass and workers go on.
Clients, payers, administrators and the booking's expiry
job are not fair: the job's queue can be paused or emptied, and nobody has to ask. Where a
queue is paused and not resumed its jobs wait: `PendingIsSettled` and `JobsSettle` except it. With a bounded number of
faults the retries get through. `members` checks no liveness.

## Findings

The violation runs are disagreements of the code with the repository's own
documents and comments, quoted in PROJECT.json: the sweep and the job delete a
booking paid between their check and their delete; a stale save leaves the state
diagram (cancelled back to requested); a declined attempt before or after the
successful one ends in `payment_failed` with the customer charged; the webhook
verifies the parsed body; two pending bookings of one slot are both confirmed; a
payment job whose notification fails is tried again and charges again
("Idempotency Keys for duplicate prevention", README.md:187); closing one of two sockets tells the
barbers that the user is offline ("Support multiple devices", chat.gateway.ts:83).

Disagreements that have no run of their own: ARCHITECTURE.md:40-41 calls `email` and `phone`
unique, while the schema has no such index (`SharedOnlyByRace` says when two accounts share
one); the unread counters count for the sender (`CountsWhatItSent`); PUT writes any status,
whatever the diagram of the README allows (`overruled`); a skipped push is saved as sent.

## Proofs

For every value of the constants: any sets of bookings, calls, workers, sockets,
tokens, any numbers of faults. The assumptions are those named in each module
(`ConstantsOK`, `SessionsConstants`, ...): sets are disjoint, bounds are numbers. None restricts
what clients send.

| Module | Theorem | Property | Inductive invariant |
| --- | --- | --- | --- |
| `BookingLifecycle_proofs` | `TypeCorrect` | `TypeOK` | itself |
| | `KeptUntilDue` | `KeptUntilDeadline` | `TypeOK`, `CreateInv`, `ExpiryInv` |
| | `MoneySafe` | `MoneyAgreesWithStripe` | `IInv` |
| | `AcknowledgedIsRecorded` | `AckedPaymentIsRecorded` | `IInv` |
| | `CompletedStarted` | `CompletedWasStarted` | `IInv` |
| | `ImplementsContract` | `KeepsContract` | `IInv` |
| `Day_proofs` | `SlotsTypeCorrect` | `TypeOK` | itself |
| | `LiveBookingsAreApart` | `ConfirmedApart` | `ApartInv` |
| | `StaleSlotsWereTakenLater` | `StaleOnlyByChange` | `PagesInv` |
| | `AnswersAreExact` | `OffersExactlyTheFree` | `ExactInv` |
| | `PresenceTypeCorrect` | `PresTypeOK` | `PresInv` |
| | `ShownAgreesWithSockets` | `ShownIsTrue` | `PresInv` |
| | `TypingNeedsASocket` | `TypistsAreConnected` | `PresInv` |
| | `DayIsBoth`, `DayTypeCorrect` | `DayTypeOK` | those of the parts |
| `Delivery_proofs` | `NotesTypeCorrect` | `TypeOK` | `NotesInv` |
| | `ReadMarksStay` | `ReadMarkStays` | `ReadInv` |
| | `StatusesAreEarned` | `StatusIsEarned` | `EarnedInv` |
| | `PendingIsInHand` | `PendingIsQueued` | `QueuedInv` |
| | `ImplementsNoteContract` | `KeepsNoteContract` | `EarnedInv`, `QueuedInv`, `UnreadBefore` |
| | `JobsTypeCorrect` | `JobsTypeOK` | `JobsInv` |
| | `OutcomesAreEarned` | `OutcomeIsEarned` | `JobsInv` |
| | `AnnouncedIsTrue` | `NoticesAreTrue` | `JobsInv` |
| | `DeliveryIsBoth`, `DeliveryTypeCorrect` | `DeliveryTypeOK` | those of the parts |
| `Sessions_proofs` | `SessionsTypeCorrect` | `SesTypeOK` | itself |
| | `OldSessionsAreEnded` | `OldSessionsEnd` | `AgeInv` |
| | `TokensAreReplacedOnce` | `TwinsOverlap` | `TwinInv` |
| `Chat_proofs` | `ChatTypeCorrect` | `ChatTypeOK` | itself |
| | `CommittedAreTold` | `ToldAreTheSent` | with `ChatTypeOK` |
| | `DeletedAreSwept` | `DeletedIsSwept` | with `ChatTypeOK` |
| | `TwinsRaced` | `DuplicatesOnlyByRace` | `DuplicateInv` |
| | `BlocksStopBarbers` | `BlockStopsBarber` | `BlockInv` |
| | `CountsAreOfTheSent` | `CountsWhatItSent` (in no run) | `CountInv` |
| `Catalog_proofs` | `CatTypeCorrect` | `CatTypeOK` | `CatTyped` |
| | `ActiveTitlesDiffer` | `TitlesDiffer` | `TitleInv` |
| | `PricesStayWithServices` | `PricesFit` | `ListInv` |
| | `ListedTwiceOnlyByRace` | `TwiceOnlyByRace` | `ListInv` |
| `PagedLists_proofs` | `PagesTypeCorrect` | `PagTypeOK` | `PagInv` |
| | `WalksFindEverything` | `PagesFitTogether` | `PagInv` |
| `Members_proofs` | `AccountsTypeCorrect` | `RegTypeOK` | `MadeInv` |
| | `SharedAddressesRaced` | `SharedOnlyByRace` | `ApartInv` |
| | `BarbersHaveProfiles` | `BarberHasProfile` | `ProfileInv` |
| | `StandingTypeCorrect` | `StdTypeOK` | itself |
| | `VerdictsAreSeen` | `VerdictSeen` | with `StdTypeOK` |
| | `CustomersAreKept` | `CustomerKept` | `KeptInv` |
| | `MembersAreAll`, `MembersTypeCorrect` | `MembersTypeOK` | those of the parts |

Most properties are not inductive: they depend on copies that handlers hold. What the
strengthenings say:

*Bookings.* `IInv` adds

- `CreateInv`: one request creates a booking; until it has saved the intent, nobody
  holds the client secret (so that no payment can arrive), and its copy is still
  the document it inserted (so that its late save writes only the intent);
- `EventInv`: events and webhook calls exist only for intents handed out, and a
  success being handled has loaded a pending booking (so that its save does
  change the status);
- `MoneyInv`: a barber who is about to save has loaded a paid booking;
- `StartInv`: a copy with a `startedAt` is of a document that has one;
- `ExpiryInv`: what a job is about to delete is out of time.

The argument is the same for each part: `StoreFields` says what a save does to each
field, `FinishFrame`, `WebhookFrame` and `ExpiryFrame` what a group of handlers
leaves alone, `FinishEffect` and `WebhookEffect` what it changes, and one `...Step`
lemma per part goes through the actions. The refinement needs `IInv` (a booking
becomes live only with a charge) and maps every step to one step of the
contract or a stutter (`ContractStep`).

*Slots.* `ApartInv` says the property of every pair of bookings that were checked, live or
not: `CheckStep` shows that a booking that passes the check has seen every live one
nearby, and a booking becomes live again only after it was counted as unseen. `PagesInv`
carries a page from the reading of the bookings to the answer: no slot of it overlaps a
booking that was read (`CommonMinute` links the test of the loop to minutes), and every booking that
was not read so has been changed since. `ExactInv` is the invariant of the loop: the slots
found are those of `IsSlot` before the place it has reached (`SoFar`), which is on the grid
of the duration; bookings have a length (`HasLength`), so that the test of two edges is the
same as the one of every minute.

*Presence.* `MapIsTrue` (the map has exactly the open sockets) and `LeavingIsOver` (a socket
whose handler waits is closed, and a user who is connected and leaving has crossed).

*Notifications.* `EarnedSoFar`: what is about to be saved as sent has passed its channel, and the
retries counted in documents and copies are failures that happened. `PendingCopies`: the
copy of a pending notification is pending, so that a save changes its status. `UnreadBefore`:
what is not stored has no mark. The lemmas name the outcome of a step (`Kept`, `Counted`,
`PlainOutcome`, `CallEffect`, `OwnerEffect`), and the invariants are proved from the
outcomes. So is the refinement of the contract: `StatusSteps`, `ArriveSteps`, `ReadSteps` and
`DiscardSteps` turn an outcome into a step of the contract, and `NoteContractStep` goes
through the actions. It needs `EarnedSoFar`, for a contract that lets a notification be sent
only when handed over or skipped, and `PendingCopies`, for a worker that has one which was stored.

*Jobs.* What happens to a job depends on that job and on how often its calls took effect,
so the invariant is one of a job `t` and of these numbers `m` (`Good`): what was never tried
did nothing; every call of an attempt in progress is made or still before it
(`CallsAreInHand`); a payment announces only a charge of the same attempt
(`ChargeComesFirst`); a cleanup is about to cancel each booking once, and only what it
has not cancelled (`CancelsAreNew`). The plans of the kinds are enumerated (`Scripts`).

*Sessions.* `SealedByPasswords` and `LateCalls`: a call that will make a session of an older password is
known to be late. `RevokedFirst`: a token is revoked before another takes its place.
`TwinCalls`: of two calls with the same token the first to revoke has marked the other.

*Registration.* `InsertsNew`: a call that is about to insert has no account yet.
`DraftsAreChecked`: what it is about to insert shares an address with an account only if
that was stored since its check; `edited` excepts the numbers that `updateProfile` sets
without a check.

*Standing.* `OneCustomer`: of two calls that make a customer for one user at the same
time the later has marked the user, and an unmarked user who is being given a customer
has none yet, so that no save overwrites another.

*Chat.* `DraftsAreNew`: a conversation about to be inserted has a twin only if that was
stored since its check, or its booking is gone (`Forgets`: a booking that goes only excuses more). `SendersAreFree`: a message of a barber about to be stored meets a block only
if that was made since its check. `CountInv`: the counter of a role is the number of its
messages it has not marked since (`CountsAreFresh`), in finitely many documents
(`StoreIsFinite`: a collection grows by one document at a step, so nothing is assumed of the sets
of ids). The sum of `getUnreadCount` follows from the counters. Here `ChatConstants` says
that the id of a barber profile is not the id of a user, as ObjectIds of two documents differ.

*Catalog.* `ChecksSee`: a title about to be written is the title of another active service only if
that got it since the check. `ListInv`: a copy with the version of its document has the same
services in the same places (`CopiesAgree`), so that a write at an index of the copy hits
the service it was computed for; what is about to be added is not listed, or
the call was overtaken (`AdditionsAreNew`).

*Lists.* `StillToCome` and `AlreadyShown`: a document that stayed in the list and was not shown
is on a later page, one that was shown on an earlier, as long as no other crossed the
boundary; places are sizes of sets of documents (`Ahead`), compared by inclusion.

In these modules each handler first has a lemma that says what it does to the fields
the invariants mention (`InsertEffect`, `WriteSteps`, `MakeEffect`, `StoreEffect`, ...); the
invariants are proved from those.

*The whole.* `MembersAreAll`, `DayIsBoth` and `DeliveryIsBoth` show that the specification TLC
runs implies that of each component, so that what is proved of a component holds of every
behaviour the run explores, without the bounds of its scope.

Three facts are inductions over data, which the provers cannot be given as such. They are
proved by the least counterexample instead (`WFMin` of the library): the element that
`IndexOf` finds (`FirstIndex`), the newest of a finite set (`NewestIsGreatest`), and the
fold of `getUnreadCount` (`AddedUpIsFresh`).

Every safety invariant and both refinements of the passing runs are proved. Only
model-checked is liveness (`PendingIsResolved`, `ChargeIsAcknowledged`, `ScanEnds`,
`LeavingIsShown`, `PendingIsSettled`, `JobsSettle`): it rests on fairness, and ENABLED is out
of the prover's reach. The runs check on their instances what the theorems prove: their
mutants show that the properties can fail.

## Not modelled

- Reads that change nothing: the dashboard, single documents, the order in which top
  barbers are ranked. The paged lists are modelled because their pages belong together.
- `s3Storage`, Firebase, the mail templates: I/O without state here.
- `banner` and `category` documents and `thread` (one insert; the rest is commented out): single-document
  CRUD. The steps of a category list between two of its pages are in `PagedLists`.
- `admin`, `wallet`, `promo-codes`, `reports`, `search`, `media`: empty modules.
- Code without a caller: `markMessageAsRead`, `updateBarberRating`, `checkSlotAvailability`.
- Single `$set` of a field nobody else reads: `updatePreferences`, `updateFcmToken`, `updateBarberStatus`.
- `send-bulk-notifications`, a loop over the same `processNotification`.
- The codes of the phone verification, the expiry of refresh tokens (it only ends sessions), the
  other fields that `updateBarberService` saves in the service document.
- `join_conversation` joins a room; the `markMessagesAsRead` it calls gets an id where a user
  is expected, and returns.
- Rights of callers, except where a check decides between states (`deleteConversation`,
  `deleteMessage`, blocks). Allowing any caller only adds behaviours.
- Refunds on cancellation: a TODO in the code, so there is nothing to model.
