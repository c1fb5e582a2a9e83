---------------------------- MODULE BookingSlots ----------------------------
(***************************************************************************)
(* One day of one barber: the opening hours, the bookings of the day, the  *)
(* slots that GET /bookings/availability offers, the check that POST       *)
(* /bookings makes, and PUT /bookings/:id, which moves a booking without   *)
(* any check.  Time is counted in a unit of the instance.                  *)
(*                                                                         *)
(* What the other handlers do to a booking is BookingLifecycle; here they  *)
(* only store a status.                                                    *)
(***************************************************************************)
EXTENDS Naturals, FiniteSets

CONSTANTS
  Bookings,     \* the booking ids of the day
  Clients,      \* those who ask for the free slots
  Instants,     \* the values of scheduledAt
  Lengths,      \* the values of the summed duration of a booking's services
  Durations,    \* the values of the query parameter duration
  MinDuration,  \* 15 minutes, the least duration the DTOs accept
  Window,       \* 30 minutes
  Hours,        \* the opening hours that a barber sets for the day
  PutStatuses,  \* the statuses clients send in the body of PUT /bookings/:id
  SavedStatuses \* the statuses the other handlers and the webhook save

VARIABLES
  hours,    \* barber.availability of the day
  booking,  \* booking[b]: where createBooking is with b, and the document
  page,     \* page[c]: the availability request of client c, and its answer
  moved,    \* moved[b]: PUT has changed scheduledAt of b
  unseen,   \* unseen[b]: the earlier bookings that were not live when b was checked
  changed   \* changed[c]: the bookings changed since page[c] read the bookings

history == <<moved, unseen, changed>>
vars == <<hours, booking, page, history>>

-----------------------------------------------------------------------------
(* Documents *)

Status == {"pending_payment", "requested", "accepted", "in_progress",
           "completed", "cancelled", "no_show", "payment_failed"}

\* Mutant of Blocking: a booking that was accepted does not block.
BlockingNew == {"requested", "in_progress"}

\* The statuses that checkBarberAvailability looks for.
Blocking == {"requested", "accepted", "in_progress"}

\* availability[dayOfWeek] of a barber: the breaks are stored and never read.
DayHours == [isAvailable : BOOLEAN, start : Nat, end : Nat]

BookingDoc == [life : {"none", "checked", "stored"}, at : Nat, len : Nat,
               status : Status]
NoDoc == [life |-> "none", at |-> 0, len |-> 0, status |-> "pending_payment"]

Stored == {b \in Bookings : booking[b].life = "stored"}
Blocks(b) == b \in Stored /\ booking[b].status \in Blocking

\* For the properties: b is confirmed and not over.
Live(b) == b \in Stored /\ booking[b].status \in {"requested", "accepted", "in_progress"}

\* The sum of the durations of the services: at least one, of 15 minutes or more.
ServiceLengths == {n \in Lengths : n >= MinDuration}

\* Mutant of SlotDurations: @Min(15) is missing.
AnyDuration == Durations

SlotDurations == {d \in Durations : d >= MinDuration}

-----------------------------------------------------------------------------
(* The availability request: what it loads, and the loop over the day *)

\* Mutant of Occupied: only bookings that block a creation count.
OccupiedBlocking(h) ==
  {[id |-> b, at |-> booking[b].at, len |-> booking[b].len] :
     b \in {c \in Stored : /\ booking[c].status \in Blocking
                           /\ h.start <= booking[c].at /\ booking[c].at <= h.end}}

\* The bookings of the day that are not cancelled and begin within the hours.
Occupied(h) ==
  {[id |-> b, at |-> booking[b].at, len |-> booking[b].len] :
     b \in {c \in Stored : /\ booking[c].status # "cancelled"
                           /\ h.start <= booking[c].at /\ booking[c].at <= h.end}}

OccupiedDoc == [id : Bookings, at : Nat, len : Nat]

\* Mutant of IsBooked: only the beginning of the slot is looked at.
IsBookedStart(t, d, taken) == \E o \in taken : t >= o.at /\ t < o.at + o.len

\* slotStart.isBefore(b.end) && slotEnd.isAfter(b.start)
IsBooked(t, d, taken) == \E o \in taken : t < o.at + o.len /\ t + d > o.at

PageOps == {"idle", "barber", "scan", "shown"}
NoHours == [isAvailable |-> FALSE, start |-> 0, end |-> 0]
NoPage == [op |-> "idle", duration |-> 0, hours |-> NoHours, taken |-> {},
           current |-> 0, slots |-> {}]
Page == [op : PageOps, duration : Nat, hours : DayHours, taken : SUBSET OccupiedDoc,
         current : Nat, slots : SUBSET Nat]

ASSUME ConstantsOK ==
  /\ Instants \subseteq Nat
  /\ Lengths \subseteq Nat
  /\ Durations \subseteq Nat
  /\ MinDuration \in Nat \ {0}
  /\ Window \in Nat
  /\ Hours \subseteq DayHours
  /\ PutStatuses \subseteq Status
  /\ SavedStatuses \subseteq Status

Init ==
  /\ hours \in Hours
  /\ booking = [b \in Bookings |-> NoDoc]
  /\ page = [c \in Clients |-> NoPage]
  /\ moved = [b \in Bookings |-> FALSE]
  /\ unseen = [b \in Bookings |-> {}]
  /\ changed = [c \in Clients |-> {}]

\* A client asks, and the barber's hours are read; a closed day has no slots.
AskHours(c, d) ==
  /\ page[c].op \in {"idle", "shown"}
  /\ page' = [page EXCEPT ![c] =
                [NoPage EXCEPT !.op = IF hours.isAvailable THEN "barber" ELSE "shown",
                               !.duration = d, !.hours = hours]]
  /\ changed' = [changed EXCEPT ![c] = {}]
  /\ UNCHANGED <<hours, booking, moved, unseen>>

\* The bookings of the day are read; the loop begins at the opening time.
AskBookings(c) ==
  /\ page[c].op = "barber"
  /\ page' = [page EXCEPT ![c].op = "scan",
                          ![c].taken = Occupied(page[c].hours),
                          ![c].current = page[c].hours.start]
  /\ changed' = [changed EXCEPT ![c] = {}]
  /\ UNCHANGED <<hours, booking, moved, unseen>>

\* One turn of the loop, or its end.
Scan(c) ==
  LET p == page[c]
      fits == p.current + p.duration <= p.hours.end
      free == ~ IsBooked(p.current, p.duration, p.taken)
  IN  /\ p.op = "scan"
      /\ page' = IF fits
                 THEN [page EXCEPT
                        ![c].slots = IF free THEN p.slots \cup {p.current} ELSE p.slots,
                        ![c].current = p.current + p.duration]
                 ELSE [page EXCEPT ![c].op = "shown"]
      /\ UNCHANGED <<hours, booking, history>>

-----------------------------------------------------------------------------
(* Writers of bookings and hours *)

\* $gte 30 minutes before and $lte 30 minutes after.
Near(s, t) == s <= t + Window /\ t <= s + Window

\* checkBarberAvailability
Available(t) == \A b \in Bookings : Blocks(b) => ~ Near(booking[b].at, t)

\* Mutant of CreateCheck: the status is one of a payment.
CreateCheckPending(b, t, n) ==
  /\ booking[b].life = "none"
  /\ Available(t)
  /\ booking' = [booking EXCEPT ![b] = [life |-> "checked", at |-> t, len |-> n,
                                        status |-> "pending"]]
  /\ unseen' = [unseen EXCEPT ![b] = {c \in Bookings : booking[c].life # "none" /\ ~ Live(c)}]
  /\ UNCHANGED <<hours, page, moved, changed>>

\* createBooking has checked the barber, the customer, the slot, the services.
CreateCheck(b, t, n) ==
  /\ booking[b].life = "none"
  /\ Available(t)
  /\ booking' = [booking EXCEPT ![b] = [life |-> "checked", at |-> t, len |-> n,
                                        status |-> "pending_payment"]]
  /\ unseen' = [unseen EXCEPT ![b] = {c \in Bookings : booking[c].life # "none" /\ ~ Live(c)}]
  /\ UNCHANGED <<hours, page, moved, changed>>

\* Every client that has read the bookings has read an older b.
Touch(b) ==
  changed' = [c \in Clients |-> IF page[c].op \in {"scan", "shown"}
                                THEN changed[c] \cup {b} ELSE changed[c]]

\* The document is inserted.
CreateInsert(b) ==
  /\ booking[b].life = "checked"
  /\ booking' = [booking EXCEPT ![b].life = "stored"]
  /\ Touch(b)
  /\ UNCHANGED <<hours, page, moved, unseen>>

\* The webhook and the barber's and the customer's operations store a status.
SaveStatus(b, s) ==
  /\ b \in Stored
  /\ booking' = [booking EXCEPT ![b].status = s]
  /\ Touch(b)
  /\ UNCHANGED <<hours, page, moved, unseen>>

\* updateBooking: $set of a body with a status, a scheduledAt, or both.
UpdateBooking(b, s, t) ==
  /\ b \in Stored
  /\ booking' = [booking EXCEPT ![b].status = s, ![b].at = t]
  /\ moved' = [moved EXCEPT ![b] = @ \/ t # booking[b].at]
  /\ Touch(b)
  /\ UNCHANGED <<hours, page, unseen>>

\* The expiry jobs delete a booking that was not paid in time.
DeleteBooking(b) ==
  /\ b \in Stored
  /\ booking' = [booking EXCEPT ![b] = NoDoc]
  /\ moved' = [moved EXCEPT ![b] = FALSE]
  /\ unseen' = [c \in Bookings |-> IF c = b THEN {} ELSE unseen[c] \ {b}]
  /\ Touch(b)
  /\ UNCHANGED <<hours, page>>

\* updateBarber: the barber sets other hours for the day.
UpdateHours(h) ==
  /\ hours' = h
  /\ UNCHANGED <<booking, page, history>>

Bodies(b) == {[status |-> s, at |-> t] : s \in PutStatuses \cup {booking[b].status},
                                         t \in Instants \cup {booking[b].at}}

Next ==
  \/ \E c \in Clients :
       \/ \E d \in SlotDurations : AskHours(c, d)
       \/ AskBookings(c)
       \/ Scan(c)
  \/ \E b \in Bookings :
       \/ \E t \in Instants, n \in ServiceLengths : CreateCheck(b, t, n)
       \/ CreateInsert(b)
       \/ \E s \in SavedStatuses : SaveStatus(b, s)
       \/ \E body \in Bodies(b) : UpdateBooking(b, body.status, body.at)
       \/ DeleteBooking(b)
  \/ \E h \in Hours : UpdateHours(h)

\* A request that has begun goes on; nobody has to ask.
Fairness == \A c \in Clients : WF_vars(AskBookings(c)) /\ WF_vars(Scan(c))

Spec == Init /\ [][Next]_vars /\ Fairness

-----------------------------------------------------------------------------
(* Properties *)

\* Type invariant: documents, pages and histories have their types.
TypeOK ==
  /\ hours \in DayHours
  /\ booking \in [Bookings -> BookingDoc]
  /\ page \in [Clients -> Page]
  /\ moved \in [Bookings -> BOOLEAN]
  /\ unseen \in [Bookings -> SUBSET Bookings]
  /\ changed \in [Clients -> SUBSET Bookings]

\* What a slot is: it begins a whole number of slots after the opening, ends by
\* closing time, and no minute of it is a minute of a booking of the day.
Minutes(t, n) == t .. (t + n - 1)
OnGrid(p, t) == t >= p.hours.start /\ (t - p.hours.start) % p.duration = 0
IsFree(p, t) == \A o \in p.taken : Minutes(t, p.duration) \cap Minutes(o.at, o.len) = {}
IsSlot(p, t) == OnGrid(p, t) /\ t + p.duration <= p.hours.end /\ IsFree(p, t)

\* The answer of getAvailability has exactly the slots that are free, by the
\* hours and the bookings it has read: none is missing and none overlaps.
OffersExactlyTheFree ==
  \A c \in Clients :
    LET p == page[c]
    IN  p.op = "shown" /\ p.hours.isAvailable
          => p.slots = {t \in 0 .. p.hours.end : IsSlot(p, t)}

\* A slot on a client's page that now overlaps a booking of the day was free when
\* the bookings were read: only a later change can have taken it.  Bookings that
\* begin before the opening time are not looked for.
StaleOnlyByChange ==
  \A c \in Clients, b \in Stored :
    LET p == page[c]
        d == booking[b]
    IN  /\ p.op = "shown" /\ d.status # "cancelled"
        /\ p.hours.start <= d.at /\ d.at <= p.hours.end
        /\ \E t \in p.slots : Minutes(t, p.duration) \cap Minutes(d.at, d.len) # {}
        => b \in changed[c]

\* Two live bookings within 30 minutes of each other, neither moved by PUT, passed
\* the check of createBooking only because the earlier was not live when the later
\* was checked: it was still to be inserted or paid, or it came back to life since.
ConfirmedApart ==
  \A b, c \in Bookings :
    /\ b # c /\ Live(b) /\ Live(c)
    /\ Near(booking[b].at, booking[c].at)
    => moved[b] \/ moved[c] \/ b \in unseen[c] \/ c \in unseen[b]

\* Every request for the free slots is answered: the loop over the day ends,
\* because the DTO refuses a duration below 15 minutes.
ScanEnds == \A c \in Clients : page[c].op = "scan" ~> page[c].op = "shown"
=============================================================================
