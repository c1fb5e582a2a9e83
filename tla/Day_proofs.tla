------------------------------ MODULE Day_proofs ------------------------------
(***************************************************************************)
(* Proofs about BookingSlots, for any bookings, clients, hours, lengths    *)
(* and durations, about Presence, for any devices, members and rooms, and  *)
(* about the two together.                                                 *)
(***************************************************************************)
EXTENDS MCDay, Integers, TLAPS

-----------------------------------------------------------------------------
(* Types *)

\* A slot that is read is one of the day.
LEMMA OccupiedType ==
  ASSUME TypeOK, NEW h \in DayHours
  PROVE  Occupied(h) \in SUBSET OccupiedDoc
BY DEF TypeOK, Occupied, OccupiedDoc, Stored, BookingDoc

\* A booking that a handler stores is a booking.
LEMMA BookingType ==
  ASSUME TypeOK, NEW b \in Bookings
  PROVE  /\ \A t \in Nat : \A n \in Nat :
              [life |-> "checked", at |-> t, len |-> n, status |-> "pending_payment"] \in BookingDoc
         /\ [booking[b] EXCEPT !.life = "stored"] \in BookingDoc
         /\ \A s \in Status : [booking[b] EXCEPT !.status = s] \in BookingDoc
         /\ \A s \in Status : \A t \in Nat :
              [booking[b] EXCEPT !.status = s, !.at = t] \in BookingDoc
         /\ NoDoc \in BookingDoc
<1>1. booking[b] \in BookingDoc
  BY DEF TypeOK
<1>2. QED
  BY <1>1 DEF BookingDoc, NoDoc, Status

\* The page of a client who has not asked.
LEMMA NoPageType == NoPage \in Page /\ NoPage.op = "idle" /\ NoPage.slots = {}
<1>1. NoHours \in DayHours
  BY DEF NoHours, DayHours
<1>2. QED
  BY <1>1 DEF NoPage, Page, PageOps

\* A request that begins, and one that has read the bookings.
AskPage(op, d, h) == [NoPage EXCEPT !.op = op, !.duration = d, !.hours = h]
ReadPage(p, taken, t) == [p EXCEPT !.op = "scan", !.taken = taken, !.current = t]

\* They are pages, and the first has no slot.
LEMMA AskType ==
  ASSUME NEW op \in PageOps, NEW d \in Nat, NEW h \in DayHours
  PROVE  /\ AskPage(op, d, h) \in Page
         /\ AskPage(op, d, h).op = op /\ AskPage(op, d, h).duration = d
         /\ AskPage(op, d, h).hours = h /\ AskPage(op, d, h).slots = NoPage.slots
BY NoPageType DEF Page, AskPage

\* So is one whose bookings have been read.
LEMMA ReadType ==
  ASSUME NEW p \in Page, NEW taken \in SUBSET OccupiedDoc, NEW t \in Nat
  PROVE  /\ ReadPage(p, taken, t) \in Page
         /\ ReadPage(p, taken, t).op = "scan"
         /\ ReadPage(p, taken, t).duration = p.duration
         /\ ReadPage(p, taken, t).hours = p.hours
         /\ ReadPage(p, taken, t).taken = taken /\ ReadPage(p, taken, t).slots = p.slots
         /\ ReadPage(p, taken, t).current = t
BY DEF Page, PageOps, ReadPage

\* So is one after a turn of the loop, and one that is answered.
LEMMA TurnType ==
  ASSUME NEW p \in Page
  PROVE  \A slots \in SUBSET Nat : \A t \in Nat :
           LET q == [p EXCEPT !.slots = slots, !.current = t]
           IN  /\ q \in Page /\ q.op = p.op /\ q.duration = p.duration
               /\ q.hours = p.hours /\ q.taken = p.taken /\ q.slots = slots
               /\ q.current = t
BY DEF Page

\* The page that is shown keeps its slots.
LEMMA ShownType ==
  ASSUME NEW p \in Page
  PROVE  LET q == [p EXCEPT !.op = "shown"]
         IN  /\ q \in Page /\ q.op = "shown" /\ q.duration = p.duration
             /\ q.hours = p.hours /\ q.taken = p.taken /\ q.slots = p.slots
BY DEF Page, PageOps

-----------------------------------------------------------------------------
(* What the steps do *)

\* Only the page of c changes.
OnlyPage(c) ==
  /\ page' \in [Clients -> Page]
  /\ \A e \in Clients : e # c => page'[e] = page[e]

\* A request begins with no slot; on a closed day it is over.
LEMMA AskEffect ==
  ASSUME TypeOK, NEW c \in Clients, NEW d \in SlotDurations, AskHours(c, d)
  PROVE  /\ OnlyPage(c)
         /\ page'[c].op = (IF hours.isAvailable THEN "barber" ELSE "shown")
         /\ page'[c].hours = hours /\ page'[c].slots = {} /\ page'[c].duration = d
<1> DEFINE op == IF hours.isAvailable THEN "barber" ELSE "shown"
           q == AskPage(op, d, hours)
<1>1. op \in PageOps /\ d \in Nat /\ hours \in DayHours
  BY ConstantsOK DEF PageOps, SlotDurations, TypeOK
<1>2. q \in Page /\ q.op = op /\ q.hours = hours /\ q.slots = {} /\ q.duration = d
  <2> HIDE DEF op
  <2>1. QED
    BY <1>1, AskType, NoPageType
<1>3. page' = [page EXCEPT ![c] = q]
  BY DEF AskHours, AskPage
<1> HIDE DEF q
<1>4. page' \in [Clients -> Page] /\ page'[c] = q
      /\ \A e \in Clients : e # c => page'[e] = page[e]
  BY <1>2, <1>3 DEF TypeOK
<1>5. QED
  BY <1>2, <1>4 DEF OnlyPage

\* The bookings of the day are read.
LEMMA ReadEffect ==
  ASSUME TypeOK, NEW c \in Clients, AskBookings(c)
  PROVE  /\ OnlyPage(c)
         /\ page[c].op = "barber" /\ page'[c].op = "scan"
         /\ page'[c].hours = page[c].hours /\ page'[c].slots = page[c].slots
         /\ page'[c].taken = Occupied(page[c].hours)
         /\ page'[c].duration = page[c].duration
         /\ page'[c].current = page[c].hours.start
<1> DEFINE p == page[c]
           taken == Occupied(p.hours)
           q == ReadPage(p, taken, p.hours.start)
<1>1. p \in Page /\ p.hours \in DayHours /\ p.hours.start \in Nat
  BY DEF TypeOK, Page, DayHours
<1>2. taken \in SUBSET OccupiedDoc
  BY <1>1, OccupiedType
<1>3. page[c].op = "barber" /\ page' = [page EXCEPT ![c] = q]
  <2>1. page' = [page EXCEPT ![c].op = "scan", ![c].taken = Occupied(page[c].hours),
                             ![c].current = page[c].hours.start]
    BY DEF AskBookings
  <2>2. QED
    BY <2>1 DEF AskBookings, TypeOK, ReadPage
<1>4. /\ q \in Page /\ q.op = "scan" /\ q.duration = p.duration
      /\ q.hours = p.hours /\ q.taken = taken /\ q.slots = p.slots
      /\ q.current = p.hours.start
  <2> HIDE DEF p, taken
  <2>1. QED
    BY <1>1, <1>2, ReadType
<1> HIDE DEF q
<1>5. page' \in [Clients -> Page] /\ page'[c] = q
      /\ \A e \in Clients : e # c => page'[e] = page[e]
  BY <1>3, <1>4 DEF TypeOK
<1>6. QED
  BY <1>3, <1>4, <1>5 DEF OnlyPage

\* A turn of the loop adds a slot that overlaps no booking that was read, or none.
LEMMA ScanEffect ==
  ASSUME TypeOK, NEW c \in Clients, Scan(c)
  PROVE  LET p == page[c]
         IN  /\ OnlyPage(c)
             /\ p.op = "scan" /\ page'[c].op \in {"scan", "shown"}
             /\ page'[c].hours = p.hours /\ page'[c].taken = p.taken
             /\ page'[c].duration = p.duration
             /\ \/ page'[c].slots = p.slots
                \/ /\ page'[c].slots = p.slots \cup {p.current}
                   /\ ~ IsBooked(p.current, p.duration, p.taken)
             /\ \/ /\ p.current + p.duration <= p.hours.end
                   /\ page'[c].op = "scan" /\ page'[c].current = p.current + p.duration
                   /\ page'[c].slots = IF ~ IsBooked(p.current, p.duration, p.taken)
                                      THEN p.slots \cup {p.current} ELSE p.slots
                \/ /\ ~ (p.current + p.duration <= p.hours.end)
                   /\ page'[c].op = "shown" /\ page'[c].slots = p.slots
<1> DEFINE p == page[c]
           free == ~ IsBooked(p.current, p.duration, p.taken)
           slots == IF free THEN p.slots \cup {p.current} ELSE p.slots
           turn == [p EXCEPT !.slots = slots, !.current = p.current + p.duration]
           over == [p EXCEPT !.op = "shown"]
<1>1. /\ p \in Page /\ p.current \in Nat /\ p.duration \in Nat /\ p.slots \in SUBSET Nat
      /\ p.current + p.duration \in Nat /\ p.op = "scan"
  BY DEF TypeOK, Page, Scan
<1>2. slots \in SUBSET Nat
  BY <1>1
<1>3. \/ p.current + p.duration <= p.hours.end /\ page' = [page EXCEPT ![c] = turn]
      \/ ~ (p.current + p.duration <= p.hours.end) /\ page' = [page EXCEPT ![c] = over]
  <2>1. CASE p.current + p.duration <= p.hours.end
    <3>1. page' = [page EXCEPT ![c].slots = slots, ![c].current = p.current + p.duration]
      BY <2>1 DEF Scan
    <3>2. page' = [page EXCEPT ![c] = turn]
      BY <3>1 DEF TypeOK
    <3>3. QED
      BY <2>1, <3>2
  <2>2. CASE ~ (p.current + p.duration <= p.hours.end)
    <3>1. page' = [page EXCEPT ![c].op = "shown"]
      BY <2>2 DEF Scan
    <3>2. page' = [page EXCEPT ![c] = over]
      BY <3>1 DEF TypeOK
    <3>3. QED
      BY <2>2, <3>2
  <2>3. QED
    BY <2>1, <2>2
<1>4. /\ turn \in Page /\ turn.op = p.op /\ turn.duration = p.duration
      /\ turn.hours = p.hours /\ turn.taken = p.taken /\ turn.slots = slots
      /\ turn.current = p.current + p.duration
  <2> DEFINE next == p.current + p.duration
  <2>1. next \in Nat
    BY <1>1
  <2> HIDE DEF p, slots, next
  <2>2. PICK q : q = [p EXCEPT !.slots = slots, !.current = next]
    OBVIOUS
  <2>3. /\ q \in Page /\ q.op = p.op /\ q.duration = p.duration
        /\ q.hours = p.hours /\ q.taken = p.taken /\ q.slots = slots /\ q.current = next
    BY <1>1, <1>2, <2>1, <2>2 DEF Page
  <2>4. turn = q
    BY <2>2 DEF next
  <2>5. QED
    BY <2>3, <2>4 DEF next
<1>5. /\ over \in Page /\ over.op = "shown" /\ over.duration = p.duration
      /\ over.hours = p.hours /\ over.taken = p.taken /\ over.slots = p.slots
  <2> HIDE DEF p
  <2>1. QED
    BY <1>1, ShownType
<1> HIDE DEF turn, over
<1>6. /\ page' \in [Clients -> Page]
      /\ \/ p.current + p.duration <= p.hours.end /\ page'[c] = turn
         \/ ~ (p.current + p.duration <= p.hours.end) /\ page'[c] = over
      /\ \A e \in Clients : e # c => page'[e] = page[e]
  BY <1>3, <1>4, <1>5 DEF TypeOK
<1>7. QED
  BY <1>1, <1>4, <1>5, <1>6 DEF OnlyPage

\* A writer changes one booking.
WriterStep(b) ==
  \/ \E t \in Instants, n \in ServiceLengths : CreateCheck(b, t, n)
  \/ CreateInsert(b)
  \/ \E s \in SavedStatuses : SaveStatus(b, s)
  \/ \E body \in Bodies(b) : UpdateBooking(b, body.status, body.at)
  \/ DeleteBooking(b)

\* A booking that was stored or is stored now was changed for every page that has read
\* the bookings.
LEMMA WriterEffect ==
  ASSUME TypeOK, NEW b \in Bookings, WriterStep(b)
  PROVE  /\ booking' \in [Bookings -> BookingDoc]
         /\ \A c \in Bookings : c # b => booking'[c] = booking[c]
         /\ moved' \in [Bookings -> BOOLEAN]
         /\ unseen' \in [Bookings -> SUBSET Bookings]
         /\ changed' \in [Clients -> SUBSET Bookings]
         /\ \A c \in Clients : changed[c] \subseteq changed'[c]
         /\ \A c \in Clients : page[c].op \in {"scan", "shown"}
                                 => b \in changed'[c] \/ booking'[b].life # "stored"
         /\ page' = page /\ hours' = hours
<1>1. /\ booking \in [Bookings -> BookingDoc] /\ moved \in [Bookings -> BOOLEAN]
      /\ unseen \in [Bookings -> SUBSET Bookings]
      /\ changed \in [Clients -> SUBSET Bookings]
  BY DEF TypeOK
<1>2. ASSUME Touch(b)
      PROVE  /\ changed' \in [Clients -> SUBSET Bookings]
             /\ \A c \in Clients : changed[c] \subseteq changed'[c]
             /\ \A c \in Clients : page[c].op \in {"scan", "shown"} => b \in changed'[c]
  BY <1>1, <1>2 DEF Touch
<1>3. ASSUME NEW doc \in BookingDoc, booking' = [booking EXCEPT ![b] = doc]
      PROVE  /\ booking' \in [Bookings -> BookingDoc] /\ booking'[b] = doc
             /\ \A c \in Bookings : c # b => booking'[c] = booking[c]
  BY <1>1, <1>3
<1>4. ASSUME NEW t \in Instants, NEW n \in ServiceLengths, CreateCheck(b, t, n)
      PROVE  /\ booking' \in [Bookings -> BookingDoc] /\ booking'[b].life # "stored"
             /\ \A c \in Bookings : c # b => booking'[c] = booking[c]
             /\ unseen' \in [Bookings -> SUBSET Bookings]
  <2> DEFINE doc == [life |-> "checked", at |-> t, len |-> n, status |-> "pending_payment"]
  <2>1. t \in Nat /\ n \in Nat
    BY ConstantsOK DEF ServiceLengths
  <2>2. doc \in BookingDoc /\ doc.life # "stored"
    BY <2>1, BookingType
  <2>3. booking' = [booking EXCEPT ![b] = doc]
    BY <1>4 DEF CreateCheck
  <2> HIDE DEF doc
  <2>4. unseen' \in [Bookings -> SUBSET Bookings]
    BY <1>1, <1>4 DEF CreateCheck
  <2>5. QED
    BY <1>3, <2>2, <2>3, <2>4
<1>5. CASE \E t \in Instants, n \in ServiceLengths : CreateCheck(b, t, n)
  <2>1. UNCHANGED <<hours, page, moved, changed>>
    BY <1>5 DEF CreateCheck
  <2>2. QED
    BY <1>1, <1>4, <1>5, <2>1
<1>6. CASE CreateInsert(b)
  <2> DEFINE doc == [booking[b] EXCEPT !.life = "stored"]
  <2>1. doc \in BookingDoc
    BY BookingType
  <2>2. booking' = [booking EXCEPT ![b] = doc]
    BY <1>1, <1>6 DEF CreateInsert
  <2> HIDE DEF doc
  <2>3. /\ booking' \in [Bookings -> BookingDoc]
        /\ \A c \in Bookings : c # b => booking'[c] = booking[c]
    BY <1>3, <2>1, <2>2
  <2>4. Touch(b) /\ UNCHANGED <<hours, page, moved, unseen>>
    BY <1>6 DEF CreateInsert
  <2>5. QED
    BY <1>1, <1>2, <2>3, <2>4
<1>7. CASE \E s \in SavedStatuses : SaveStatus(b, s)
  <2>1. PICK s \in SavedStatuses : SaveStatus(b, s)
    BY <1>7
  <2> DEFINE doc == [booking[b] EXCEPT !.status = s]
  <2>2. doc \in BookingDoc
    BY BookingType, ConstantsOK
  <2>3. booking' = [booking EXCEPT ![b] = doc]
    BY <1>1, <2>1 DEF SaveStatus
  <2> HIDE DEF doc
  <2>4. /\ booking' \in [Bookings -> BookingDoc]
        /\ \A c \in Bookings : c # b => booking'[c] = booking[c]
    BY <1>3, <2>2, <2>3
  <2>5. Touch(b) /\ UNCHANGED <<hours, page, moved, unseen>>
    BY <2>1 DEF SaveStatus
  <2>6. QED
    BY <1>1, <1>2, <2>4, <2>5
<1>8. CASE \E body \in Bodies(b) : UpdateBooking(b, body.status, body.at)
  <2>1. PICK s \in Status, t \in Nat : UpdateBooking(b, s, t)
    <3>1. \A body \in Bodies(b) : body.status \in Status /\ body.at \in Nat
      <4>1. \A s \in PutStatuses \cup {booking[b].status} : s \in Status
        BY <1>1, ConstantsOK DEF BookingDoc
      <4>2. \A t \in Instants \cup {booking[b].at} : t \in Nat
        BY <1>1, ConstantsOK DEF BookingDoc
      <4>3. QED
        BY <4>1, <4>2 DEF Bodies
    <3>2. QED
      BY <1>8, <3>1
  <2> DEFINE doc == [booking[b] EXCEPT !.status = s, !.at = t]
  <2>2. doc \in BookingDoc
    BY BookingType
  <2>3. booking' = [booking EXCEPT ![b] = doc]
    <3>1. booking' = [booking EXCEPT ![b].status = s, ![b].at = t]
      BY <2>1 DEF UpdateBooking
    <3>2. QED
      BY <1>1, <3>1
  <2> HIDE DEF doc
  <2>4. /\ booking' \in [Bookings -> BookingDoc]
        /\ \A c \in Bookings : c # b => booking'[c] = booking[c]
    BY <1>3, <2>2, <2>3
  <2>5. /\ Touch(b) /\ UNCHANGED <<hours, page, unseen>>
        /\ moved' = [moved EXCEPT ![b] = moved[b] \/ t # booking[b].at]
    BY <2>1 DEF UpdateBooking
  <2>6. moved' \in [Bookings -> BOOLEAN]
    BY <1>1, <2>5
  <2>7. QED
    BY <1>1, <1>2, <2>4, <2>5, <2>6
<1>9. CASE DeleteBooking(b)
  <2>1. /\ booking' = [booking EXCEPT ![b] = NoDoc] /\ NoDoc \in BookingDoc
    BY <1>9, BookingType DEF DeleteBooking
  <2>2. /\ booking' \in [Bookings -> BookingDoc]
        /\ \A c \in Bookings : c # b => booking'[c] = booking[c]
    BY <1>3, <2>1
  <2>3. /\ moved' \in [Bookings -> BOOLEAN] /\ unseen' \in [Bookings -> SUBSET Bookings]
        /\ Touch(b) /\ page' = page /\ hours' = hours
    BY <1>1, <1>9 DEF DeleteBooking
  <2>4. QED
    BY <1>1, <1>2, <2>2, <2>3
<1>10. QED
  BY <1>5, <1>6, <1>7, <1>8, <1>9 DEF WriterStep

\* A step is a client's, a writer's, or the barber's new hours.
LEMMA Steps ==
  ASSUME Next
  PROVE  \/ \E c \in Clients : \/ \E d \in SlotDurations : AskHours(c, d)
                               \/ AskBookings(c) \/ Scan(c)
         \/ \E b \in Bookings : WriterStep(b)
         \/ \E h \in Hours : UpdateHours(h)
BY DEF Next, WriterStep

-----------------------------------------------------------------------------
(* Types are kept *)

\* The types in the initial state.
LEMMA TypeInit == Init => TypeOK
<1> SUFFICES ASSUME Init PROVE TypeOK
  OBVIOUS
<1>1. NoDoc \in BookingDoc
  BY DEF NoDoc, BookingDoc, Status
<1>2. /\ hours \in DayHours /\ booking \in [Bookings -> BookingDoc]
      /\ page \in [Clients -> Page]
  BY <1>1, NoPageType, ConstantsOK DEF Init
<1>3. /\ moved \in [Bookings -> BOOLEAN] /\ unseen \in [Bookings -> SUBSET Bookings]
      /\ changed \in [Clients -> SUBSET Bookings]
  BY DEF Init
<1>4. QED
  BY <1>2, <1>3 DEF TypeOK

\* Every step keeps the types.
LEMMA TypeStep == TypeOK /\ [Next]_vars => TypeOK'
<1> SUFFICES ASSUME TypeOK, [Next]_vars PROVE TypeOK'
  OBVIOUS
<1>1. ASSUME NEW c \in Clients, NEW d \in SlotDurations, AskHours(c, d)
      PROVE  TypeOK'
  <2>1. page' \in [Clients -> Page]
    BY <1>1, AskEffect DEF OnlyPage
  <2>2. changed' \in [Clients -> SUBSET Bookings] /\ UNCHANGED <<hours, booking, moved, unseen>>
    BY <1>1 DEF AskHours, TypeOK
  <2>3. QED
    BY <2>1, <2>2 DEF TypeOK
<1>2. ASSUME NEW c \in Clients, AskBookings(c)
      PROVE  TypeOK'
  <2>1. page' \in [Clients -> Page]
    BY <1>2, ReadEffect DEF OnlyPage
  <2>2. changed' \in [Clients -> SUBSET Bookings] /\ UNCHANGED <<hours, booking, moved, unseen>>
    BY <1>2 DEF AskBookings, TypeOK
  <2>3. QED
    BY <2>1, <2>2 DEF TypeOK
<1>3. ASSUME NEW c \in Clients, Scan(c)
      PROVE  TypeOK'
  <2>1. page' \in [Clients -> Page]
    BY <1>3, ScanEffect DEF OnlyPage
  <2>2. UNCHANGED <<hours, booking, moved, unseen, changed>>
    BY <1>3 DEF Scan, history
  <2>3. QED
    BY <2>1, <2>2 DEF TypeOK
<1>4. ASSUME NEW b \in Bookings, WriterStep(b)
      PROVE  TypeOK'
  <2>1. /\ booking' \in [Bookings -> BookingDoc] /\ moved' \in [Bookings -> BOOLEAN]
        /\ unseen' \in [Bookings -> SUBSET Bookings]
        /\ changed' \in [Clients -> SUBSET Bookings]
        /\ page' = page /\ hours' = hours
    BY <1>4, WriterEffect
  <2>2. QED
    BY <2>1 DEF TypeOK
<1>5. ASSUME NEW h \in Hours, UpdateHours(h)
      PROVE  TypeOK'
  BY <1>5, ConstantsOK DEF UpdateHours, TypeOK, history
<1>6. CASE UNCHANGED vars
  BY <1>6 DEF vars, history, TypeOK
<1>7. QED
  BY <1>1, <1>2, <1>3, <1>4, <1>5, <1>6, Steps

\* The documents, the pages and the histories have their types.
THEOREM SlotsTypeCorrect == Spec => []TypeOK
BY TypeInit, TypeStep, PTL DEF Spec

-----------------------------------------------------------------------------
(* Confirmed bookings are apart *)

\* The strengthening of ConfirmedApart: what it says of live bookings holds for every two
\* bookings that passed the check of createBooking, live or not.
Checked(b) == booking[b].life # "none"
PairApart(b, c) ==
  Checked(b) /\ Checked(c) /\ Near(booking[b].at, booking[c].at)
    => moved[b] \/ moved[c] \/ b \in unseen[c] \/ c \in unseen[b]
ApartInv == TypeOK /\ \A b, c \in Bookings : b # c => PairApart(b, c)

\* Near is symmetric.
LEMMA NearSymmetric == \A s, t : Near(s, t) <=> Near(t, s)
BY DEF Near

\* A booking that passes the check has seen every live one that is near.
LEMMA CheckStep ==
  ASSUME ApartInv, NEW b \in Bookings, NEW t \in Instants, NEW n \in ServiceLengths,
         CreateCheck(b, t, n)
  PROVE  \A c, e \in Bookings : c # e => PairApart(c, e)'
<1>1. /\ booking' = [booking EXCEPT ![b] = [life |-> "checked", at |-> t, len |-> n,
                                            status |-> "pending_payment"]]
      /\ unseen' = [unseen EXCEPT ![b] = {c \in Bookings : booking[c].life # "none" /\ ~ Live(c)}]
      /\ moved' = moved /\ Available(t) /\ booking[b].life = "none"
  BY DEF CreateCheck
<1>2. /\ booking'[b].at = t /\ \A c \in Bookings : c # b => booking'[c] = booking[c]
      /\ unseen'[b] = {c \in Bookings : Checked(c) /\ ~ Live(c)}
      /\ \A c \in Bookings : c # b => unseen'[c] = unseen[c]
  BY <1>1 DEF ApartInv, TypeOK, Checked
<1>3. ASSUME NEW c \in Bookings, c # b, Checked(c)', Near(booking'[b].at, booking'[c].at)
      PROVE  c \in unseen'[b]
  <2>1. Checked(c) /\ Near(booking[c].at, t)
    BY <1>2, <1>3, NearSymmetric DEF Checked
  <2>2. ~ Blocks(c)
    BY <1>1, <2>1 DEF Available
  <2>3. ~ Live(c)
    BY <2>2 DEF Live, Blocks, Blocking
  <2>4. QED
    BY <1>2, <2>1, <2>3
<1>4. ASSUME NEW c \in Bookings, NEW e \in Bookings, c # e, c # b, e # b
      PROVE  PairApart(c, e)'
  BY <1>1, <1>2, <1>4 DEF ApartInv, PairApart, Checked
<1>5. \A c \in Bookings : c # b => PairApart(b, c)' /\ PairApart(c, b)'
  BY <1>3, NearSymmetric DEF PairApart
<1>6. QED
  BY <1>4, <1>5

\* The other writers change the time of a booking only by marking it as moved.
LEMMA ApartStep == ApartInv /\ [Next]_vars => ApartInv'
<1> SUFFICES ASSUME ApartInv, [Next]_vars PROVE ApartInv'
  OBVIOUS
<1>1. TypeOK /\ \A b, c \in Bookings : b # c => PairApart(b, c)
  BY DEF ApartInv
<1>2. TypeOK'
  BY <1>1, TypeStep
<1>3. ASSUME \A c \in Bookings : \/ /\ booking'[c].at = booking[c].at \/ moved'[c]
                                    /\ Checked(c)' => Checked(c)
                                 \/ ~ Checked(c)',
             \A c \in Bookings : Checked(c)' => (moved[c] => moved'[c]),
             \A c \in Bookings : \A e \in unseen[c] :
               Checked(c)' /\ Checked(e)' => e \in unseen'[c]
      PROVE  \A c, e \in Bookings : c # e => PairApart(c, e)'
  BY <1>1, <1>3 DEF PairApart
<1>4. ASSUME NEW b \in Bookings, WriterStep(b)
      PROVE  \A c, e \in Bookings : c # e => PairApart(c, e)'
  <2>1. CASE \E t \in Instants, n \in ServiceLengths : CreateCheck(b, t, n)
    BY <2>1, CheckStep
  <2>2. CASE CreateInsert(b) \/ \E s \in SavedStatuses : SaveStatus(b, s)
    <3>1. /\ \A c \in Bookings : booking'[c].at = booking[c].at /\ (Checked(c)' => Checked(c))
          /\ moved' = moved /\ unseen' = unseen
      BY <1>1, <2>2 DEF CreateInsert, SaveStatus, Checked, Stored, TypeOK, BookingDoc
    <3>2. QED
      BY <1>3, <3>1
  <2>3. CASE \E body \in Bodies(b) : UpdateBooking(b, body.status, body.at)
    <3>1. PICK body \in Bodies(b) : UpdateBooking(b, body.status, body.at)
      BY <2>3
    <3>2. /\ booking' = [booking EXCEPT ![b].status = body.status, ![b].at = body.at]
          /\ moved' = [moved EXCEPT ![b] = moved[b] \/ body.at # booking[b].at]
          /\ unseen' = unseen /\ booking[b].life = "stored"
      BY <3>1 DEF UpdateBooking, Stored
    <3>3. /\ booking'[b].at = body.at /\ moved'[b] = (moved[b] \/ body.at # booking[b].at)
          /\ \A c \in Bookings : c # b => booking'[c] = booking[c] /\ moved'[c] = moved[c]
      BY <1>1, <3>2 DEF TypeOK, BookingDoc
    <3>4. QED
      BY <1>3, <3>2, <3>3 DEF Checked
  <2>4. CASE DeleteBooking(b)
    <3>1. /\ booking' = [booking EXCEPT ![b] = NoDoc]
          /\ moved' = [moved EXCEPT ![b] = FALSE]
          /\ unseen' = [c \in Bookings |-> IF c = b THEN {} ELSE unseen[c] \ {b}]
      BY <2>4 DEF DeleteBooking
    <3>2. /\ ~ Checked(b)'
          /\ \A c \in Bookings : c # b => booking'[c] = booking[c] /\ moved'[c] = moved[c]
      BY <1>1, <3>1 DEF Checked, NoDoc, TypeOK
    <3>3. \A c \in Bookings : \A e \in unseen[c] :
            Checked(c)' /\ Checked(e)' => e \in unseen'[c]
      BY <1>1, <3>1, <3>2 DEF TypeOK
    <3>4. QED
      BY <1>3, <3>2, <3>3 DEF Checked
  <2>5. QED
    BY <1>4, <2>1, <2>2, <2>3, <2>4 DEF WriterStep
<1>5. CASE booking' = booking /\ moved' = moved /\ unseen' = unseen
  BY <1>1, <1>2, <1>5 DEF ApartInv, PairApart, Checked
<1>6. ASSUME NEW c \in Clients, \/ \E d \in SlotDurations : AskHours(c, d)
                                \/ AskBookings(c) \/ Scan(c)
      PROVE  booking' = booking /\ moved' = moved /\ unseen' = unseen
  BY <1>6 DEF AskHours, AskBookings, Scan, history
<1>7. ASSUME NEW h \in Hours, UpdateHours(h)
      PROVE  booking' = booking /\ moved' = moved /\ unseen' = unseen
  BY <1>7 DEF UpdateHours, history
<1>8. CASE UNCHANGED vars
  BY <1>5, <1>8, <1>2 DEF vars, history, ApartInv
<1>9. QED
  BY <1>2, <1>4, <1>5, <1>6, <1>7, <1>8, Steps DEF ApartInv

\* Two live bookings near each other passed the check only because the earlier was not
\* live when the later was checked, or one was moved by PUT: for every interleaving of
\* creations, payments, updates and deletions, and any window.
THEOREM LiveBookingsAreApart == Spec => []ConfirmedApart
<1>1. Init => ApartInv
  <2>1. Init => \A b \in Bookings : booking[b].life = "none"
    BY DEF Init, NoDoc
  <2>2. QED
    BY <2>1, TypeInit DEF ApartInv, PairApart, Checked
<1>2. ApartInv => ConfirmedApart
  <2>1. \A b : Live(b) => b \in Bookings /\ Checked(b)
    BY DEF Live, Stored, Checked
  <2>2. QED
    BY <2>1 DEF ApartInv, PairApart, ConfirmedApart
<1>3. QED
  BY <1>1, <1>2, ApartStep, PTL DEF Spec

-----------------------------------------------------------------------------
(* A slot that is stale was taken by a later change *)

\* What a page is made of: no slot before the bookings are read, or on a closed day; then
\* no slot that overlaps a booking that was read; and every booking that would have been
\* read was read as it is, or has been changed since.
Dated(d, h) == d.status # "cancelled" /\ h.start <= d.at /\ d.at <= h.end
Fresh(p, seen) ==
  \A b \in Stored : b \notin seen /\ Dated(booking[b], p.hours)
    => [id |-> b, at |-> booking[b].at, len |-> booking[b].len] \in p.taken
NoOverlap(p) == \A t \in p.slots : ~ IsBooked(t, p.duration, p.taken)
PageTrue(c) ==
  LET p == page[c]
  IN  /\ p.op = "barber" \/ ~ p.hours.isAvailable => p.slots = {}
      /\ p.op \in {"barber", "scan"} => p.hours.isAvailable
      /\ p.op \in {"scan", "shown"} => NoOverlap(p)
      /\ p.op \in {"scan", "shown"} /\ p.hours.isAvailable => Fresh(p, changed[c])
PagesInv == TypeOK /\ \A c \in Clients : PageTrue(c)

\* Intervals with a minute in common overlap as the loop tests it.
LEMMA CommonMinute ==
  ASSUME NEW t \in Nat, NEW d \in Nat, NEW at \in Nat, NEW len \in Nat,
         Minutes(t, d) \cap Minutes(at, len) # {}
  PROVE  t < at + len /\ t + d > at
<1>1. PICK m : m \in Minutes(t, d) /\ m \in Minutes(at, len)
  OBVIOUS
<1>2. m \in Int /\ t <= m /\ m <= t + d - 1 /\ at <= m /\ m <= at + len - 1
  BY <1>1 DEF Minutes
<1>3. QED
  BY <1>2

\* The page of a client to whom nothing happens stays true when a booking is changed.
LEMMA PageKept ==
  ASSUME TypeOK, NEW c \in Clients, PageTrue(c), page'[c] = page[c],
         changed[c] \subseteq changed'[c],
         \A b \in Bookings : \/ booking'[b] = booking[b]
                             \/ booking'[b].life # "stored"
                             \/ b \in changed'[c]
                             \/ page[c].op \notin {"scan", "shown"}
  PROVE  PageTrue(c)'
<1> DEFINE p == page[c]
<1>1. p.op \in {"scan", "shown"} /\ p.hours.isAvailable => Fresh(p, changed[c])'
  <2>1. SUFFICES ASSUME p.op \in {"scan", "shown"}, p.hours.isAvailable,
                        NEW b \in Bookings, booking'[b].life = "stored",
                        b \notin changed'[c], Dated(booking'[b], p.hours)
                 PROVE  [id |-> b, at |-> booking'[b].at, len |-> booking'[b].len] \in p.taken
    BY DEF Fresh, Stored, Dated
  <2>2. booking'[b] = booking[b] /\ b \notin changed[c] /\ Fresh(p, changed[c])
    BY <2>1 DEF PageTrue
  <2>3. b \in Stored /\ Dated(booking[b], p.hours)
    BY <2>1, <2>2 DEF Stored
  <2>4. QED
    BY <2>2, <2>3 DEF Fresh
<1>2. QED
  BY <1>1 DEF PageTrue, NoOverlap, Fresh, Stored

\* Every step keeps the pages true.
LEMMA PagesStep == PagesInv /\ [Next]_vars => PagesInv'
<1> SUFFICES ASSUME PagesInv, [Next]_vars PROVE PagesInv'
  OBVIOUS
<1>1. TypeOK /\ \A c \in Clients : PageTrue(c)
  BY DEF PagesInv
<1>2. TypeOK'
  BY <1>1, TypeStep
<1>3. changed \in [Clients -> SUBSET Bookings] /\ \A c \in Clients : page[c] \in Page
  BY <1>1 DEF TypeOK
<1>4. ASSUME NEW c \in Clients, booking' = booking, OnlyPage(c), PageTrue(c)',
             \A e \in Clients : e # c => changed'[e] = changed[e]
      PROVE  \A e \in Clients : PageTrue(e)'
  <2>1. ASSUME NEW e \in Clients, e # c
        PROVE  PageTrue(e)'
    <3>1. page'[e] = page[e] /\ changed[e] \subseteq changed'[e]
      BY <1>4, <2>1 DEF OnlyPage
    <3>2. \A b \in Bookings : booking'[b] = booking[b]
      BY <1>4
    <3>3. QED
      BY <1>1, <3>1, <3>2, PageKept
  <2>2. QED
    BY <1>4, <2>1
<1>5. ASSUME NEW c \in Clients, NEW d \in SlotDurations, AskHours(c, d)
      PROVE  \A e \in Clients : PageTrue(e)'
  <2>1. /\ OnlyPage(c)
        /\ page'[c].op = (IF hours.isAvailable THEN "barber" ELSE "shown")
        /\ page'[c].hours = hours /\ page'[c].slots = {}
    BY <1>1, <1>5, AskEffect
  <2>2. PageTrue(c)'
    <3>1. hours.isAvailable \in BOOLEAN
      BY <1>1 DEF TypeOK, DayHours
    <3>2. CASE hours.isAvailable
      BY <2>1, <3>2 DEF PageTrue
    <3>3. CASE ~ hours.isAvailable
      BY <2>1, <3>3 DEF PageTrue, NoOverlap
    <3>4. QED
      BY <3>2, <3>3
  <2>3. booking' = booking /\ \A e \in Clients : e # c => changed'[e] = changed[e]
    BY <1>3, <1>5 DEF AskHours
  <2>4. QED
    BY <1>4, <2>1, <2>2, <2>3
<1>6. ASSUME NEW c \in Clients, AskBookings(c)
      PROVE  \A e \in Clients : PageTrue(e)'
  <2>1. /\ OnlyPage(c) /\ page[c].op = "barber" /\ page'[c].op = "scan"
        /\ page'[c].hours = page[c].hours /\ page'[c].slots = page[c].slots
        /\ page'[c].taken = Occupied(page[c].hours)
    BY <1>1, <1>6, ReadEffect
  <2>2. page[c].slots = {} /\ page[c].hours.isAvailable
    BY <1>1, <2>1 DEF PageTrue
  <2>3. booking' = booking /\ \A e \in Clients : e # c => changed'[e] = changed[e]
    BY <1>3, <1>6 DEF AskBookings
  <2>4. \A b \in Stored : Dated(booking[b], page[c].hours)
          => [id |-> b, at |-> booking[b].at, len |-> booking[b].len] \in Occupied(page[c].hours)
    BY DEF Dated, Occupied
  <2>5. Fresh(page[c], changed[c])'
    BY <2>1, <2>3, <2>4 DEF Fresh, Stored, Dated
  <2>6. PageTrue(c)'
    BY <2>1, <2>2, <2>5 DEF PageTrue, NoOverlap
  <2>7. QED
    BY <1>4, <2>1, <2>3, <2>6
<1>7. ASSUME NEW c \in Clients, Scan(c)
      PROVE  \A e \in Clients : PageTrue(e)'
  <2>1. /\ OnlyPage(c) /\ page[c].op = "scan" /\ page'[c].op \in {"scan", "shown"}
        /\ page'[c].hours = page[c].hours /\ page'[c].taken = page[c].taken
        /\ page'[c].duration = page[c].duration
        /\ \/ page'[c].slots = page[c].slots
           \/ /\ page'[c].slots = page[c].slots \cup {page[c].current}
              /\ ~ IsBooked(page[c].current, page[c].duration, page[c].taken)
    BY <1>1, <1>7, ScanEffect
  <2>2. /\ NoOverlap(page[c]) /\ page[c].hours.isAvailable /\ Fresh(page[c], changed[c])
    BY <1>1, <2>1 DEF PageTrue
  <2>3. booking' = booking /\ changed' = changed
    BY <1>7 DEF Scan, history
  <2>4. NoOverlap(page[c])'
    BY <2>1, <2>2 DEF NoOverlap, IsBooked
  <2>5. Fresh(page[c], changed[c])'
    BY <2>1, <2>2, <2>3 DEF Fresh, Stored
  <2>6. PageTrue(c)'
    BY <2>1, <2>2, <2>4, <2>5 DEF PageTrue
  <2>7. QED
    BY <1>4, <2>1, <2>3, <2>6
<1>8. ASSUME NEW b \in Bookings, WriterStep(b)
      PROVE  \A e \in Clients : PageTrue(e)'
  <2>1. /\ \A c \in Bookings : c # b => booking'[c] = booking[c]
        /\ \A c \in Clients : changed[c] \subseteq changed'[c]
        /\ \A c \in Clients : page[c].op \in {"scan", "shown"}
                                => b \in changed'[c] \/ booking'[b].life # "stored"
        /\ page' = page
    BY <1>1, <1>8, WriterEffect
  <2>2. ASSUME NEW c \in Clients
        PROVE  PageTrue(c)'
    <3>1. page'[c] = page[c] /\ changed[c] \subseteq changed'[c]
      BY <2>1
    <3>2. \A a \in Bookings : \/ booking'[a] = booking[a]
                              \/ booking'[a].life # "stored"
                              \/ a \in changed'[c]
                              \/ page[c].op \notin {"scan", "shown"}
      BY <2>1
    <3>3. QED
      BY <1>1, <3>1, <3>2, PageKept
  <2>3. QED
    BY <2>2
<1>9. CASE booking' = booking /\ page' = page /\ changed' = changed
  BY <1>1, <1>2, <1>9 DEF PagesInv, PageTrue, NoOverlap, Fresh, Stored
<1>10. ASSUME NEW h \in Hours, UpdateHours(h)
       PROVE  booking' = booking /\ page' = page /\ changed' = changed
  BY <1>10 DEF UpdateHours, history
<1>11. CASE UNCHANGED vars
  BY <1>9, <1>11 DEF vars, history
<1>12. QED
  BY <1>2, <1>5, <1>6, <1>7, <1>8, <1>9, <1>10, <1>11, Steps DEF PagesInv

\* A slot on a page that overlaps a booking of the day was free when the bookings were
\* read, whatever the lengths and durations: only a change after that can have taken it.
THEOREM StaleSlotsWereTakenLater == Spec => []StaleOnlyByChange
<1>1. Init => PagesInv
  <2>1. Init => \A c \in Clients : page[c].op = "idle" /\ page[c].slots = {}
    BY NoPageType DEF Init
  <2>2. QED
    BY <2>1, TypeInit DEF PagesInv, PageTrue
<1>2. PagesInv => StaleOnlyByChange
  <2>1. SUFFICES ASSUME PagesInv, NEW c \in Clients, NEW b \in Stored,
                        page[c].op = "shown", Dated(booking[b], page[c].hours),
                        NEW t \in page[c].slots,
                        Minutes(t, page[c].duration)
                          \cap Minutes(booking[b].at, booking[b].len) # {},
                        b \notin changed[c]
                 PROVE  FALSE
    BY DEF StaleOnlyByChange, Dated
  <2>2. /\ t \in Nat /\ page[c].duration \in Nat /\ b \in Bookings
        /\ booking[b].at \in Nat /\ booking[b].len \in Nat
    BY <2>1 DEF PagesInv, TypeOK, Page, Stored, BookingDoc
  <2>3. page[c].hours.isAvailable /\ NoOverlap(page[c]) /\ Fresh(page[c], changed[c])
    BY <2>1 DEF PagesInv, PageTrue
  <2> DEFINE o == [id |-> b, at |-> booking[b].at, len |-> booking[b].len]
  <2>4. o \in page[c].taken
    BY <2>1, <2>3 DEF Fresh
  <2>5. ~ (t < o.at + o.len /\ t + page[c].duration > o.at)
    BY <2>1, <2>3, <2>4 DEF NoOverlap, IsBooked
  <2>6. t < booking[b].at + booking[b].len /\ t + page[c].duration > booking[b].at
    BY <2>1, <2>2, CommonMinute
  <2>7. QED
    BY <2>5, <2>6
<1>3. QED
  BY <1>1, <1>2, PagesStep, PTL DEF Spec

-----------------------------------------------------------------------------
(* The answer has exactly the free slots *)

\* A booking has a duration, and so has what was read of it.
HasLength(b) == booking[b].life # "none" => booking[b].len > 0
TakenHasLength(p) == \A o \in p.taken : o.len > 0

\* The slots that the loop has found, those before the place it has reached.
SoFar(p) == {t \in 0 .. p.hours.end : t < p.current /\ IsSlot(p, t)}

PageExact(c) ==
  LET p == page[c]
  IN  /\ p.op \in {"barber", "scan"} => p.duration > 0
      /\ p.op = "barber" => p.slots = {}
      /\ p.op = "scan" => TakenHasLength(p) /\ OnGrid(p, p.current) /\ p.slots = SoFar(p)
      /\ p.op = "shown" /\ p.hours.isAvailable =>
           p.slots = {t \in 0 .. p.hours.end : IsSlot(p, t)}
ExactInv == PagesInv /\ (\A b \in Bookings : HasLength(b)) /\ \A c \in Clients : PageExact(c)

\* Beginnings of slots are a whole slot apart.
LEMMA GridStep ==
  ASSUME NEW d \in Nat \ {0}, NEW start \in Nat, NEW cur \in Nat, start <= cur,
         (cur - start) % d = 0
  PROVE  /\ (cur + d - start) % d = 0
         /\ \A t \in Nat : start <= t /\ (t - start) % d = 0 /\ cur <= t /\ t < cur + d => t = cur
<1>1. PICK q \in Nat : cur - start = q * d
  <2>1. (cur - start) \div d \in Nat
    OBVIOUS
  <2>2. cur - start = ((cur - start) \div d) * d + ((cur - start) % d)
    OBVIOUS
  <2>3. QED
    BY <2>1, <2>2
<1>2. (cur + d - start) % d = 0
  <2>1. cur + d - start = (q + 1) * d
    BY <1>1
  <2>2. ((q + 1) * d) % d = 0
    OBVIOUS
  <2>3. QED
    BY <2>1, <2>2
<1>3. ASSUME NEW t \in Nat, start <= t, (t - start) % d = 0, cur <= t, t < cur + d
      PROVE  t = cur
  <2>1. PICK r \in Nat : t - start = r * d
    <3>1. (t - start) \div d \in Nat
      BY <1>3
    <3>2. t - start = ((t - start) \div d) * d + ((t - start) % d)
      BY <1>3
    <3>3. QED
      BY <1>3, <3>1, <3>2
  <2>2. q * d <= r * d /\ r * d < q * d + d
    BY <1>1, <1>3, <2>1
  <2>3. ~ (r < q)
    <3>1. r < q => (r + 1) * d <= q * d
      OBVIOUS
    <3>2. (r + 1) * d = r * d + d /\ r * d \in Nat /\ q * d \in Nat
      OBVIOUS
    <3>3. QED
      BY <2>2, <3>1, <3>2
  <2>4. ~ (q < r)
    <3>1. q < r => (q + 1) * d <= r * d
      OBVIOUS
    <3>2. (q + 1) * d = q * d + d /\ r * d \in Nat /\ q * d \in Nat
      OBVIOUS
    <3>3. QED
      BY <2>2, <3>1, <3>2
  <2>5. QED
    BY <1>1, <1>3, <2>1, <2>3, <2>4
<1>4. QED
  BY <1>2, <1>3

\* The test of the loop finds a minute in common, as slots and bookings have a length.
LEMMA FreeIsNotBooked ==
  ASSUME NEW p \in Page, TakenHasLength(p), p.duration > 0, NEW t \in Nat
  PROVE  IsFree(p, t) <=> ~ IsBooked(t, p.duration, p.taken)
<1>1. p.duration \in Nat /\ \A o \in p.taken : o.at \in Nat /\ o.len \in Nat /\ o.len > 0
  BY DEF Page, OccupiedDoc, TakenHasLength
<1>2. ASSUME NEW o \in p.taken, t < o.at + o.len, t + p.duration > o.at
      PROVE  Minutes(t, p.duration) \cap Minutes(o.at, o.len) # {}
  <2>1. CASE t <= o.at
    <3>1. o.at \in Minutes(t, p.duration) /\ o.at \in Minutes(o.at, o.len)
      BY <1>1, <1>2, <2>1 DEF Minutes
    <3>2. QED
      BY <3>1
  <2>2. CASE ~ (t <= o.at)
    <3>1. t \in Minutes(t, p.duration) /\ t \in Minutes(o.at, o.len)
      BY <1>1, <1>2, <2>2 DEF Minutes
    <3>2. QED
      BY <3>1
  <2>3. QED
    BY <2>1, <2>2
<1>3. ASSUME NEW o \in p.taken, Minutes(t, p.duration) \cap Minutes(o.at, o.len) # {}
      PROVE  t < o.at + o.len /\ t + p.duration > o.at
  BY <1>1, <1>3, CommonMinute
<1>4. QED
  BY <1>2, <1>3 DEF IsFree, IsBooked

\* A turn of the loop looks at the next slot of the grid, and at the end none is left.
LEMMA TurnFinds ==
  ASSUME NEW p \in Page, p.duration > 0, TakenHasLength(p), OnGrid(p, p.current),
         NEW next, next = p.current + p.duration
  PROVE  /\ next >= p.hours.start /\ (next - p.hours.start) % p.duration = 0
         /\ next <= p.hours.end =>
              {t \in 0 .. p.hours.end : t < next /\ IsSlot(p, t)}
                = IF ~ IsBooked(p.current, p.duration, p.taken)
                  THEN SoFar(p) \cup {p.current} ELSE SoFar(p)
         /\ ~ (next <= p.hours.end) => SoFar(p) = {t \in 0 .. p.hours.end : IsSlot(p, t)}
<1>1. /\ p.duration \in Nat \ {0} /\ p.current \in Nat /\ p.hours.start \in Nat
      /\ p.hours.end \in Nat /\ p.hours.start <= p.current
      /\ (p.current - p.hours.start) % p.duration = 0
  BY DEF Page, DayHours, OnGrid
<1>2. /\ (next - p.hours.start) % p.duration = 0
      /\ \A t \in Nat : OnGrid(p, t) /\ p.current <= t /\ t < next => t = p.current
  <2>1. PICK d \in Nat \ {0}, cur \in Nat, start \in Nat :
          d = p.duration /\ cur = p.current /\ start = p.hours.start
    BY <1>1
  <2>2. /\ (cur + d - start) % d = 0
        /\ \A t \in Nat : start <= t /\ (t - start) % d = 0 /\ cur <= t /\ t < cur + d => t = cur
    BY <1>1, <2>1, GridStep
  <2>3. next = cur + d
    BY <2>1
  <2>4. \A t \in Nat : OnGrid(p, t) => start <= t /\ (t - start) % d = 0
    BY <1>1, <2>1 DEF OnGrid
  <2>5. (next - start) % d = 0
    BY <2>2, <2>3
  <2>6. \A t \in Nat : OnGrid(p, t) /\ cur <= t /\ t < next => t = cur
    BY <2>2, <2>3, <2>4
  <2>7. QED
    BY <2>1, <2>5, <2>6
<1>3. next \in Nat /\ next >= p.hours.start /\ p.current < next
  BY <1>1
<1>4. ASSUME next <= p.hours.end
      PROVE  {t \in 0 .. p.hours.end : t < next /\ IsSlot(p, t)}
               = IF ~ IsBooked(p.current, p.duration, p.taken)
                 THEN SoFar(p) \cup {p.current} ELSE SoFar(p)
  <2>1. IsSlot(p, p.current) <=> ~ IsBooked(p.current, p.duration, p.taken)
    BY <1>1, <1>4, FreeIsNotBooked DEF IsSlot
  <2>2. \A t \in 0 .. p.hours.end : t < next /\ IsSlot(p, t) =>
          t < p.current \/ t = p.current
    BY <1>1, <1>2, <1>3 DEF IsSlot
  <2>3. p.current \in 0 .. p.hours.end
    BY <1>1, <1>3, <1>4
  <2>4. \A t \in 0 .. p.hours.end : t < p.current => t < next
    BY <1>1, <1>3
  <2>5. CASE IsBooked(p.current, p.duration, p.taken)
    BY <2>1, <2>2, <2>4, <2>5 DEF SoFar
  <2>6. CASE ~ IsBooked(p.current, p.duration, p.taken)
    BY <1>3, <2>1, <2>2, <2>3, <2>4, <2>6 DEF SoFar
  <2>7. QED
    BY <2>5, <2>6
<1>5. ASSUME ~ (next <= p.hours.end)
      PROVE  SoFar(p) = {t \in 0 .. p.hours.end : IsSlot(p, t)}
  <2>1. ASSUME NEW t \in 0 .. p.hours.end, IsSlot(p, t) PROVE t < p.current
    <3>1. t + p.duration <= p.hours.end /\ t \in Nat
      BY <1>1, <2>1 DEF IsSlot
    <3>2. QED
      BY <1>1, <1>5, <3>1
  <2>2. QED
    BY <2>1 DEF SoFar
<1>6. QED
  BY <1>2, <1>3, <1>4, <1>5

\* Bookings keep their durations.
LEMMA LengthsKept ==
  ASSUME TypeOK, NEW b \in Bookings, WriterStep(b), \A c \in Bookings : HasLength(c)
  PROVE  \A c \in Bookings : HasLength(c)'
<1>1. booking \in [Bookings -> BookingDoc] /\ HasLength(b)
  BY DEF TypeOK
<1>2. \A c \in Bookings : c # b => booking'[c] = booking[c]
  BY WriterEffect
<1>3. HasLength(b)'
  <2>1. ASSUME NEW t \in Instants, NEW n \in ServiceLengths, CreateCheck(b, t, n)
        PROVE  HasLength(b)'
    <3>1. n > 0
      BY ConstantsOK DEF ServiceLengths
    <3>2. booking'[b].len = n
      BY <1>1, <2>1 DEF CreateCheck
    <3>3. QED
      BY <3>1, <3>2 DEF HasLength
  <2>2. CASE CreateInsert(b)
    <3>1. booking'[b].len = booking[b].len /\ booking[b].life # "none"
      BY <1>1, <2>2 DEF CreateInsert, BookingDoc
    <3>2. QED
      BY <1>1, <3>1 DEF HasLength
  <2>3. ASSUME NEW s, SaveStatus(b, s) PROVE HasLength(b)'
    <3>1. booking'[b].len = booking[b].len /\ booking'[b].life = booking[b].life
      BY <1>1, <2>3 DEF SaveStatus, BookingDoc
    <3>2. QED
      BY <1>1, <3>1 DEF HasLength
  <2>4. ASSUME NEW s, NEW t, UpdateBooking(b, s, t) PROVE HasLength(b)'
    <3>1. booking'[b].len = booking[b].len /\ booking'[b].life = booking[b].life
      <4>1. booking' = [booking EXCEPT ![b].status = s, ![b].at = t]
        BY <2>4 DEF UpdateBooking
      <4>2. QED
        BY <1>1, <4>1 DEF BookingDoc
    <3>2. QED
      BY <1>1, <3>1 DEF HasLength
  <2>5. CASE DeleteBooking(b)
    <3>1. booking'[b] = NoDoc
      BY <1>1, <2>5 DEF DeleteBooking
    <3>2. QED
      BY <3>1 DEF HasLength, NoDoc
  <2>6. QED
    BY <2>1, <2>2, <2>3, <2>4, <2>5 DEF WriterStep
<1>4. QED
  BY <1>2, <1>3 DEF HasLength

\* Every step keeps the answers exact.
LEMMA ExactStep == ExactInv /\ [Next]_vars => ExactInv'
<1> SUFFICES ASSUME ExactInv, [Next]_vars PROVE ExactInv'
  OBVIOUS
<1>1. /\ PagesInv /\ TypeOK /\ (\A b \in Bookings : HasLength(b))
      /\ \A c \in Clients : PageExact(c)
  BY DEF ExactInv, PagesInv
<1>2. PagesInv'
  BY <1>1, PagesStep
<1>3. ASSUME NEW c \in Clients, OnlyPage(c), PageExact(c)', booking' = booking
      PROVE  (\A b \in Bookings : HasLength(b))' /\ \A e \in Clients : PageExact(e)'
  <2>1. ASSUME NEW e \in Clients PROVE PageExact(e)'
    <3>1. CASE e = c
      BY <1>3, <3>1
    <3>2. CASE e # c
      <4>1. page'[e] = page[e]
        BY <1>3, <3>2 DEF OnlyPage
      <4>2. QED
        BY <1>1, <4>1 DEF PageExact, SoFar
    <3>3. QED
      BY <3>1, <3>2
  <2>2. QED
    BY <1>1, <1>3, <2>1 DEF HasLength
<1>4. ASSUME NEW c \in Clients, NEW d \in SlotDurations, AskHours(c, d)
      PROVE  (\A b \in Bookings : HasLength(b))' /\ \A e \in Clients : PageExact(e)'
  <2>1. /\ OnlyPage(c)
        /\ page'[c].op = (IF hours.isAvailable THEN "barber" ELSE "shown")
        /\ page'[c].hours = hours /\ page'[c].slots = {} /\ page'[c].duration = d
    BY <1>1, <1>4, AskEffect
  <2>2. d > 0
    BY ConstantsOK DEF SlotDurations
  <2>3. PageExact(c)'
    <3>1. CASE hours.isAvailable
      BY <2>1, <2>2, <3>1 DEF PageExact
    <3>2. CASE ~ hours.isAvailable
      BY <2>1, <2>2, <3>2 DEF PageExact
    <3>3. QED
      BY <3>1, <3>2
  <2>4. QED
    BY <1>3, <1>4, <2>1, <2>3 DEF AskHours
<1>5. ASSUME NEW c \in Clients, AskBookings(c)
      PROVE  (\A b \in Bookings : HasLength(b))' /\ \A e \in Clients : PageExact(e)'
  <2>1. /\ OnlyPage(c) /\ page[c].op = "barber" /\ page'[c].op = "scan"
        /\ page'[c].slots = page[c].slots /\ page'[c].taken = Occupied(page[c].hours)
        /\ page'[c].duration = page[c].duration /\ page'[c].hours = page[c].hours
        /\ page'[c].current = page[c].hours.start
    BY <1>1, <1>5, ReadEffect
  <2>2. PICK q \in Page : q = page'[c]
    BY <2>1 DEF OnlyPage
  <2>3. q.duration \in Nat /\ q.duration > 0 /\ q.slots = {} /\ q.hours.start \in Nat
        /\ q.current = q.hours.start
    BY <1>1, <2>1, <2>2 DEF PageExact, Page, DayHours
  <2>4. TakenHasLength(q)
    BY <1>1, <2>1, <2>2 DEF TakenHasLength, Occupied, Stored, HasLength
  <2>5. OnGrid(q, q.current)
    <3>1. \A n \in Nat : n > 0 => (q.hours.start - q.hours.start) % n = 0
      BY <2>3
    <3>2. QED
      BY <2>3, <3>1 DEF OnGrid
  <2>6. SoFar(q) = {}
    <3>1. \A t \in Nat : t < q.current => ~ OnGrid(q, t)
      BY <2>3 DEF OnGrid
    <3>2. \A t \in 0 .. q.hours.end : t \in Nat
      BY DEF Page, DayHours
    <3>3. QED
      BY <3>1, <3>2 DEF SoFar, IsSlot
  <2>7. PageExact(c)'
    BY <2>1, <2>2, <2>3, <2>4, <2>5, <2>6 DEF PageExact, SoFar
  <2>8. QED
    BY <1>3, <1>5, <2>1, <2>7 DEF AskBookings
<1>6. ASSUME NEW c \in Clients, Scan(c)
      PROVE  (\A b \in Bookings : HasLength(b))' /\ \A e \in Clients : PageExact(e)'
  <2>1. PICK p \in Page, q \in Page : p = page[c] /\ q = page'[c]
    BY <1>1, <1>6, ScanEffect DEF TypeOK, OnlyPage
  <2>2. /\ OnlyPage(c) /\ p.op = "scan" /\ q.hours = p.hours /\ q.taken = p.taken
        /\ q.duration = p.duration
        /\ \/ /\ p.current + p.duration <= p.hours.end
              /\ q.op = "scan" /\ q.current = p.current + p.duration
              /\ q.slots = IF ~ IsBooked(p.current, p.duration, p.taken)
                           THEN p.slots \cup {p.current} ELSE p.slots
           \/ /\ ~ (p.current + p.duration <= p.hours.end)
              /\ q.op = "shown" /\ q.slots = p.slots
    BY <1>1, <1>6, <2>1, ScanEffect
  <2>3. p.duration > 0 /\ TakenHasLength(p) /\ OnGrid(p, p.current) /\ p.slots = SoFar(p)
    BY <1>1, <2>1, <2>2 DEF PageExact
  <2>4. PICK next : next = p.current + p.duration
    OBVIOUS
  <2>5. /\ next >= p.hours.start /\ (next - p.hours.start) % p.duration = 0
        /\ next <= p.hours.end =>
             {t \in 0 .. p.hours.end : t < next /\ IsSlot(p, t)}
               = IF ~ IsBooked(p.current, p.duration, p.taken)
                 THEN SoFar(p) \cup {p.current} ELSE SoFar(p)
        /\ ~ (next <= p.hours.end) => SoFar(p) = {t \in 0 .. p.hours.end : IsSlot(p, t)}
    BY <2>3, <2>4, TurnFinds
  <2>6. \A t : IsSlot(p, t) <=> IsSlot(q, t)
    BY <2>2 DEF IsSlot, OnGrid, IsFree
  <2>7. TakenHasLength(q) /\ q.duration > 0
    BY <2>2, <2>3 DEF TakenHasLength
  <2>8. CASE next <= p.hours.end
    <3>1. /\ q.op = "scan" /\ q.current = next
          /\ q.slots = IF ~ IsBooked(p.current, p.duration, p.taken)
                       THEN p.slots \cup {p.current} ELSE p.slots
      BY <2>2, <2>4, <2>8
    <3>2. q.slots = {t \in 0 .. p.hours.end : t < next /\ IsSlot(p, t)}
      BY <2>3, <2>5, <2>8, <3>1
    <3>3. q.slots = SoFar(q)
      BY <2>2, <2>6, <3>1, <3>2 DEF SoFar
    <3>4. OnGrid(q, q.current)
      BY <2>2, <2>5, <3>1 DEF OnGrid
    <3>5. PageExact(c)'
      BY <2>1, <2>7, <3>1, <3>3, <3>4 DEF PageExact, SoFar
    <3>6. QED
      BY <1>3, <1>6, <2>2, <3>5 DEF Scan
  <2>9. CASE ~ (next <= p.hours.end)
    <3>1. q.op = "shown" /\ q.slots = p.slots
      BY <2>2, <2>4, <2>9
    <3>2. q.slots = {t \in 0 .. q.hours.end : IsSlot(q, t)}
      BY <2>2, <2>3, <2>5, <2>6, <2>9, <3>1
    <3>3. PageExact(c)'
      BY <2>1, <3>1, <3>2 DEF PageExact
    <3>4. QED
      BY <1>3, <1>6, <2>2, <3>3 DEF Scan
  <2>10. QED
    BY <2>8, <2>9
<1>7. ASSUME NEW b \in Bookings, WriterStep(b)
      PROVE  (\A c \in Bookings : HasLength(c))' /\ \A e \in Clients : PageExact(e)'
  <2>1. page' = page
    BY <1>1, <1>7, WriterEffect
  <2>2. \A e \in Clients : PageExact(e)'
    BY <1>1, <2>1 DEF PageExact, SoFar
  <2>3. QED
    BY <1>1, <1>7, <2>2, LengthsKept
<1>8. CASE booking' = booking /\ page' = page
  BY <1>1, <1>2, <1>8 DEF ExactInv, PageExact, SoFar, HasLength
<1>9. ASSUME NEW h \in Hours, UpdateHours(h)
      PROVE  booking' = booking /\ page' = page
  BY <1>9 DEF UpdateHours
<1>10. CASE UNCHANGED vars
  BY <1>8, <1>10 DEF vars
<1>11. QED
  BY <1>2, <1>4, <1>5, <1>6, <1>7, <1>8, <1>9, <1>10, Steps DEF ExactInv

\* The answer of getAvailability has exactly the free slots, whatever the hours, the
\* bookings and the duration: the loop leaves no beginning out and looks at none twice.
THEOREM AnswersAreExact == Spec => []OffersExactlyTheFree
<1>1. Init => ExactInv
  <2>1. Init => \A c \in Clients : page[c].op = "idle" /\ page[c].slots = {}
    BY NoPageType DEF Init
  <2>2. Init => PagesInv
    BY <2>1, TypeInit DEF PagesInv, PageTrue
  <2>3. Init => \A b \in Bookings : HasLength(b)
    BY DEF Init, HasLength, NoDoc
  <2>4. QED
    BY <2>1, <2>2, <2>3 DEF ExactInv, PageExact
<1>2. ExactInv => OffersExactlyTheFree
  BY DEF ExactInv, PageExact, OffersExactlyTheFree
<1>3. QED
  BY <1>1, <1>2, ExactStep, PTL DEF Spec

-----------------------------------------------------------------------------
(* Presence: types, shown presence and typists *)

\* The map of connected users agrees with the sockets that are open.
MapIsTrue == \A u \in Members : connected[u] = {d \in Devices : socket[d] = u}

\* The socket whose leaving is written is closed, and who is connected while one of his
\* leavings is written came back during it.
LeavingIsOver ==
  /\ \A d \in Devices : socket[d] # Nobody => leaving[d] = Nobody
  /\ \A u \in Members : HasSocket(u) /\ Leaving(u) => u \in crossed

PresInv == PresTypeOK /\ MapIsTrue /\ LeavingIsOver /\ ShownIsTrue /\ TypistsAreConnected

\* A user is online exactly when he has a socket.
LEMMA OnlineIsSocket ==
  ASSUME MapIsTrue, NEW u \in Members
  PROVE  Online(u) <=> HasSocket(u)
BY DEF MapIsTrue, Online, HasSocket

\* Nobody is connected at first.
LEMMA PresInitInv == PresInit => PresInv
<1> SUFFICES ASSUME PresInit PROVE PresInv
  OBVIOUS
<1>1. /\ \A d \in Devices : socket[d] = Nobody /\ leaving[d] = Nobody
      /\ \A u \in Members : shown[u] = "user_offline" /\ connected[u] = {}
      /\ \A c \in Rooms : typing[c] = {}
  BY DEF PresInit
<1>2. PresTypeOK
  BY PresenceConstants DEF PresInit, PresTypeOK, Events
<1>3. \A u \in Members : ~ HasSocket(u) /\ ~ Leaving(u)
  BY <1>1, PresenceConstants DEF HasSocket, Leaving
<1>4. MapIsTrue /\ LeavingIsOver
  BY <1>1, <1>3, PresenceConstants DEF MapIsTrue, LeavingIsOver
<1>5. ShownIsTrue /\ TypistsAreConnected
  BY <1>1, <1>3 DEF ShownIsTrue, TypistsAreConnected
<1>6. QED
  BY <1>2, <1>4, <1>5 DEF PresInv

\* Every step keeps the types.
LEMMA PresTypeStep ==
  ASSUME PresTypeOK, [PresNext]_presVars
  PROVE  PresTypeOK'
<1> USE PresenceConstants DEF PresTypeOK, Events
<1>1. ASSUME NEW d \in Devices, NEW u \in Members, Connect(d, u)
      PROVE  PresTypeOK'
  BY <1>1 DEF Connect
<1>2. ASSUME NEW d \in Devices, Disconnect(d)
      PROVE  PresTypeOK'
  <2>1. socket[d] \in Members
    BY <1>2 DEF Disconnect
  <2>2. /\ socket' \in [Devices -> Members \cup {Nobody}]
        /\ connected' \in [Members -> SUBSET Devices]
        /\ typing' \in [Rooms -> SUBSET Members]
        /\ ghosts' \subseteq Rooms \X Members
    BY <1>2, <2>1 DEF Disconnect
  <2>3. /\ leaving' \in [Devices -> Members \cup {Nobody}]
        /\ room' \in [Members -> {"user_online", "user_offline"}]
    BY <1>2, <2>1 DEF Disconnect
  <2>4. QED
    BY <1>2, <2>2, <2>3 DEF Disconnect
<1>3. ASSUME NEW d \in Devices, SayOffline(d)
      PROVE  PresTypeOK'
  BY <1>3 DEF SayOffline
<1>4. ASSUME NEW d \in Devices, LastSeenFails(d)
      PROVE  PresTypeOK'
  BY <1>4 DEF LastSeenFails
<1>5. ASSUME NEW d \in Devices, NEW c \in Rooms, TypingAsk(d, c)
      PROVE  PresTypeOK'
  BY <1>5 DEF TypingAsk
<1>6. ASSUME NEW d \in Devices, NEW c \in Rooms, TypingStop(d, c)
      PROVE  PresTypeOK'
  BY <1>6 DEF TypingStop
<1>7. ASSUME NEW d \in Devices, TypingStart(d)
      PROVE  PresTypeOK'
  <2>1. PICK u \in Members, c \in Rooms : asking[d] = <<u, c>>
    BY <1>7 DEF TypingStart
  <2>2. /\ typing' = [typing EXCEPT ![c] = typing[c] \cup {u}]
        /\ ghosts' = IF Online(u) THEN ghosts ELSE ghosts \cup {<<c, u>>}
        /\ asking' = [asking EXCEPT ![d] = <<>>]
        /\ UNCHANGED <<socket, connected, leaving, shown, room, crossed, unsaid>>
    BY <1>7, <2>1 DEF TypingStart
  <2>3. typing' \in [Rooms -> SUBSET Members] /\ ghosts' \subseteq Rooms \X Members
    BY <2>2
  <2>4. asking' \in [Devices -> (Members \X Rooms) \cup {<<>>}]
    BY <2>2
  <2>5. QED
    BY <2>2, <2>3, <2>4
<1>8. CASE UNCHANGED presVars
  BY <1>8 DEF presVars
<1>9. QED
  BY <1>1, <1>2, <1>3, <1>4, <1>5, <1>6, <1>7, <1>8 DEF PresNext

\* The parts of the invariant beside the types.
Parts == MapIsTrue /\ LeavingIsOver /\ ShownIsTrue /\ TypistsAreConnected

\* A socket that opens: only its user's sockets, and what is shown of him, change.
LEMMA ConnectStep ==
  ASSUME PresInv, NEW d \in Devices, NEW u \in Members, Connect(d, u)
  PROVE  Parts'
<1>1. PresTypeOK /\ MapIsTrue /\ LeavingIsOver /\ ShownIsTrue /\ TypistsAreConnected
  BY DEF PresInv
<1>2. socket[d] = Nobody /\ leaving[d] = Nobody /\ u # Nobody
  BY PresenceConstants DEF Connect
<1>3. /\ socket'[d] = u /\ \A e \in Devices : e # d => socket'[e] = socket[e]
      /\ connected'[u] = connected[u] \cup {d}
      /\ \A v \in Members : v # u => connected'[v] = connected[v]
      /\ leaving' = leaving /\ typing' = typing /\ ghosts' = ghosts
  BY <1>1 DEF Connect, PresTypeOK
<1>4. /\ HasSocket(u)' /\ \A v \in Members : v # u => (HasSocket(v)' <=> HasSocket(v))
      /\ \A v \in Members : Leaving(v)' <=> Leaving(v)
  <2>1. HasSocket(u)'
    BY <1>3 DEF HasSocket
  <2>2. ASSUME NEW v \in Members, v # u
        PROVE  \A e \in Devices : socket'[e] = v <=> socket[e] = v
    BY <1>2, <1>3, <2>2, PresenceConstants
  <2>3. \A v \in Members : v # u => (HasSocket(v)' <=> HasSocket(v))
    BY <2>2 DEF HasSocket
  <2>4. QED
    BY <1>3, <2>1, <2>3 DEF Leaving
<1>5. MapIsTrue'
  BY <1>1, <1>2, <1>3, PresenceConstants DEF MapIsTrue
<1>6. /\ \A v \in Members : v # u => /\ v \in crossed' <=> v \in crossed
                                     /\ v \in unsaid' <=> v \in unsaid
                                     /\ shown'[v] = shown[v]
      /\ IF Online(u) THEN shown'[u] = shown[u] /\ (u \in crossed' <=> u \in crossed)
         ELSE shown'[u] = "user_online" /\ (u \in crossed' <=> Leaving(u))
  BY <1>1 DEF Connect, PresTypeOK
<1>7. Online(u) <=> HasSocket(u)
  BY <1>1, OnlineIsSocket
<1>8. LeavingIsOver'
  <2>1. \A e \in Devices : socket'[e] # Nobody => leaving'[e] = Nobody
    BY <1>1, <1>2, <1>3 DEF LeavingIsOver
  <2>2. \A v \in Members : HasSocket(v)' /\ Leaving(v)' => v \in crossed'
    BY <1>1, <1>4, <1>6, <1>7 DEF LeavingIsOver
  <2>3. QED
    BY <2>1, <2>2 DEF LeavingIsOver
<1>9. ShownIsTrue'
  BY <1>1, <1>4, <1>6, <1>7 DEF ShownIsTrue
<1>10. TypistsAreConnected'
  <2>1. \A c \in Rooms : typing[c] \subseteq Members
    BY <1>1 DEF PresTypeOK
  <2>2. QED
    BY <1>1, <1>3, <1>4, <2>1 DEF TypistsAreConnected
<1>11. QED
  BY <1>5, <1>8, <1>9, <1>10 DEF Parts

\* A socket that closes: with his last one its user is leaving.
LEMMA DisconnectStep ==
  ASSUME PresInv, NEW d \in Devices, Disconnect(d)
  PROVE  Parts'
<1>1. PresTypeOK /\ MapIsTrue /\ LeavingIsOver /\ ShownIsTrue /\ TypistsAreConnected
  BY DEF PresInv
<1>2. PICK u \in Members : u = socket[d]
  BY <1>1 DEF Disconnect, PresTypeOK
<1>3. u # Nobody /\ leaving[d] = Nobody
  BY <1>1, <1>2, PresenceConstants DEF LeavingIsOver
<1>4. /\ socket'[d] = Nobody /\ \A e \in Devices : e # d => socket'[e] = socket[e]
      /\ connected'[u] = connected[u] \ {d}
      /\ \A v \in Members : v # u => connected'[v] = connected[v]
      /\ crossed' = crossed /\ unsaid' = unsaid /\ shown' = shown
  BY <1>1, <1>2 DEF Disconnect, PresTypeOK
<1>5. /\ \A c \in Rooms : typing'[c] = typing[c] \ {u}
      /\ ghosts' = {g \in ghosts : g[2] # u}
  BY <1>2 DEF Disconnect
<1>6. /\ \A e \in Devices : e # d => leaving'[e] = leaving[e]
      /\ leaving'[d] = IF connected[u] = {d} THEN u ELSE Nobody
  BY <1>1, <1>2, <1>3 DEF Disconnect, PresTypeOK
<1>7. MapIsTrue'
  BY <1>1, <1>2, <1>3, <1>4, PresenceConstants DEF MapIsTrue
<1>8. /\ HasSocket(u)' <=> connected[u] # {d}
      /\ HasSocket(u)
      /\ \A v \in Members : v # u => (HasSocket(v)' <=> HasSocket(v))
  <2>1. connected[u] = {e \in Devices : socket[e] = u}
    BY <1>1 DEF MapIsTrue
  <2>2. HasSocket(u) /\ d \in connected[u]
    BY <1>2, <2>1 DEF HasSocket
  <2>3. HasSocket(u)' <=> \E e \in connected[u] : e # d
    BY <1>2, <1>3, <1>4, <2>1 DEF HasSocket
  <2>4. ASSUME NEW v \in Members, v # u
        PROVE  \A e \in Devices : socket'[e] = v <=> socket[e] = v
    BY <1>2, <1>4, <2>4, PresenceConstants
  <2>5. \A v \in Members : v # u => (HasSocket(v)' <=> HasSocket(v))
    BY <2>4 DEF HasSocket
  <2>6. (\E e \in connected[u] : e # d) <=> connected[u] # {d}
    BY <2>2
  <2>7. QED
    BY <2>2, <2>3, <2>5, <2>6
<1>9. /\ connected[u] = {d} => Leaving(u)'
      /\ connected[u] # {d} => (Leaving(u)' <=> Leaving(u))
      /\ \A v \in Members : v # u => (Leaving(v)' <=> Leaving(v))
  BY <1>3, <1>6, PresenceConstants DEF Leaving
<1>10. LeavingIsOver'
  <2>1. \A e \in Devices : socket'[e] # Nobody => leaving'[e] = Nobody
    BY <1>1, <1>4, <1>6 DEF LeavingIsOver
  <2>2. \A v \in Members : HasSocket(v)' /\ Leaving(v)' => v \in crossed'
    BY <1>1, <1>4, <1>8, <1>9 DEF LeavingIsOver
  <2>3. QED
    BY <2>1, <2>2 DEF LeavingIsOver
<1>11. ShownIsTrue'
  BY <1>1, <1>4, <1>8, <1>9 DEF ShownIsTrue
<1>12. TypistsAreConnected'
  <2>1. ASSUME NEW c \in Rooms, NEW v \in typing'[c]
        PROVE  HasSocket(v)' \/ <<c, v>> \in ghosts'
    <3>1. v \in Members /\ v # u /\ v \in typing[c]
      BY <1>1, <1>5, <2>1 DEF PresTypeOK
    <3>2. HasSocket(v) \/ <<c, v>> \in ghosts
      BY <1>1, <3>1 DEF TypistsAreConnected
    <3>3. <<c, v>>[2] # u
      BY <3>1
    <3>4. QED
      BY <1>5, <1>8, <3>1, <3>2, <3>3
  <2>2. QED
    BY <2>1 DEF TypistsAreConnected
<1>13. QED
  BY <1>7, <1>10, <1>11, <1>12 DEF Parts

\* The end of a leaving: the user is told to be offline, or his lastSeen is not written.
LEMMA LeftStep ==
  ASSUME PresInv, NEW d \in Devices, SayOffline(d) \/ LastSeenFails(d)
  PROVE  Parts'
<1>1. PresTypeOK /\ MapIsTrue /\ LeavingIsOver /\ ShownIsTrue /\ TypistsAreConnected
  BY DEF PresInv
<1>2. PICK u \in Members : u = leaving[d]
  BY <1>1 DEF SayOffline, LastSeenFails, PresTypeOK
<1>3. /\ UNCHANGED <<socket, connected, typing, crossed, ghosts>>
      /\ leaving'[d] = Nobody /\ \A e \in Devices : e # d => leaving'[e] = leaving[e]
      /\ \A v \in Members : v # u => shown'[v] = shown[v]
      /\ unsaid \subseteq unsaid'
      /\ shown'[u] = "user_offline" \/ (shown' = shown /\ u \in unsaid')
  BY <1>1, <1>2 DEF SayOffline, LastSeenFails, PresTypeOK
<1>4. Leaving(u) /\ (HasSocket(u) => u \in crossed)
  BY <1>1, <1>2 DEF Leaving, LeavingIsOver
<1>5. \A v \in Members : /\ HasSocket(v)' <=> HasSocket(v)
                         /\ Leaving(v)' => Leaving(v)
                         /\ v # u => (Leaving(v)' <=> Leaving(v))
  BY <1>2, <1>3, PresenceConstants DEF HasSocket, Leaving
<1>6. MapIsTrue'
  BY <1>1, <1>3 DEF MapIsTrue
<1>7. LeavingIsOver'
  <2>1. \A e \in Devices : socket'[e] # Nobody => leaving'[e] = Nobody
    BY <1>1, <1>3 DEF LeavingIsOver
  <2>2. \A v \in Members : HasSocket(v)' /\ Leaving(v)' => v \in crossed'
    BY <1>1, <1>3, <1>5 DEF LeavingIsOver
  <2>3. QED
    BY <2>1, <2>2 DEF LeavingIsOver
<1>8. ShownIsTrue'
  <2>1. ASSUME NEW v \in Members
        PROVE  /\ HasSocket(v)' => shown'[v] = "user_online" \/ v \in crossed'
               /\ ~ HasSocket(v)' => \/ shown'[v] = "user_offline" \/ Leaving(v)'
                                     \/ v \in unsaid'
    <3>1. CASE v = u
      BY <1>1, <1>3, <1>4, <1>5, <3>1 DEF ShownIsTrue
    <3>2. CASE v # u
      BY <1>1, <1>3, <1>5, <3>2 DEF ShownIsTrue
    <3>3. QED
      BY <3>1, <3>2
  <2>2. QED
    BY <2>1 DEF ShownIsTrue
<1>9. TypistsAreConnected'
  <2>1. \A c \in Rooms : typing[c] \subseteq Members
    BY <1>1 DEF PresTypeOK
  <2>2. QED
    BY <1>1, <1>3, <1>5, <2>1 DEF TypistsAreConnected
<1>10. QED
  BY <1>6, <1>7, <1>8, <1>9 DEF Parts

\* Typing: a user who types has a socket, or is recorded as a ghost.
LEMMA TypingStep ==
  ASSUME PresInv, NEW d \in Devices,
         \/ \E c \in Rooms : TypingAsk(d, c) \/ TypingStop(d, c)
         \/ TypingStart(d)
  PROVE  Parts'
<1>1. PresTypeOK /\ MapIsTrue /\ LeavingIsOver /\ ShownIsTrue /\ TypistsAreConnected
  BY DEF PresInv
<1>2. /\ socket' = socket /\ connected' = connected /\ leaving' = leaving
      /\ shown' = shown /\ crossed' = crossed /\ unsaid' = unsaid
  BY DEF TypingAsk, TypingStop, TypingStart
<1>3. MapIsTrue' /\ LeavingIsOver' /\ ShownIsTrue'
  BY <1>1, <1>2 DEF MapIsTrue, LeavingIsOver, ShownIsTrue, HasSocket, Leaving
<1>4. \A v \in Members : HasSocket(v)' <=> HasSocket(v)
  BY <1>2 DEF HasSocket
<1>5. \A c \in Rooms : typing[c] \subseteq Members
  BY <1>1 DEF PresTypeOK
<1>6. ASSUME NEW c \in Rooms, TypingAsk(d, c)
      PROVE  TypistsAreConnected'
  <2>1. typing' = typing /\ ghosts' = ghosts
    BY <1>6 DEF TypingAsk
  <2>2. QED
    BY <1>1, <1>4, <1>5, <2>1 DEF TypistsAreConnected
<1>7. ASSUME NEW c \in Rooms, TypingStop(d, c)
      PROVE  TypistsAreConnected'
  <2>1. /\ typing'[c] = typing[c] \ {socket[d]}
        /\ \A e \in Rooms : e # c => typing'[e] = typing[e]
        /\ ghosts' = ghosts \ {<<c, socket[d]>>}
    BY <1>1, <1>7 DEF TypingStop, PresTypeOK
  <2>2. ASSUME NEW e \in Rooms, NEW v \in typing'[e]
        PROVE  HasSocket(v)' \/ <<e, v>> \in ghosts'
    <3>1. v \in typing[e] /\ v \in Members /\ <<e, v>> # <<c, socket[d]>>
      BY <1>5, <2>1
    <3>2. QED
      BY <1>1, <1>4, <2>1, <3>1 DEF TypistsAreConnected
  <2>3. QED
    BY <2>2 DEF TypistsAreConnected
<1>8. ASSUME TypingStart(d)
      PROVE  TypistsAreConnected'
  <2>1. PICK u \in Members, c \in Rooms : asking[d] = <<u, c>>
    BY <1>1, <1>8 DEF TypingStart, PresTypeOK
  <2>2. /\ typing'[c] = typing[c] \cup {u}
        /\ \A e \in Rooms : e # c => typing'[e] = typing[e]
        /\ ghosts' = IF Online(u) THEN ghosts ELSE ghosts \cup {<<c, u>>}
    BY <1>1, <1>8, <2>1 DEF TypingStart, PresTypeOK
  <2>3. HasSocket(u)' \/ <<c, u>> \in ghosts'
    BY <1>1, <1>4, <2>2, OnlineIsSocket
  <2>4. ASSUME NEW e \in Rooms, NEW v \in typing'[e]
        PROVE  HasSocket(v)' \/ <<e, v>> \in ghosts'
    <3>1. CASE v \in typing[e]
      <4>1. HasSocket(v) \/ <<e, v>> \in ghosts
        BY <1>1, <3>1 DEF TypistsAreConnected
      <4>2. QED
        BY <1>4, <1>5, <2>2, <3>1, <4>1
    <3>2. CASE v \notin typing[e]
      BY <2>2, <2>3, <2>4, <3>2
    <3>3. QED
      BY <3>1, <3>2
  <2>5. QED
    BY <2>4 DEF TypistsAreConnected
<1>9. QED
  BY <1>3, <1>6, <1>7, <1>8 DEF Parts

\* Every step keeps the invariant.
LEMMA PresStep == PresInv /\ [PresNext]_presVars => PresInv'
<1> SUFFICES ASSUME PresInv, [PresNext]_presVars PROVE PresInv'
  OBVIOUS
<1>1. PresTypeOK'
  BY PresTypeStep DEF PresInv
<1>2. Parts'
  <2>1. ASSUME NEW d \in Devices, NEW u \in Members, Connect(d, u) PROVE Parts'
    BY <2>1, ConnectStep
  <2>2. ASSUME NEW d \in Devices, Disconnect(d) PROVE Parts'
    BY <2>2, DisconnectStep
  <2>3. ASSUME NEW d \in Devices, SayOffline(d) \/ LastSeenFails(d) PROVE Parts'
    BY <2>3, LeftStep
  <2>4. ASSUME NEW d \in Devices,
               \/ \E c \in Rooms : TypingAsk(d, c) \/ TypingStop(d, c)
               \/ TypingStart(d)
        PROVE  Parts'
    BY <2>4, TypingStep
  <2>5. CASE UNCHANGED presVars
    <3>1. UNCHANGED <<socket, connected, typing, leaving, shown, crossed, unsaid, ghosts>>
      BY <2>5 DEF presVars
    <3>2. QED
      BY <3>1 DEF PresInv, Parts, MapIsTrue, LeavingIsOver, ShownIsTrue, TypistsAreConnected,
                  HasSocket, Leaving
  <2>6. QED
    BY <2>1, <2>2, <2>3, <2>4, <2>5 DEF PresNext
<1>3. QED
  BY <1>1, <1>2 DEF PresInv, Parts

\* Every behaviour satisfies the inductive invariant.
LEMMA PresInvariant == PresSpec => []PresInv
BY PresInitInv, PresStep, PTL DEF PresSpec

\* The maps of the gateway have their types.
THEOREM PresenceTypeCorrect == PresSpec => []PresTypeOK
<1>1. PresInv => PresTypeOK
  BY DEF PresInv
<1>2. QED
  BY PresInvariant, <1>1, PTL

\* What everybody was last told of a user is true of his sockets, on any number of
\* devices, but while his leaving is written, if he came back during it, or if its write
\* failed.
THEOREM ShownAgreesWithSockets == PresSpec => []ShownIsTrue
<1>1. PresInv => ShownIsTrue
  BY DEF PresInv
<1>2. QED
  BY PresInvariant, <1>1, PTL

\* Who types in a conversation has a socket, but for a typing_start that was answered
\* after the last one closed.
THEOREM TypingNeedsASocket == PresSpec => []TypistsAreConnected
<1>1. PresInv => TypistsAreConnected
  BY DEF PresInv
<1>2. QED
  BY PresInvariant, <1>1, PTL

-----------------------------------------------------------------------------
(* The day *)

\* The two components share no variable: what the day's clients see is a behaviour of the
\* one and of the other.
THEOREM DayIsBoth == DaySpec => Spec /\ PresSpec
<1>1. DayInit => Init /\ PresInit
  BY DEF DayInit
<1>2. [DayNext]_<<focus, vars, presVars>> => [Next]_vars /\ [PresNext]_presVars
  <2>1. SUFFICES ASSUME [DayNext]_<<focus, vars, presVars>>
                 PROVE  [Next]_vars /\ [PresNext]_presVars
    OBVIOUS
  <2>2. \/ Next /\ presVars' = presVars
        \/ PresNext /\ vars' = vars
        \/ vars' = vars /\ presVars' = presVars
    BY <2>1 DEF DayNext
  <2>3. QED
    BY <2>2
<1>3. QED
  BY <1>1, <1>2, PTL DEF DaySpec, Spec, PresSpec

\* So the types of both are kept.
THEOREM DayTypeCorrect == DaySpec => []DayTypeOK
<1>1. TypeOK /\ PresTypeOK => DayTypeOK
  BY DEF DayTypeOK
<1>2. QED
  BY <1>1, DayIsBoth, SlotsTypeCorrect, PresenceTypeCorrect, PTL
===============================================================================
