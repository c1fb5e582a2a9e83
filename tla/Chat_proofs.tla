----------------------------- MODULE Chat_proofs -----------------------------
(***************************************************************************)
(* Proofs about Chat, for any conversations, messages, users and calls.    *)
(***************************************************************************)
EXTENDS Chat, FiniteSetTheorems, WellFoundedInduction, TLAPS

-----------------------------------------------------------------------------
(* The inductive invariants *)

\* Conversation d and the document are of the same two, about the same booking.
Twin(d, doc) ==
  /\ conv[d].booking = doc.booking /\ doc.booking \in known
  /\ conv[d].customer = doc.customer /\ conv[d].barber = doc.barber

\* A conversation that is about to be inserted has a twin only if that was stored since
\* the check.
DraftsAreNew ==
  \A k \in Talks : talk[k].op = "insert" /\ ~ talk[k].draft.raced =>
    \A d \in Held : ~ Twin(d, talk[k].draft)

\* A message of the barber that is about to be stored meets a block only if that was
\* made since the check.
SendersAreFree ==
  \A k \in Talks : talk[k].op = "send" /\ talk[k].r = "barber" /\ ~ talk[k].raced =>
    ~ Parted(talk[k].c)

DuplicateInv == ChatTypeOK /\ DraftsAreNew /\ DuplicatesOnlyByRace
BlockInv == ChatTypeOK /\ SendersAreFree /\ BlockStopsBarber

-----------------------------------------------------------------------------
(* Documents and calls *)

\* A call that has nothing to do.
LEMMA NoTypes ==
  /\ NoConv \in ConvDoc /\ NoMessage \in MessageDoc /\ NoTalk \in Talk
  /\ NoTalk.op = "idle" /\ ~ NoTalk.raced /\ ~ NoConv.raced
  /\ ~ NoMessage.told /\ ~ NoMessage.slipped
<1>1. /\ NoConv \in ConvDoc /\ ~ NoConv.raced
  BY DEF NoConv, ConvDoc
<1>2. /\ NoMessage \in MessageDoc /\ ~ NoMessage.told /\ ~ NoMessage.slipped
  BY DEF NoMessage, MessageDoc, Roles
<1>3. /\ NoTalk \in Talk /\ NoTalk.op = "idle" /\ ~ NoTalk.raced
  BY <1>1 DEF NoTalk, Talk, TalkOps, Roles
<1>4. QED
  BY <1>1, <1>2, <1>3

\* The other calls stay as they are, call k is what it is given.
Only(k, new) ==
  /\ talk' \in [Talks -> Talk] /\ talk'[k] = new
  /\ \A j \in Talks : j # k => talk'[j] = talk[j]

\* Call k goes on to op with what it has, or is over.
GoesOn(k, op) ==
  /\ talk' \in [Talks -> Talk]
  /\ \A j \in Talks : j # k => talk'[j] = talk[j]
  /\ talk'[k].op = op
  /\ op # "idle" => /\ talk'[k].c = talk[k].c /\ talk'[k].m = talk[k].m
                    /\ talk'[k].r = talk[k].r

\* Start, Then and Finish do that.
LEMMA CallEffect ==
  ASSUME ChatTypeOK, NEW k \in Talks
  PROVE  /\ \A new \in Talk : Start(k, new) => Only(k, new) /\ talk[k].op = "idle"
         /\ \A op \in TalkOps : Then(k, op) => GoesOn(k, op)
         /\ Finish(k) => GoesOn(k, "idle")
<1>1. talk \in [Talks -> Talk]
  BY DEF ChatTypeOK
<1>2. ASSUME NEW new \in Talk, Start(k, new) PROVE Only(k, new) /\ talk[k].op = "idle"
  BY <1>1, <1>2, NoTypes DEF Start, Only
<1>3. ASSUME NEW op \in TalkOps, Then(k, op) PROVE GoesOn(k, op)
  <2>1. PICK new : new = [talk[k] EXCEPT !.op = op]
    OBVIOUS
  <2>2. /\ new \in Talk /\ new.op = op /\ new.c = talk[k].c /\ new.m = talk[k].m
        /\ new.r = talk[k].r
    BY <1>1, <2>1 DEF Talk
  <2>3. talk' = [talk EXCEPT ![k] = new]
    BY <1>3, <2>1 DEF Then
  <2>4. QED
    BY <1>1, <2>2, <2>3 DEF GoesOn
<1>4. ASSUME Finish(k) PROVE GoesOn(k, "idle")
  BY <1>1, <1>4, NoTypes DEF Finish, GoesOn
<1>5. QED
  BY <1>2, <1>3, <1>4

\* Conversations keep their two users, their booking and their deletion.
SameConvs ==
  /\ conv' \in [Convs -> ConvDoc] /\ Held' = Held
  /\ \A c \in Convs : /\ conv'[c].customer = conv[c].customer
                      /\ conv'[c].barber = conv[c].barber
                      /\ conv'[c].booking = conv[c].booking
                      /\ conv'[c].raced = conv[c].raced
                      /\ conv'[c].deleted = conv[c].deleted

\* Messages stay stored where they are; nobody undeletes one.
SameMessages ==
  /\ message' \in [Messages -> MessageDoc] /\ Sent' = Sent
  /\ \A m \in Messages : /\ message'[m].conv = message[m].conv
                         /\ message'[m].from = message[m].from
                         /\ message'[m].after = message[m].after
                         /\ message'[m].slipped = message[m].slipped
                         /\ message'[m].told = message[m].told
                         /\ message[m].deleted => message'[m].deleted

\* Where nothing is written.
LEMMA Unwritten ==
  ASSUME ChatTypeOK
  PROVE  (conv' = conv => SameConvs) /\ (message' = message => SameMessages)
BY DEF ChatTypeOK, SameConvs, SameMessages, Held, Sent

\* A conversation with other counts, or in or out of the archive.
LEMMA ConvUpdate ==
  ASSUME ChatTypeOK, NEW c \in Convs, NEW doc \in ConvDoc, conv' = [conv EXCEPT ![c] = doc],
         doc.stored = conv[c].stored, doc.customer = conv[c].customer,
         doc.barber = conv[c].barber, doc.booking = conv[c].booking,
         doc.raced = conv[c].raced, doc.deleted = conv[c].deleted
  PROVE  SameConvs
<1>1. /\ conv' \in [Convs -> ConvDoc] /\ conv'[c] = doc
      /\ \A d \in Convs : d # c => conv'[d] = conv[d]
  BY DEF ChatTypeOK
<1>2. ASSUME NEW d \in Convs
      PROVE  /\ conv'[d].stored = conv[d].stored /\ conv'[d].customer = conv[d].customer
             /\ conv'[d].barber = conv[d].barber /\ conv'[d].booking = conv[d].booking
             /\ conv'[d].raced = conv[d].raced /\ conv'[d].deleted = conv[d].deleted
  BY <1>1
<1>3. Held' = Held
  BY <1>2 DEF Held
<1>4. QED
  BY <1>1, <1>2, <1>3 DEF SameConvs

\* Messages that are read, deleted or no longer fresh.
LEMMA MessageUpdate ==
  ASSUME ChatTypeOK,
         NEW next \in [Messages -> MessageDoc], message' = next,
         \A m \in Messages : /\ next[m].stored = message[m].stored
                             /\ next[m].conv = message[m].conv
                             /\ next[m].from = message[m].from
                             /\ next[m].after = message[m].after
                             /\ next[m].slipped = message[m].slipped
                             /\ next[m].told = message[m].told
                             /\ message[m].deleted => next[m].deleted
  PROVE  SameMessages
<1>1. Sent' = Sent
  BY DEF Sent
<1>2. QED
  BY <1>1 DEF SameMessages

-----------------------------------------------------------------------------
(* What the steps do *)

\* A request has passed its check.
Asks(k) ==
  /\ talk[k].op = "idle" /\ Only(k, talk'[k])
  /\ UNCHANGED <<conv, message, blocks, broken, known>>
  /\ \/ /\ talk'[k].op = "insert"
        /\ talk'[k].draft.customer # None /\ talk'[k].draft.barber # None
        /\ \A d \in Held : ~ Twin(d, talk'[k].draft)
     \/ talk'[k].op \in {"delete", "mark"} /\ talk'[k].c \in Held
     \/ /\ talk'[k].op = "send" /\ talk'[k].c \in Held
        /\ talk'[k].r = "barber" => ~ Parted(talk'[k].c)

\* Conversation c is inserted; the other calls have not seen it.
Makes(k, c) ==
  /\ talk[k].op = "insert" /\ c \notin Held
  /\ conv' \in [Convs -> ConvDoc] /\ Held' = Held \cup {c}
  /\ \A d \in Convs : d # c => conv'[d] = conv[d]
  /\ conv'[c].customer = talk[k].draft.customer /\ conv'[c].barber = talk[k].draft.barber
  /\ conv'[c].booking = talk[k].draft.booking /\ conv'[c].raced = talk[k].draft.raced
  /\ talk' \in [Talks -> Talk] /\ talk'[k].op = "idle"
  /\ \A j \in Talks : j # k =>
       /\ talk'[j].op = talk[j].op /\ talk'[j].c = talk[j].c /\ talk'[j].m = talk[j].m
       /\ talk'[j].r = talk[j].r /\ talk'[j].raced = talk[j].raced
       /\ talk'[j].draft.customer = talk[j].draft.customer
       /\ talk'[j].draft.barber = talk[j].draft.barber
       /\ talk'[j].draft.booking = talk[j].draft.booking
       /\ talk[j].draft.raced => talk'[j].draft.raced
       /\ talk[j].op = "insert" /\ Twin(c, talk[j].draft)' => talk'[j].draft.raced
  /\ UNCHANGED <<message, blocks, broken, known>>

\* A write of an archive, of marks of readers or of one deleted message.
Touches ==
  /\ SameConvs /\ SameMessages /\ UNCHANGED <<blocks, broken, known>>
  /\ \/ talk' = talk
     \/ \E k \in Talks : talk[k].op = "mark" /\ GoesOn(k, "reset")
     \/ \E k \in Talks : talk[k].op = "reset" /\ GoesOn(k, "idle")

\* The conversation is deleted, and then its messages.
Deletes(k) ==
  /\ talk[k].op = "delete" /\ GoesOn(k, "sweep")
  /\ conv' \in [Convs -> ConvDoc] /\ Held' = Held
  /\ \A c \in Convs : /\ conv'[c].customer = conv[c].customer
                      /\ conv'[c].barber = conv[c].barber
                      /\ conv'[c].booking = conv[c].booking
                      /\ conv'[c].raced = conv[c].raced
                      /\ c # talk[k].c => conv'[c].deleted = conv[c].deleted
  /\ UNCHANGED <<message, blocks, broken, known>>

Sweeps(k) ==
  /\ talk[k].op = "sweep" /\ GoesOn(k, "idle")
  /\ SameMessages /\ \A m \in Of(talk[k].c) : message'[m].deleted
  /\ UNCHANGED <<conv, blocks, broken, known>>

\* Message m is committed, and then told.
Stores(k, m) ==
  /\ talk[k].op = "send" /\ m \notin Sent /\ SameConvs
  /\ message' \in [Messages -> MessageDoc] /\ Sent' = Sent \cup {m}
  /\ \A n \in Messages : n # m => message'[n] = message[n]
  /\ message'[m].conv = talk[k].c /\ message'[m].from = talk[k].r
  /\ message'[m].after = conv[talk[k].c].deleted /\ ~ message'[m].told
  /\ message'[m].slipped = (Parted(talk[k].c) /\ ~ talk[k].raced)
  /\ talk' \in [Talks -> Talk]
  /\ talk'[k].op = "tell" /\ talk'[k].m = m /\ talk'[k].c = talk[k].c
  /\ \A j \in Talks : j # k => talk'[j] = talk[j]
  /\ UNCHANGED <<blocks, broken, known>>

Tells(k) ==
  /\ talk[k].op = "tell" /\ GoesOn(k, "idle")
  /\ message' \in [Messages -> MessageDoc] /\ Sent' = Sent
  /\ \A n \in Messages : /\ message'[n].conv = message[n].conv
                         /\ message'[n].from = message[n].from
                         /\ message'[n].after = message[n].after
                         /\ message'[n].slipped = message[n].slipped
                         /\ message'[n].deleted = message[n].deleted
                         /\ n # talk[k].m => message'[n].told = message[n].told
  /\ message'[talk[k].m].told
  /\ UNCHANGED <<conv, blocks, broken, known>>

\* A block is made or removed; the calls that were checked before do not see it.
BlocksOrNot ==
  /\ UNCHANGED <<conv, message, broken, known>>
  /\ blocks' \subseteq (Customers \cup BarberUsers) \X (Customers \cup BarberUsers)
  /\ \/ talk' = talk /\ blocks' \subseteq blocks
     \/ /\ talk' \in [Talks -> Talk]
        /\ \A k \in Talks :
             /\ talk[k].op # "send" => talk'[k] = talk[k]
             /\ talk'[k].op = talk[k].op /\ talk'[k].c = talk[k].c
             /\ talk'[k].m = talk[k].m /\ talk'[k].r = talk[k].r
             /\ talk[k].op = "send" => talk'[k].raced

\* A call fails: what it has left half done is broken.
Fails(k) ==
  /\ talk[k].op # "idle" /\ GoesOn(k, "idle")
  /\ broken \subseteq broken' /\ broken' \subseteq Convs \cup Messages
  /\ talk[k].op = "tell" => talk[k].m \in broken'
  /\ talk[k].op = "sweep" => talk[k].c \in broken'
  /\ UNCHANGED <<conv, message, blocks, known>>

\* The document of a booking is deleted, or nothing happens.
Forgets == UNCHANGED <<conv, message, blocks, talk, broken>> /\ known' \subseteq known

\* The checks.
LEMMA AskSteps ==
  ASSUME ChatTypeOK, NEW k \in Talks,
         \/ \E u \in Customers, p \in Barbers, b \in Bookings \cup {None} :
              CreateConvCheck(k, u, p, b)
         \/ \E c \in Convs : DeleteLoad(k, c)
         \/ \E c \in Convs, r \in Roles : SendCheck(k, c, r) \/ ReadLoad(k, c, r)
  PROVE  Asks(k)
<1>1. ASSUME NEW u \in Customers, NEW p \in Barbers, NEW b \in Bookings \cup {None},
             CreateConvCheck(k, u, p, b)
      PROVE  Asks(k)
  <2>1. PICK doc : doc = [NoConv EXCEPT !.customer = u, !.barber = p, !.booking = b]
    OBVIOUS
  <2>2. doc \in ConvDoc /\ doc.customer = u /\ doc.barber = p /\ doc.booking = b
    BY <2>1, NoTypes DEF ConvDoc
  <2>3. PICK new : new = [NoTalk EXCEPT !.op = "insert", !.draft = doc]
    OBVIOUS
  <2>4. new \in Talk /\ new.op = "insert" /\ new.draft = doc
    BY <2>2, <2>3, NoTypes DEF Talk, TalkOps
  <2>5. /\ Start(k, new) /\ Existing(u, p, b) = {}
        /\ UNCHANGED <<conv, message, blocks, broken, known>>
    BY <1>1, <2>1, <2>3 DEF CreateConvCheck
  <2>6. Only(k, new) /\ talk[k].op = "idle"
    BY <2>4, <2>5, CallEffect
  <2>7. u # None /\ p # None
    BY ChatConstants
  <2>8. \A d \in Held : ~ Twin(d, doc)
    BY <2>2, <2>5 DEF Existing, Twin
  <2>9. talk'[k] = new
    BY <2>6 DEF Only
  <2>10. QED
    BY <2>2, <2>4, <2>5, <2>6, <2>7, <2>8, <2>9 DEF Asks
<1>2. ASSUME NEW c \in Convs, DeleteLoad(k, c) PROVE Asks(k)
  <2>1. PICK new : new = [NoTalk EXCEPT !.op = "delete", !.c = c, !.draft = conv[c]]
    OBVIOUS
  <2>2. new \in Talk /\ new.op = "delete" /\ new.c = c
    BY <2>1, NoTypes DEF Talk, TalkOps, ChatTypeOK
  <2>3. Start(k, new) /\ c \in Held /\ UNCHANGED <<conv, message, blocks, broken, known>>
    BY <1>2, <2>1 DEF DeleteLoad
  <2>4. Only(k, new) /\ talk[k].op = "idle"
    BY <2>2, <2>3, CallEffect
  <2>5. talk'[k] = new
    BY <2>4 DEF Only
  <2>6. QED
    BY <2>2, <2>3, <2>4, <2>5 DEF Asks
<1>3. ASSUME NEW c \in Convs, NEW r \in Roles, SendCheck(k, c, r) PROVE Asks(k)
  <2>1. PICK new : new = [NoTalk EXCEPT !.op = "send", !.c = c, !.r = r]
    OBVIOUS
  <2>2. new \in Talk /\ new.op = "send" /\ new.c = c /\ new.r = r
    BY <2>1, NoTypes DEF Talk, TalkOps
  <2>3. Start(k, new) /\ MaySend(c, r) /\ UNCHANGED <<conv, message, blocks, broken, known>>
    BY <1>3, <2>1 DEF SendCheck
  <2>4. Only(k, new) /\ talk[k].op = "idle"
    BY <2>2, <2>3, CallEffect
  <2>5. c \in Held /\ (r = "barber" => ~ Parted(c))
    BY <2>3 DEF MaySend, Parted, IsBlocked, UserId, OtherId
  <2>6. talk'[k] = new
    BY <2>4 DEF Only
  <2>7. QED
    BY <2>2, <2>3, <2>4, <2>5, <2>6 DEF Asks
<1>4. ASSUME NEW c \in Convs, NEW r \in Roles, ReadLoad(k, c, r) PROVE Asks(k)
  <2>1. PICK new : new = [NoTalk EXCEPT !.op = "mark", !.c = c, !.r = r]
    OBVIOUS
  <2>2. new \in Talk /\ new.op = "mark" /\ new.c = c
    BY <2>1, NoTypes DEF Talk, TalkOps
  <2>3. Start(k, new) /\ c \in Held /\ UNCHANGED <<conv, message, blocks, broken, known>>
    BY <1>4, <2>1 DEF ReadLoad
  <2>4. Only(k, new) /\ talk[k].op = "idle"
    BY <2>2, <2>3, CallEffect
  <2>5. talk'[k] = new
    BY <2>4 DEF Only
  <2>6. QED
    BY <2>2, <2>3, <2>4, <2>5 DEF Asks
<1>5. QED
  BY <1>1, <1>2, <1>3, <1>4

\* CreateConvInsert
LEMMA MakeEffect ==
  ASSUME ChatTypeOK, NEW k \in Talks, NEW c \in Convs, CreateConvInsert(k, c)
  PROVE  Makes(k, c)
<1> DEFINE doc == talk[k].draft
           same(d) == talk[d].op = "insert" /\ talk[d].draft.booking = doc.booking
                      /\ talk[d].draft.customer = doc.customer
                      /\ talk[d].draft.barber = doc.barber
           late(d) == [talk[d] EXCEPT !.draft.raced = TRUE]
<1>0. conv \in [Convs -> ConvDoc] /\ talk \in [Talks -> Talk]
  BY DEF ChatTypeOK
<1>1. /\ conv \in [Convs -> ConvDoc] /\ talk \in [Talks -> Talk]
      /\ talk[k].op = "insert" /\ c \notin Held /\ UNCHANGED <<message, blocks, broken, known>>
      /\ conv' = [conv EXCEPT ![c] = [doc EXCEPT !.stored = TRUE]]
      /\ talk' = [d \in Talks |-> IF d = k THEN NoTalk ELSE IF same(d) THEN late(d)
                                 ELSE talk[d]]
  BY <1>0 DEF CreateConvInsert
<1>2. PICK new : new = [doc EXCEPT !.stored = TRUE]
  OBVIOUS
<1>3. /\ new \in ConvDoc /\ new.stored /\ new.customer = doc.customer
      /\ new.barber = doc.barber /\ new.booking = doc.booking /\ new.raced = doc.raced
  <2>1. doc \in ConvDoc
    BY <1>0 DEF Talk
  <2>2. QED
    BY <1>2, <2>1 DEF ConvDoc
<1>4. /\ conv' \in [Convs -> ConvDoc] /\ conv'[c] = new
      /\ \A d \in Convs : d # c => conv'[d] = conv[d]
  BY <1>1, <1>2, <1>3
<1>5. Held' = Held \cup {c}
  BY <1>3, <1>4 DEF Held
<1>6. ASSUME NEW d \in Talks
      PROVE  /\ late(d) \in Talk /\ late(d).op = talk[d].op /\ late(d).c = talk[d].c
             /\ late(d).m = talk[d].m /\ late(d).r = talk[d].r
             /\ late(d).raced = talk[d].raced /\ late(d).draft.raced
             /\ late(d).draft.customer = talk[d].draft.customer
             /\ late(d).draft.barber = talk[d].draft.barber
             /\ late(d).draft.booking = talk[d].draft.booking
  <2>1. PICK t \in Talk : t = talk[d]
    BY <1>1
  <2>2. PICK f : f = [t.draft EXCEPT !.raced = TRUE]
    OBVIOUS
  <2>3. /\ f \in ConvDoc /\ f.raced /\ f.customer = t.draft.customer
        /\ f.barber = t.draft.barber /\ f.booking = t.draft.booking
    BY <2>2 DEF Talk, ConvDoc
  <2>4. late(d) = [t EXCEPT !.draft = f]
    BY <2>1, <2>2 DEF Talk, ConvDoc
  <2>5. QED
    BY <2>1, <2>3, <2>4 DEF Talk
<1> HIDE DEF late
<1>7. talk' \in [Talks -> Talk] /\ talk'[k].op = "idle"
  BY <1>1, <1>6, NoTypes
<1>8. ASSUME NEW j \in Talks, j # k
      PROVE  /\ talk'[j].op = talk[j].op /\ talk'[j].c = talk[j].c /\ talk'[j].m = talk[j].m
             /\ talk'[j].r = talk[j].r /\ talk'[j].raced = talk[j].raced
             /\ talk'[j].draft.customer = talk[j].draft.customer
             /\ talk'[j].draft.barber = talk[j].draft.barber
             /\ talk'[j].draft.booking = talk[j].draft.booking
             /\ talk[j].draft.raced => talk'[j].draft.raced
             /\ talk[j].op = "insert" /\ Twin(c, talk[j].draft)' => talk'[j].draft.raced
  <2>1. CASE same(j)
    <3>1. talk'[j] = late(j)
      BY <1>1, <1>8, <2>1
    <3>2. QED
      BY <1>6, <3>1
  <2>2. CASE ~ same(j)
    <3>1. talk'[j] = talk[j]
      BY <1>1, <1>8, <2>2
    <3>2. talk[j].op = "insert" => ~ Twin(c, talk[j].draft)'
      BY <1>3, <1>4, <2>2, <3>1 DEF Twin
    <3>3. QED
      BY <3>1, <3>2
  <2>3. QED
    BY <2>1, <2>2
<1>9. QED
  BY <1>1, <1>3, <1>4, <1>5, <1>7, <1>8 DEF Makes

\* DeleteSave and DeleteSweep
LEMMA DeleteEffect ==
  ASSUME ChatTypeOK, NEW k \in Talks
  PROVE  (DeleteSave(k) => Deletes(k)) /\ (DeleteSweep(k) => Sweeps(k))
<1>1. ASSUME DeleteSave(k) PROVE Deletes(k)
  <2>1. PICK c \in Convs : c = talk[k].c
    BY <1>1 DEF ChatTypeOK, DeleteSave, Held
  <2>2. PICK doc : doc = [conv[c] EXCEPT !.deleted = TRUE]
    OBVIOUS
  <2>3. conv[c] \in ConvDoc
    BY DEF ChatTypeOK
  <2>4. /\ doc \in ConvDoc /\ doc.stored = conv[c].stored
        /\ doc.customer = conv[c].customer /\ doc.barber = conv[c].barber
        /\ doc.booking = conv[c].booking /\ doc.raced = conv[c].raced
    BY <2>2, <2>3 DEF ConvDoc
  <2>5. /\ conv' = [conv EXCEPT ![c] = doc] /\ talk[k].op = "delete"
        /\ Then(k, "sweep") /\ UNCHANGED <<message, blocks, broken, known>>
    BY <1>1, <2>1, <2>2 DEF DeleteSave
  <2>6. /\ conv' \in [Convs -> ConvDoc] /\ conv'[c] = doc
        /\ \A d \in Convs : d # c => conv'[d] = conv[d]
    BY <2>4, <2>5 DEF ChatTypeOK
  <2>7. Held' = Held
    BY <2>4, <2>6 DEF Held
  <2>8. GoesOn(k, "sweep")
    BY <2>5, CallEffect DEF TalkOps
  <2>9. ASSUME NEW d \in Convs
        PROVE  /\ conv'[d].customer = conv[d].customer /\ conv'[d].barber = conv[d].barber
               /\ conv'[d].booking = conv[d].booking /\ conv'[d].raced = conv[d].raced
    BY <2>4, <2>6
  <2>10. QED
    BY <2>1, <2>5, <2>6, <2>7, <2>8, <2>9 DEF Deletes
<1>2. ASSUME DeleteSweep(k) PROVE Sweeps(k)
  <2> DEFINE gone(m) == [message[m] EXCEPT !.deleted = TRUE]
             next(m) == IF m \in Of(talk[k].c) THEN gone(m) ELSE message[m]
  <2>1. \A m \in Messages : message[m] \in MessageDoc
    BY DEF ChatTypeOK
  <2>2. \A m \in Messages :
          /\ gone(m) \in MessageDoc /\ gone(m).stored = message[m].stored /\ gone(m).deleted
          /\ gone(m).conv = message[m].conv /\ gone(m).from = message[m].from
          /\ gone(m).after = message[m].after /\ gone(m).slipped = message[m].slipped
          /\ gone(m).told = message[m].told
    BY <2>1 DEF MessageDoc
  <2>3. /\ message' = [m \in Messages |-> next(m)] /\ talk[k].op = "sweep"
        /\ Finish(k) /\ UNCHANGED <<conv, blocks, broken, known>>
    BY <1>2 DEF DeleteSweep
  <2> HIDE DEF gone
  <2>4. \A m \in Messages :
          /\ next(m) \in MessageDoc /\ next(m).stored = message[m].stored
          /\ next(m).conv = message[m].conv /\ next(m).from = message[m].from
          /\ next(m).after = message[m].after /\ next(m).slipped = message[m].slipped
          /\ next(m).told = message[m].told /\ (message[m].deleted => next(m).deleted)
    BY <2>1, <2>2
  <2>5. \A m \in Of(talk[k].c) : m \in Messages /\ next(m).deleted
    BY <2>2 DEF Of, Sent
  <2> HIDE DEF next
  <2>6. PICK f \in [Messages -> MessageDoc] : f = [m \in Messages |-> next(m)]
    BY <2>4
  <2>7. SameMessages
    BY <2>3, <2>4, <2>6, MessageUpdate
  <2>8. GoesOn(k, "idle")
    BY <2>3, CallEffect
  <2>9. QED
    BY <2>3, <2>5, <2>7, <2>8 DEF Sweeps
<1>3. QED
  BY <1>1, <1>2

\* Archive, DeleteMessage, ReadMark and ReadReset
LEMMA TouchSteps ==
  ASSUME ChatTypeOK,
         \/ \E c \in Convs, archived \in BOOLEAN : Archive(c, archived)
         \/ \E m \in Messages, r \in Roles : DeleteMessage(m, r)
         \/ \E k \in Talks : ReadMark(k) \/ ReadReset(k)
  PROVE  Touches
<1>0. /\ \A c \in Convs : conv[c] \in ConvDoc
      /\ \A m \in Messages : message[m] \in MessageDoc
  BY DEF ChatTypeOK
<1>1. ASSUME NEW c \in Convs, NEW archived \in BOOLEAN, Archive(c, archived) PROVE Touches
  <2>1. PICK doc : doc = [conv[c] EXCEPT !.archived = archived]
    OBVIOUS
  <2>2. /\ doc \in ConvDoc /\ doc.stored = conv[c].stored
        /\ doc.customer = conv[c].customer /\ doc.barber = conv[c].barber
        /\ doc.booking = conv[c].booking /\ doc.raced = conv[c].raced
        /\ doc.deleted = conv[c].deleted
    BY <1>0, <2>1 DEF ConvDoc
  <2>3. conv' = [conv EXCEPT ![c] = doc] /\ UNCHANGED <<message, blocks, talk, broken, known>>
    BY <1>1, <2>1 DEF Archive
  <2>4. SameConvs
    BY <2>2, <2>3, ConvUpdate
  <2>5. QED
    BY <2>3, <2>4, Unwritten DEF Touches
<1>2. ASSUME NEW m \in Messages, NEW r \in Roles, DeleteMessage(m, r) PROVE Touches
  <2>1. PICK doc : doc = [message[m] EXCEPT !.deleted = TRUE]
    OBVIOUS
  <2>2. /\ doc \in MessageDoc /\ doc.stored = message[m].stored /\ doc.deleted
        /\ doc.conv = message[m].conv /\ doc.from = message[m].from
        /\ doc.after = message[m].after /\ doc.slipped = message[m].slipped
        /\ doc.told = message[m].told
    BY <1>0, <2>1 DEF MessageDoc
  <2>3. /\ message' = [message EXCEPT ![m] = doc] /\ UNCHANGED <<conv, blocks, talk, broken, known>>
    BY <1>2, <2>1 DEF DeleteMessage
  <2>4. PICK f \in [Messages -> MessageDoc] : f = [message EXCEPT ![m] = doc]
    BY <2>2 DEF ChatTypeOK
  <2>5. f[m] = doc /\ \A n \in Messages : n # m => f[n] = message[n]
    BY <2>4 DEF ChatTypeOK
  <2>6. ASSUME NEW n \in Messages
        PROVE  /\ f[n].stored = message[n].stored /\ f[n].conv = message[n].conv
               /\ f[n].from = message[n].from /\ f[n].after = message[n].after
               /\ f[n].slipped = message[n].slipped /\ f[n].told = message[n].told
               /\ message[n].deleted => f[n].deleted
    BY <2>2, <2>5
  <2>7. SameMessages
    BY <2>3, <2>4, <2>6, MessageUpdate
  <2>8. QED
    BY <2>3, <2>7, Unwritten DEF Touches
<1>3. ASSUME NEW k \in Talks, ReadMark(k) PROVE Touches
  <2> DEFINE mine == {m \in Of(talk[k].c) : ToUserId(m) = UserId(talk[k].c, talk[k].r)}
             seen(m) == [message[m] EXCEPT !.read = TRUE]
             next(m) == IF m \in mine THEN seen(m) ELSE message[m]
  <2>1. \A m \in Messages :
          /\ seen(m) \in MessageDoc /\ seen(m).stored = message[m].stored
          /\ seen(m).conv = message[m].conv /\ seen(m).from = message[m].from
          /\ seen(m).after = message[m].after /\ seen(m).slipped = message[m].slipped
          /\ seen(m).told = message[m].told /\ seen(m).deleted = message[m].deleted
    BY <1>0 DEF MessageDoc
  <2>2. /\ message' = [m \in Messages |-> next(m)] /\ talk[k].op = "mark"
        /\ Then(k, "reset") /\ UNCHANGED <<conv, blocks, broken, known>>
    BY <1>3 DEF ReadMark
  <2> HIDE DEF seen, mine
  <2>3. \A m \in Messages :
          /\ next(m) \in MessageDoc /\ next(m).stored = message[m].stored
          /\ next(m).conv = message[m].conv /\ next(m).from = message[m].from
          /\ next(m).after = message[m].after /\ next(m).slipped = message[m].slipped
          /\ next(m).told = message[m].told /\ (message[m].deleted => next(m).deleted)
    BY <1>0, <2>1
  <2> HIDE DEF next
  <2>4. PICK f \in [Messages -> MessageDoc] : f = [m \in Messages |-> next(m)]
    BY <2>3
  <2>5. SameMessages
    BY <2>2, <2>3, <2>4, MessageUpdate
  <2>6. GoesOn(k, "reset")
    BY <2>2, CallEffect DEF TalkOps
  <2>7. QED
    BY <2>2, <2>5, <2>6, Unwritten DEF Touches
<1>4. ASSUME NEW k \in Talks, ReadReset(k) PROVE Touches
  <2>1. PICK c \in Convs : c = talk[k].c
    BY <1>4 DEF ChatTypeOK, ReadReset, Held
  <2>2. PICK r \in Roles : r = talk[k].r
    BY DEF ChatTypeOK, Talk
  <2>3. PICK counts \in [Roles -> Nat] : counts = [conv[c].unread EXCEPT ![r] = 0]
    BY <1>0 DEF ConvDoc
  <2>4. PICK doc : doc = [conv[c] EXCEPT !.unread = counts]
    OBVIOUS
  <2>5. /\ doc \in ConvDoc /\ doc.stored = conv[c].stored
        /\ doc.customer = conv[c].customer /\ doc.barber = conv[c].barber
        /\ doc.booking = conv[c].booking /\ doc.raced = conv[c].raced
        /\ doc.deleted = conv[c].deleted
    BY <1>0, <2>4 DEF ConvDoc
  <2> DEFINE mine == {m \in Of(c) : message[m].from = r}
             old(m) == [message[m] EXCEPT !.fresh = FALSE]
             next(m) == IF m \in mine THEN old(m) ELSE message[m]
  <2>6. \A m \in Messages :
          /\ old(m) \in MessageDoc /\ old(m).stored = message[m].stored
          /\ old(m).conv = message[m].conv /\ old(m).from = message[m].from
          /\ old(m).after = message[m].after /\ old(m).slipped = message[m].slipped
          /\ old(m).told = message[m].told /\ old(m).deleted = message[m].deleted
    BY <1>0 DEF MessageDoc
  <2>7. /\ message' = [m \in Messages |-> next(m)] /\ talk[k].op = "reset"
        /\ Finish(k) /\ UNCHANGED <<blocks, broken, known>>
    BY <1>4, <2>1, <2>2 DEF ReadReset
  <2>8. conv' = [conv EXCEPT ![c] = doc]
    BY <1>4, <2>1, <2>2, <2>3, <2>4 DEF ReadReset
  <2> HIDE DEF old, mine
  <2>9. \A m \in Messages :
          /\ next(m) \in MessageDoc /\ next(m).stored = message[m].stored
          /\ next(m).conv = message[m].conv /\ next(m).from = message[m].from
          /\ next(m).after = message[m].after /\ next(m).slipped = message[m].slipped
          /\ next(m).told = message[m].told /\ (message[m].deleted => next(m).deleted)
    BY <1>0, <2>6
  <2> HIDE DEF next
  <2>10. PICK f \in [Messages -> MessageDoc] : f = [m \in Messages |-> next(m)]
    BY <2>9
  <2>11. SameMessages
    BY <2>7, <2>9, <2>10, MessageUpdate
  <2>12. SameConvs
    BY <2>5, <2>8, ConvUpdate
  <2>13. GoesOn(k, "idle")
    BY <2>7, CallEffect
  <2>14. QED
    BY <2>7, <2>11, <2>12, <2>13 DEF Touches
<1>5. QED
  BY <1>1, <1>2, <1>3, <1>4

\* SendStore
LEMMA StoreEffect ==
  ASSUME ChatTypeOK, NEW k \in Talks, NEW m \in Messages, SendStore(k, m)
  PROVE  Stores(k, m)
<1>1. talk[k].op = "send" /\ m \notin Sent /\ UNCHANGED <<blocks, broken, known>>
  BY DEF SendStore
<1>2. PICK c \in Convs : c = talk[k].c
  BY <1>1 DEF ChatTypeOK, Held
<1>3. PICK r \in Roles : r = talk[k].r
  BY DEF ChatTypeOK, Talk
<1>4. conv[c] \in ConvDoc
  BY DEF ChatTypeOK
<1>5. conv[c].deleted \in BOOLEAN /\ talk[k].raced \in BOOLEAN
  BY <1>4 DEF ChatTypeOK, ConvDoc, Talk
<1>6. PICK slipped \in BOOLEAN : slipped = (Parted(c) /\ ~ talk[k].raced)
  BY <1>5 DEF Parted, IsBlocked
<1>7. PICK after \in BOOLEAN : after = conv[c].deleted
  BY <1>5
<1>8. PICK doc : doc = [NoMessage EXCEPT !.stored = TRUE, !.conv = c, !.from = r,
                          !.fresh = TRUE, !.after = after, !.slipped = slipped]
  OBVIOUS
<1>9. /\ doc \in MessageDoc /\ doc.stored /\ doc.conv = c /\ doc.from = r
      /\ doc.after = after /\ doc.slipped = slipped /\ doc.told = NoMessage.told
  BY <1>8, NoTypes DEF MessageDoc
<1>10. message' = [message EXCEPT ![m] = doc]
  BY <1>2, <1>3, <1>6, <1>7, <1>8 DEF SendStore
<1>11. /\ message' \in [Messages -> MessageDoc] /\ message'[m] = doc
       /\ \A n \in Messages : n # m => message'[n] = message[n]
  BY <1>9, <1>10 DEF ChatTypeOK
<1>12. Sent' = Sent \cup {m}
  BY <1>9, <1>11 DEF Sent
<1>13. SameConvs
  <2>1. PICK counts \in [Roles -> Nat] :
               counts = [conv[c].unread EXCEPT ![r] = conv[c].unread[r] + 1]
    <3>1. conv[c].unread \in [Roles -> Nat]
      BY <1>4 DEF ConvDoc
    <3>2. conv[c].unread[r] + 1 \in Nat
      BY <3>1
    <3>3. QED
      BY <3>1, <3>2
  <2>2. PICK new : new = [conv[c] EXCEPT !.unread = counts]
    OBVIOUS
  <2>3. /\ new \in ConvDoc /\ new.stored = conv[c].stored
        /\ new.customer = conv[c].customer /\ new.barber = conv[c].barber
        /\ new.booking = conv[c].booking /\ new.raced = conv[c].raced
        /\ new.deleted = conv[c].deleted
    BY <1>4, <2>2 DEF ConvDoc
  <2>4. conv' = [conv EXCEPT ![c] = new]
    BY <1>2, <1>3, <2>1, <2>2 DEF SendStore
  <2>5. QED
    BY <2>3, <2>4, ConvUpdate
<1>14. PICK t : t = [talk[k] EXCEPT !.op = "tell", !.m = m]
  OBVIOUS
<1>15. t \in Talk /\ t.op = "tell" /\ t.m = m /\ t.c = talk[k].c
  BY <1>14 DEF ChatTypeOK, Talk, TalkOps
<1>16. talk' = [talk EXCEPT ![k] = t]
  BY <1>14 DEF SendStore
<1>17. /\ talk' \in [Talks -> Talk] /\ talk'[k] = t
       /\ \A j \in Talks : j # k => talk'[j] = talk[j]
  BY <1>15, <1>16 DEF ChatTypeOK
<1>18. ~ doc.told
  BY <1>9, NoTypes
<1>19. /\ message'[m].conv = talk[k].c /\ message'[m].from = talk[k].r
       /\ message'[m].after = conv[talk[k].c].deleted /\ ~ message'[m].told
       /\ message'[m].slipped = (Parted(talk[k].c) /\ ~ talk[k].raced)
  BY <1>2, <1>3, <1>6, <1>7, <1>9, <1>11, <1>18
<1>20. QED
  BY <1>1, <1>11, <1>12, <1>13, <1>15, <1>17, <1>19 DEF Stores

\* SendTell
LEMMA TellEffect ==
  ASSUME ChatTypeOK, NEW k \in Talks, SendTell(k)
  PROVE  Tells(k)
<1>1. PICK m \in Messages : m = talk[k].m
  BY DEF ChatTypeOK, SendTell, Sent
<1>2. PICK doc : doc = [message[m] EXCEPT !.told = TRUE]
  OBVIOUS
<1>3. message[m] \in MessageDoc
  BY DEF ChatTypeOK
<1>4. /\ doc \in MessageDoc /\ doc.stored = message[m].stored /\ doc.told
      /\ doc.conv = message[m].conv /\ doc.from = message[m].from
      /\ doc.after = message[m].after /\ doc.slipped = message[m].slipped
      /\ doc.deleted = message[m].deleted
  BY <1>2, <1>3 DEF MessageDoc
<1>5. /\ message' = [message EXCEPT ![m] = doc] /\ talk[k].op = "tell"
      /\ Finish(k) /\ UNCHANGED <<conv, blocks, broken, known>>
  BY <1>1, <1>2 DEF SendTell
<1>6. /\ message' \in [Messages -> MessageDoc] /\ message'[m] = doc
      /\ \A n \in Messages : n # m => message'[n] = message[n]
  BY <1>4, <1>5 DEF ChatTypeOK
<1>7. Sent' = Sent
  BY <1>4, <1>6 DEF Sent
<1>8. GoesOn(k, "idle")
  BY <1>5, CallEffect
<1>9. ASSUME NEW n \in Messages
      PROVE  /\ message'[n].conv = message[n].conv /\ message'[n].from = message[n].from
             /\ message'[n].after = message[n].after
             /\ message'[n].slipped = message[n].slipped
             /\ message'[n].deleted = message[n].deleted
  BY <1>4, <1>6
<1>10. QED
  BY <1>1, <1>4, <1>5, <1>6, <1>7, <1>8, <1>9 DEF Tells

\* BlockUser and UnblockUser
LEMMA BlockEffect ==
  ASSUME ChatTypeOK, NEW u \in Blockers, NEW v \in Customers \cup BarberUsers,
         BlockUser(u, v) \/ UnblockUser(u, v)
  PROVE  BlocksOrNot
<1>1. <<u, v>> \in (Customers \cup BarberUsers) \X (Customers \cup BarberUsers)
  BY ChatConstants
<1>2. ASSUME UnblockUser(u, v) PROVE BlocksOrNot
  BY <1>2 DEF UnblockUser, BlocksOrNot, ChatTypeOK
<1>3. ASSUME BlockUser(u, v) PROVE BlocksOrNot
  <2> DEFINE late(k) == [talk[k] EXCEPT !.raced = TRUE]
  <2>1. \A k \in Talks :
          /\ talk[k] \in Talk /\ late(k) \in Talk /\ late(k).op = talk[k].op
          /\ late(k).c = talk[k].c /\ late(k).m = talk[k].m /\ late(k).r = talk[k].r
          /\ late(k).raced
    BY DEF ChatTypeOK, Talk
  <2>2. /\ UNCHANGED <<conv, message, broken, known>>
        /\ blocks' = blocks \cup {<<u, v>>}
        /\ talk' = [k \in Talks |-> IF talk[k].op = "send" THEN late(k) ELSE talk[k]]
    BY <1>3 DEF BlockUser
  <2> HIDE DEF late
  <2>3. talk' \in [Talks -> Talk]
    BY <2>1, <2>2
  <2>4. \A k \in Talks :
          /\ talk[k].op # "send" => talk'[k] = talk[k]
          /\ talk'[k].op = talk[k].op /\ talk'[k].c = talk[k].c
          /\ talk'[k].m = talk[k].m /\ talk'[k].r = talk[k].r
          /\ talk[k].op = "send" => talk'[k].raced
    BY <2>1, <2>2
  <2>5. blocks' \subseteq (Customers \cup BarberUsers) \X (Customers \cup BarberUsers)
    BY <1>1, <2>2 DEF ChatTypeOK
  <2>6. QED
    BY <2>2, <2>3, <2>4, <2>5 DEF BlocksOrNot
<1>4. QED
  BY <1>2, <1>3

\* TalkFails
LEMMA FailEffect ==
  ASSUME ChatTypeOK, NEW k \in Talks, TalkFails(k)
  PROVE  Fails(k)
<1> DEFINE half == CASE talk[k].op = "tell"  -> {talk[k].m}
                     [] talk[k].op = "sweep" -> {talk[k].c}
                     [] OTHER -> {}
<1>1. /\ talk[k].op # "idle" /\ broken' = broken \cup half /\ Finish(k)
      /\ UNCHANGED <<conv, message, blocks, known>>
  BY DEF TalkFails
<1>2. /\ talk[k].op = "tell" => half = {talk[k].m}
      /\ talk[k].op = "sweep" => half = {talk[k].c}
      /\ talk[k].op \notin {"tell", "sweep"} => half = {}
  OBVIOUS
<1>3. /\ talk[k].op = "tell" => talk[k].m \in Messages
      /\ talk[k].op = "sweep" => talk[k].c \in Convs
  BY DEF ChatTypeOK, Sent, Held
<1> HIDE DEF half
<1>4. half \subseteq Convs \cup Messages
  BY <1>2, <1>3
<1>5. broken \subseteq Convs \cup Messages
  BY DEF ChatTypeOK
<1>6. GoesOn(k, "idle")
  BY <1>1, CallEffect
<1>7. QED
  BY <1>1, <1>2, <1>4, <1>5, <1>6 DEF Fails

\* A step is one of these.
LEMMA ChatSteps ==
  ASSUME ChatTypeOK, [ChatNext]_chatVars
  PROVE  \/ \E k \in Talks : Asks(k) \/ Deletes(k) \/ Sweeps(k) \/ Tells(k) \/ Fails(k)
         \/ \E k \in Talks, c \in Convs : Makes(k, c)
         \/ \E k \in Talks, m \in Messages : Stores(k, m)
         \/ Touches \/ BlocksOrNot \/ Forgets
<1>1. ASSUME ConversationSteps
      PROVE  \/ \E k \in Talks : Asks(k) \/ Deletes(k) \/ Sweeps(k)
             \/ \E k \in Talks, c \in Convs : Makes(k, c)
             \/ Touches \/ Forgets
  <2>1. ASSUME NEW b \in Bookings, BookingGone(b) PROVE Forgets
    BY <2>1 DEF BookingGone, Forgets
  <2>2. QED
    BY <1>1, <2>1, AskSteps, MakeEffect, DeleteEffect, TouchSteps DEF ConversationSteps
<1>2. ASSUME MessageSteps
      PROVE  \/ \E k \in Talks : Asks(k) \/ Tells(k) \/ Fails(k)
             \/ \E k \in Talks, m \in Messages : Stores(k, m)
             \/ Touches
  BY <1>2, AskSteps, StoreEffect, TellEffect, FailEffect, TouchSteps DEF MessageSteps
<1>3. ASSUME BlockSteps PROVE BlocksOrNot
  BY <1>3, BlockEffect DEF BlockSteps
<1>4. ASSUME UNCHANGED chatVars PROVE Forgets
  BY <1>4 DEF chatVars, Forgets
<1>5. QED
  BY <1>1, <1>2, <1>3, <1>4 DEF ChatNext

-----------------------------------------------------------------------------
(* The invariants hold at first and are kept *)

\* The parts of the type invariant that relate documents and calls.
HeldAreNamed == \A c \in Held : conv[c].customer # None /\ conv[c].barber # None
SentAreHeld == \A m \in Sent : message[m].conv \in Held
CallsHold ==
  \A k \in Talks :
    /\ talk[k].op = "insert" => talk[k].draft.customer # None /\ talk[k].draft.barber # None
    /\ talk[k].op \notin {"idle", "insert"} => talk[k].c \in Held
    /\ talk[k].op = "tell" => talk[k].m \in Sent

\* The documents, the calls and the pairs are of their types.
ChatTyped ==
  /\ conv \in [Convs -> ConvDoc] /\ message \in [Messages -> MessageDoc]
  /\ talk \in [Talks -> Talk]
  /\ blocks \subseteq (Customers \cup BarberUsers) \X (Customers \cup BarberUsers)
  /\ broken \subseteq Convs \cup Messages
  /\ known \subseteq Bookings

\* ChatTypeOK is their conjunction.
LEMMA Parts == ChatTypeOK <=> ChatTyped /\ HeldAreNamed /\ SentAreHeld /\ CallsHold
BY DEF ChatTypeOK, ChatTyped, HeldAreNamed, SentAreHeld, CallsHold

\* The invariants hold where nothing is stored.
LEMMA ChatInitInv ==
  ASSUME ChatInit
  PROVE  DuplicateInv /\ BlockInv /\ ToldAreTheSent /\ DeletedIsSwept
<1>1. /\ Held = {} /\ Sent = {} /\ \A k \in Talks : talk[k].op = "idle"
  BY NoTypes DEF ChatInit, Held, Sent, NoConv, NoMessage
<1>2. ChatTyped
  BY NoTypes DEF ChatInit, ChatTyped
<1>3. ChatTypeOK
  BY <1>1, <1>2, Parts DEF HeldAreNamed, SentAreHeld, CallsHold
<1>4. \A m \in Messages : ~ message[m].told
  BY NoTypes DEF ChatInit
<1>5. QED
  BY <1>1, <1>3, <1>4
     DEF DuplicateInv, BlockInv, DraftsAreNew, DuplicatesOnlyByRace, SendersAreFree,
         BlockStopsBarber, ToldAreTheSent, DeletedIsSwept

\* A call that goes on or is over keeps what the calls have found.
LEMMA GoingOn ==
  ASSUME CallsHold, NEW k \in Talks, NEW op \in {"sweep", "reset", "idle"}, GoesOn(k, op),
         op # "idle" => talk[k].op \notin {"idle", "insert"}, Held' = Held, Sent' = Sent
  PROVE  CallsHold'
<1> SUFFICES ASSUME NEW j \in Talks
             PROVE  /\ talk'[j].op = "insert" => /\ talk'[j].draft.customer # None
                                                /\ talk'[j].draft.barber # None
                    /\ talk'[j].op \notin {"idle", "insert"} => talk'[j].c \in Held
                    /\ talk'[j].op = "tell" => talk'[j].m \in Sent
  BY DEF CallsHold
<1>1. CASE j = k
  BY <1>1 DEF CallsHold, GoesOn
<1>2. CASE j # k
  BY <1>2 DEF CallsHold, GoesOn
<1>3. QED
  BY <1>1, <1>2

\* A step keeps the types.
LEMMA ChatTypeStep ==
  ASSUME ChatTypeOK, [ChatNext]_chatVars
  PROVE  ChatTypeOK'
<1>0. ChatTyped /\ HeldAreNamed /\ SentAreHeld /\ CallsHold
  BY Parts
<1> SUFFICES ChatTyped' /\ HeldAreNamed' /\ SentAreHeld' /\ CallsHold'
  BY DEF ChatTypeOK, ChatTyped, HeldAreNamed, SentAreHeld, CallsHold
<1> DEFINE Goal == ChatTyped' /\ HeldAreNamed' /\ SentAreHeld' /\ CallsHold'
<1>1. ASSUME NEW k \in Talks, Asks(k) PROVE Goal
  <2>1. ChatTyped' /\ Held' = Held /\ Sent' = Sent
    BY <1>0, <1>1 DEF Asks, Only, ChatTyped, Held, Sent
  <2>2. HeldAreNamed' /\ SentAreHeld'
    BY <1>0, <1>1, <2>1 DEF Asks, HeldAreNamed, SentAreHeld
  <2>3. CallsHold'
    <3>1. \A j \in Talks : j # k => talk'[j] = talk[j]
      BY <1>1 DEF Asks, Only
    <3>2. /\ talk'[k].op = "insert" => /\ talk'[k].draft.customer # None
                                      /\ talk'[k].draft.barber # None
          /\ talk'[k].op \notin {"idle", "insert"} => talk'[k].c \in Held
          /\ talk'[k].op # "tell"
      BY <1>1 DEF Asks
    <3>3. QED
      BY <1>0, <2>1, <3>1, <3>2 DEF CallsHold
  <2>4. QED
    BY <2>1, <2>2, <2>3
<1>2. ASSUME NEW k \in Talks, Deletes(k) PROVE Goal
  <2>1. ChatTyped' /\ Held' = Held /\ Sent' = Sent
    BY <1>0, <1>2 DEF Deletes, GoesOn, ChatTyped, Sent
  <2>2. HeldAreNamed' /\ SentAreHeld'
    BY <1>0, <1>2, <2>1 DEF Deletes, HeldAreNamed, SentAreHeld, Held
  <2>3. CallsHold'
    BY <1>0, <1>2, <2>1, GoingOn DEF Deletes
  <2>4. QED
    BY <2>1, <2>2, <2>3
<1>3. ASSUME NEW k \in Talks, Sweeps(k) PROVE Goal
  <2>1. ChatTyped' /\ Held' = Held /\ Sent' = Sent
    BY <1>0, <1>3 DEF Sweeps, GoesOn, SameMessages, ChatTyped, Held
  <2>2. HeldAreNamed' /\ SentAreHeld'
    BY <1>0, <1>3, <2>1 DEF Sweeps, SameMessages, HeldAreNamed, SentAreHeld, Sent
  <2>3. CallsHold'
    BY <1>0, <1>3, <2>1, GoingOn DEF Sweeps
  <2>4. QED
    BY <2>1, <2>2, <2>3
<1>4. ASSUME NEW k \in Talks, Tells(k) PROVE Goal
  <2>1. ChatTyped' /\ Held' = Held /\ Sent' = Sent
    BY <1>0, <1>4 DEF Tells, GoesOn, ChatTyped, Held
  <2>2. HeldAreNamed' /\ SentAreHeld'
    BY <1>0, <1>4, <2>1 DEF Tells, HeldAreNamed, SentAreHeld, Sent
  <2>3. CallsHold'
    BY <1>0, <1>4, <2>1, GoingOn DEF Tells
  <2>4. QED
    BY <2>1, <2>2, <2>3
<1>5. ASSUME NEW k \in Talks, Fails(k) PROVE Goal
  <2>1. ChatTyped' /\ Held' = Held /\ Sent' = Sent
    BY <1>0, <1>5 DEF Fails, GoesOn, ChatTyped, Held, Sent
  <2>2. HeldAreNamed' /\ SentAreHeld'
    BY <1>0, <1>5, <2>1 DEF Fails, HeldAreNamed, SentAreHeld
  <2>3. CallsHold'
    BY <1>0, <1>5, <2>1, GoingOn DEF Fails
  <2>4. QED
    BY <2>1, <2>2, <2>3
<1>6. ASSUME NEW k \in Talks, NEW c \in Convs, Makes(k, c) PROVE Goal
  <2>1. ChatTyped' /\ Held' = Held \cup {c} /\ Sent' = Sent
    BY <1>0, <1>6 DEF Makes, ChatTyped, Sent
  <2>2. HeldAreNamed'
    <3>1. conv'[c].customer # None /\ conv'[c].barber # None
      BY <1>0, <1>6 DEF Makes, CallsHold
    <3>2. \A d \in Held : conv'[d] = conv[d]
      BY <1>6 DEF Makes, Held
    <3>3. QED
      BY <1>0, <2>1, <3>1, <3>2 DEF HeldAreNamed
  <2>3. SentAreHeld'
    BY <1>0, <1>6, <2>1 DEF Makes, SentAreHeld
  <2>4. CallsHold'
    <3>1. \A j \in Talks : j # k =>
            /\ talk'[j].op = talk[j].op /\ talk'[j].c = talk[j].c /\ talk'[j].m = talk[j].m
            /\ talk'[j].draft.customer = talk[j].draft.customer
            /\ talk'[j].draft.barber = talk[j].draft.barber
      BY <1>6 DEF Makes
    <3>2. talk'[k].op = "idle"
      BY <1>6 DEF Makes
    <3>3. QED
      BY <1>0, <2>1, <3>1, <3>2 DEF CallsHold
  <2>5. QED
    BY <2>1, <2>2, <2>3, <2>4
<1>7. ASSUME NEW k \in Talks, NEW m \in Messages, Stores(k, m) PROVE Goal
  <2>1. ChatTyped' /\ Held' = Held /\ Sent' = Sent \cup {m}
    BY <1>0, <1>7 DEF Stores, SameConvs, ChatTyped
  <2>2. HeldAreNamed'
    BY <1>0, <1>7, <2>1 DEF Stores, SameConvs, HeldAreNamed, Held
  <2>3. talk[k].c \in Held
    BY <1>0, <1>7 DEF Stores, CallsHold
  <2>4. SentAreHeld'
    <3>1. \A n \in Sent : message'[n] = message[n]
      BY <1>7 DEF Stores, Sent
    <3>2. message'[m].conv = talk[k].c
      BY <1>7 DEF Stores
    <3>3. QED
      BY <1>0, <2>1, <2>3, <3>1, <3>2 DEF SentAreHeld
  <2>5. CallsHold'
    <3>1. \A j \in Talks : j # k => talk'[j] = talk[j]
      BY <1>7 DEF Stores
    <3>2. talk'[k].op = "tell" /\ talk'[k].m = m /\ talk'[k].c = talk[k].c
      BY <1>7 DEF Stores
    <3>3. QED
      BY <1>0, <2>1, <2>3, <3>1, <3>2 DEF CallsHold
  <2>6. QED
    BY <2>1, <2>2, <2>4, <2>5
<1>8. ASSUME Touches PROVE Goal
  <2>1. ChatTyped' /\ Held' = Held /\ Sent' = Sent
    BY <1>0, <1>8 DEF Touches, SameConvs, SameMessages, GoesOn, ChatTyped
  <2>2. HeldAreNamed'
    BY <1>0, <1>8, <2>1 DEF Touches, SameConvs, HeldAreNamed, Held
  <2>3. SentAreHeld'
    BY <1>0, <1>8, <2>1 DEF Touches, SameMessages, SentAreHeld, Sent
  <2>4. CASE talk' = talk
    BY <1>0, <2>1, <2>2, <2>3, <2>4 DEF CallsHold
  <2>5. ASSUME NEW k \in Talks,
               \/ talk[k].op = "mark" /\ GoesOn(k, "reset")
               \/ talk[k].op = "reset" /\ GoesOn(k, "idle")
        PROVE  CallsHold'
    BY <1>0, <2>1, <2>5, GoingOn
  <2>6. QED
    BY <1>8, <2>1, <2>2, <2>3, <2>4, <2>5 DEF Touches
<1>9. ASSUME BlocksOrNot PROVE Goal
  <2>1. ChatTyped' /\ Held' = Held /\ Sent' = Sent
    BY <1>0, <1>9 DEF BlocksOrNot, ChatTyped, Held, Sent
  <2>2. HeldAreNamed' /\ SentAreHeld'
    BY <1>0, <1>9, <2>1 DEF BlocksOrNot, HeldAreNamed, SentAreHeld
  <2>3. \A j \in Talks : \/ talk'[j] = talk[j]
                         \/ /\ talk'[j].op = "send" /\ talk[j].op = "send"
                            /\ talk'[j].c = talk[j].c
    BY <1>9 DEF BlocksOrNot
  <2>4. CallsHold'
    BY <1>0, <2>1, <2>3 DEF CallsHold
  <2>5. QED
    BY <2>1, <2>2, <2>4
<1>10. ASSUME Forgets PROVE Goal
  BY <1>0, <1>10 DEF Forgets, ChatTyped, HeldAreNamed, SentAreHeld, CallsHold, Held, Sent
<1>11. QED
  BY <1>1, <1>2, <1>3, <1>4, <1>5, <1>6, <1>7, <1>8, <1>9, <1>10, ChatSteps

\* A step keeps told messages committed, and committed ones told, in hand or broken.
LEMMA ToldStep ==
  ASSUME ChatTypeOK, ToldAreTheSent, [ChatNext]_chatVars
  PROVE  ToldAreTheSent'
<1>0. \A k \in Talks : talk[k].op = "tell" => talk[k].m \in Sent
  BY DEF ChatTypeOK
<1>1. \A m \in Sent : m \in Messages
  BY DEF Sent
\* Nothing is told or stored, and no call that has to tell is lost.
<1>2. ASSUME Sent' = Sent, broken' = broken,
             \A m \in Messages : message'[m].told = message[m].told,
             \A k \in Talks : talk[k].op = "tell" =>
                                talk'[k].op = "tell" /\ talk'[k].m = talk[k].m
      PROVE  ToldAreTheSent'
  BY <1>2 DEF ToldAreTheSent
<1>3. ASSUME NEW k \in Talks, Asks(k) PROVE ToldAreTheSent'
  BY <1>2, <1>3 DEF Asks, Only, Sent
<1>4. ASSUME NEW k \in Talks, Deletes(k) PROVE ToldAreTheSent'
  BY <1>2, <1>4 DEF Deletes, GoesOn, Sent
<1>5. ASSUME NEW k \in Talks, Sweeps(k) PROVE ToldAreTheSent'
  BY <1>2, <1>5 DEF Sweeps, GoesOn, SameMessages
<1>6. ASSUME NEW k \in Talks, NEW c \in Convs, Makes(k, c) PROVE ToldAreTheSent'
  <2>1. \A j \in Talks : talk[j].op = "tell" =>
                           talk'[j].op = "tell" /\ talk'[j].m = talk[j].m
    BY <1>6 DEF Makes
  <2>2. QED
    BY <1>2, <1>6, <2>1 DEF Makes, Sent
<1>7. ASSUME Touches PROVE ToldAreTheSent'
  BY <1>2, <1>7 DEF Touches, GoesOn, SameMessages
<1>8. ASSUME BlocksOrNot PROVE ToldAreTheSent'
  BY <1>2, <1>8 DEF BlocksOrNot, Sent
<1>9. ASSUME NEW k \in Talks, Fails(k) PROVE ToldAreTheSent'
  <2>1. Sent' = Sent /\ UNCHANGED message
    BY <1>9 DEF Fails, Sent
  <2>2. \A j \in Talks : talk[j].op = "tell" =>
          \/ talk'[j].op = "tell" /\ talk'[j].m = talk[j].m
          \/ talk[j].m \in broken'
    BY <1>9 DEF Fails, GoesOn
  <2>3. broken \subseteq broken'
    BY <1>9 DEF Fails
  <2>4. QED
    BY <2>1, <2>2, <2>3 DEF ToldAreTheSent
<1>10. ASSUME NEW k \in Talks, NEW m \in Messages, Stores(k, m) PROVE ToldAreTheSent'
  <2>1. /\ Sent' = Sent \cup {m} /\ ~ message'[m].told /\ broken' = broken
        /\ \A n \in Messages : n # m => message'[n] = message[n]
        /\ talk'[k].op = "tell" /\ talk'[k].m = m
    BY <1>10 DEF Stores
  <2>2. \A j \in Talks : talk[j].op = "tell" => talk'[j] = talk[j]
    BY <1>10 DEF Stores
  <2>3. QED
    BY <2>1, <2>2 DEF ToldAreTheSent
<1>11. ASSUME NEW k \in Talks, Tells(k) PROVE ToldAreTheSent'
  <2>1. /\ Sent' = Sent /\ broken' = broken /\ message'[talk[k].m].told
        /\ \A n \in Messages : n # talk[k].m => message'[n].told = message[n].told
        /\ talk[k].m \in Sent
    BY <1>0, <1>11 DEF Tells
  <2>2. \A j \in Talks : talk[j].op = "tell" => j = k \/ talk'[j] = talk[j]
    BY <1>11 DEF Tells, GoesOn
  <2>3. QED
    BY <1>1, <2>1, <2>2 DEF ToldAreTheSent
<1>12. ASSUME Forgets PROVE ToldAreTheSent'
  BY <1>2, <1>12 DEF Forgets, Sent
<1>13. QED
  BY <1>3, <1>4, <1>5, <1>6, <1>7, <1>8, <1>9, <1>10, <1>11, <1>12, ChatSteps

\* A step leaves no message of a deleted conversation that was there before.
LEMMA SweptStep ==
  ASSUME ChatTypeOK, DeletedIsSwept, [ChatNext]_chatVars
  PROVE  DeletedIsSwept'
<1>0. /\ \A m \in Sent : m \in Messages /\ message[m].conv \in Held
      /\ \A c \in Held : c \in Convs
  BY DEF ChatTypeOK, Sent, Held
\* No conversation and no message is new, and no call that has to sweep is lost.
<1>1. ASSUME Sent' = Sent, broken \subseteq broken',
             \A c \in Held : conv'[c].deleted = conv[c].deleted,
             \A m \in Sent : /\ message'[m].conv = message[m].conv
                             /\ message'[m].after = message[m].after
                             /\ message[m].deleted => message'[m].deleted,
             \A k \in Talks : talk[k].op = "sweep" =>
               \/ talk'[k].op = "sweep" /\ talk'[k].c = talk[k].c
               \/ talk[k].c \in broken'
      PROVE  DeletedIsSwept'
  BY <1>0, <1>1 DEF DeletedIsSwept
<1>2. ASSUME NEW k \in Talks, Asks(k) PROVE DeletedIsSwept'
  <2>1. \A j \in Talks : talk[j].op = "sweep" => talk'[j] = talk[j]
    BY <1>2 DEF Asks, Only
  <2>2. QED
    BY <1>1, <1>2, <2>1 DEF Asks, Sent
<1>3. ASSUME NEW k \in Talks, NEW c \in Convs, Makes(k, c) PROVE DeletedIsSwept'
  <2>1. \A j \in Talks : talk[j].op = "sweep" =>
                           talk'[j].op = "sweep" /\ talk'[j].c = talk[j].c
    BY <1>3 DEF Makes
  <2>2. \A d \in Held : conv'[d] = conv[d]
    BY <1>0, <1>3 DEF Makes
  <2>3. QED
    BY <1>1, <1>3, <2>1, <2>2 DEF Makes, Sent
<1>4. ASSUME Touches PROVE DeletedIsSwept'
  <2>1. \A j \in Talks : talk[j].op = "sweep" => talk'[j] = talk[j]
    BY <1>4 DEF Touches, GoesOn
  <2>2. \A d \in Held : conv'[d].deleted = conv[d].deleted
    BY <1>0, <1>4 DEF Touches, SameConvs
  <2>3. QED
    BY <1>0, <1>1, <1>4, <2>1, <2>2 DEF Touches, SameMessages
<1>5. ASSUME BlocksOrNot PROVE DeletedIsSwept'
  BY <1>1, <1>5 DEF BlocksOrNot, Sent
<1>6. ASSUME NEW k \in Talks, Fails(k) PROVE DeletedIsSwept'
  <2>1. \A j \in Talks : talk[j].op = "sweep" => talk'[j] = talk[j] \/ talk[j].c \in broken'
    BY <1>6 DEF Fails, GoesOn
  <2>2. QED
    BY <1>1, <1>6, <2>1 DEF Fails, Sent
<1>7. ASSUME NEW k \in Talks, Tells(k) PROVE DeletedIsSwept'
  <2>1. \A j \in Talks : talk[j].op = "sweep" => talk'[j] = talk[j]
    BY <1>7 DEF Tells, GoesOn
  <2>2. QED
    BY <1>0, <1>1, <1>7, <2>1 DEF Tells
<1>8. ASSUME NEW k \in Talks, Deletes(k) PROVE DeletedIsSwept'
  <2>1. talk'[k].op = "sweep" /\ talk'[k].c = talk[k].c
    BY <1>8 DEF Deletes, GoesOn
  <2>2. \A j \in Talks : talk[j].op = "sweep" => talk'[j] = talk[j]
    BY <1>8 DEF Deletes, GoesOn
  <2>3. \A d \in Held : d = talk[k].c \/ conv'[d].deleted = conv[d].deleted
    BY <1>0, <1>8 DEF Deletes
  <2>4. UNCHANGED <<message, broken, known>> /\ Sent' = Sent
    BY <1>8 DEF Deletes, Sent
  <2>5. QED
    BY <1>0, <2>1, <2>2, <2>3, <2>4 DEF DeletedIsSwept
<1>9. ASSUME NEW k \in Talks, Sweeps(k) PROVE DeletedIsSwept'
  <2>1. \A m \in Sent : message[m].conv = talk[k].c => message'[m].deleted
    BY <1>9 DEF Sweeps, Of
  <2>2. \A j \in Talks : talk[j].op = "sweep" => j = k \/ talk'[j] = talk[j]
    BY <1>9 DEF Sweeps, GoesOn
  <2>3. /\ Sent' = Sent /\ UNCHANGED <<conv, broken, known>>
        /\ \A m \in Sent : /\ message'[m].conv = message[m].conv
                           /\ message'[m].after = message[m].after
                           /\ message[m].deleted => message'[m].deleted
    BY <1>0, <1>9 DEF Sweeps, SameMessages
  <2>4. QED
    BY <1>0, <2>1, <2>2, <2>3 DEF DeletedIsSwept
<1>10. ASSUME NEW k \in Talks, NEW m \in Messages, Stores(k, m) PROVE DeletedIsSwept'
  <2>1. talk[k].c \in Held
    BY <1>10 DEF Stores, ChatTypeOK
  <2>2. /\ Sent' = Sent \cup {m} /\ broken' = broken
        /\ message'[m].conv = talk[k].c /\ message'[m].after = conv[talk[k].c].deleted
        /\ \A d \in Held : conv'[d].deleted = conv[d].deleted
    BY <1>0, <1>10 DEF Stores, SameConvs
  <2>3. \A n \in Sent : message'[n] = message[n]
    BY <1>0, <1>10 DEF Stores
  <2>4. \A j \in Talks : talk[j].op = "sweep" => talk'[j] = talk[j]
    BY <1>10 DEF Stores
  <2>5. QED
    BY <1>0, <2>1, <2>2, <2>3, <2>4 DEF DeletedIsSwept
<1>11. ASSUME Forgets PROVE DeletedIsSwept'
  BY <1>1, <1>11 DEF Forgets, Sent
<1>12. QED
  BY <1>2, <1>3, <1>4, <1>5, <1>6, <1>7, <1>8, <1>9, <1>10, <1>11, ChatSteps

\* A step keeps twins that were made at the same time the only ones.
LEMMA DuplicateStep ==
  ASSUME DuplicateInv, [ChatNext]_chatVars
  PROVE  DuplicateInv'
<1>0. /\ ChatTypeOK /\ ChatTypeOK' /\ DraftsAreNew /\ DuplicatesOnlyByRace
      /\ \A c \in Held : c \in Convs
  BY ChatTypeStep DEF DuplicateInv, Held
<1> DEFINE Goal == DraftsAreNew' /\ DuplicatesOnlyByRace'
\* No conversation is new, and no draft.
<1>1. ASSUME Held' = Held,
             \A c \in Held : /\ conv'[c].customer = conv[c].customer
                             /\ conv'[c].barber = conv[c].barber
                             /\ conv'[c].booking = conv[c].booking
                             /\ conv'[c].raced = conv[c].raced,
             \A k \in Talks : talk'[k].op = "insert" => talk'[k] = talk[k],
             known' \subseteq known
      PROVE  Goal
  <2>1. \A k \in Talks, d \in Held :
          talk'[k].op = "insert" => (Twin(d, talk[k].draft)' => Twin(d, talk[k].draft))
    BY <1>1 DEF Twin
  <2>2. DraftsAreNew'
    BY <1>0, <1>1, <2>1 DEF DraftsAreNew
  <2>3. DuplicatesOnlyByRace'
    BY <1>0, <1>1 DEF DuplicatesOnlyByRace
  <2>4. QED
    BY <2>2, <2>3
<1>2. ASSUME NEW k \in Talks, Asks(k) PROVE Goal
  <2>1. Held' = Held /\ conv' = conv /\ known' = known
    BY <1>2 DEF Asks, Held
  <2>2. \A j \in Talks : j # k => talk'[j] = talk[j]
    BY <1>2 DEF Asks, Only
  <2>3. talk'[k].op = "insert" => \A d \in Held : ~ Twin(d, talk'[k].draft)
    BY <1>2 DEF Asks
  <2>4. DraftsAreNew'
    BY <1>0, <2>1, <2>2, <2>3 DEF DraftsAreNew, Twin
  <2>5. DuplicatesOnlyByRace'
    BY <1>0, <2>1 DEF DuplicatesOnlyByRace
  <2>6. QED
    BY <2>4, <2>5
<1>3. ASSUME NEW k \in Talks, NEW c \in Convs, Makes(k, c) PROVE Goal
  <2>1. /\ Held' = Held \cup {c} /\ \A d \in Held : d # c /\ conv'[d] = conv[d]
        /\ known' = known
    BY <1>0, <1>3 DEF Makes
  <2>2. ASSUME NEW j \in Talks, talk'[j].op = "insert", ~ talk'[j].draft.raced,
               NEW d \in Held'
        PROVE  ~ Twin(d, talk[j].draft)'
    <3>1. j # k
      BY <1>3, <2>2 DEF Makes
    <3>2. /\ talk[j].op = "insert" /\ ~ talk[j].draft.raced
          /\ talk'[j].draft.customer = talk[j].draft.customer
          /\ talk'[j].draft.barber = talk[j].draft.barber
          /\ talk'[j].draft.booking = talk[j].draft.booking
      BY <1>3, <2>2, <3>1 DEF Makes
    <3>3. CASE d = c
      BY <1>3, <2>2, <3>1, <3>2, <3>3 DEF Makes
    <3>4. CASE d # c
      <4>1. d \in Held /\ ~ Twin(d, talk[j].draft)
        BY <1>0, <2>1, <3>2, <3>4 DEF DraftsAreNew
      <4>2. QED
        BY <2>1, <3>2, <4>1 DEF Twin
    <3>5. QED
      BY <3>3, <3>4
  <2>3. DraftsAreNew'
    BY <2>2 DEF DraftsAreNew
  <2>4. \A d \in Held : Twin(d, talk[k].draft) => conv'[c].raced
    BY <1>0, <1>3 DEF Makes, DraftsAreNew
  <2>5. \A d \in Held :
          /\ conv'[c].booking = conv'[d].booking /\ conv'[c].booking \in known'
          /\ conv'[c].customer = conv'[d].customer /\ conv'[c].barber = conv'[d].barber
          => conv'[c].raced
    BY <1>3, <2>1, <2>4 DEF Makes, Twin
  <2>6. DuplicatesOnlyByRace'
    BY <1>0, <2>1, <2>5 DEF DuplicatesOnlyByRace
  <2>7. QED
    BY <2>3, <2>6
<1>4. ASSUME NEW k \in Talks, NEW op \in {"sweep", "reset", "idle"}, GoesOn(k, op)
      PROVE  \A j \in Talks : talk'[j].op = "insert" => talk'[j] = talk[j]
  BY <1>4 DEF GoesOn
<1>5. ASSUME NEW k \in Talks, Deletes(k) PROVE Goal
  BY <1>0, <1>1, <1>4, <1>5 DEF Deletes
<1>6. ASSUME NEW k \in Talks, Sweeps(k) \/ Tells(k) \/ Fails(k) PROVE Goal
  BY <1>0, <1>1, <1>4, <1>6 DEF Sweeps, Tells, Fails, Held
<1>7. ASSUME NEW k \in Talks, NEW m \in Messages, Stores(k, m) PROVE Goal
  <2>1. \A j \in Talks : talk'[j].op = "insert" => talk'[j] = talk[j]
    BY <1>7 DEF Stores
  <2>2. QED
    BY <1>0, <1>1, <1>7, <2>1 DEF Stores, SameConvs
<1>8. ASSUME Touches PROVE Goal
  <2>1. \A j \in Talks : talk'[j].op = "insert" => talk'[j] = talk[j]
    BY <1>4, <1>8 DEF Touches
  <2>2. QED
    BY <1>0, <1>1, <1>8, <2>1 DEF Touches, SameConvs
<1>9. ASSUME BlocksOrNot PROVE Goal
  <2>1. \A j \in Talks : talk'[j].op = "insert" => talk'[j] = talk[j]
    BY <1>9 DEF BlocksOrNot
  <2>2. QED
    BY <1>1, <1>9, <2>1 DEF BlocksOrNot, Held
<1>10. ASSUME Forgets PROVE Goal
  BY <1>1, <1>10 DEF Forgets, Held
<1>11. Goal
  BY <1>0, <1>2, <1>3, <1>5, <1>6, <1>7, <1>8, <1>9, <1>10, ChatSteps
<1>12. QED
  BY <1>0, <1>11 DEF DuplicateInv

\* Two users that no block parts stay so while no block is made.
LEMMA NotParted ==
  ASSUME NEW c, conv'[c].customer = conv[c].customer, conv'[c].barber = conv[c].barber,
         blocks' \subseteq blocks, ~ Parted(c)
  PROVE  ~ Parted(c)'
BY DEF Parted, IsBlocked, UserId

\* A step stores a message of the barber in spite of a block only if that was made
\* after its check.
LEMMA BlockStep ==
  ASSUME BlockInv, [ChatNext]_chatVars
  PROVE  BlockInv'
<1>0. /\ ChatTypeOK /\ ChatTypeOK' /\ SendersAreFree /\ BlockStopsBarber
      /\ \A c \in Held : c \in Convs
      /\ \A k \in Talks : talk[k].op = "send" => talk[k].c \in Held
      /\ \A m \in Sent : m \in Messages
  BY ChatTypeStep DEF BlockInv, ChatTypeOK, Held, Sent
<1> DEFINE Goal == SendersAreFree' /\ BlockStopsBarber'
\* No block is made and no message stored, and no call begins to send.
<1>1. ASSUME blocks' \subseteq blocks,
             \A c \in Held : /\ conv'[c].customer = conv[c].customer
                             /\ conv'[c].barber = conv[c].barber,
             \A k \in Talks : talk'[k].op = "send" =>
               /\ talk[k].op = "send" /\ talk'[k].c = talk[k].c /\ talk'[k].r = talk[k].r
               /\ talk'[k].raced = talk[k].raced
      PROVE  SendersAreFree'
  <2> SUFFICES ASSUME NEW k \in Talks, talk'[k].op = "send", talk'[k].r = "barber",
                      ~ talk'[k].raced
               PROVE  ~ Parted(talk[k].c)'
    BY DEF SendersAreFree
  <2>1. talk[k].c \in Held /\ talk'[k].c = talk[k].c /\ ~ Parted(talk[k].c)
    BY <1>0, <1>1 DEF SendersAreFree
  <2>2. PICK c \in Held : c = talk[k].c
    BY <2>1
  <2>3. ~ Parted(c)'
    BY <1>1, <2>1, <2>2, NotParted
  <2>4. QED
    BY <2>1, <2>2, <2>3
<1>2. ASSUME Sent' = Sent,
             \A m \in Sent : /\ message'[m].from = message[m].from
                             /\ message'[m].slipped = message[m].slipped
      PROVE  BlockStopsBarber'
  BY <1>0, <1>2 DEF BlockStopsBarber
<1>3. ASSUME NEW k \in Talks, Asks(k) PROVE Goal
  <2>1. UNCHANGED <<conv, message, blocks, known>> /\ Sent' = Sent
    BY <1>3 DEF Asks, Sent
  <2>2. \A j \in Talks : j # k => talk'[j] = talk[j]
    BY <1>3 DEF Asks, Only
  <2>3. talk'[k].op = "send" /\ talk'[k].r = "barber" => ~ Parted(talk'[k].c)
    BY <1>3 DEF Asks
  <2>4. SendersAreFree'
    BY <1>0, <2>1, <2>2, <2>3 DEF SendersAreFree, Parted, IsBlocked, UserId
  <2>5. QED
    BY <1>2, <2>1, <2>4
<1>4. ASSUME NEW k \in Talks, NEW c \in Convs, Makes(k, c) PROVE Goal
  <2>1. \A d \in Held : conv'[d] = conv[d]
    BY <1>0, <1>4 DEF Makes
  <2>2. \A j \in Talks : talk'[j].op = "send" =>
          /\ talk[j].op = "send" /\ talk'[j].c = talk[j].c /\ talk'[j].r = talk[j].r
          /\ talk'[j].raced = talk[j].raced
    BY <1>4 DEF Makes
  <2>3. UNCHANGED <<message, blocks>> /\ Sent' = Sent
    BY <1>4 DEF Makes, Sent
  <2>4. QED
    BY <1>1, <1>2, <2>1, <2>2, <2>3
<1>5. ASSUME NEW k \in Talks, NEW op \in {"sweep", "reset", "idle"}, GoesOn(k, op)
      PROVE  \A j \in Talks : talk'[j].op = "send" => talk'[j] = talk[j]
  BY <1>5 DEF GoesOn
<1>6. ASSUME NEW k \in Talks, Deletes(k) PROVE Goal
  <2>1. UNCHANGED <<message, blocks>> /\ Sent' = Sent
    BY <1>6 DEF Deletes, Sent
  <2>2. \A d \in Held : /\ conv'[d].customer = conv[d].customer
                        /\ conv'[d].barber = conv[d].barber
    BY <1>0, <1>6 DEF Deletes
  <2>3. \A j \in Talks : talk'[j].op = "send" => talk'[j] = talk[j]
    BY <1>5, <1>6 DEF Deletes
  <2>4. QED
    BY <1>1, <1>2, <2>1, <2>2, <2>3
<1>7. ASSUME NEW k \in Talks, Sweeps(k) \/ Tells(k) \/ Fails(k) PROVE Goal
  <2>1. /\ UNCHANGED <<conv, blocks>> /\ Sent' = Sent
        /\ \A m \in Sent : /\ message'[m].from = message[m].from
                           /\ message'[m].slipped = message[m].slipped
    BY <1>0, <1>7 DEF Sweeps, Tells, Fails, SameMessages, Sent
  <2>2. \A j \in Talks : talk'[j].op = "send" => talk'[j] = talk[j]
    BY <1>5, <1>7 DEF Sweeps, Tells, Fails
  <2>3. QED
    BY <1>1, <1>2, <2>1, <2>2
<1>8. ASSUME Touches PROVE Goal
  <2>1. /\ blocks' = blocks /\ Sent' = Sent
        /\ \A m \in Sent : /\ message'[m].from = message[m].from
                           /\ message'[m].slipped = message[m].slipped
        /\ \A d \in Held : /\ conv'[d].customer = conv[d].customer
                           /\ conv'[d].barber = conv[d].barber
    BY <1>0, <1>8 DEF Touches, SameConvs, SameMessages
  <2>2. \A j \in Talks : talk'[j].op = "send" => talk'[j] = talk[j]
    BY <1>5, <1>8 DEF Touches
  <2>3. QED
    BY <1>1, <1>2, <2>1, <2>2
<1>9. ASSUME NEW k \in Talks, NEW m \in Messages, Stores(k, m) PROVE Goal
  <2>1. /\ blocks' = blocks /\ Sent' = Sent \cup {m}
        /\ \A d \in Held : /\ conv'[d].customer = conv[d].customer
                           /\ conv'[d].barber = conv[d].barber
    BY <1>0, <1>9 DEF Stores, SameConvs
  <2>2. \A j \in Talks : talk'[j].op = "send" => talk'[j] = talk[j]
    BY <1>9 DEF Stores
  <2>3. SendersAreFree'
    BY <1>1, <2>1, <2>2
  <2>4. message'[m].from = "barber" => ~ message'[m].slipped
    BY <1>0, <1>9 DEF Stores, SendersAreFree
  <2>5. \A n \in Sent : message'[n] = message[n]
    BY <1>0, <1>9 DEF Stores
  <2>6. BlockStopsBarber'
    BY <1>0, <2>1, <2>4, <2>5 DEF BlockStopsBarber
  <2>7. QED
    BY <2>3, <2>6
<1>10. ASSUME BlocksOrNot PROVE Goal
  <2>1. UNCHANGED <<conv, message>> /\ Sent' = Sent
    BY <1>10 DEF BlocksOrNot, Sent
  <2>2. CASE talk' = talk /\ blocks' \subseteq blocks
    BY <1>1, <1>2, <2>1, <2>2
  <2>3. CASE \A k \in Talks : talk'[k].op = "send" => talk'[k].raced
    BY <1>2, <2>1, <2>3 DEF SendersAreFree
  <2>4. QED
    BY <1>10, <2>2, <2>3 DEF BlocksOrNot
<1>11. ASSUME Forgets PROVE Goal
  BY <1>1, <1>2, <1>11 DEF Forgets, Sent
<1>12. Goal
  BY <1>0, <1>3, <1>4, <1>6, <1>7, <1>8, <1>9, <1>10, <1>11, ChatSteps
<1>13. QED
  BY <1>0, <1>12 DEF BlockInv

-----------------------------------------------------------------------------
(* The counts of unread messages *)

\* The messages of role r in conversation c that it has not marked as read since.
Fresh(c, r) == {m \in Of(c) : message[m].from = r /\ message[m].fresh}

\* Only finitely many documents are stored at any time, and a conversation that is about
\* to be inserted has no unread messages.
StoreIsFinite == IsFiniteSet(Held) /\ IsFiniteSet(Sent)
DraftsAreUnread ==
  \A k \in Talks : talk[k].op = "insert" => \A r \in Roles : talk[k].draft.unread[r] = 0
CountsAreFresh ==
  \A c \in Held : \A r \in Roles : conv[c].unread[r] = Cardinality(Fresh(c, r))

CountInv == ChatTypeOK /\ StoreIsFinite /\ DraftsAreUnread /\ CountsAreFresh

\* Sets of fresh messages are finite.
LEMMA FreshIsFinite ==
  ASSUME StoreIsFinite, NEW c, NEW r
  PROVE  IsFiniteSet(Fresh(c, r)) /\ Cardinality(Fresh(c, r)) \in Nat
BY FS_Subset, FS_CardinalityType DEF StoreIsFinite, Fresh, Of

\* Neither a count nor a fresh message is written.
SameCounts ==
  /\ \A c \in Held : conv'[c].unread = conv[c].unread
  /\ \A m \in Sent : /\ message'[m].conv = message[m].conv
                     /\ message'[m].from = message[m].from
                     /\ message'[m].fresh = message[m].fresh

\* A call that is about to insert was that before, with the same draft, or has a new one
\* without unread messages.
SameDrafts ==
  \A k \in Talks : talk'[k].op = "insert" =>
    \/ talk[k].op = "insert" /\ talk'[k].draft.unread = talk[k].draft.unread
    \/ \A r \in Roles : talk'[k].draft.unread[r] = 0

\* Steps that only touch calls write no count.
LEMMA UntouchedCounts ==
  ASSUME UNCHANGED <<conv, message>>
  PROVE  SameCounts
BY DEF SameCounts

\* Calls that begin, go on or are over.
LEMMA DraftMoves ==
  ASSUME ChatTypeOK, NEW k \in Talks
  PROVE  /\ \A new \in Talk : Start(k, new) /\ new.op # "insert" => SameDrafts
         /\ \A op \in TalkOps \ {"insert"} : Then(k, op) => SameDrafts
         /\ Finish(k) => SameDrafts
<1>1. ASSUME NEW new \in Talk, Start(k, new), new.op # "insert" PROVE SameDrafts
  BY <1>1, CallEffect DEF Only, SameDrafts
<1>2. ASSUME NEW op \in TalkOps \ {"insert"}, GoesOn(k, op) PROVE SameDrafts
  BY <1>2 DEF GoesOn, SameDrafts
<1>3. ASSUME NEW op \in TalkOps \ {"insert"}, Then(k, op) PROVE SameDrafts
  BY <1>2, <1>3, CallEffect
<1>4. ASSUME Finish(k) PROVE SameDrafts
  BY <1>2, <1>4, CallEffect DEF TalkOps
<1>5. QED
  BY <1>1, <1>3, <1>4

\* The writes of one field of a conversation that is not a count.
LEMMA ConvKeepsCount ==
  ASSUME ChatTypeOK, NEW c \in Convs, NEW doc, conv' = [conv EXCEPT ![c] = doc],
         doc.unread = conv[c].unread, UNCHANGED message
  PROVE  SameCounts
BY DEF ChatTypeOK, SameCounts, Held

\* The writes of messages that leave them where they are, and fresh if they were.
LEMMA MessageKeepsFresh ==
  ASSUME UNCHANGED conv,
         \A m \in Messages : /\ message'[m].conv = message[m].conv
                             /\ message'[m].from = message[m].from
                             /\ message'[m].fresh = message[m].fresh
  PROVE  SameCounts
BY DEF SameCounts, Sent

\* A step gives no call a draft with unread messages.
LEMMA DraftStep ==
  ASSUME ChatTypeOK, [ChatNext]_chatVars
  PROVE  SameDrafts
<1>0. talk \in [Talks -> Talk]
  BY DEF ChatTypeOK
<1>1. ASSUME NEW k \in Talks, NEW u \in Customers, NEW p \in Barbers,
             NEW b \in Bookings \cup {None}, CreateConvCheck(k, u, p, b)
      PROVE  SameDrafts
  <2>1. PICK doc : doc = [NoConv EXCEPT !.customer = u, !.barber = p, !.booking = b]
    OBVIOUS
  <2>2. doc \in ConvDoc /\ \A r \in Roles : doc.unread[r] = 0
    <3>1. doc \in ConvDoc
      BY <2>1, NoTypes DEF ConvDoc
    <3>2. doc.unread = [r \in Roles |-> 0]
      BY <2>1 DEF NoConv
    <3>3. QED
      BY <3>1, <3>2
  <2>3. PICK new : new = [NoTalk EXCEPT !.op = "insert", !.draft = doc]
    OBVIOUS
  <2>4. new \in Talk /\ new.draft = doc
    BY <2>2, <2>3, NoTypes DEF Talk, TalkOps
  <2>5. Start(k, new)
    BY <1>1, <2>1, <2>3 DEF CreateConvCheck
  <2>6. Only(k, new)
    BY <2>4, <2>5, CallEffect
  <2>7. QED
    BY <2>2, <2>4, <2>6 DEF Only, SameDrafts
<1>2. ASSUME NEW k \in Talks, NEW c \in Convs, CreateConvInsert(k, c) PROVE SameDrafts
  <2>1. ASSUME NEW j \in Talks, j # k
        PROVE  \/ talk'[j] = talk[j]
               \/ talk[j].op = "insert" /\ talk'[j] = [talk[j] EXCEPT !.draft.raced = TRUE]
    BY <1>2, <2>1 DEF CreateConvInsert
  <2>2. talk'[k] = NoTalk
    BY <1>2 DEF CreateConvInsert
  <2>3. ASSUME NEW j \in Talks
        PROVE  [talk[j] EXCEPT !.draft.raced = TRUE].draft.unread = talk[j].draft.unread
    BY <1>0 DEF Talk, ConvDoc
  <2>4. QED
    BY <2>1, <2>2, <2>3, NoTypes DEF SameDrafts
<1>3. ASSUME NEW k \in Talks, NEW c \in Convs, NEW r \in Roles,
             DeleteLoad(k, c) \/ SendCheck(k, c, r) \/ ReadLoad(k, c, r)
      PROVE  SameDrafts
  <2>1. ASSUME DeleteLoad(k, c) PROVE SameDrafts
    <3>1. conv[c] \in ConvDoc
      BY DEF ChatTypeOK
    <3>2. PICK new : new = [NoTalk EXCEPT !.op = "delete", !.c = c, !.draft = conv[c]]
      OBVIOUS
    <3>3. new \in Talk /\ new.op # "insert"
      BY <3>1, <3>2, NoTypes DEF Talk, TalkOps
    <3>4. QED
      BY <2>1, <3>2, <3>3, DraftMoves DEF DeleteLoad
  <2>2. ASSUME NEW op \in {"send", "mark"}, Start(k, [NoTalk EXCEPT !.op = op, !.c = c, !.r = r])
        PROVE  SameDrafts
    <3>1. PICK new : new = [NoTalk EXCEPT !.op = op, !.c = c, !.r = r]
      OBVIOUS
    <3>2. new \in Talk /\ new.op # "insert"
      BY <3>1, NoTypes DEF Talk, TalkOps
    <3>3. QED
      BY <2>2, <3>1, <3>2, DraftMoves
  <2>3. QED
    BY <1>3, <2>1, <2>2 DEF SendCheck, ReadLoad
<1>4. ASSUME NEW k \in Talks, NEW m \in Messages, SendStore(k, m) PROVE SameDrafts
  BY <1>4, StoreEffect DEF Stores, SameDrafts
<1>5. ASSUME NEW k \in Talks,
             \/ DeleteSave(k) \/ DeleteSweep(k) \/ SendTell(k)
             \/ ReadMark(k) \/ ReadReset(k) \/ TalkFails(k)
      PROVE  SameDrafts
  BY <1>5, DraftMoves
     DEF DeleteSave, DeleteSweep, SendTell, ReadMark, ReadReset, TalkFails, TalkOps
<1>6. ASSUME talk' = talk PROVE SameDrafts
  BY <1>6 DEF SameDrafts
<1>7. ASSUME NEW u \in Blockers, NEW v \in Customers \cup BarberUsers, BlockUser(u, v)
      PROVE  SameDrafts
  <2>1. BlocksOrNot
    BY <1>7, BlockEffect
  <2>2. QED
    BY <1>6, <2>1 DEF BlocksOrNot, SameDrafts
<1>8. ConversationSteps => SameDrafts
  BY <1>1, <1>2, <1>3, <1>5, <1>6 DEF ConversationSteps, Archive, BookingGone, Roles
<1>9. MessageSteps => SameDrafts
  BY <1>3, <1>4, <1>5, <1>6 DEF MessageSteps, DeleteMessage
<1>10. BlockSteps => SameDrafts
  BY <1>6, <1>7 DEF BlockSteps, UnblockUser
<1>11. QED
  BY <1>6, <1>8, <1>9, <1>10 DEF ChatNext, chatVars

\* Only an insert, a message that is stored and a reset of a count change what is counted.
LEMMA QuietSteps ==
  ASSUME ChatTypeOK, [ChatNext]_chatVars
  PROVE  \/ SameCounts /\ Held' = Held /\ Sent' = Sent
         \/ \E k \in Talks, c \in Convs : CreateConvInsert(k, c)
         \/ \E k \in Talks, m \in Messages : SendStore(k, m)
         \/ \E k \in Talks : ReadReset(k)
<1> DEFINE Quiet == SameCounts /\ Held' = Held /\ Sent' = Sent
<1>0. /\ \A c \in Convs : conv[c] \in ConvDoc
      /\ \A m \in Messages : message[m] \in MessageDoc
  BY DEF ChatTypeOK
<1>1. ASSUME UNCHANGED <<conv, message>> PROVE Quiet
  BY <1>1, UntouchedCounts DEF Held, Sent
<1>2. ASSUME NEW c \in Convs, NEW archived \in BOOLEAN, Archive(c, archived) PROVE Quiet
  <2>1. PICK doc : doc = [conv[c] EXCEPT !.archived = archived]
    OBVIOUS
  <2>2. doc.unread = conv[c].unread
    BY <1>0, <2>1 DEF ConvDoc
  <2>3. conv' = [conv EXCEPT ![c] = doc] /\ UNCHANGED message
    BY <1>2, <2>1 DEF Archive
  <2>4. SameCounts
    BY <2>2, <2>3, ConvKeepsCount
  <2>5. Touches
    BY <1>2, TouchSteps
  <2>6. QED
    BY <2>4, <2>5 DEF Touches, SameConvs, SameMessages
<1>3. ASSUME NEW k \in Talks, DeleteSave(k) PROVE Quiet
  <2>1. PICK c \in Convs : c = talk[k].c
    BY <1>3 DEF ChatTypeOK, DeleteSave, Held
  <2>2. PICK doc : doc = [conv[c] EXCEPT !.deleted = TRUE]
    OBVIOUS
  <2>3. doc.unread = conv[c].unread
    BY <1>0, <2>2 DEF ConvDoc
  <2>4. conv' = [conv EXCEPT ![c] = doc] /\ UNCHANGED message
    BY <1>3, <2>1, <2>2 DEF DeleteSave
  <2>5. SameCounts
    BY <2>3, <2>4, ConvKeepsCount
  <2>6. Deletes(k)
    BY <1>3, DeleteEffect
  <2>7. QED
    BY <2>4, <2>5, <2>6 DEF Deletes, Sent
<1>4. ASSUME NEW k \in Talks, DeleteSweep(k) PROVE Quiet
  <2>1. ASSUME NEW m \in Messages
        PROVE  /\ message'[m].conv = message[m].conv
               /\ message'[m].from = message[m].from
               /\ message'[m].fresh = message[m].fresh
    <3>1. message'[m] \in {message[m], [message[m] EXCEPT !.deleted = TRUE]}
      BY <1>4 DEF DeleteSweep
    <3>2. QED
      BY <1>0, <3>1 DEF MessageDoc
  <2>2. Sweeps(k)
    BY <1>4, DeleteEffect
  <2>3. QED
    BY <2>1, <2>2, MessageKeepsFresh DEF Sweeps, SameMessages, Held
<1>5. ASSUME NEW k \in Talks, SendTell(k) PROVE Quiet
  <2>1. PICK n \in Messages : n = talk[k].m
    BY <1>5 DEF ChatTypeOK, SendTell, Sent
  <2>2. PICK doc : doc = [message[n] EXCEPT !.told = TRUE]
    OBVIOUS
  <2>3. doc.conv = message[n].conv /\ doc.from = message[n].from /\ doc.fresh = message[n].fresh
    BY <1>0, <2>2 DEF MessageDoc
  <2>4. message' = [message EXCEPT ![n] = doc]
    BY <1>5, <2>1, <2>2 DEF SendTell
  <2>5. \A m \in Messages : /\ message'[m].conv = message[m].conv
                            /\ message'[m].from = message[m].from
                            /\ message'[m].fresh = message[m].fresh
    BY <2>3, <2>4 DEF ChatTypeOK
  <2>6. Tells(k)
    BY <1>5, TellEffect
  <2>7. QED
    BY <2>5, <2>6, MessageKeepsFresh DEF Tells, Held
<1>6. ASSUME NEW n \in Messages, NEW r \in Roles, DeleteMessage(n, r) PROVE Quiet
  <2>1. PICK doc : doc = [message[n] EXCEPT !.deleted = TRUE]
    OBVIOUS
  <2>2. doc.conv = message[n].conv /\ doc.from = message[n].from /\ doc.fresh = message[n].fresh
    BY <1>0, <2>1 DEF MessageDoc
  <2>3. message' = [message EXCEPT ![n] = doc] /\ UNCHANGED conv
    BY <1>6, <2>1 DEF DeleteMessage
  <2>4. \A m \in Messages : /\ message'[m].conv = message[m].conv
                            /\ message'[m].from = message[m].from
                            /\ message'[m].fresh = message[m].fresh
    BY <2>2, <2>3 DEF ChatTypeOK
  <2>5. Touches
    BY <1>6, TouchSteps
  <2>6. QED
    BY <2>3, <2>4, <2>5, MessageKeepsFresh DEF Touches, SameConvs, SameMessages
<1>7. ASSUME NEW k \in Talks, ReadMark(k) PROVE Quiet
  <2>1. ASSUME NEW m \in Messages
        PROVE  /\ message'[m].conv = message[m].conv
               /\ message'[m].from = message[m].from
               /\ message'[m].fresh = message[m].fresh
    <3>1. message'[m] \in {message[m], [message[m] EXCEPT !.read = TRUE]}
      BY <1>7 DEF ReadMark
    <3>2. QED
      BY <1>0, <3>1 DEF MessageDoc
  <2>2. Touches /\ UNCHANGED conv
    BY <1>7, TouchSteps DEF ReadMark
  <2>3. QED
    BY <2>1, <2>2, MessageKeepsFresh DEF Touches, SameConvs, SameMessages
<1> HIDE DEF Quiet
<1>8. ConversationSteps => Quiet \/ \E k \in Talks, c \in Convs : CreateConvInsert(k, c)
  BY <1>1, <1>2, <1>3, <1>4 DEF ConversationSteps, CreateConvCheck, DeleteLoad, BookingGone
<1>9. MessageSteps => \/ Quiet
                      \/ \E k \in Talks, m \in Messages : SendStore(k, m)
                      \/ \E k \in Talks : ReadReset(k)
  BY <1>1, <1>5, <1>6, <1>7 DEF MessageSteps, SendCheck, ReadLoad, TalkFails
<1>10. BlockSteps => Quiet
  BY <1>1 DEF BlockSteps, BlockUser, UnblockUser
<1>11. UNCHANGED chatVars => Quiet
  BY <1>1 DEF chatVars
<1>12. QED
  BY <1>8, <1>9, <1>10, <1>11 DEF ChatNext, Quiet

\* A step stores at most one more document.
LEMMA FiniteStep ==
  ASSUME ChatTypeOK, StoreIsFinite, [ChatNext]_chatVars
  PROVE  StoreIsFinite'
<1>1. /\ Held' = Held \/ \E c \in Convs : Held' = Held \cup {c}
      /\ Sent' = Sent \/ \E m \in Messages : Sent' = Sent \cup {m}
  BY ChatSteps DEF Asks, Makes, Touches, Deletes, Sweeps, Stores, Tells, BlocksOrNot, Fails,
                   SameConvs, SameMessages, Forgets, Held, Sent
<1>2. QED
  BY <1>1, FS_AddElement DEF StoreIsFinite

\* The counts stay true.
LEMMA CountStep ==
  ASSUME CountInv, [ChatNext]_chatVars
  PROVE  CountsAreFresh'
<1>0. /\ ChatTypeOK /\ StoreIsFinite /\ DraftsAreUnread /\ CountsAreFresh
      /\ \A m \in Sent : message[m].conv \in Held
  BY DEF CountInv, ChatTypeOK
\* A conversation in which nothing is written.
<1>1. ASSUME NEW c \in Held, c \in Held', NEW r \in Roles,
             conv'[c].unread[r] = conv[c].unread[r], Fresh(c, r)' = Fresh(c, r)
      PROVE  conv'[c].unread[r] = Cardinality(Fresh(c, r)')
  BY <1>0, <1>1 DEF CountsAreFresh
<1>2. ASSUME SameCounts, Held' = Held, Sent' = Sent PROVE CountsAreFresh'
  <2>1. \A c \in Held : \A r \in Roles : Fresh(c, r)' = Fresh(c, r)
    BY <1>2 DEF SameCounts, Fresh, Of
  <2>2. QED
    BY <1>1, <1>2, <2>1 DEF SameCounts, CountsAreFresh
<1>3. ASSUME NEW k \in Talks, NEW c \in Convs, CreateConvInsert(k, c) PROVE CountsAreFresh'
  <2>1. Makes(k, c)
    BY <1>0, <1>3, MakeEffect
  <2>2. \A d : \A r \in Roles : Fresh(d, r)' = Fresh(d, r)
    BY <2>1 DEF Makes, Fresh, Of, Sent
  <2>3. \A r \in Roles : conv'[c].unread[r] = 0
    <3>1. PICK doc \in ConvDoc : doc = talk[k].draft
      BY <1>0 DEF ChatTypeOK, Talk
    <3>2. conv' = [conv EXCEPT ![c] = [doc EXCEPT !.stored = TRUE]] /\ talk[k].op = "insert"
      BY <1>3, <3>1 DEF CreateConvInsert
    <3>3. [doc EXCEPT !.stored = TRUE].unread = doc.unread
      BY DEF ConvDoc
    <3>4. conv'[c] = [doc EXCEPT !.stored = TRUE]
      BY <1>0, <3>2 DEF ChatTypeOK
    <3>5. \A r \in Roles : doc.unread[r] = 0
      BY <1>0, <3>1, <3>2 DEF DraftsAreUnread
    <3>6. conv'[c].unread = doc.unread
      BY <3>3, <3>4
    <3>7. QED
      BY <3>5, <3>6
  <2>4. \A r \in Roles : Fresh(c, r)' = {} /\ Cardinality({}) = 0
    <3>1. c \notin Held
      BY <2>1 DEF Makes
    <3>2. \A r \in Roles : Fresh(c, r) = {}
      BY <1>0, <3>1 DEF Fresh, Of
    <3>3. QED
      BY <2>2, <3>2, FS_EmptySet
  <2>5. \A d \in Held : conv'[d] = conv[d]
    BY <2>1 DEF Makes, Held
  <2>6. ASSUME NEW d \in Held', NEW r \in Roles
        PROVE  conv'[d].unread[r] = Cardinality(Fresh(d, r)')
    <3>1. CASE d = c
      BY <2>3, <2>4, <3>1
    <3>2. CASE d # c
      <4>1. d \in Held
        BY <2>1, <3>2 DEF Makes
      <4>2. QED
        BY <1>1, <2>2, <2>5, <4>1
    <3>3. QED
      BY <3>1, <3>2
  <2>7. QED
    BY <2>6 DEF CountsAreFresh
<1>4. ASSUME NEW k \in Talks, NEW m \in Messages, SendStore(k, m) PROVE CountsAreFresh'
  <2>1. Stores(k, m)
    BY <1>0, <1>4, StoreEffect
  <2>2. PICK c \in Held, q \in Roles : c = talk[k].c /\ q = talk[k].r
    BY <1>0, <2>1 DEF ChatTypeOK, Talk, Stores
  <2>3. conv[c] \in ConvDoc /\ c \in Convs
    BY <1>0 DEF ChatTypeOK, Held
  <2>4. PICK counts \in [Roles -> Nat] :
          counts = [conv[c].unread EXCEPT ![q] = conv[c].unread[q] + 1]
    <3>1. conv[c].unread \in [Roles -> Nat]
      BY <2>3 DEF ConvDoc
    <3>2. conv[c].unread[q] + 1 \in Nat
      BY <3>1
    <3>3. QED
      BY <3>1, <3>2
  <2>5. PICK new : new = [conv[c] EXCEPT !.unread = counts]
    OBVIOUS
  <2>6. new.unread = counts
    BY <2>3, <2>5 DEF ConvDoc
  <2>7. conv' = [conv EXCEPT ![c] = new]
    BY <1>4, <2>2, <2>4, <2>5 DEF SendStore
  <2>8. /\ \A d \in Held : d # c => conv'[d] = conv[d]
        /\ conv'[c].unread[q] = conv[c].unread[q] + 1
        /\ \A r \in Roles : r # q => conv'[c].unread[r] = conv[c].unread[r]
    <3>1. conv[c].unread \in [Roles -> Nat]
      BY <2>3 DEF ConvDoc
    <3>2. conv'[c] = new /\ \A d \in Held : d # c => conv'[d] = conv[d]
      BY <1>0, <2>3, <2>7 DEF ChatTypeOK, Held
    <3>3. QED
      BY <2>4, <2>6, <3>1, <3>2
  <2>9. message'[m].conv = c /\ message'[m].from = q /\ message'[m].fresh
    <3>1. PICK s : s = (Parted(c) /\ ~ talk[k].raced)
      OBVIOUS
    <3>2. PICK doc : doc = [NoMessage EXCEPT !.stored = TRUE, !.conv = c, !.from = q,
                              !.fresh = TRUE, !.after = conv[c].deleted, !.slipped = s]
      OBVIOUS
    <3>3. doc.conv = c /\ doc.from = q /\ doc.fresh
      BY <3>2 DEF NoMessage
    <3>4. message' = [message EXCEPT ![m] = doc]
      BY <1>4, <2>2, <3>1, <3>2 DEF SendStore
    <3>5. QED
      BY <1>0, <3>3, <3>4 DEF ChatTypeOK
  <2>10. /\ Sent' = Sent \cup {m} /\ m \notin Sent /\ Held' = Held
         /\ \A n \in Sent : message'[n] = message[n]
    BY <2>1 DEF Stores, SameConvs, Sent
  <2>11. /\ Fresh(c, q)' = Fresh(c, q) \cup {m} /\ m \notin Fresh(c, q)
         /\ \A d \in Held : \A r \in Roles : d # c \/ r # q => Fresh(d, r)' = Fresh(d, r)
    BY <2>9, <2>10 DEF Fresh, Of
  <2>12. Cardinality(Fresh(c, q)') = Cardinality(Fresh(c, q)) + 1
    BY <1>0, <2>11, FreshIsFinite, FS_AddElement
  <2>13. ASSUME NEW d \in Held, NEW r \in Roles
         PROVE  conv'[d].unread[r] = Cardinality(Fresh(d, r)')
    <3>1. CASE d = c /\ r = q
      BY <1>0, <2>8, <2>12, <3>1 DEF CountsAreFresh
    <3>2. CASE d # c \/ r # q
      <4>1. conv'[d].unread[r] = conv[d].unread[r]
        BY <2>8, <3>2
      <4>2. QED
        BY <1>1, <2>10, <2>11, <3>2, <4>1
    <3>3. QED
      BY <3>1, <3>2
  <2>14. QED
    BY <2>10, <2>13 DEF CountsAreFresh
<1>5. ASSUME NEW k \in Talks, ReadReset(k) PROVE CountsAreFresh'
  <2>1. Touches
    BY <1>0, <1>5, TouchSteps
  <2>2. PICK c \in Held, q \in Roles : c = talk[k].c /\ q = talk[k].r
    BY <1>0, <1>5 DEF ChatTypeOK, Talk, ReadReset
  <2>3. conv[c] \in ConvDoc /\ c \in Convs
    BY <1>0 DEF ChatTypeOK, Held
  <2>4. PICK counts \in [Roles -> Nat] : counts = [conv[c].unread EXCEPT ![q] = 0]
    BY <2>3 DEF ConvDoc
  <2>5. PICK new : new = [conv[c] EXCEPT !.unread = counts]
    OBVIOUS
  <2>6. new.unread = counts
    BY <2>3, <2>5 DEF ConvDoc
  <2>7. conv' = [conv EXCEPT ![c] = new]
    BY <1>5, <2>2, <2>4, <2>5 DEF ReadReset
  <2>8. /\ \A d \in Held : d # c => conv'[d] = conv[d]
        /\ conv'[c].unread[q] = 0
        /\ \A r \in Roles : r # q => conv'[c].unread[r] = conv[c].unread[r]
    <3>1. conv[c].unread \in [Roles -> Nat]
      BY <2>3 DEF ConvDoc
    <3>2. conv'[c] = new /\ \A d \in Held : d # c => conv'[d] = conv[d]
      BY <1>0, <2>3, <2>7 DEF ChatTypeOK, Held
    <3>3. QED
      BY <2>4, <2>6, <3>1, <3>2
  <2>9. ASSUME NEW m \in Sent
        PROVE  /\ message'[m].conv = message[m].conv /\ message'[m].from = message[m].from
               /\ IF message[m].conv = c /\ message[m].from = q
                  THEN ~ message'[m].fresh
                  ELSE message'[m].fresh = message[m].fresh
    <3>1. m \in Messages /\ message[m] \in MessageDoc
      BY <1>0 DEF ChatTypeOK, Sent
    <3>2. PICK old : old = [message[m] EXCEPT !.fresh = FALSE]
      OBVIOUS
    <3>3. ~ old.fresh /\ old.conv = message[m].conv /\ old.from = message[m].from
      BY <3>1, <3>2 DEF MessageDoc
    <3>4. message'[m] = IF message[m].conv = c /\ message[m].from = q THEN old ELSE message[m]
      BY <1>5, <2>2, <3>1, <3>2 DEF ReadReset, Of
    <3>5. QED
      BY <3>3, <3>4
  <2>10. Held' = Held /\ Sent' = Sent
    BY <2>1 DEF Touches, SameConvs, SameMessages
  <2>11. /\ Fresh(c, q)' = {}
         /\ \A d \in Held : \A r \in Roles : d # c \/ r # q => Fresh(d, r)' = Fresh(d, r)
    BY <2>9, <2>10 DEF Fresh, Of
  <2>12. ASSUME NEW d \in Held, NEW r \in Roles
         PROVE  conv'[d].unread[r] = Cardinality(Fresh(d, r)')
    <3>1. CASE d = c /\ r = q
      BY <2>8, <2>11, <3>1, FS_EmptySet
    <3>2. CASE d # c \/ r # q
      <4>1. conv'[d].unread[r] = conv[d].unread[r]
        BY <2>8, <3>2
      <4>2. QED
        BY <1>1, <2>10, <2>11, <3>2, <4>1
    <3>3. QED
      BY <3>1, <3>2
  <2>13. QED
    BY <2>10, <2>12 DEF CountsAreFresh
<1>6. QED
  BY <1>0, <1>2, <1>3, <1>4, <1>5, QuietSteps

\* What is added up over conversations are their fresh messages.  The sum is a recursive
\* function on the sets of conversations, which is the number of fresh messages in them:
\* a least set for which it is not cannot exist.
LEMMA AddedUpIsFresh ==
  ASSUME CountInv, NEW r \in Roles, NEW cs \in SUBSET Held
  PROVE  AddedUp(r, cs) =
           Cardinality({m \in Sent : /\ message[m].from = r /\ message[m].fresh
                                     /\ message[m].conv \in cs})
<1> DEFINE T == {m \in Sent : message[m].from = r /\ message[m].fresh}
<1>1. IsFiniteSet(T) /\ IsFiniteSet(cs)
  BY FS_Subset DEF CountInv, StoreIsFinite
<1>2. \A c \in cs : conv[c].unread[r] = Cardinality({m \in T : message[m].conv = c})
  <2>1. \A c \in cs : {m \in T : message[m].conv = c} = Fresh(c, r)
    BY DEF Fresh, Of
  <2>2. QED
    BY <2>1 DEF CountInv, CountsAreFresh
<1>3. {m \in T : message[m].conv \in cs} =
        {m \in Sent : message[m].from = r /\ message[m].fresh /\ message[m].conv \in cs}
  OBVIOUS
<1> HIDE DEF T
<1> DEFINE Among(s) == {m \in T : message[m].conv \in s}
           First(s) == CHOOSE x \in s : TRUE
           Adds(f) == f = [s \in SUBSET cs |->
                             IF s = {} THEN 0
                             ELSE conv[First(s)].unread[r] + f[s \ {First(s)}]]
           sum == CHOOSE f : Adds(f)
<1>4. \A s : IsFiniteSet(Among(s)) /\ Cardinality(Among(s)) \in Nat
  BY <1>1, FS_Subset, FS_CardinalityType
<1>5. ASSUME NEW s \in SUBSET cs, s # {}
      PROVE  Cardinality(Among(s)) =
               conv[First(s)].unread[r] + Cardinality(Among(s \ {First(s)}))
  <2> DEFINE x == First(s)
             rest == s \ {x}
  <2>1. x \in s
    BY <1>5
  <2> HIDE DEF x
  <2>2. /\ Among(s) = Among({x}) \cup Among(rest)
        /\ Among({x}) \cap Among(rest) = {}
    BY <2>1
  <2>3. Cardinality(Among({x})) = conv[x].unread[r]
    <3>1. Among({x}) = {m \in T : message[m].conv = x}
      OBVIOUS
    <3>2. QED
      BY <1>2, <2>1, <3>1
  <2> HIDE DEF Among
  <2>4. Cardinality(Among(s)) =
          Cardinality(Among({x})) + Cardinality(Among(rest)) - Cardinality({})
    <3>1. \A A, B : IsFiniteSet(A) /\ IsFiniteSet(B) =>
            Cardinality(A \cup B) = Cardinality(A) + Cardinality(B) - Cardinality(A \cap B)
      BY FS_Union
    <3> HIDE DEF rest
    <3>2. IsFiniteSet(Among({x})) /\ IsFiniteSet(Among(rest))
      BY <1>4
    <3>3. Cardinality(Among({x}) \cup Among(rest)) =
            Cardinality(Among({x})) + Cardinality(Among(rest))
              - Cardinality(Among({x}) \cap Among(rest))
      BY <3>1, <3>2, Zenon
    <3>4. QED
      BY <2>2, <3>3
  <2>5. Cardinality({}) = 0
    BY FS_EmptySet
  <2>6. Cardinality(Among(s)) = conv[x].unread[r] + Cardinality(Among(rest))
    BY <1>4, <2>3, <2>4, <2>5
  <2>7. QED
    BY <2>6 DEF x
<1>6. Cardinality(Among({})) = 0
  <2>1. Among({}) = {}
    OBVIOUS
  <2>2. QED
    BY <2>1, FS_EmptySet
<1> HIDE DEF Among
<1>7. Adds([s \in SUBSET cs |-> Cardinality(Among(s))])
  <2> DEFINE g == [s \in SUBSET cs |-> Cardinality(Among(s))]
  <2>1. \A s \in SUBSET cs : s # {} => s \ {First(s)} \in SUBSET cs
    OBVIOUS
  <2>2. \A s \in SUBSET cs : g[s] = IF s = {} THEN 0
                            ELSE conv[First(s)].unread[r] + g[s \ {First(s)}]
    <3> HIDE DEF First
    <3>1. QED
      BY <1>5, <1>6, <2>1
  <2> HIDE DEF First
  <2>3. QED
    BY <2>2
<1>8. Adds(sum)
  BY <1>7
<1>9. AddedUp(r, cs) = sum[cs]
  BY DEF AddedUp, MapThenSumSet, MapThenFoldSet
<1> HIDE DEF sum
<1>10. ASSUME NEW s \in SUBSET cs
      PROVE  sum[s] = Cardinality(Among(s))
  <2> DEFINE Wrong(n) == \E u \in SUBSET cs : Cardinality(u) = n /\ sum[u] # Cardinality(Among(u))
             Odd == {n \in Nat : Wrong(n)}
  <2>1. SUFFICES ASSUME sum[s] # Cardinality(Among(s)) PROVE FALSE
    OBVIOUS
  <2>2. \A u \in SUBSET cs : IsFiniteSet(u) /\ Cardinality(u) \in Nat
    BY <1>1, FS_Subset, FS_CardinalityType
  <2>3. Cardinality(s) \in Odd
    BY <2>1, <2>2
  <2>4. PICK n \in Odd : \A i \in Odd : ~ (<<i, n>> \in OpToRel(<, Nat))
    BY <2>3, WFMin, NatLessThanWellFounded, Zenon
  <2>5. PICK u \in SUBSET cs : Cardinality(u) = n /\ sum[u] # Cardinality(Among(u))
    BY <2>4
  <2>6. u # {}
    <3> HIDE DEF First
    <3>1. QED
      BY <1>6, <1>8, <2>5
  <2>7. First(u) \in u
    BY <2>6
  <2>8. sum[u] = conv[First(u)].unread[r] + sum[u \ {First(u)}]
    <3> HIDE DEF First
    <3>1. QED
      BY <1>8, <2>6
  <2> HIDE DEF First
  <2>9. Cardinality(u \ {First(u)}) = Cardinality(u) - 1
    BY <2>2, <2>7, FS_RemoveElement
  <2>10. sum[u \ {First(u)}] = Cardinality(Among(u \ {First(u)}))
    <3>1. u \ {First(u)} \in SUBSET cs /\ Cardinality(u \ {First(u)}) \in Nat
      BY <2>2
    <3>2. Cardinality(u \ {First(u)}) < n
      <4>1. n \in Nat
        BY <2>4
      <4>2. QED
        BY <2>5, <2>9, <4>1
    <3>3. ~ (Cardinality(u \ {First(u)}) \in Odd)
      BY <2>4, <3>1, <3>2 DEF OpToRel
    <3>4. QED
      BY <3>1, <3>3
  <2>11. QED
    BY <1>5, <2>5, <2>6, <2>8, <2>10
<1>11. AddedUp(r, cs) = Cardinality({m \in T : message[m].conv \in cs})
  BY <1>9, <1>10 DEF Among
<1>12. QED
  BY <1>3, <1>11

\* The invariant implies the property.
LEMMA CountsAdd ==
  ASSUME CountInv
  PROVE  CountsWhatItSent
<1> DEFINE shown == {c \in Held : ~ conv[c].archived}
           asCustomer(u) == {c \in shown : conv[c].customer = u}
           asBarber(u) == {c \in shown : conv[c].barber = u}
<1>1. \A c \in Held : \A r \in Roles : conv[c].unread[r] =
        Cardinality({m \in Of(c) : message[m].from = r /\ message[m].fresh})
  BY DEF CountInv, CountsAreFresh, Fresh
<1>2. \A r \in Roles : AddedUp(r, {}) = 0
  <2>1. \A r : {m \in Sent : /\ message[m].from = r /\ message[m].fresh
                             /\ message[m].conv \in {}} = {}
    OBVIOUS
  <2>2. QED
    BY <2>1, AddedUpIsFresh, FS_EmptySet
<1>3. \A c \in Held : conv[c].customer \in Customers /\ conv[c].barber \in Barbers
  BY DEF CountInv, ChatTypeOK, ConvDoc, Held
<1>4. \A u : UnreadCount(u) = AddedUp("customer", asCustomer(u)) + AddedUp("barber", asBarber(u))
  BY DEF UnreadCount
<1>5. ASSUME NEW u \in Customers
      PROVE  UnreadCount(u) =
               Cardinality({m \in Sent : /\ message[m].from = "customer" /\ message[m].fresh
                                         /\ conv[message[m].conv].customer = u
                                         /\ ~ conv[message[m].conv].archived})
  <2>1. asBarber(u) = {}
    BY <1>3, ChatConstants
  <2>2. {m \in Sent : /\ message[m].from = "customer" /\ message[m].fresh
                      /\ message[m].conv \in asCustomer(u)} =
          {m \in Sent : /\ message[m].from = "customer" /\ message[m].fresh
                        /\ conv[message[m].conv].customer = u
                        /\ ~ conv[message[m].conv].archived}
    BY DEF CountInv, ChatTypeOK
  <2>3. asCustomer(u) \in SUBSET Held /\ "customer" \in Roles /\ "barber" \in Roles
    BY DEF Roles
  <2> HIDE DEF asCustomer, asBarber
  <2>4. AddedUp("customer", asCustomer(u)) =
          Cardinality({m \in Sent : /\ message[m].from = "customer" /\ message[m].fresh
                                    /\ message[m].conv \in asCustomer(u)})
    BY <2>3, AddedUpIsFresh
  <2>5. AddedUp("customer", asCustomer(u)) \in Nat
    <3>1. IsFiniteSet({m \in Sent : /\ message[m].from = "customer" /\ message[m].fresh
                                    /\ message[m].conv \in asCustomer(u)})
      BY FS_Subset DEF CountInv, StoreIsFinite
    <3>2. QED
      BY <2>4, <3>1, FS_CardinalityType
  <2>6. UnreadCount(u) = AddedUp("customer", asCustomer(u))
    BY <1>2, <1>4, <2>1, <2>3, <2>5
  <2>7. QED
    BY <2>2, <2>4, <2>6
<1>6. ASSUME NEW u \in BarberUsers PROVE UnreadCount(u) = 0
  <2>1. asCustomer(u) = {} /\ asBarber(u) = {}
    BY <1>3, ChatConstants
  <2> HIDE DEF asCustomer, asBarber
  <2>2. QED
    BY <1>2, <1>4, <2>1 DEF Roles
<1>7. QED
  BY <1>1, <1>5, <1>6 DEF CountsWhatItSent

-----------------------------------------------------------------------------
(* Theorems *)

\* Conversations, messages, blocks and calls have their types; messages are in stored
\* conversations, and calls name what is stored.
THEOREM ChatTypeCorrect == ChatSpec => []ChatTypeOK
<1>1. ChatInit => ChatTypeOK
  BY ChatInitInv DEF DuplicateInv
<1>2. ChatTypeOK /\ [ChatNext]_chatVars => ChatTypeOK'
  BY ChatTypeStep
<1>3. QED
  BY <1>1, <1>2, PTL DEF ChatSpec

\* new_message tells only of committed messages, and leaves one out only while its call
\* has still to tell it or because that call failed.
THEOREM CommittedAreTold == ChatSpec => []ToldAreTheSent
<1>1. ChatInit => ChatTypeOK /\ ToldAreTheSent
  BY ChatInitInv DEF DuplicateInv
<1>2. ChatTypeOK /\ ToldAreTheSent /\ [ChatNext]_chatVars => ChatTypeOK' /\ ToldAreTheSent'
  BY ChatTypeStep, ToldStep
<1>3. QED
  BY <1>1, <1>2, PTL DEF ChatSpec

\* Of a deleted conversation no message that was there before the deletion stays, but
\* while the messages are being deleted or because that failed.
THEOREM DeletedAreSwept == ChatSpec => []DeletedIsSwept
<1>1. ChatInit => ChatTypeOK /\ DeletedIsSwept
  BY ChatInitInv DEF DuplicateInv
<1>2. ChatTypeOK /\ DeletedIsSwept /\ [ChatNext]_chatVars => ChatTypeOK' /\ DeletedIsSwept'
  BY ChatTypeStep, SweptStep
<1>3. QED
  BY <1>1, <1>2, PTL DEF ChatSpec

\* Two conversations of the same two about the same booking were made at the same time.
THEOREM TwinsRaced == ChatSpec => []DuplicatesOnlyByRace
<1>1. ChatInit => DuplicateInv
  BY ChatInitInv
<1>2. DuplicateInv /\ [ChatNext]_chatVars => DuplicateInv'
  BY DuplicateStep
<1>3. DuplicateInv => DuplicatesOnlyByRace
  BY DEF DuplicateInv
<1>4. QED
  BY <1>1, <1>2, <1>3, PTL DEF ChatSpec

\* While one of the two users blocks the other, a message of the barber is stored only
\* if its sender was checked before the block.
THEOREM BlocksStopBarbers == ChatSpec => []BlockStopsBarber
<1>1. ChatInit => BlockInv
  BY ChatInitInv
<1>2. BlockInv /\ [ChatNext]_chatVars => BlockInv'
  BY BlockStep
<1>3. BlockInv => BlockStopsBarber
  BY DEF BlockInv
<1>4. QED
  BY <1>1, <1>2, <1>3, PTL DEF ChatSpec

\* The unread count of a role counts exactly what it has sent, whatever happens at the
\* same time, and what getUnreadCount adds up for a customer are his own messages.
THEOREM CountsAreOfTheSent == ChatSpec => []CountsWhatItSent
<1>1. ChatInit => CountInv
  <2>1. SUFFICES ASSUME ChatInit PROVE CountInv
    OBVIOUS
  <2>2. ChatTypeOK
    BY <2>1, ChatInitInv DEF DuplicateInv
  <2>3. Held = {} /\ Sent = {} /\ \A k \in Talks : talk[k].op = "idle"
    BY <2>1, NoTypes DEF ChatInit, Held, Sent, NoConv, NoMessage
  <2>4. QED
    BY <2>2, <2>3, FS_EmptySet DEF CountInv, StoreIsFinite, DraftsAreUnread, CountsAreFresh
<1>2. CountInv /\ [ChatNext]_chatVars => CountInv'
  <2>1. SUFFICES ASSUME CountInv, [ChatNext]_chatVars PROVE CountInv'
    OBVIOUS
  <2>2. ChatTypeOK' /\ StoreIsFinite' /\ CountsAreFresh'
    BY <2>1, ChatTypeStep, FiniteStep, CountStep DEF CountInv
  <2>3. DraftsAreUnread'
    BY <2>1, DraftStep DEF CountInv, DraftsAreUnread, SameDrafts
  <2>4. QED
    BY <2>2, <2>3 DEF CountInv
<1>3. CountInv => CountsWhatItSent
  BY CountsAdd
<1>4. QED
  BY <1>1, <1>2, <1>3, PTL DEF ChatSpec
=============================================================================
