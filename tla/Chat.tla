------------------------------- MODULE Chat -------------------------------
(***************************************************************************)
(* Conversations of customers with barbers, their messages and the blocks  *)
(* between users: ChatService, BlockService, and the handlers of           *)
(* ChatGateway that send messages.                                         *)
(*                                                                         *)
(* A conversation names its customer by the id of the user and its barber  *)
(* by the id of the barber's profile, and so does toUserId of a message.   *)
(* Every handler awaits between its reads and its writes; the transaction  *)
(* of createMessage is one step.  Requests that are refused are no steps.  *)
(* A request names a profile that exists, but any booking: nobody looks    *)
(* whether it exists, and the expiry of a booking deletes its document.    *)
(***************************************************************************)
EXTENDS Naturals, FiniteSetsExt, FiniteSets

CONSTANTS
  Convs, Messages,  \* the ids of documents
  Customers,        \* user ids
  Barbers, UserOf,  \* profile ids, and the user of each
  Bookings,         \* the bookings a request may name
  None,             \* no id
  Blockers,         \* the users that block others
  Talks,            \* bounds the calls in progress at the same time
  MaxChatFaults     \* bounds the calls that leave something half done

VARIABLES
  conv,    \* conv[c]: the conversation document
  message, \* message[m]: the message document
  blocks,  \* the pairs <<blockerId, blockedId>>
  talk,    \* talk[k]: what a call has still to do, and what it has read
  broken,  \* the messages not told and the conversations not swept: their call failed
  known    \* the bookings whose document exists

chatVars == <<conv, message, blocks, talk, broken, known>>

-----------------------------------------------------------------------------
(* Documents *)

Roles == {"customer", "barber"}
BarberUsers == {UserOf[p] : p \in Barbers}

\* raced is history: another conversation of the two about this booking was stored
\* between the check and the insert.
ConvDoc == [stored   : BOOLEAN,
            customer : Customers \cup {None},
            barber   : Barbers \cup {None},
            booking  : Bookings \cup {None},
            unread   : [Roles -> Nat],
            archived : BOOLEAN,
            deleted  : BOOLEAN,
            raced    : BOOLEAN]
NoConv == [stored |-> FALSE, customer |-> None, barber |-> None, booking |-> None,
           unread |-> [r \in Roles |-> 0], archived |-> FALSE, deleted |-> FALSE,
           raced |-> FALSE]

\* The last four are history: new_message told it, its sender has not marked the
\* conversation as read since, the conversation was deleted before, and it is stored
\* in spite of a block that was made before its sender was checked.
MessageDoc == [stored  : BOOLEAN,
               conv    : Convs \cup {None},
               from    : Roles,
               read    : BOOLEAN,
               deleted : BOOLEAN,
               told    : BOOLEAN,
               fresh   : BOOLEAN,
               after   : BOOLEAN,
               slipped : BOOLEAN]
NoMessage == [stored |-> FALSE, conv |-> None, from |-> "customer", read |-> FALSE,
              deleted |-> FALSE, told |-> FALSE, fresh |-> FALSE, after |-> FALSE,
              slipped |-> FALSE]

Held == {c \in Convs : conv[c].stored}
Sent == {m \in Messages : message[m].stored}
Of(c) == {m \in Sent : message[m].conv = c}

\* The users of a conversation, and the id that addresses the other participant.
UserId(c, r) == IF r = "customer" THEN conv[c].customer ELSE UserOf[conv[c].barber]
OtherId(c, r) == IF r = "customer" THEN conv[c].barber ELSE conv[c].customer
ToUserId(m) == OtherId(message[m].conv, message[m].from)

TalkOps == {"idle", "insert", "send", "tell", "mark", "reset", "delete", "sweep"}
NoTalk == [op |-> "idle", c |-> None, m |-> None, r |-> "customer",
           draft |-> NoConv, raced |-> FALSE]
Talk == [op : TalkOps, c : Convs \cup {None}, m : Messages \cup {None}, r : Roles,
         draft : ConvDoc, raced : BOOLEAN]

\* No two documents have the same id: a profile has not the id of a user either.
ASSUME ChatConstants ==
  /\ UserOf \in [Barbers -> BarberUsers]
  /\ BarberUsers \cap Customers = {}
  /\ Barbers \cap (Customers \cup BarberUsers) = {}
  /\ None \notin Convs \cup Messages \cup Customers \cup Barbers \cup Bookings \cup BarberUsers
  /\ Blockers \subseteq Customers \cup BarberUsers
  /\ MaxChatFaults \in Nat

ChatInit ==
  /\ conv = [c \in Convs |-> NoConv]
  /\ message = [m \in Messages |-> NoMessage]
  /\ blocks = {}
  /\ talk = [k \in Talks |-> NoTalk]
  /\ broken = {}
  /\ known \in SUBSET Bookings

Start(k, new) == talk[k] = NoTalk /\ talk' = [talk EXCEPT ![k] = new]
Then(k, op) == talk' = [talk EXCEPT ![k].op = op]
Finish(k) == talk' = [talk EXCEPT ![k] = NoTalk]

-----------------------------------------------------------------------------
(* Conversations *)

\* Mutant of Existing: deleted conversations are left out.
ExistingUndeleted(u, p, b) ==
  {c \in Held : /\ conv[c].customer = u /\ conv[c].barber = p /\ ~ conv[c].deleted
                /\ conv[c].booking \in known /\ b \in {None, conv[c].booking}}

\* The aggregate of createConversation.  It looks the booking up and unwinds it: a
\* conversation without a booking, or whose booking has no document, is left out.  A
\* deleted conversation is still active.
Existing(u, p, b) ==
  {c \in Held : /\ conv[c].customer = u /\ conv[c].barber = p
                /\ conv[c].booking \in known /\ b \in {None, conv[c].booking}}

CreateConvCheck(k, u, p, b) ==
  /\ Existing(u, p, b) = {}
  /\ Start(k, [NoTalk EXCEPT !.op = "insert", !.draft =
                 [NoConv EXCEPT !.customer = u, !.barber = p, !.booking = b]])
  /\ UNCHANGED <<conv, message, blocks, broken, known>>

\* No index is unique.
CreateConvInsert(k, c) ==
  LET doc == talk[k].draft
      same(d) == talk[d].op = "insert" /\ talk[d].draft.booking = doc.booking
                 /\ talk[d].draft.customer = doc.customer /\ talk[d].draft.barber = doc.barber
  IN  /\ talk[k].op = "insert" /\ c \notin Held
      /\ conv' = [conv EXCEPT ![c] = [doc EXCEPT !.stored = TRUE]]
      /\ talk' = [d \in Talks |-> IF d = k THEN NoTalk
                                 ELSE IF same(d) THEN [talk[d] EXCEPT !.draft.raced = TRUE]
                                 ELSE talk[d]]
      /\ UNCHANGED <<message, blocks, broken, known>>

\* archiveConversation and unarchiveConversation: one updateOne.
Archive(c, archived) ==
  /\ c \in Held
  /\ conv' = [conv EXCEPT ![c].archived = archived]
  /\ UNCHANGED <<message, blocks, talk, broken, known>>

\* deleteConversation: the user is compared with customerId and barberId, so only
\* the customer may.
DeleteLoad(k, c) ==
  /\ c \in Held /\ ~ conv[c].deleted
  /\ Start(k, [NoTalk EXCEPT !.op = "delete", !.c = c, !.draft = conv[c]])
  /\ UNCHANGED <<conv, message, blocks, broken, known>>

\* conversation.save() writes the modified fields.
DeleteSave(k) ==
  /\ talk[k].op = "delete"
  /\ conv' = [conv EXCEPT ![talk[k].c].deleted = TRUE]
  /\ Then(k, "sweep")
  /\ UNCHANGED <<message, blocks, broken, known>>

\* Mutant of DeleteSweep: only the messages of the user who deletes.
DeleteSweepOwn(k) ==
  /\ talk[k].op = "sweep"
  /\ message' = [m \in Messages |-> IF m \in Of(talk[k].c) /\ message[m].from = "customer"
                                    THEN [message[m] EXCEPT !.deleted = TRUE]
                                    ELSE message[m]]
  /\ Finish(k)
  /\ UNCHANGED <<conv, blocks, broken, known>>

\* updateMany, then conversation_deleted is emitted.
DeleteSweep(k) ==
  /\ talk[k].op = "sweep"
  /\ message' = [m \in Messages |-> IF m \in Of(talk[k].c)
                                    THEN [message[m] EXCEPT !.deleted = TRUE]
                                    ELSE message[m]]
  /\ Finish(k)
  /\ UNCHANGED <<conv, blocks, broken, known>>

\* The cron job or the expiry job deletes the document of a booking.
BookingGone(b) ==
  /\ b \in known
  /\ known' = known \ {b}
  /\ UNCHANGED <<conv, message, blocks, talk, broken>>

-----------------------------------------------------------------------------
(* Messages *)

\* isBlocked, in either direction, of the ids it is given.
IsBlocked(a, b) == {<<a, b>>, <<b, a>>} \cap blocks # {}
\* The two users of the conversation.
Parted(c) == IsBlocked(UserId(c, "customer"), UserId(c, "barber"))

\* Mutant of MaySend: the block is not looked at.
MaySendAny(c, r) == c \in Held

\* assertConversationAccess for a participant.
MaySend(c, r) == c \in Held /\ ~ IsBlocked(UserId(c, r), OtherId(c, r))

SendCheck(k, c, r) ==
  /\ MaySend(c, r)
  /\ Start(k, [NoTalk EXCEPT !.op = "send", !.c = c, !.r = r])
  /\ UNCHANGED <<conv, message, blocks, broken, known>>

\* Mutant of SendStore: the message is told before it is committed.
SendStoreTold(k, m) ==
  /\ talk[k].op = "send" /\ m \notin Sent
  /\ message' = [message EXCEPT ![m].conv = talk[k].c, ![m].told = TRUE]
  /\ Finish(k)
  /\ UNCHANGED <<conv, blocks, broken, known>>

\* The transaction: the message, and $inc of the unread count.  The count is that of
\* user.role, the role of the sender.
SendStore(k, m) ==
  LET c == talk[k].c
      r == talk[k].r
  IN  /\ talk[k].op = "send" /\ m \notin Sent
      /\ message' = [message EXCEPT ![m] =
           [NoMessage EXCEPT !.stored = TRUE, !.conv = c, !.from = r, !.fresh = TRUE,
                             !.after = conv[c].deleted,
                             !.slipped = Parted(c) /\ ~ talk[k].raced]]
      /\ conv' = [conv EXCEPT ![c].unread[r] = @ + 1]
      /\ talk' = [talk EXCEPT ![k].op = "tell", ![k].m = m]
      /\ UNCHANGED <<blocks, broken, known>>

\* After the commit: new_message and conversation_updated are emitted.  The message
\* read back has no toUserId, so sendMessageNotification finds no recipient.  For a
\* message of the socket the gateway does all this a second time.
SendTell(k) ==
  /\ talk[k].op = "tell"
  /\ message' = [message EXCEPT ![talk[k].m].told = TRUE]
  /\ Finish(k)
  /\ UNCHANGED <<conv, blocks, broken, known>>

\* deleteMessage, by its sender or by the user toUserId names.  The fields that its
\* save writes are never reset: load and save are one step.
DeleteMessage(m, r) ==
  /\ m \in Sent /\ ~ message[m].deleted
  /\ \/ r = message[m].from
     \/ UserId(message[m].conv, r) = ToUserId(m)
  /\ message' = [message EXCEPT ![m].deleted = TRUE]
  /\ UNCHANGED <<conv, blocks, talk, broken, known>>

-----------------------------------------------------------------------------
(* Reading *)

\* markMessagesAsRead finds the conversation.
ReadLoad(k, c, r) ==
  /\ c \in Held
  /\ Start(k, [NoTalk EXCEPT !.op = "mark", !.c = c, !.r = r])
  /\ UNCHANGED <<conv, message, blocks, broken, known>>

\* updateMany of the messages whose toUserId is the user.
ReadMark(k) ==
  LET mine == {m \in Of(talk[k].c) : ToUserId(m) = UserId(talk[k].c, talk[k].r)}
  IN  /\ talk[k].op = "mark"
      /\ message' = [m \in Messages |-> IF m \in mine THEN [message[m] EXCEPT !.read = TRUE]
                                                     ELSE message[m]]
      /\ Then(k, "reset")
      /\ UNCHANGED <<conv, blocks, broken, known>>

\* updateOne: the unread count of the role of the user is zero.
ReadReset(k) ==
  LET c == talk[k].c
      r == talk[k].r
  IN  /\ talk[k].op = "reset"
      /\ conv' = [conv EXCEPT ![c].unread[r] = 0]
      /\ message' = [m \in Messages |->
           IF m \in Of(c) /\ message[m].from = r THEN [message[m] EXCEPT !.fresh = FALSE]
                                                 ELSE message[m]]
      /\ Finish(k)
      /\ UNCHANGED <<blocks, broken, known>>

\* The unread counts of role r, added up over the conversations cs.
AddedUp(r, cs) == MapThenSumSet(LAMBDA c : conv[c].unread[r], cs)

\* getUnreadCount: the conversations are those whose customerId or barberId is the
\* user's id.
UnreadCount(u) ==
  LET shown == {c \in Held : ~ conv[c].archived}
  IN  AddedUp("customer", {c \in shown : conv[c].customer = u})
      + AddedUp("barber", {c \in shown : conv[c].barber = u})

-----------------------------------------------------------------------------
(* Blocks and faults *)

\* blockUser; the pair is unique.  Calls that have passed their check do not see it.
BlockUser(u, v) ==
  /\ u # v /\ <<u, v>> \notin blocks
  /\ blocks' = blocks \cup {<<u, v>>}
  /\ talk' = [k \in Talks |-> IF talk[k].op = "send" THEN [talk[k] EXCEPT !.raced = TRUE]
                                                    ELSE talk[k]]
  /\ UNCHANGED <<conv, message, broken, known>>

UnblockUser(u, v) ==
  /\ <<u, v>> \in blocks
  /\ blocks' = blocks \ {<<u, v>>}
  /\ UNCHANGED <<conv, message, talk, broken, known>>

\* The next access to the database throws: the transaction is aborted, or what was
\* written before stays, and the client is answered with an error.
TalkFails(k) ==
  LET half == CASE talk[k].op = "tell"  -> {talk[k].m}
                [] talk[k].op = "sweep" -> {talk[k].c}
                [] OTHER -> {}
  IN  /\ talk[k].op # "idle"
      /\ broken' = broken \cup half
      /\ Cardinality(broken') <= MaxChatFaults
      /\ Finish(k)
      /\ UNCHANGED <<conv, message, blocks, known>>

-----------------------------------------------------------------------------
ConversationSteps ==
  \/ \E k \in Talks :
       \/ \E u \in Customers, p \in Barbers, b \in Bookings \cup {None} :
            CreateConvCheck(k, u, p, b)
       \/ \E c \in Convs : CreateConvInsert(k, c) \/ DeleteLoad(k, c)
       \/ DeleteSave(k) \/ DeleteSweep(k)
  \/ \E c \in Convs, archived \in BOOLEAN : Archive(c, archived)
  \/ \E b \in Bookings : BookingGone(b)

MessageSteps ==
  \/ \E k \in Talks :
       \/ \E c \in Convs, r \in Roles : SendCheck(k, c, r) \/ ReadLoad(k, c, r)
       \/ \E m \in Messages : SendStore(k, m)
       \/ SendTell(k) \/ ReadMark(k) \/ ReadReset(k) \/ TalkFails(k)
  \/ \E m \in Messages, r \in Roles : DeleteMessage(m, r)

BlockSteps ==
  \E u \in Blockers, v \in Customers \cup BarberUsers : BlockUser(u, v) \/ UnblockUser(u, v)

ChatNext == ConversationSteps \/ MessageSteps \/ BlockSteps

ChatSpec == ChatInit /\ [][ChatNext]_chatVars

-----------------------------------------------------------------------------
(* Properties *)

\* Type invariant; documents and calls name stored conversations.
ChatTypeOK ==
  /\ conv \in [Convs -> ConvDoc]
  /\ \A c \in Held : conv[c].customer # None /\ conv[c].barber # None
  /\ message \in [Messages -> MessageDoc]
  /\ \A m \in Sent : message[m].conv \in Held
  /\ blocks \subseteq (Customers \cup BarberUsers) \X (Customers \cup BarberUsers)
  /\ talk \in [Talks -> Talk]
  /\ \A k \in Talks :
       /\ talk[k].op = "insert" => talk[k].draft.customer # None /\ talk[k].draft.barber # None
       /\ talk[k].op \notin {"idle", "insert"} => talk[k].c \in Held
       /\ talk[k].op = "tell" => talk[k].m \in Sent
  /\ broken \subseteq Convs \cup Messages
  /\ known \subseteq Bookings

\* The unread count is on the wrong side: that of a role is the number of messages it
\* has SENT since it last marked the conversation as read, whatever else happens at the
\* same time, while recipientField, the comment "Update unread count for recipient"
\* (chat.service.ts:495) and "Get total unread message count" (chat.controller.ts:159)
\* say that it counts what the role has received.  What getUnreadCount adds up for a
\* customer are his own messages, in the conversations that are not archived; for a
\* barber, nothing.
CountsWhatItSent ==
  LET fresh(c, r) == Cardinality({m \in Of(c) : message[m].from = r /\ message[m].fresh})
  IN  /\ \A c \in Held, r \in Roles : conv[c].unread[r] = fresh(c, r)
      /\ \A u \in Customers : UnreadCount(u) =
           Cardinality({m \in Sent : /\ message[m].from = "customer" /\ message[m].fresh
                                     /\ conv[message[m].conv].customer = u
                                     /\ ~ conv[message[m].conv].archived})
      /\ \A u \in BarberUsers : UnreadCount(u) = 0

\* new_message tells only of messages that are committed, and leaves one out only
\* while its call has still to tell it or because that call failed.
ToldAreTheSent ==
  \A m \in Messages :
    /\ message[m].told => m \in Sent
    /\ m \in Sent /\ ~ message[m].told =>
         m \in broken \/ \E k \in Talks : talk[k].op = "tell" /\ talk[k].m = m

\* In a deleted conversation a message stays that was stored after the deletion (the
\* conversation is still active), or while its messages are not yet deleted, or
\* because deleting them failed; no message that was there before escapes.
DeletedIsSwept ==
  \A m \in Sent :
    LET c == message[m].conv
    IN  conv[c].deleted /\ ~ message[m].deleted =>
          \/ message[m].after
          \/ c \in broken
          \/ \E k \in Talks : talk[k].op = "sweep" /\ talk[k].c = c

\* Two conversations about the same booking were made at the same time, as long as that
\* booking exists: neither a deletion nor an archive lets a second one be made.
DuplicatesOnlyByRace ==
  \A c, d \in Held :
    /\ c # d /\ conv[c].booking = conv[d].booking /\ conv[c].booking \in known
    /\ conv[c].customer = conv[d].customer /\ conv[c].barber = conv[d].barber
    => conv[c].raced \/ conv[d].raced

\* While one of the two users blocks the other, a message of the barber is stored
\* only if its sender was checked before the block.
BlockStopsBarber ==
  \A m \in Sent : message[m].from = "barber" => ~ message[m].slipped
=============================================================================
