------------------------------ MODULE Presence ------------------------------
(***************************************************************************)
(* Who is online and who is typing: the connections of ChatGateway and the *)
(* events it broadcasts about them.  The maps are those of one process.    *)
(*                                                                         *)
(* A handler runs to its next await without interruption; joining rooms is *)
(* synchronous with the Redis adapter.  handleDisconnect awaits a write of *)
(* the database before it says that the user is offline, and typing_start  *)
(* awaits the access check before it records that the user types.          *)
(***************************************************************************)
EXTENDS Naturals, FiniteSets

CONSTANTS
  Devices,   \* socket ids; one is used again when its handlers have ended
  Members,   \* the users
  Rooms,     \* the conversations
  Nobody,
  MaxUnsaid  \* bounds the writes of lastSeen that fail

VARIABLES
  socket,    \* socket[d]: the user of an open socket, or Nobody
  connected, \* connectedUsers: the sockets of each user
  typing,    \* typingUsers: the users that type in each conversation
  leaving,   \* leaving[d]: the user whose lastSeen handleDisconnect is writing
  asking,    \* asking[d]: user and conversation of the typing_start that awaits, one a socket
  shown,     \* shown[u]: the last of user_online and user_offline sent to everybody
  room,      \* room[u]: the last of these sent to the barbers
  crossed,   \* history: users that came back while they were still leaving
  ghosts,    \* history: typing recorded when the user had no connection left
  unsaid     \* history: users whose lastSeen could not be written

presVars == <<socket, connected, typing, leaving, asking, shown, room, crossed, ghosts, unsaid>>

Events == {"user_online", "user_offline"}
Online(u) == connected[u] # {}
Leaving(u) == \E d \in Devices : leaving[d] = u

ASSUME PresenceConstants ==
  /\ Nobody \notin Members
  /\ MaxUnsaid \in Nat

PresInit ==
  /\ socket = [d \in Devices |-> Nobody]
  /\ connected = [u \in Members |-> {}]
  /\ typing = [c \in Rooms |-> {}]
  /\ leaving = [d \in Devices |-> Nobody]
  /\ asking = [d \in Devices |-> <<>>]
  /\ shown = [u \in Members |-> "user_offline"]
  /\ room = [u \in Members |-> "user_offline"]
  /\ crossed = {}
  /\ ghosts = {}
  /\ unsaid = {}

-----------------------------------------------------------------------------
(* Connections *)

\* handleConnection: everybody is told if the user was offline, the barbers always.
Connect(d, u) ==
  /\ socket[d] = Nobody /\ leaving[d] = Nobody /\ asking[d] = <<>>
  /\ socket' = [socket EXCEPT ![d] = u]
  /\ connected' = [connected EXCEPT ![u] = @ \cup {d}]
  /\ IF Online(u) THEN UNCHANGED <<shown, crossed, unsaid>>
     ELSE /\ shown' = [shown EXCEPT ![u] = "user_online"]
          /\ crossed' = IF Leaving(u) THEN crossed \cup {u} ELSE crossed \ {u}
          /\ unsaid' = unsaid \ {u}
  /\ room' = [room EXCEPT ![u] = "user_online"]
  /\ UNCHANGED <<typing, leaving, asking, ghosts>>

\* Mutant of Disconnect: typing is left to typing_stop.
DisconnectTyping(d) ==
  LET u == socket[d]
      last == connected[u] = {d}
  IN  /\ u # Nobody
      /\ socket' = [socket EXCEPT ![d] = Nobody]
      /\ connected' = [connected EXCEPT ![u] = @ \ {d}]
      /\ IF last THEN leaving' = [leaving EXCEPT ![d] = u] /\ UNCHANGED room
                 ELSE room' = [room EXCEPT ![u] = "user_offline"] /\ UNCHANGED leaving
      /\ UNCHANGED <<typing, asking, shown, crossed, ghosts, unsaid>>

\* Mutant of Disconnect: the user is deleted from the map with the first socket.
DisconnectAll(d) ==
  LET u == socket[d]
  IN  /\ u # Nobody
      /\ typing' = [c \in Rooms |-> typing[c] \ {u}]
      /\ ghosts' = {g \in ghosts : g[2] # u}
      /\ socket' = [socket EXCEPT ![d] = Nobody]
      /\ connected' = [connected EXCEPT ![u] = {}]
      /\ leaving' = [leaving EXCEPT ![d] = u]
      /\ UNCHANGED <<asking, shown, room, crossed, unsaid>>

\* handleDisconnect, to its await: the user types nowhere.  With the last socket the
\* write of lastSeen begins; with another one left the barbers are told at once.
Disconnect(d) ==
  LET u == socket[d]
      last == connected[u] = {d}
  IN  /\ u # Nobody
      /\ typing' = [c \in Rooms |-> typing[c] \ {u}]
      /\ ghosts' = {g \in ghosts : g[2] # u}
      /\ socket' = [socket EXCEPT ![d] = Nobody]
      /\ connected' = [connected EXCEPT ![u] = @ \ {d}]
      /\ IF last THEN leaving' = [leaving EXCEPT ![d] = u] /\ UNCHANGED room
                 ELSE room' = [room EXCEPT ![u] = "user_offline"] /\ UNCHANGED leaving
      /\ UNCHANGED <<asking, shown, crossed, unsaid>>

\* Mutant of SayOffline: the rooms are told, the server is not.
SayOfflineRoom(d) ==
  /\ leaving[d] # Nobody
  /\ room' = [room EXCEPT ![leaving[d]] = "user_offline"]
  /\ leaving' = [leaving EXCEPT ![d] = Nobody]
  /\ UNCHANGED <<socket, connected, typing, asking, shown, crossed, ghosts, unsaid>>

\* updateLastSeen is done: everybody is told, and the barbers once more.
SayOffline(d) ==
  /\ leaving[d] # Nobody
  /\ shown' = [shown EXCEPT ![leaving[d]] = "user_offline"]
  /\ room' = [room EXCEPT ![leaving[d]] = "user_offline"]
  /\ leaving' = [leaving EXCEPT ![d] = Nobody]
  /\ UNCHANGED <<socket, connected, typing, asking, crossed, ghosts, unsaid>>

\* updateLastSeen throws: nobody is told.
LastSeenFails(d) ==
  /\ leaving[d] # Nobody /\ Cardinality(unsaid) < MaxUnsaid
  /\ unsaid' = unsaid \cup {leaving[d]}
  /\ leaving' = [leaving EXCEPT ![d] = Nobody]
  /\ UNCHANGED <<socket, connected, typing, asking, shown, room, crossed, ghosts>>

-----------------------------------------------------------------------------
(* Typing *)

\* typing_start begins its access check.
TypingAsk(d, c) ==
  /\ socket[d] # Nobody /\ asking[d] = <<>>
  /\ asking' = [asking EXCEPT ![d] = <<socket[d], c>>]
  /\ UNCHANGED <<socket, connected, typing, leaving, shown, room, crossed, ghosts, unsaid>>

\* The check is passed: the user types, whether the socket is still open or not.
TypingStart(d) ==
  /\ asking[d] # <<>>
  /\ LET u == asking[d][1]
         c == asking[d][2]
     IN  /\ typing' = [typing EXCEPT ![c] = @ \cup {u}]
         /\ ghosts' = IF Online(u) THEN ghosts ELSE ghosts \cup {<<c, u>>}
  /\ asking' = [asking EXCEPT ![d] = <<>>]
  /\ UNCHANGED <<socket, connected, leaving, shown, room, crossed, unsaid>>

TypingStop(d, c) ==
  /\ socket[d] # Nobody /\ socket[d] \in typing[c]
  /\ typing' = [typing EXCEPT ![c] = @ \ {socket[d]}]
  /\ ghosts' = ghosts \ {<<c, socket[d]>>}
  /\ UNCHANGED <<socket, connected, leaving, asking, shown, room, crossed, unsaid>>

-----------------------------------------------------------------------------
PresNext ==
  \E d \in Devices :
    \/ \E u \in Members : Connect(d, u)
    \/ Disconnect(d) \/ SayOffline(d) \/ LastSeenFails(d)
    \/ \E c \in Rooms : TypingAsk(d, c) \/ TypingStop(d, c)
    \/ TypingStart(d)

\* A database that is asked answers or throws.
PresFairness == \A d \in Devices : WF_presVars(SayOffline(d) \/ LastSeenFails(d))

PresSpec == PresInit /\ [][PresNext]_presVars /\ PresFairness

-----------------------------------------------------------------------------
(* Properties *)

\* Type invariant.
PresTypeOK ==
  /\ socket \in [Devices -> Members \cup {Nobody}]
  /\ connected \in [Members -> SUBSET Devices]
  /\ typing \in [Rooms -> SUBSET Members]
  /\ leaving \in [Devices -> Members \cup {Nobody}]
  /\ asking \in [Devices -> (Members \X Rooms) \cup {<<>>}]
  /\ shown \in [Members -> Events]
  /\ room \in [Members -> Events]
  /\ crossed \subseteq Members /\ unsaid \subseteq Members
  /\ ghosts \subseteq Rooms \X Members

\* What everybody was last told of a user is true of his sockets, on whatever device
\* they are, but while his leaving is written, if he came back during that time, or if
\* his lastSeen could not be written.
HasSocket(u) == \E d \in Devices : socket[d] = u
ShownIsTrue ==
  \A u \in Members :
    /\ HasSocket(u) => shown[u] = "user_online" \/ u \in crossed
    /\ ~ HasSocket(u) => shown[u] = "user_offline" \/ Leaving(u) \/ u \in unsaid

\* A user types in a conversation only while he is connected, unless his last
\* connection closed during the access check of typing_start.
TypistsAreConnected ==
  \A c \in Rooms : \A u \in typing[c] : HasSocket(u) \/ <<c, u>> \in ghosts

\* A user who leaves is shown as offline, if he does not come back and the write of
\* his lastSeen does not fail.
LeavingIsShown ==
  \A u \in Members :
    ~ HasSocket(u) ~> HasSocket(u) \/ shown[u] = "user_offline" \/ u \in unsaid

\* "Real-time Status (online/offline)" (README.md) and "Support multiple devices"
\* (chat.gateway.ts): the barbers see a connected user as online, if he did not come
\* back while he was leaving.
BarbersSeeOnline ==
  \A u \in Members : HasSocket(u) /\ u \notin crossed => room[u] = "user_online"
=============================================================================
