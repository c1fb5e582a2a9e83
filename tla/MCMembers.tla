------------------------------ MODULE MCMembers ------------------------------
(***************************************************************************)
(* Registration, Sessions, Standing, Chat, Catalog and PagedLists for TLC. *)
(* They share no variable, so a property of one is a property of its own   *)
(* behaviours: focus chooses the component that runs, and the others stay  *)
(* as they are.                                                            *)
(*                                                                         *)
(* Ids of documents are numbers that are used in order.  The calls, k1 and *)
(* k2, are the same model values in all six.                               *)
(***************************************************************************)
EXTENDS Registration, Sessions, Standing, Chat, Catalog, PagedLists, TLC

CONSTANTS e1, e2, k1, k2, shop1, owner1

VARIABLE focus

Owners == [p \in {shop1} |-> owner1]

Focuses == {"registration", "sessions", "standing", "chat", "catalog", "lists"}

MembersInit ==
  /\ focus \in Focuses
  /\ RegInit /\ SesInit /\ StdInit /\ ChatInit /\ CatInit
  /\ PagInit
  /\ focus # "lists" => shape = Conversations
  /\ focus # "standing" => \A u \in People : person[u].phone = CHOOSE n \in Numbers : TRUE

\* The variables of the other components.
Rest(f) == /\ focus = f /\ focus' = focus
           /\ f # "registration" => UNCHANGED regVars
           /\ f # "sessions" => UNCHANGED sesVars
           /\ f # "standing" => UNCHANGED stdVars
           /\ f # "chat" => UNCHANGED chatVars
           /\ f # "catalog" => UNCHANGED catVars
           /\ f # "lists" => UNCHANGED pagVars

MembersNext ==
  \/ Rest("registration") /\ RegNext
  \/ Rest("sessions") /\ SesNext
  \/ Rest("standing") /\ StdNext
  \/ Rest("chat") /\ ChatNext
  \/ Rest("catalog") /\ CatNext
  \/ Rest("lists") /\ PagNext

MembersSpec ==
  MembersInit /\ [][MembersNext]_<<focus, regVars, sesVars, stdVars, chatVars, catVars, pagVars>>

MembersPerms == Permutations({k1, k2})

InOrder(ids) == ids = 1 .. Cardinality(ids)

\* Chat: several conversations without messages, or one about a booking with a message
\* and all that can happen to it, or one about none with two messages and neither
\* block, archive, deletion nor fault.  Whether a booking exists matters to the first.
ChatScope ==
  \/ Sent = {}
  \/ /\ Cardinality(Held) = 1 /\ Cardinality(Sent) = 1 /\ known = Bookings
     /\ \A c \in Held : conv[c].booking # None
  \/ /\ Cardinality(Held) = 1 /\ broken = {} /\ blocks = {} /\ known = Bookings
     /\ \A c \in Held : conv[c].booking = None /\ ~ conv[c].archived /\ ~ conv[c].deleted

\* Catalog: the services change while no list does, or the lists of a catalog at rest,
\* whose titles are those of the two ids; a list that is mixed promises nothing.
CatScope ==
  \/ /\ \A p \in Profiles : list[p] = <<>> /\ version[p] = 0
     /\ \A k \in Editors : edit[k].op \in {"idle", "create", "rename"}
  \/ /\ Active = Services /\ mixed = {}
     /\ \A s \in Services : /\ ~ service[s].raced /\ ~ service[s].revived
                            /\ service[s].name = (IF s = 1 THEN e1 ELSE e2)
     /\ \A k \in Editors : edit[k].op \notin {"create", "rename"}

\* Standing: calls of one kind at a time, as those of two kinds write different fields.
Doing(ops) == \E k \in Tasks : task[k].op \in ops
StdScope ==
  LET numbers == Doing({"verify", "resend"})
                 \/ \E u \in People : person[u].verified \/ record[u].edited \/ record[u].vouched
      papers == Doing({"submit", "review"}) \/ \E u \in People : person[u].verdict # "none"
      payers == Doing({"customer", "attach"}) \/ Made # {}
      removal == Doing({"remove", "restore"}) \/ \E u \in People : person[u].deleted
  IN  Cardinality({i \in 1 .. 4 : <<numbers, papers, payers, removal>>[i]}) <= 1

\* PagedLists: after the last page nothing is read any more; a walk with equal keys, or
\* with documents both pulled and pushed, promises nothing.
PagScope == walk.op # "done" /\ ~ past.tied /\ ~ (past.pulled /\ past.pushed)

\* Sessions: a third token only for an active account and without failures.
SesScope ==
  Cardinality(Issued) > 2 => failures = 0 /\ \A a \in Accounts : account[a].active

MembersScope ==
  /\ \A ids \in {Stored, Issued, Made, Held, Sent, InCatalog} : InOrder(ids)
  /\ SesScope /\ ChatScope /\ CatScope /\ StdScope /\ PagScope

\* Type invariant: the type invariants of the six.
MembersTypeOK ==
  RegTypeOK /\ SesTypeOK /\ StdTypeOK /\ ChatTypeOK /\ CatTypeOK /\ PagTypeOK
=============================================================================
