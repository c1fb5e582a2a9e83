------------------------------ MODULE Standing ------------------------------
(***************************************************************************)
(* What is known of an account beside its sessions: the phone number that  *)
(* was verified, the documents a barber sent in and the verdict on them,   *)
(* its removal, and its customer at Stripe.  UsersService, AuthService and *)
(* PaymentsService load the user, wait, and save single fields.            *)
(***************************************************************************)
EXTENDS Naturals, FiniteSets

CONSTANTS
  People,       \* the ids of the accounts
  Numbers,      \* phone numbers
  NoNumber,
  Payers,       \* the ids of customers at Stripe
  NoPayer, NoPerson,
  Tasks,        \* bounds the calls in progress at the same time
  MaxPapers     \* bounds the submissions of a barber

VARIABLES
  person, \* person[u]: the fields of the user document
  payer,  \* payer[x]: the user for whom customer x was made at Stripe
  task,   \* task[k]: what a call has still to do, and what it has read
  record  \* history: record[u], how the verdict and the verification came about

stdVars == <<person, payer, task, record>>

-----------------------------------------------------------------------------
(* Documents *)

\* papers counts the submissions; code is the number the outstanding code was sent to,
\* which the document does not name: it only has the id of the code.
PersonDoc == [phone    : Numbers,
              verified : BOOLEAN,
              code     : Numbers \cup {NoNumber},
              verdict  : {"none", "pending", "approved", "rejected"},
              papers   : Nat,
              deleted  : BOOLEAN,
              customer : Payers \cup {NoPayer}]

\* seen: the papers that the administrator of the last verdict looked at; late: others
\* were sent in before the verdict was written; number: for which one verified;
\* edited: updateProfile changed the number; vouched: an administrator set isVerified;
\* rivals: two calls made a customer at the same time; unsaved: one was not saved.
RecordDoc == [seen : Nat, late : BOOLEAN, number : Numbers \cup {NoNumber},
              edited : BOOLEAN, vouched : BOOLEAN, rivals : BOOLEAN, unsaved : BOOLEAN]
NoRecord == [seen |-> 0, late |-> FALSE, number |-> NoNumber, edited |-> FALSE,
             vouched |-> FALSE, rivals |-> FALSE, unsaved |-> FALSE]

TaskOps == {"idle", "verify", "resend", "submit", "review", "customer", "attach", "remove",
            "restore"}
NoTask == [op |-> "idle", u |-> NoPerson, number |-> NoNumber, papers |-> 0, x |-> NoPayer]
Task == [op : TaskOps, u : People \cup {NoPerson}, number : Numbers \cup {NoNumber},
         papers : Nat, x : Payers \cup {NoPayer}]

Made == {x \in Payers : payer[x] # NoPerson}

ASSUME StandingConstants ==
  /\ NoPerson \notin People /\ NoPayer \notin Payers /\ NoNumber \notin Numbers
  /\ MaxPapers \in Nat

\* Registration has made the accounts and sent a code to each.
StdInit ==
  /\ person \in [People -> {[phone |-> n, verified |-> FALSE, code |-> n, verdict |-> "none",
                             papers |-> 0, deleted |-> FALSE, customer |-> NoPayer] :
                              n \in Numbers}]
  /\ payer = [x \in Payers |-> NoPerson]
  /\ task = [k \in Tasks |-> NoTask]
  /\ record = [u \in People |-> NoRecord]

Load(k, op, u) ==
  /\ task[k] = NoTask
  /\ task' = [task EXCEPT ![k] =
       [op |-> op, u |-> u, papers |-> person[u].papers, x |-> NoPayer,
        number |-> IF op = "resend" THEN person[u].phone ELSE person[u].code]]

At(k, op) == task[k].op = op /\ task' = [task EXCEPT ![k] = NoTask]

-----------------------------------------------------------------------------
(* The phone number *)

\* Mutant of VerifyLoad: an account without a code is not refused.
VerifyLoadAny(k, u) == Load(k, "verify", u) /\ UNCHANGED <<person, payer, record>>

\* verifyPhone: any account with the number; the code itself is not compared.
VerifyLoad(k, u) ==
  /\ person[u].code # NoNumber
  /\ Load(k, "verify", u)
  /\ UNCHANGED <<person, payer, record>>

VerifySave(k) ==
  LET u == task[k].u
  IN  /\ At(k, "verify")
      /\ person' = [person EXCEPT ![u].verified = TRUE, ![u].code = NoNumber]
      /\ record' = [record EXCEPT ![u].number = task[k].number]
      /\ UNCHANGED payer

\* resendPhoneVerification makes a code for the number and saves its id.
ResendLoad(k, u) ==
  /\ ~ person[u].verified
  /\ Load(k, "resend", u)
  /\ UNCHANGED <<person, payer, record>>

ResendSave(k) ==
  /\ At(k, "resend")
  /\ person' = [person EXCEPT ![task[k].u].code = task[k].number]
  /\ UNCHANGED <<payer, record>>

\* updateProfile sets another number; whether it is verified is not looked at.
ChangeNumber(u, n) ==
  /\ person[u].phone # n
  /\ person' = [person EXCEPT ![u].phone = n]
  /\ record' = [record EXCEPT ![u].edited = TRUE]
  /\ UNCHANGED <<payer, task>>

\* toggleVerification of an administrator.
ToggleVerification(u, b) ==
  /\ person' = [person EXCEPT ![u].verified = b]
  /\ record' = [record EXCEPT ![u].vouched = b, ![u].number = NoNumber]
  /\ UNCHANGED <<payer, task>>

-----------------------------------------------------------------------------
(* The verification of barbers *)

SubmitLoad(k, u) ==
  /\ person[u].papers < MaxPapers
  /\ Load(k, "submit", u)
  /\ UNCHANGED <<person, payer, record>>

\* Mutant of Submitted: the verdict stays.
SubmittedKept(p) == [p EXCEPT !.papers = @ + 1]

\* The whole verification, with the status pending.
Submitted(p) == [p EXCEPT !.verdict = "pending", !.papers = @ + 1]

\* Reviews that began before look at older papers.
SubmitSave(k) ==
  LET u == task[k].u
  IN  /\ At(k, "submit")
      /\ person' = [person EXCEPT ![u] = Submitted(@)]
      /\ UNCHANGED <<payer, record>>

\* An administrator looks at the papers, and then updateBarberVerification writes his
\* verdict: in one update, without looking whether they are still the same.
ReviewLoad(k, u) == Load(k, "review", u) /\ UNCHANGED <<person, payer, record>>

ReviewSave(k, verdict) ==
  LET u == task[k].u
  IN  /\ At(k, "review")
      /\ person' = [person EXCEPT ![u].verdict = verdict]
      /\ record' = [record EXCEPT ![u].seen = task[k].papers,
                                  ![u].late = person[u].papers # task[k].papers]
      /\ UNCHANGED payer

-----------------------------------------------------------------------------
(* Customers at Stripe *)

\* initializeBookingPayment was given the user that createBooking loaded.
CustomerLoad(k, u) ==
  /\ person[u].customer = NoPayer
  /\ Load(k, "customer", u)
  /\ record' = [record EXCEPT ![u].rivals =
       @ \/ \E j \in Tasks : task[j].op \in {"customer", "attach"} /\ task[j].u = u]
  /\ UNCHANGED <<person, payer>>

\* stripe.customers.create
CustomerMake(k, x) ==
  /\ task[k].op = "customer" /\ x \notin Made
  /\ payer' = [payer EXCEPT ![x] = task[k].u]
  /\ task' = [task EXCEPT ![k].op = "attach", ![k].x = x]
  /\ UNCHANGED <<person, record>>

\* Mutant of CustomerAttach: the id is not saved.
CustomerAttachNot(k) == At(k, "attach") /\ UNCHANGED <<person, payer, record>>

CustomerAttach(k) ==
  /\ At(k, "attach")
  /\ person' = [person EXCEPT ![task[k].u].customer = task[k].x]
  /\ UNCHANGED <<payer, record>>

\* The update throws: the customer stays at Stripe.
CustomerLost(k) ==
  /\ At(k, "attach")
  /\ record' = [record EXCEPT ![task[k].u].unsaved = TRUE]
  /\ UNCHANGED <<person, payer>>

-----------------------------------------------------------------------------
(* Removal *)

\* softDeleteUser and restoreUser; nobody who signs in is asked for isDeleted.
RemovalLoad(k, u, op) ==
  /\ person[u].deleted = (op = "restore")
  /\ Load(k, op, u)
  /\ UNCHANGED <<person, payer, record>>

RemovalSave(k, op) ==
  /\ At(k, op)
  /\ person' = [person EXCEPT ![task[k].u].deleted = (op = "remove")]
  /\ UNCHANGED <<payer, record>>

-----------------------------------------------------------------------------
StdNext ==
  \/ \E k \in Tasks :
       \/ \E u \in People :
            \/ VerifyLoad(k, u) \/ ResendLoad(k, u) \/ SubmitLoad(k, u) \/ ReviewLoad(k, u)
            \/ CustomerLoad(k, u)
            \/ \E op \in {"remove", "restore"} : RemovalLoad(k, u, op)
       \/ VerifySave(k) \/ ResendSave(k) \/ SubmitSave(k) \/ CustomerAttach(k)
       \/ CustomerLost(k)
       \/ \E verdict \in {"approved", "rejected"} : ReviewSave(k, verdict)
       \/ \E x \in Payers : CustomerMake(k, x)
       \/ \E op \in {"remove", "restore"} : RemovalSave(k, op)
  \/ \E u \in People :
       \/ \E n \in Numbers : ChangeNumber(u, n)
       \/ \E b \in BOOLEAN : ToggleVerification(u, b)

StdSpec == StdInit /\ [][StdNext]_stdVars

-----------------------------------------------------------------------------
(* Properties *)

\* Type invariant; a customer that a document names was made for that user, and a call
\* that verifies has found a code.
StdTypeOK ==
  /\ person \in [People -> PersonDoc]
  /\ payer \in [Payers -> People \cup {NoPerson}]
  /\ task \in [Tasks -> Task]
  /\ record \in [People -> RecordDoc]
  /\ \A u \in People : person[u].customer # NoPayer => payer[person[u].customer] = u
  /\ \A k \in Tasks : /\ task[k].op # "idle" => task[k].u \in People
                      /\ task[k].op = "attach" => task[k].x \in Made /\ payer[task[k].x] = task[k].u
                      /\ task[k].op = "verify" => task[k].number # NoNumber

\* A verdict is about the papers that the administrator looked at, unless others were
\* sent in while he decided: papers that came after the verdict wait for another one.
VerdictSeen ==
  \A u \in People : person[u].verdict \in {"approved", "rejected"} =>
    record[u].seen = person[u].papers \/ record[u].late

\* A customer at Stripe is the one that the user's document names or is about to name,
\* unless two payments made one at the same time or the update failed.
CustomerKept ==
  \A x \in Made :
    LET u == payer[x]
    IN  \/ person[u].customer = x
        \/ \E k \in Tasks : task[k].op = "attach" /\ task[k].x = x
        \/ record[u].rivals \/ record[u].unsaved
=============================================================================
