---------------------------- MODULE Registration ----------------------------
(***************************************************************************)
(* How accounts come to be: signUp, barberSignUp and socialSignIn of       *)
(* AuthService, createBarber of the barbers module, and updateProfile of   *)
(* the users module, which sets a phone number.                            *)
(*                                                                         *)
(* A call is a chain of awaited reads and writes; calls interleave between *)
(* them.  A request that is refused changes nothing and is no step.  The   *)
(* one-time codes are stored and never compared: they are left out, as are *)
(* the fields that only travel (names, devices, avatars, preferences).     *)
(***************************************************************************)
EXTENDS Naturals, FiniteSets

CONSTANTS
  Users,      \* the ids of user documents
  Emails, Phones,
  NoAddress,  \* the phone number of an account that has none
  NoUser,
  Signers,    \* bounds the calls in progress at the same time
  MaxAborts   \* bounds the calls that fail half-way

VARIABLES
  user,     \* user[u]: the document
  profiles, \* the users that have a document in the barbers collection
  signing,  \* signing[c]: what a call has still to do, and what it has read
  edited,   \* the users whose phone number was changed by updateProfile
  partial   \* the users whose sign-up failed half-way

regVars == <<user, profiles, signing, edited, partial>>

-----------------------------------------------------------------------------
(* Documents *)

Addresses == Emails \cup Phones \cup {NoAddress}
AccountRoles == {"customer", "barber"}

\* rivals is history: the accounts stored between the check and the insert.  The
\* verification, the review and the removal of an account are left to Standing.
UserDoc == [stored : BOOLEAN,
            email  : Addresses,
            phone  : Addresses,
            role   : AccountRoles,
            social : BOOLEAN,  \* made by a social provider
            rivals : SUBSET Users]
NoUserDoc == [stored |-> FALSE, email |-> NoAddress, phone |-> NoAddress,
              role |-> "customer", social |-> FALSE, rivals |-> {}]

Stored == {u \in Users : user[u].stored}

SignOps == {"idle", "insert", "profile", "code", "barber"}
NoSign == [op |-> "idle", u |-> NoUser, draft |-> NoUserDoc]
Sign == [op : SignOps, u : Users \cup {NoUser}, draft : UserDoc]

ASSUME RegistrationConstants ==
  /\ NoUser \notin Users
  /\ NoAddress \notin Emails \cup Phones
  /\ MaxAborts \in Nat

RegInit ==
  /\ user = [u \in Users |-> NoUserDoc]
  /\ profiles = {}
  /\ signing = [c \in Signers |-> NoSign]
  /\ edited = {}
  /\ partial = {}

\* Call c has passed its checks; op is the next thing it does.
Enter(c, op, u, draft) ==
  /\ signing[c] = NoSign
  /\ signing' = [signing EXCEPT ![c] = [op |-> op, u |-> u, draft |-> draft]]
  /\ UNCHANGED <<user, profiles, edited, partial>>

Goto(c, op) == signing' = [signing EXCEPT ![c].op = op]
Return(c) == signing' = [signing EXCEPT ![c] = NoSign]

-----------------------------------------------------------------------------
(* Signing up *)

\* Mutant of Taken: only the phone number is looked for.
TakenPhone(doc) == \E u \in Stored : user[u].phone = doc.phone

\* findOne with $or: e-mail or phone.
Taken(doc) == \E u \in Stored : user[u].email = doc.email \/ user[u].phone = doc.phone

\* The user that signUp or barberSignUp makes.
SignUpDoc(e, p, r) == [NoUserDoc EXCEPT !.email = e, !.phone = p, !.role = r]

SignUpCheck(c, doc) == ~ Taken(doc) /\ Enter(c, "insert", NoUser, doc)

\* The user that socialSignIn makes has no phone number.
SocialDoc(e) == [NoUserDoc EXCEPT !.email = e, !.social = TRUE]

\* socialSignIn finds no account of the provider or the e-mail address.
SocialCheck(c, e) ==
  /\ \A u \in Stored : user[u].email # e
  /\ Enter(c, "insert", NoUser, SocialDoc(e))

\* user.save(): the schema has no unique index.  Every other call that is about to
\* insert has not seen this account.
InsertUser(c, u) ==
  LET doc == signing[c].draft
      next == IF doc.social THEN NoSign
              ELSE [op |-> IF doc.role = "barber" THEN "profile" ELSE "code",
                    u |-> u, draft |-> NoUserDoc]
  IN  /\ signing[c].op = "insert" /\ u \notin Stored
      /\ user' = [user EXCEPT ![u] = [doc EXCEPT !.stored = TRUE]]
      /\ signing' = [d \in Signers |->
           IF d = c THEN next
           ELSE IF signing[d].op = "insert"
                THEN [signing[d] EXCEPT !.draft.rivals = @ \cup {u}]
           ELSE signing[d]]
      /\ UNCHANGED <<profiles, edited, partial>>

\* Mutant of InsertProfile: the profile is left to createBarber.
InsertProfileNone(c) ==
  /\ signing[c].op = "profile"
  /\ Goto(c, "code")
  /\ UNCHANGED <<user, profiles, edited, partial>>

\* The barber document; userId is unique, so a second one throws.
InsertProfile(c) ==
  /\ signing[c].op = "profile"
  /\ profiles' = profiles \cup {signing[c].u}
  /\ IF signing[c].u \in profiles THEN Return(c) ELSE Goto(c, "code")
  /\ UNCHANGED <<user, edited, partial>>

\* A code is made for the phone and its id saved in the account; then the tokens of
\* the first session are made.
SaveCode(c) ==
  /\ signing[c].op = "code"
  /\ Return(c)
  /\ UNCHANGED <<user, profiles, edited, partial>>

\* A write of a sign-up throws: what was written before stays.
SignUpFails(c) ==
  /\ signing[c].op \in {"insert", "profile", "code"}
  /\ Cardinality(partial) < MaxAborts
  /\ partial' = partial \cup ({signing[c].u} \ {NoUser})
  /\ Return(c)
  /\ UNCHANGED <<user, profiles, edited>>

-----------------------------------------------------------------------------
(* Phone numbers and profiles *)

\* updateProfile: $set of a body, without looking for the phone number.
UpdateProfile(u, p) ==
  /\ u \in Stored
  /\ user' = [user EXCEPT ![u].phone = p]
  /\ edited' = edited \cup {u}
  /\ UNCHANGED <<profiles, signing, partial>>

\* createBarber: the user is a barber and has no profile yet.
CreateBarberCheck(c, u) ==
  /\ u \in Stored \ profiles /\ user[u].role = "barber"
  /\ Enter(c, "barber", u, NoUserDoc)

\* The insert; for a user that got a profile meanwhile it throws.
CreateBarberInsert(c) ==
  /\ signing[c].op = "barber"
  /\ profiles' = profiles \cup {signing[c].u}
  /\ Return(c)
  /\ UNCHANGED <<user, edited, partial>>

-----------------------------------------------------------------------------
\* The bodies of signUp and barberSignUp.
Drafts == {SignUpDoc(e, p, r) : e \in Emails, p \in Phones, r \in AccountRoles}

RegNext ==
  \/ \E c \in Signers :
       \/ \E doc \in Drafts : SignUpCheck(c, doc)
       \/ \E e \in Emails : SocialCheck(c, e)
       \/ \E u \in Users :
            InsertUser(c, u) \/ CreateBarberCheck(c, u)
       \/ InsertProfile(c) \/ SaveCode(c) \/ SignUpFails(c)
       \/ CreateBarberInsert(c)
  \/ \E u \in Users, p \in Phones : UpdateProfile(u, p)

RegSpec == RegInit /\ [][RegNext]_regVars

-----------------------------------------------------------------------------
(* Properties *)

\* Type invariant; a call that is past its insert has a stored user.
RegTypeOK ==
  /\ user \in [Users -> UserDoc]
  /\ profiles \subseteq Stored
  /\ signing \in [Signers -> Sign]
  /\ \A c \in Signers : signing[c].op \notin {"idle", "insert"} => signing[c].u \in Stored
  /\ edited \subseteq Stored
  /\ partial \subseteq Stored

\* Two accounts share an e-mail address, or a phone number that neither changed
\* since, only if one was stored while the other was signing up.
SharedOnlyByRace ==
  \A u, v \in Stored :
    /\ u # v
    /\ \/ user[u].email = user[v].email
       \/ /\ user[u].phone = user[v].phone /\ user[u].phone # NoAddress
          /\ {u, v} \cap edited = {}
    => u \in user[v].rivals \/ v \in user[u].rivals

\* A barber's account without a profile is still being made, or was left so by a
\* sign-up that failed half-way: createBarber is there to repair it.
BarberHasProfile ==
  \A u \in Stored : user[u].role = "barber" /\ u \notin profiles =>
    u \in partial \/ \E c \in Signers : signing[c].op = "profile" /\ signing[c].u = u
=============================================================================
