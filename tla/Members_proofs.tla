---------------------------- MODULE Members_proofs ----------------------------
(***************************************************************************)
(* Proofs about Registration, for any accounts, addresses and calls, about *)
(* Standing, for any accounts, numbers, customers and calls, and about the *)
(* six components of the members together.                                 *)
(***************************************************************************)
EXTENDS MCMembers, Sessions_proofs, Chat_proofs, Catalog_proofs, PagedLists_proofs, TLAPS

-----------------------------------------------------------------------------
(* Registration: the inductive invariants *)

\* A call that is about to insert has no account yet, and social accounts are those of
\* customers.
InsertsNew ==
  \A c \in Signers : signing[c].op = "insert" =>
    /\ signing[c].u = NoUser
    /\ signing[c].draft.social => signing[c].draft.role = "customer"

\* Account u has an address of a document that was checked.
Shares(u, doc) ==
  \/ user[u].email = doc.email
  \/ user[u].phone = doc.phone /\ doc.phone # NoAddress /\ u \notin edited

\* What a call is about to insert shares an address only with the accounts that were
\* stored since its check.
DraftsAreChecked ==
  \A c \in Signers : signing[c].op = "insert" =>
    \A u \in Stored : Shares(u, signing[c].draft) => u \in signing[c].draft.rivals

MadeInv == RegTypeOK /\ InsertsNew
ApartInv == MadeInv /\ DraftsAreChecked /\ SharedOnlyByRace
ProfileInv == MadeInv /\ BarberHasProfile

-----------------------------------------------------------------------------
(* Registration: types *)

\* A call that has nothing to do.
LEMMA NoSignType ==
  /\ NoUserDoc \in UserDoc /\ NoSign \in Sign
  /\ NoSign.op = "idle" /\ NoSign.u = NoUser
BY DEF NoSign, Sign, SignOps, NoUserDoc, UserDoc, Addresses, AccountRoles

\* What a call with these data is.
LEMMA SignType ==
  ASSUME NEW op \in SignOps, NEW u \in Users \cup {NoUser}, NEW doc \in UserDoc
  PROVE  [op |-> op, u |-> u, draft |-> doc] \in Sign
BY DEF Sign

\* The bodies of a sign-up and the document of a social account are new documents.
LEMMA DraftType ==
  /\ \A doc \in Drafts : doc \in UserDoc /\ ~ doc.social /\ doc.rivals = {}
  /\ \A e \in Emails :
       /\ SocialDoc(e) \in UserDoc /\ SocialDoc(e).email = e
       /\ SocialDoc(e).phone = NoAddress /\ SocialDoc(e).role = "customer"
       /\ SocialDoc(e).rivals = {}
<1>1. ASSUME NEW e \in Emails, NEW p \in Phones, NEW r \in AccountRoles
      PROVE  /\ SignUpDoc(e, p, r) \in UserDoc /\ ~ SignUpDoc(e, p, r).social
             /\ SignUpDoc(e, p, r).rivals = {}
  BY DEF SignUpDoc, UserDoc, NoUserDoc, Addresses
<1>2. ASSUME NEW e \in Emails
      PROVE  /\ SocialDoc(e) \in UserDoc /\ SocialDoc(e).email = e
             /\ SocialDoc(e).phone = NoAddress /\ SocialDoc(e).role = "customer"
             /\ SocialDoc(e).rivals = {}
  BY DEF SocialDoc, UserDoc, NoUserDoc, Addresses, AccountRoles
<1>3. QED
  BY <1>1, <1>2 DEF Drafts

\* A call that begins has what it was given; nothing else changes.
LEMMA EnterEffect ==
  ASSUME RegTypeOK, NEW c \in Signers, NEW op \in SignOps, NEW u \in Users \cup {NoUser},
         NEW doc \in UserDoc, Enter(c, op, u, doc)
  PROVE  /\ signing' \in [Signers -> Sign]
         /\ signing[c].op = "idle"
         /\ signing'[c].op = op /\ signing'[c].u = u /\ signing'[c].draft = doc
         /\ \A d \in Signers : d # c => signing'[d] = signing[d]
         /\ UNCHANGED <<user, profiles, edited, partial>> /\ Stored' = Stored
<1>1. [op |-> op, u |-> u, draft |-> doc] \in Sign
  BY SignType
<1>2. signing[c].op = "idle"
  BY NoSignType DEF Enter
<1>3. QED
  BY <1>1, <1>2 DEF Enter, RegTypeOK, Stored

\* A call goes on to op, or is over: the others are left alone.
Moves(c, op) ==
  /\ signing' \in [Signers -> Sign]
  /\ signing'[c].op = op /\ (op # "idle" => signing'[c].u = signing[c].u)
  /\ \A d \in Signers : d # c => signing'[d] = signing[d]

\* Goto and Return do that.
LEMMA MoveEffect ==
  ASSUME RegTypeOK, NEW c \in Signers
  PROVE  /\ \A op \in SignOps : Goto(c, op) => Moves(c, op)
         /\ Return(c) => Moves(c, "idle")
<1>1. signing \in [Signers -> Sign]
  BY DEF RegTypeOK
<1>2. ASSUME NEW op \in SignOps, Goto(c, op) PROVE Moves(c, op)
  BY <1>1, <1>2 DEF Goto, Moves, Sign
<1>3. ASSUME Return(c) PROVE Moves(c, "idle")
  BY <1>1, <1>3, NoSignType DEF Return, Moves
<1>4. QED
  BY <1>2, <1>3

-----------------------------------------------------------------------------
(* Registration: what the steps do *)

\* A sign-up or a createBarber has passed its checks.
Enters(c) ==
  /\ signing' \in [Signers -> Sign]
  /\ signing[c].op = "idle"
  /\ \A d \in Signers : d # c => signing'[d] = signing[d]
  /\ UNCHANGED <<user, profiles, edited, partial>> /\ Stored' = Stored
  /\ \/ /\ signing'[c].op = "insert" /\ signing'[c].u = NoUser
        /\ signing'[c].draft.social => signing'[c].draft.role = "customer"
        /\ \A u \in Stored : ~ Shares(u, signing'[c].draft)
     \/ signing'[c].op = "barber" /\ signing'[c].u \in Stored

\* NoAddress is shared by nobody.
LEMMA EnterSteps ==
  ASSUME RegTypeOK, NEW c \in Signers,
         \/ \E doc \in Drafts : SignUpCheck(c, doc)
         \/ \E e \in Emails : SocialCheck(c, e)
         \/ \E u \in Users : CreateBarberCheck(c, u)
  PROVE  Enters(c)
<1>1. ASSUME NEW doc \in Drafts, SignUpCheck(c, doc) PROVE Enters(c)
  <2>1. doc \in UserDoc /\ ~ doc.social /\ ~ Taken(doc) /\ Enter(c, "insert", NoUser, doc)
    BY <1>1, DraftType DEF SignUpCheck
  <2>2. \A u \in Stored : ~ Shares(u, doc)
    BY <2>1 DEF Taken, Shares
  <2>3. QED
    BY <2>1, <2>2, EnterEffect DEF Enters, SignOps
<1>2. ASSUME NEW e \in Emails, SocialCheck(c, e) PROVE Enters(c)
  <2>1. /\ SocialDoc(e) \in UserDoc /\ SocialDoc(e).email = e
        /\ SocialDoc(e).phone = NoAddress /\ SocialDoc(e).role = "customer"
        /\ Enter(c, "insert", NoUser, SocialDoc(e))
        /\ \A u \in Stored : user[u].email # e
    BY <1>2, DraftType DEF SocialCheck
  <2>2. \A u \in Stored : ~ Shares(u, SocialDoc(e))
    BY <2>1 DEF Shares
  <2>3. QED
    BY <2>1, <2>2, EnterEffect DEF Enters, SignOps
<1>3. ASSUME NEW u \in Users, CreateBarberCheck(c, u) PROVE Enters(c)
  <2>1. u \in Stored /\ NoUserDoc \in UserDoc /\ Enter(c, "barber", u, NoUserDoc)
    BY <1>3, NoSignType DEF CreateBarberCheck
  <2>2. QED
    BY <2>1, EnterEffect DEF Enters, SignOps
<1>4. QED
  BY <1>1, <1>2, <1>3

\* The account that is inserted, what its call does next, and what the other calls
\* have missed.
Inserts(c, u) ==
  /\ signing[c].op = "insert" /\ u \notin Stored
  /\ user' \in [Users -> UserDoc]
  /\ Stored' = Stored \cup {u}
  /\ \A v \in Users : v # u => user'[v] = user[v]
  /\ user'[u].email = signing[c].draft.email /\ user'[u].phone = signing[c].draft.phone
  /\ user'[u].role = signing[c].draft.role /\ user'[u].rivals = signing[c].draft.rivals
  /\ signing' \in [Signers -> Sign]
  /\ \/ signing'[c].op = "idle" /\ signing[c].draft.social
     \/ signing'[c].op = "profile" /\ signing'[c].u = u
     \/ signing'[c].op = "code" /\ signing'[c].u = u /\ user'[u].role # "barber"
  /\ \A d \in Signers : d # c =>
       /\ signing'[d].op = signing[d].op /\ signing'[d].u = signing[d].u
       /\ signing'[d].draft.email = signing[d].draft.email
       /\ signing'[d].draft.phone = signing[d].draft.phone
       /\ signing'[d].draft.social = signing[d].draft.social
       /\ signing'[d].draft.role = signing[d].draft.role
       /\ signing'[d].draft.rivals = IF signing[d].op = "insert"
                                     THEN signing[d].draft.rivals \cup {u}
                                     ELSE signing[d].draft.rivals
  /\ UNCHANGED <<profiles, edited, partial>>

\* Nothing but the phone number of account u changes, which is then edited.
Edits(u) ==
  /\ u \in Stored
  /\ user' \in [Users -> UserDoc] /\ Stored' = Stored
  /\ \A v \in Users : /\ v # u => user'[v] = user[v]
                      /\ user'[v].email = user[v].email /\ user'[v].role = user[v].role
                      /\ user'[v].rivals = user[v].rivals
  /\ edited' = edited \cup {u}
  /\ UNCHANGED <<profiles, signing, partial>>

\* InsertUser does that.
LEMMA InsertEffect ==
  ASSUME RegTypeOK, NEW c \in Signers, NEW u \in Users, InsertUser(c, u)
  PROVE  Inserts(c, u)
<1> DEFINE doc == signing[c].draft
           rival(d) == [signing[d] EXCEPT !.draft.rivals = @ \cup {u}]
           next == IF doc.social THEN NoSign
                   ELSE [op |-> IF doc.role = "barber" THEN "profile" ELSE "code",
                         u |-> u, draft |-> NoUserDoc]
<1>1. /\ signing \in [Signers -> Sign] /\ user \in [Users -> UserDoc]
      /\ signing[c].op = "insert" /\ u \notin Stored
      /\ user' = [user EXCEPT ![u] = [doc EXCEPT !.stored = TRUE]]
      /\ signing' = [d \in Signers |-> IF d = c THEN next
                                       ELSE IF signing[d].op = "insert" THEN rival(d)
                                       ELSE signing[d]]
      /\ UNCHANGED <<profiles, edited, partial>>
  BY DEF InsertUser, RegTypeOK
<1>2. doc \in UserDoc
  BY <1>1 DEF Sign
<1>3. PICK new : new = [doc EXCEPT !.stored = TRUE]
  OBVIOUS
<1>4. /\ new \in UserDoc /\ new.stored /\ new.email = doc.email /\ new.phone = doc.phone
      /\ new.role = doc.role /\ new.rivals = doc.rivals
  BY <1>2, <1>3 DEF UserDoc
<1>5. /\ user' \in [Users -> UserDoc] /\ user'[u] = new
      /\ \A v \in Users : v # u => user'[v] = user[v]
  BY <1>1, <1>3, <1>4
<1>6. Stored' = Stored \cup {u}
  BY <1>4, <1>5 DEF Stored
<1>7. /\ next \in Sign
      /\ \/ next.op = "idle" /\ doc.social
         \/ next.op = "profile" /\ next.u = u
         \/ next.op = "code" /\ next.u = u /\ doc.role # "barber"
  <2>1. CASE doc.social
    BY <2>1, NoSignType
  <2>2. CASE ~ doc.social
    BY <2>2, NoSignType DEF Sign, SignOps
  <2>3. QED
    BY <2>1, <2>2
<1>8. \A d \in Signers :
        /\ rival(d) \in Sign
        /\ rival(d).op = signing[d].op /\ rival(d).u = signing[d].u
        /\ rival(d).draft.email = signing[d].draft.email
        /\ rival(d).draft.phone = signing[d].draft.phone
        /\ rival(d).draft.social = signing[d].draft.social
        /\ rival(d).draft.role = signing[d].draft.role
        /\ rival(d).draft.rivals = signing[d].draft.rivals \cup {u}
  <2> TAKE d \in Signers
  <2>1. PICK s \in Sign : s = signing[d]
    BY <1>1
  <2>2. s.draft \in UserDoc /\ s.draft.rivals \in SUBSET Users
    BY DEF Sign, UserDoc
  <2>3. rival(d) = [s EXCEPT !.draft = [s.draft EXCEPT !.rivals = s.draft.rivals \cup {u}]]
    BY <2>1 DEF Sign, UserDoc
  <2>4. [s.draft EXCEPT !.rivals = s.draft.rivals \cup {u}] \in UserDoc
    BY <2>2 DEF UserDoc
  <2>5. QED
    BY <2>1, <2>2, <2>3, <2>4 DEF Sign, UserDoc
<1> HIDE DEF next, rival, doc
<1>9. signing' \in [Signers -> Sign]
  BY <1>1, <1>7, <1>8
<1>10. QED
  <2>1. signing'[c] = next
    BY <1>1
  <2>2. \A d \in Signers : d # c =>
          signing'[d] = IF signing[d].op = "insert" THEN rival(d) ELSE signing[d]
    BY <1>1
  <2>3. \A d \in Signers : d # c =>
          /\ signing'[d].op = signing[d].op /\ signing'[d].u = signing[d].u
          /\ signing'[d].draft.email = signing[d].draft.email
          /\ signing'[d].draft.phone = signing[d].draft.phone
          /\ signing'[d].draft.social = signing[d].draft.social
          /\ signing'[d].draft.role = signing[d].draft.role
          /\ signing'[d].draft.rivals = IF signing[d].op = "insert"
                                        THEN signing[d].draft.rivals \cup {u}
                                        ELSE signing[d].draft.rivals
    <3> TAKE d \in Signers
    <3>1. CASE signing[d].op = "insert"
      BY <2>2, <3>1, <1>8
    <3>2. CASE signing[d].op # "insert"
      BY <2>2, <3>2
    <3>3. QED
      BY <3>1, <3>2
  <2>4. \/ signing'[c].op = "idle" /\ doc.social
        \/ signing'[c].op = "profile" /\ signing'[c].u = u
        \/ signing'[c].op = "code" /\ signing'[c].u = u /\ user'[u].role # "barber"
    BY <1>4, <1>5, <1>7, <2>1
  <2>5. /\ user'[u].email = doc.email /\ user'[u].phone = doc.phone
        /\ user'[u].role = doc.role /\ user'[u].rivals = doc.rivals
    BY <1>4, <1>5
  <2>6. QED
    BY <1>1, <1>5, <1>6, <1>9, <2>3, <2>4, <2>5 DEF Inserts, doc

\* UpdateProfile does that.
LEMMA EditEffect ==
  ASSUME RegTypeOK, NEW u \in Users, NEW p \in Phones, UpdateProfile(u, p)
  PROVE  Edits(u)
<1>1. user \in [Users -> UserDoc] /\ user' = [user EXCEPT ![u].phone = p] /\ u \in Stored
  BY DEF RegTypeOK, UpdateProfile
<1>2. PICK new : new = [user[u] EXCEPT !.phone = p]
  OBVIOUS
<1>3. /\ new \in UserDoc /\ new.stored = user[u].stored /\ new.email = user[u].email
      /\ new.role = user[u].role /\ new.rivals = user[u].rivals
  BY <1>1, <1>2 DEF UserDoc, Addresses
<1>4. /\ user' \in [Users -> UserDoc] /\ user'[u] = new
      /\ \A v \in Users : v # u => user'[v] = user[v]
  BY <1>1, <1>2, <1>3
<1>5. Stored' = Stored
  BY <1>3, <1>4 DEF Stored
<1>6. QED
  BY <1>1, <1>3, <1>4, <1>5 DEF Edits, UpdateProfile

\* The steps of a call after its insert: a profile for its account, or none; a call
\* that fails leaves its account behind.
Goes(c) ==
  /\ signing[c].op \in {"insert", "profile", "code", "barber"}
  /\ UNCHANGED <<user, edited>> /\ Stored' = Stored
  /\ Moves(c, "idle") \/ (signing[c].op = "profile" /\ Moves(c, "code"))
  /\ \/ /\ profiles' = profiles \cup {signing[c].u} /\ partial' = partial
        /\ signing[c].op \in {"profile", "barber"}
     \/ profiles' = profiles /\ partial' = partial /\ signing[c].op = "code"
     \/ profiles' = profiles /\ partial' = partial \cup ({signing[c].u} \ {NoUser})

\* InsertProfile, SaveCode, SignUpFails and CreateBarberInsert do that.
LEMMA GoesEffect ==
  ASSUME RegTypeOK, NEW c \in Signers,
         InsertProfile(c) \/ SaveCode(c) \/ SignUpFails(c) \/ CreateBarberInsert(c)
  PROVE  Goes(c)
<1>1. ASSUME InsertProfile(c) PROVE Goes(c)
  BY <1>1, MoveEffect DEF InsertProfile, Goes, SignOps, Stored
<1>2. ASSUME SaveCode(c) PROVE Goes(c)
  BY <1>2, MoveEffect DEF SaveCode, Goes, Stored
<1>3. ASSUME SignUpFails(c) PROVE Goes(c)
  BY <1>3, MoveEffect DEF SignUpFails, Goes, Stored
<1>4. ASSUME CreateBarberInsert(c) PROVE Goes(c)
  BY <1>4, MoveEffect DEF CreateBarberInsert, Goes, Stored
<1>5. QED
  BY <1>1, <1>2, <1>3, <1>4

\* A step is one of these.
LEMMA Steps ==
  ASSUME RegTypeOK, [RegNext]_regVars
  PROVE  \/ \E c \in Signers : Enters(c) \/ Goes(c)
         \/ \E c \in Signers, u \in Users : Inserts(c, u)
         \/ \E u \in Users : Edits(u)
         \/ UNCHANGED regVars /\ Stored' = Stored
<1>1. CASE UNCHANGED regVars
  BY <1>1 DEF regVars, Stored
<1>2. CASE RegNext
  BY <1>2, EnterSteps, InsertEffect, EditEffect, GoesEffect DEF RegNext
<1>3. QED
  BY <1>1, <1>2

-----------------------------------------------------------------------------
(* Registration: the invariants hold at first and are kept *)

\* They hold where nothing is stored.
LEMMA RegInitInv ==
  ASSUME RegInit PROVE MadeInv /\ ApartInv /\ ProfileInv
<1>1. Stored = {} /\ \A c \in Signers : signing[c].op = "idle"
  BY NoSignType DEF RegInit, Stored, NoUserDoc
<1>2. RegTypeOK
  BY <1>1, NoSignType DEF RegInit, RegTypeOK
<1>3. QED
  BY <1>1, <1>2
     DEF MadeInv, ApartInv, ProfileInv, InsertsNew, DraftsAreChecked, SharedOnlyByRace,
         BarberHasProfile

\* A step keeps the types, and what a call is about to insert is new.
LEMMA MadeStep ==
  ASSUME MadeInv, [RegNext]_regVars
  PROVE  MadeInv'
<1>1. ASSUME NEW c \in Signers, Enters(c) PROVE MadeInv'
  BY <1>1 DEF Enters, MadeInv, RegTypeOK, InsertsNew
<1>2. ASSUME NEW c \in Signers, Goes(c) PROVE MadeInv'
  <2>1. signing[c].op # "insert" => signing[c].u \in Stored
    BY <1>2 DEF Goes, MadeInv, RegTypeOK
  <2>2. signing[c].op = "insert" => signing[c].u = NoUser
    BY DEF MadeInv, InsertsNew
  <2>3. profiles' \subseteq Stored /\ partial' \subseteq Stored
    BY <1>2, <2>1, <2>2 DEF Goes, MadeInv, RegTypeOK
  <2>4. \A d \in Signers : signing'[d] = signing[d] \/ signing'[d].op = "idle"
          \/ (d = c /\ signing'[d].op = "code" /\ signing'[d].u \in Stored)
    BY <1>2, <2>1 DEF Goes, Moves
  <2>5. signing' \in [Signers -> Sign] /\ Stored' = Stored
    BY <1>2 DEF Goes, Moves
  <2>6. RegTypeOK'
    BY <1>2, <2>3, <2>4, <2>5 DEF Goes, MadeInv, RegTypeOK
  <2>7. InsertsNew'
    BY <2>4 DEF MadeInv, InsertsNew
  <2>8. QED
    BY <2>6, <2>7 DEF MadeInv
<1>3. ASSUME NEW c \in Signers, NEW u \in Users, Inserts(c, u) PROVE MadeInv'
  <2>1. RegTypeOK'
    <3>1. \A d \in Signers :
            signing'[d].op \notin {"idle", "insert"} => signing'[d].u \in Stored'
      BY <1>3 DEF Inserts, MadeInv, RegTypeOK
    <3>2. profiles \subseteq Stored' /\ edited \subseteq Stored' /\ partial \subseteq Stored'
      BY <1>3 DEF Inserts, MadeInv, RegTypeOK
    <3>3. QED
      BY <1>3, <3>1, <3>2 DEF Inserts, RegTypeOK
  <2>2. ASSUME NEW d \in Signers, signing'[d].op = "insert"
        PROVE  /\ signing[d].op = "insert" /\ signing'[d].u = signing[d].u
               /\ signing'[d].draft.social = signing[d].draft.social
               /\ signing'[d].draft.role = signing[d].draft.role
    <3>1. d # c
      BY <1>3, <2>2 DEF Inserts
    <3>2. QED
      BY <1>3, <2>2, <3>1 DEF Inserts
  <2>3. InsertsNew'
    BY <2>2 DEF MadeInv, InsertsNew
  <2>4. QED
    BY <2>1, <2>3 DEF MadeInv
<1>4. ASSUME NEW u \in Users, Edits(u) PROVE MadeInv'
  BY <1>4 DEF Edits, MadeInv, RegTypeOK, InsertsNew
<1>5. CASE UNCHANGED regVars /\ Stored' = Stored
  BY <1>5 DEF regVars, MadeInv, RegTypeOK, InsertsNew
<1>6. QED
  BY <1>1, <1>2, <1>3, <1>4, <1>5, Steps DEF MadeInv

\* A step keeps apart the accounts that were not made at the same time.
LEMMA ApartStep ==
  ASSUME ApartInv, [RegNext]_regVars
  PROVE  ApartInv'
<1>0. MadeInv /\ MadeInv'
  BY MadeStep DEF ApartInv
<1>1. ASSUME NEW c \in Signers, Enters(c)
      PROVE  DraftsAreChecked' /\ SharedOnlyByRace'
  BY <1>1 DEF Enters, ApartInv, DraftsAreChecked, SharedOnlyByRace, Shares
<1>2. ASSUME NEW c \in Signers, Goes(c)
      PROVE  DraftsAreChecked' /\ SharedOnlyByRace'
  <2>1. \A d \in Signers : signing'[d] = signing[d] \/ signing'[d].op # "insert"
    BY <1>2 DEF Goes, Moves
  <2>2. QED
    BY <1>2, <2>1 DEF Goes, ApartInv, DraftsAreChecked, SharedOnlyByRace, Shares
<1>3. ASSUME NEW c \in Signers, NEW u \in Users, Inserts(c, u)
      PROVE  DraftsAreChecked' /\ SharedOnlyByRace'
  <2>1. ASSUME NEW d \in Signers, signing'[d].op = "insert",
               NEW v \in Stored', Shares(v, signing[d].draft)'
        PROVE  v \in signing'[d].draft.rivals
    <3>1. d # c /\ signing[d].op = "insert"
      BY <1>3, <2>1 DEF Inserts
    <3>2. CASE v = u
      BY <1>3, <3>1, <3>2 DEF Inserts
    <3>3. CASE v # u
      <4>1. v \in Stored /\ user'[v] = user[v]
        BY <1>3, <3>3 DEF Inserts, Stored
      <4>2. Shares(v, signing[d].draft)
        BY <1>3, <2>1, <3>1, <4>1 DEF Inserts, Shares
      <4>3. v \in signing[d].draft.rivals
        BY <3>1, <4>1, <4>2 DEF ApartInv, DraftsAreChecked
      <4>4. QED
        BY <1>3, <3>1, <4>3 DEF Inserts
    <3>4. QED
      BY <3>2, <3>3
  <2>2. \A v \in Stored : Shares(v, signing[c].draft) => v \in user'[u].rivals
    BY <1>3 DEF Inserts, ApartInv, DraftsAreChecked
  <2>3. \A v \in Stored : v # u /\ user'[v] = user[v]
    BY <1>3 DEF Inserts, Stored
  <2>4. SharedOnlyByRace'
    BY <1>3, <2>2, <2>3 DEF Inserts, ApartInv, SharedOnlyByRace, Shares
  <2>5. QED
    BY <2>1, <2>4 DEF DraftsAreChecked
<1>4. ASSUME NEW u \in Users, Edits(u)
      PROVE  DraftsAreChecked' /\ SharedOnlyByRace'
  <2>1. \A v \in Stored : v \in Users
    BY DEF Stored
  <2>2. DraftsAreChecked'
    BY <1>4, <2>1 DEF Edits, ApartInv, DraftsAreChecked, Shares
  <2>3. SharedOnlyByRace'
    BY <1>4, <2>1 DEF Edits, ApartInv, SharedOnlyByRace
  <2>4. QED
    BY <2>2, <2>3
<1>5. ASSUME UNCHANGED regVars, Stored' = Stored
      PROVE  DraftsAreChecked' /\ SharedOnlyByRace'
  BY <1>5 DEF regVars, ApartInv, DraftsAreChecked, SharedOnlyByRace, Shares
<1>6. QED
  <2>1. DraftsAreChecked' /\ SharedOnlyByRace'
    BY <1>0, <1>1, <1>2, <1>3, <1>4, <1>5, Steps DEF MadeInv
  <2>2. QED
    BY <1>0, <2>1 DEF ApartInv

\* A step leaves no barber without a profile, a failed sign-up excepted.
LEMMA ProfileStep ==
  ASSUME ProfileInv, [RegNext]_regVars
  PROVE  ProfileInv'
<1>0. MadeInv /\ MadeInv' /\ BarberHasProfile
  BY MadeStep DEF ProfileInv
<1>1. ASSUME NEW c \in Signers, Enters(c) PROVE BarberHasProfile'
  BY <1>0, <1>1 DEF Enters, BarberHasProfile
<1>2. ASSUME NEW c \in Signers, Goes(c) PROVE BarberHasProfile'
  <2>1. SUFFICES ASSUME NEW v \in Stored, user[v].role = "barber", v \notin profiles'
                 PROVE  \/ v \in partial'
                        \/ \E d \in Signers :
                             signing'[d].op = "profile" /\ signing'[d].u = v
    BY <1>2 DEF Goes, BarberHasProfile
  <2>2. v \notin profiles /\ partial \subseteq partial' /\ v \in Users
    BY <1>2, <2>1 DEF Goes, Stored
  <2>3. CASE v \in partial
    BY <2>2, <2>3
  <2>4. ASSUME NEW d \in Signers, signing[d].op = "profile", signing[d].u = v
        PROVE  \/ v \in partial'
               \/ signing'[d].op = "profile" /\ signing'[d].u = v
    <3>1. CASE d # c
      BY <1>2, <2>4, <3>1 DEF Goes, Moves
    <3>2. CASE d = c
      BY <1>2, <2>1, <2>2, <2>4, <3>2, RegistrationConstants DEF Goes
    <3>3. QED
      BY <3>1, <3>2
  <2>5. QED
    BY <1>0, <2>1, <2>2, <2>3, <2>4 DEF BarberHasProfile
<1>3. ASSUME NEW c \in Signers, NEW u \in Users, Inserts(c, u) PROVE BarberHasProfile'
  <2>1. user'[u].role = "barber" => signing'[c].op = "profile" /\ signing'[c].u = u
    BY <1>0, <1>3 DEF Inserts, MadeInv, InsertsNew
  <2>2. \A v \in Stored : user'[v] = user[v]
    BY <1>3 DEF Inserts, Stored
  <2>3. \A d \in Signers : signing[d].op = "profile" =>
          signing'[d].op = "profile" /\ signing'[d].u = signing[d].u
    BY <1>3 DEF Inserts
  <2>4. QED
    BY <1>0, <1>3, <2>1, <2>2, <2>3 DEF Inserts, BarberHasProfile
<1>4. ASSUME NEW u \in Users, Edits(u) PROVE BarberHasProfile'
  BY <1>0, <1>4 DEF Edits, BarberHasProfile, Stored
<1>5. ASSUME UNCHANGED regVars, Stored' = Stored PROVE BarberHasProfile'
  BY <1>0, <1>5 DEF regVars, BarberHasProfile
<1>6. QED
  <2>1. BarberHasProfile'
    BY <1>0, <1>1, <1>2, <1>3, <1>4, <1>5, Steps DEF MadeInv
  <2>2. QED
    BY <1>0, <2>1 DEF ProfileInv

-----------------------------------------------------------------------------
(* Registration: theorems *)

\* Accounts, profiles and calls have their types; profiles and half-made accounts
\* belong to stored users.
THEOREM AccountsTypeCorrect == RegSpec => []RegTypeOK
<1>1. RegInit => MadeInv
  BY RegInitInv
<1>2. MadeInv /\ [RegNext]_regVars => MadeInv'
  BY MadeStep
<1>3. MadeInv => RegTypeOK
  BY DEF MadeInv
<1>4. QED
  BY <1>1, <1>2, <1>3, PTL DEF RegSpec

\* Two accounts share an e-mail address, or a phone number that neither changed since,
\* only when one was stored between the other's check and its insert.
THEOREM SharedAddressesRaced == RegSpec => []SharedOnlyByRace
<1>1. RegInit => ApartInv
  BY RegInitInv
<1>2. ApartInv /\ [RegNext]_regVars => ApartInv'
  BY ApartStep
<1>3. ApartInv => SharedOnlyByRace
  BY DEF ApartInv
<1>4. QED
  BY <1>1, <1>2, <1>3, PTL DEF RegSpec

\* The account of a barber has a profile, is being made, or was left by a sign-up that
\* failed half-way.
THEOREM BarbersHaveProfiles == RegSpec => []BarberHasProfile
<1>1. RegInit => ProfileInv
  BY RegInitInv
<1>2. ProfileInv /\ [RegNext]_regVars => ProfileInv'
  BY ProfileStep
<1>3. ProfileInv => BarberHasProfile
  BY DEF ProfileInv
<1>4. QED
  BY <1>1, <1>2, <1>3, PTL DEF RegSpec

-----------------------------------------------------------------------------
(* Standing: the inductive invariants *)

\* Call k is making a customer at Stripe for user u.
Paying(k, u) == task[k].op \in {"customer", "attach"} /\ task[k].u = u

\* One call at a time makes a customer, and only for a user that has none, unless two
\* calls did at the same time.
OneCustomer ==
  \A u \in People : ~ record[u].rivals =>
    \A k \in Tasks : Paying(k, u) =>
      /\ person[u].customer = NoPayer
      /\ \A j \in Tasks : Paying(j, u) => j = k

SeenInv == StdTypeOK /\ VerdictSeen
KeptInv == StdTypeOK /\ OneCustomer /\ CustomerKept

-----------------------------------------------------------------------------
(* Standing: calls *)

\* Call k, of kind op for user u, has begun.
Begins(k, op, u) ==
  /\ task[k].op = "idle"
  /\ task' \in [Tasks -> Task]
  /\ task'[k].op = op /\ task'[k].u = u
  /\ op = "verify" => task'[k].number = person[u].code
  /\ \A j \in Tasks : j # k => task'[j] = task[j]

\* Load does that.
LEMMA LoadEffect ==
  ASSUME StdTypeOK, NEW k \in Tasks, NEW u \in People, NEW op \in TaskOps, Load(k, op, u)
  PROVE  Begins(k, op, u)
<1> DEFINE new == [op |-> op, u |-> u, papers |-> person[u].papers, x |-> NoPayer,
                   number |-> IF op = "resend" THEN person[u].phone ELSE person[u].code]
<1>1. person[u] \in PersonDoc /\ task \in [Tasks -> Task]
  BY DEF StdTypeOK
<1>2. new \in Task /\ new.op = op /\ new.u = u
      /\ (op = "verify" => new.number = person[u].code)
  BY <1>1 DEF PersonDoc, Task
<1> HIDE DEF new
<1>3. task[k] = NoTask /\ task' = [task EXCEPT ![k] = new]
  BY DEF Load, new
<1>4. task[k].op = "idle"
  BY <1>3 DEF NoTask
<1>5. QED
  BY <1>1, <1>2, <1>3, <1>4 DEF Begins

\* Call k is over.
Ends(k) ==
  /\ task' \in [Tasks -> Task]
  /\ task'[k].op = "idle"
  /\ \A j \in Tasks : j # k => task'[j] = task[j]

\* At ends the call.
LEMMA AtEffect ==
  ASSUME StdTypeOK, NEW k \in Tasks, NEW op, At(k, op)
  PROVE  Ends(k) /\ task[k].op = op
<1>1. NoTask \in Task /\ NoTask.op = "idle"
  BY DEF NoTask, Task, TaskOps
<1>2. QED
  BY <1>1 DEF At, Ends, StdTypeOK

-----------------------------------------------------------------------------
(* Standing: what the steps do *)

\* The verdicts and the customers stay as they are.
SameVerdicts ==
  \A u \in People : /\ person'[u].verdict = person[u].verdict
                    /\ person'[u].papers = person[u].papers
                    /\ record'[u].seen = record[u].seen
                    /\ record'[u].late = record[u].late

SameCustomers ==
  /\ payer' = payer
  /\ \A u \in People : /\ person'[u].customer = person[u].customer
                       /\ record'[u].rivals = record[u].rivals
                       /\ record'[u].unsaved = record[u].unsaved

SameDocs == person' \in [People -> PersonDoc] /\ record' \in [People -> RecordDoc]

\* A load that makes no customer.
Reads ==
  \E k \in Tasks, u \in People, op \in TaskOps \ {"idle", "customer", "attach"} :
    /\ Begins(k, op, u)
    /\ op = "verify" => person[u].code # NoNumber
    /\ UNCHANGED <<person, payer, record>>

\* A save of fields that are neither a verdict nor a customer.
Writes ==
  /\ SameDocs /\ SameVerdicts /\ SameCustomers
  /\ UNCHANGED task \/ \E k \in Tasks : Ends(k) /\ task[k].op \notin {"customer", "attach"}

\* A submission or a verdict.
Decides ==
  /\ SameDocs /\ SameCustomers
  /\ \E k \in Tasks : Ends(k) /\ task[k].op \notin {"customer", "attach"}
  /\ \A u \in People :
       \/ /\ person'[u].verdict = person[u].verdict /\ person'[u].papers = person[u].papers
          /\ record'[u].seen = record[u].seen /\ record'[u].late = record[u].late
       \/ person'[u].verdict = "pending"
       \/ record'[u].seen = person'[u].papers \/ record'[u].late

\* A call finds no customer: another that makes one at this moment is a rival.
PayLoads(k, u) ==
  /\ Begins(k, "customer", u) /\ person[u].customer = NoPayer
  /\ SameDocs /\ SameVerdicts /\ UNCHANGED <<person, payer>>
  /\ \A v \in People : /\ record'[v].unsaved = record[v].unsaved
                       /\ v # u => record'[v].rivals = record[v].rivals
  /\ record'[u].rivals = (record[u].rivals \/ \E j \in Tasks : Paying(j, u))

\* It makes customer x at Stripe.
PayMakes(k, u, x) ==
  /\ task[k].op = "customer" /\ task[k].u = u /\ x \notin Made
  /\ payer' \in [Payers -> People \cup {NoPerson}]
  /\ payer'[x] = u /\ \A y \in Payers : y # x => payer'[y] = payer[y]
  /\ Made' = Made \cup {x}
  /\ task' \in [Tasks -> Task]
  /\ task'[k].op = "attach" /\ task'[k].u = u /\ task'[k].x = x
  /\ \A j \in Tasks : j # k => task'[j] = task[j]
  /\ UNCHANGED <<person, record>>

\* It saves the customer, or fails to.
PayEnds(k, u) ==
  /\ task[k].op = "attach" /\ task[k].u = u /\ Ends(k)
  /\ SameDocs /\ SameVerdicts /\ payer' = payer
  /\ \A v \in People : /\ record'[v].rivals = record[v].rivals
                       /\ v # u => /\ person'[v].customer = person[v].customer
                                   /\ record'[v].unsaved = record[v].unsaved
  /\ \/ person'[u].customer = task[k].x /\ record'[u].unsaved = record[u].unsaved
     \/ person'[u].customer = person[u].customer /\ record'[u].unsaved

\* The loads that make no customer.
LEMMA ReadSteps ==
  ASSUME StdTypeOK, NEW k \in Tasks, NEW u \in People,
         \/ VerifyLoad(k, u) \/ ResendLoad(k, u) \/ SubmitLoad(k, u) \/ ReviewLoad(k, u)
         \/ \E op \in {"remove", "restore"} : RemovalLoad(k, u, op)
  PROVE  Reads
<1>1. ASSUME VerifyLoad(k, u) PROVE Reads
  BY <1>1, LoadEffect DEF VerifyLoad, Reads, TaskOps
<1>2. ASSUME ResendLoad(k, u) PROVE Reads
  BY <1>2, LoadEffect DEF ResendLoad, Reads, TaskOps
<1>3. ASSUME SubmitLoad(k, u) PROVE Reads
  BY <1>3, LoadEffect DEF SubmitLoad, Reads, TaskOps
<1>4. ASSUME ReviewLoad(k, u) PROVE Reads
  BY <1>4, LoadEffect DEF ReviewLoad, Reads, TaskOps
<1>5. ASSUME NEW op \in {"remove", "restore"}, RemovalLoad(k, u, op) PROVE Reads
  BY <1>5, LoadEffect DEF RemovalLoad, Reads, TaskOps
<1>6. QED
  BY <1>1, <1>2, <1>3, <1>4, <1>5

\* The documents of the other accounts stay, and this one is what it is given.
LEMMA Update ==
  ASSUME StdTypeOK, NEW u \in People, NEW doc \in PersonDoc, NEW rec \in RecordDoc,
         person' = [person EXCEPT ![u] = doc], record' = [record EXCEPT ![u] = rec]
  PROVE  /\ SameDocs /\ person'[u] = doc /\ record'[u] = rec
         /\ \A v \in People : v # u => person'[v] = person[v] /\ record'[v] = record[v]
BY DEF StdTypeOK, SameDocs

\* Doc and rec keep the verdict and the customer of account u.
Keeps(u, doc, rec) ==
  /\ doc.verdict = person[u].verdict /\ doc.papers = person[u].papers
  /\ doc.customer = person[u].customer
  /\ rec.seen = record[u].seen /\ rec.late = record[u].late
  /\ rec.rivals = record[u].rivals /\ rec.unsaved = record[u].unsaved

\* Then so does the step that stores them.
LEMMA UpdateKeeps ==
  ASSUME StdTypeOK, NEW u \in People, NEW doc \in PersonDoc, NEW rec \in RecordDoc,
         person' = [person EXCEPT ![u] = doc], record' = [record EXCEPT ![u] = rec],
         payer' = payer, Keeps(u, doc, rec)
  PROVE  SameDocs /\ SameVerdicts /\ SameCustomers
<1>1. /\ SameDocs /\ person'[u] = doc /\ record'[u] = rec
      /\ \A v \in People : v # u => person'[v] = person[v] /\ record'[v] = record[v]
  BY Update
<1>2. ASSUME NEW v \in People
      PROVE  /\ person'[v].verdict = person[v].verdict /\ person'[v].papers = person[v].papers
             /\ record'[v].seen = record[v].seen /\ record'[v].late = record[v].late
             /\ person'[v].customer = person[v].customer
             /\ record'[v].rivals = record[v].rivals
             /\ record'[v].unsaved = record[v].unsaved
  <2>1. CASE v = u
    BY <1>1, <2>1 DEF Keeps
  <2>2. CASE v # u
    BY <1>1, <2>2
  <2>3. QED
    BY <2>1, <2>2
<1>3. QED
  BY <1>1, <1>2 DEF SameVerdicts, SameCustomers

\* The number, the verification and the removal.
LEMMA WriteSteps ==
  ASSUME StdTypeOK,
         \/ \E k \in Tasks : \/ VerifySave(k) \/ ResendSave(k)
                             \/ \E op \in {"remove", "restore"} : RemovalSave(k, op)
         \/ \E u \in People : \/ \E n \in Numbers : ChangeNumber(u, n)
                              \/ \E b \in BOOLEAN : ToggleVerification(u, b)
  PROVE  Writes
<1>0. ASSUME NEW u \in People PROVE person[u] \in PersonDoc /\ record[u] \in RecordDoc
  BY DEF StdTypeOK
<1>1. ASSUME NEW k \in Tasks, VerifySave(k) PROVE Writes
  <2>1. Ends(k) /\ task[k].op = "verify"
    BY <1>1, AtEffect DEF VerifySave
  <2>2. PICK u \in People : u = task[k].u
    BY <2>1 DEF StdTypeOK
  <2>3. PICK doc : doc = [[person[u] EXCEPT !.verified = TRUE] EXCEPT !.code = NoNumber]
    OBVIOUS
  <2>4. PICK rec : rec = [record[u] EXCEPT !.number = task[k].number]
    OBVIOUS
  <2>5. task[k].number \in Numbers \cup {NoNumber}
    BY DEF StdTypeOK, Task
  <2>6. /\ doc \in PersonDoc /\ doc.verdict = person[u].verdict
        /\ doc.papers = person[u].papers /\ doc.customer = person[u].customer
    BY <1>0, <2>3 DEF PersonDoc
  <2>7. /\ rec \in RecordDoc /\ rec.seen = record[u].seen /\ rec.late = record[u].late
        /\ rec.rivals = record[u].rivals /\ rec.unsaved = record[u].unsaved
    BY <1>0, <2>4, <2>5 DEF RecordDoc
  <2>8. person' = [person EXCEPT ![u] = doc] /\ record' = [record EXCEPT ![u] = rec]
        /\ payer' = payer
    BY <1>1, <2>2, <2>3, <2>4 DEF VerifySave
  <2>9. SameDocs /\ SameVerdicts /\ SameCustomers
    BY <2>6, <2>7, <2>8, UpdateKeeps DEF Keeps
  <2>10. QED
    BY <2>1, <2>9 DEF Writes
<1>2. ASSUME NEW k \in Tasks, ResendSave(k) PROVE Writes
  <2>1. Ends(k) /\ task[k].op = "resend"
    BY <1>2, AtEffect DEF ResendSave
  <2>2. PICK u \in People : u = task[k].u
    BY <2>1 DEF StdTypeOK
  <2>3. PICK doc : doc = [person[u] EXCEPT !.code = task[k].number]
    OBVIOUS
  <2>4. task[k].number \in Numbers \cup {NoNumber}
    BY DEF StdTypeOK, Task
  <2>5. /\ doc \in PersonDoc /\ doc.verdict = person[u].verdict
        /\ doc.papers = person[u].papers /\ doc.customer = person[u].customer
    BY <1>0, <2>3, <2>4 DEF PersonDoc
  <2>6. person' = [person EXCEPT ![u] = doc] /\ record' = record /\ payer' = payer
    BY <1>2, <2>2, <2>3 DEF ResendSave
  <2>7. record' = [record EXCEPT ![u] = record[u]]
    BY <2>6 DEF StdTypeOK
  <2>8. SameDocs /\ SameVerdicts /\ SameCustomers
    BY <1>0, <2>5, <2>6, <2>7, UpdateKeeps DEF Keeps
  <2>9. QED
    BY <2>1, <2>8 DEF Writes
<1>3. ASSUME NEW k \in Tasks, NEW op \in {"remove", "restore"}, RemovalSave(k, op)
      PROVE  Writes
  <2>1. Ends(k) /\ task[k].op = op
    BY <1>3, AtEffect DEF RemovalSave
  <2>2. PICK u \in People : u = task[k].u
    BY <2>1 DEF StdTypeOK
  <2>3. PICK doc : doc = [person[u] EXCEPT !.deleted = (op = "remove")]
    OBVIOUS
  <2>4. /\ doc \in PersonDoc /\ doc.verdict = person[u].verdict
        /\ doc.papers = person[u].papers /\ doc.customer = person[u].customer
    BY <1>0, <2>3 DEF PersonDoc
  <2>5. person' = [person EXCEPT ![u] = doc] /\ record' = record /\ payer' = payer
    BY <1>3, <2>2, <2>3 DEF RemovalSave
  <2>6. record' = [record EXCEPT ![u] = record[u]]
    BY <2>5 DEF StdTypeOK
  <2>7. SameDocs /\ SameVerdicts /\ SameCustomers
    BY <1>0, <2>4, <2>5, <2>6, UpdateKeeps DEF Keeps
  <2>8. QED
    BY <2>1, <2>7 DEF Writes
<1>4. ASSUME NEW u \in People, NEW n \in Numbers, ChangeNumber(u, n) PROVE Writes
  <2>1. PICK doc : doc = [person[u] EXCEPT !.phone = n]
    OBVIOUS
  <2>2. PICK rec : rec = [record[u] EXCEPT !.edited = TRUE]
    OBVIOUS
  <2>3. /\ doc \in PersonDoc /\ doc.verdict = person[u].verdict
        /\ doc.papers = person[u].papers /\ doc.customer = person[u].customer
    BY <1>0, <2>1 DEF PersonDoc
  <2>4. /\ rec \in RecordDoc /\ rec.seen = record[u].seen /\ rec.late = record[u].late
        /\ rec.rivals = record[u].rivals /\ rec.unsaved = record[u].unsaved
    BY <1>0, <2>2 DEF RecordDoc
  <2>5. person' = [person EXCEPT ![u] = doc] /\ record' = [record EXCEPT ![u] = rec]
        /\ payer' = payer /\ task' = task
    BY <1>4, <2>1, <2>2 DEF ChangeNumber
  <2>6. QED
    BY <2>3, <2>4, <2>5, UpdateKeeps DEF Keeps, Writes
<1>5. ASSUME NEW u \in People, NEW b \in BOOLEAN, ToggleVerification(u, b) PROVE Writes
  <2>1. PICK doc : doc = [person[u] EXCEPT !.verified = b]
    OBVIOUS
  <2>2. PICK rec : rec = [[record[u] EXCEPT !.vouched = b] EXCEPT !.number = NoNumber]
    OBVIOUS
  <2>3. /\ doc \in PersonDoc /\ doc.verdict = person[u].verdict
        /\ doc.papers = person[u].papers /\ doc.customer = person[u].customer
    BY <1>0, <2>1 DEF PersonDoc
  <2>4. /\ rec \in RecordDoc /\ rec.seen = record[u].seen /\ rec.late = record[u].late
        /\ rec.rivals = record[u].rivals /\ rec.unsaved = record[u].unsaved
    BY <1>0, <2>2 DEF RecordDoc
  <2>5. person' = [person EXCEPT ![u] = doc] /\ record' = [record EXCEPT ![u] = rec]
        /\ payer' = payer /\ task' = task
    BY <1>5, <2>1, <2>2 DEF ToggleVerification
  <2>6. QED
    BY <2>3, <2>4, <2>5, UpdateKeeps DEF Keeps, Writes
<1>6. QED
  BY <1>1, <1>2, <1>3, <1>4, <1>5

\* Submissions and verdicts.
LEMMA DecideSteps ==
  ASSUME StdTypeOK, NEW k \in Tasks,
         SubmitSave(k) \/ \E verdict \in {"approved", "rejected"} : ReviewSave(k, verdict)
  PROVE  Decides
<1>1. ASSUME SubmitSave(k) PROVE Decides
  <2>1. Ends(k) /\ task[k].op = "submit"
    BY <1>1, AtEffect DEF SubmitSave
  <2>2. PICK u \in People : u = task[k].u
    BY <2>1 DEF StdTypeOK
  <2>3. PICK doc : doc = Submitted(person[u])
    OBVIOUS
  <2>4. person[u] \in PersonDoc /\ record[u] \in RecordDoc
    BY DEF StdTypeOK
  <2>5. /\ doc \in PersonDoc /\ doc.verdict = "pending"
        /\ doc.customer = person[u].customer
    <3>1. PICK n \in Nat : n = person[u].papers + 1
      BY <2>4 DEF PersonDoc
    <3>2. doc = [[person[u] EXCEPT !.verdict = "pending"] EXCEPT !.papers = n]
      BY <2>3, <3>1 DEF Submitted
    <3>3. QED
      BY <2>4, <3>2 DEF PersonDoc
  <2>6. person' = [person EXCEPT ![u] = doc] /\ record' = record /\ payer' = payer
    BY <1>1, <2>2, <2>3 DEF SubmitSave
  <2>7. /\ SameDocs /\ person'[u] = doc
        /\ \A v \in People : v # u => person'[v] = person[v]
    BY <2>5, <2>6 DEF StdTypeOK, SameDocs
  <2>8. SameCustomers
    <3>1. \A v \in People : person'[v].customer = person[v].customer
      BY <2>5, <2>7
    <3>2. QED
      BY <2>6, <3>1 DEF SameCustomers
  <2>9. QED
    BY <2>1, <2>5, <2>6, <2>7, <2>8 DEF Decides
<1>2. ASSUME NEW verdict \in {"approved", "rejected"}, ReviewSave(k, verdict) PROVE Decides
  <2>1. Ends(k) /\ task[k].op = "review"
    BY <1>2, AtEffect DEF ReviewSave
  <2>2. PICK u \in People : u = task[k].u
    BY <2>1 DEF StdTypeOK
  <2>3. PICK doc : doc = [person[u] EXCEPT !.verdict = verdict]
    OBVIOUS
  <2>4. PICK late : late = (person[u].papers # task[k].papers)
    OBVIOUS
  <2>5. PICK rec : rec = [[record[u] EXCEPT !.seen = task[k].papers] EXCEPT !.late = late]
    OBVIOUS
  <2>6. /\ person[u] \in PersonDoc /\ record[u] \in RecordDoc
        /\ task[k].papers \in Nat /\ late \in BOOLEAN
    BY <2>4 DEF StdTypeOK, Task
  <2>7. /\ doc \in PersonDoc /\ doc.papers = person[u].papers
        /\ doc.customer = person[u].customer
    BY <2>3, <2>6 DEF PersonDoc
  <2>8. /\ rec \in RecordDoc /\ rec.seen = task[k].papers /\ rec.late = late
        /\ rec.rivals = record[u].rivals /\ rec.unsaved = record[u].unsaved
    BY <2>5, <2>6 DEF RecordDoc
  <2>9. person' = [person EXCEPT ![u] = doc] /\ record' = [record EXCEPT ![u] = rec]
        /\ payer' = payer
    <3>1. person' = [person EXCEPT ![u] = doc] /\ payer' = payer
      BY <1>2, <2>2, <2>3 DEF ReviewSave
    <3>2. record' = [record EXCEPT ![u] = [[@ EXCEPT !.seen = task[k].papers] EXCEPT !.late = late]]
      BY <1>2, <2>2, <2>4 DEF ReviewSave
    <3>3. QED
      BY <2>5, <3>1, <3>2
  <2>10. /\ SameDocs /\ person'[u] = doc /\ record'[u] = rec
         /\ \A v \in People : v # u => person'[v] = person[v] /\ record'[v] = record[v]
    BY <2>7, <2>8, <2>9, Update
  <2>11. SameCustomers
    BY <2>7, <2>8, <2>9, <2>10 DEF SameCustomers
  <2>12. record'[u].seen = person'[u].papers \/ record'[u].late
    BY <2>4, <2>7, <2>8, <2>10
  <2>13. QED
    BY <2>1, <2>10, <2>11, <2>12 DEF Decides
<1>3. QED
  BY <1>1, <1>2

\* The steps of a payment that makes a customer.
LEMMA PaySteps ==
  ASSUME StdTypeOK, NEW k \in Tasks
  PROVE  /\ \A u \in People : CustomerLoad(k, u) => PayLoads(k, u)
         /\ \A x \in Payers : CustomerMake(k, x) => \E u \in People : PayMakes(k, u, x)
         /\ CustomerAttach(k) \/ CustomerLost(k) => \E u \in People : PayEnds(k, u)
<1>1. ASSUME NEW u \in People, CustomerLoad(k, u) PROVE PayLoads(k, u)
  <2>1. Begins(k, "customer", u) /\ person[u].customer = NoPayer
    BY <1>1, LoadEffect DEF CustomerLoad, TaskOps
  <2>2. PICK r : r = (record[u].rivals \/ \E j \in Tasks : Paying(j, u))
    OBVIOUS
  <2>3. PICK rec : rec = [record[u] EXCEPT !.rivals = r]
    OBVIOUS
  <2>4. person[u] \in PersonDoc /\ record[u] \in RecordDoc
    BY DEF StdTypeOK
  <2>5. r \in BOOLEAN
    BY <2>2, <2>4 DEF RecordDoc
  <2>6. /\ rec \in RecordDoc /\ rec.seen = record[u].seen /\ rec.late = record[u].late
        /\ rec.rivals = r /\ rec.unsaved = record[u].unsaved
    BY <2>3, <2>4, <2>5 DEF RecordDoc
  <2>7. record' = [record EXCEPT ![u] = rec] /\ UNCHANGED <<person, payer>>
    BY <1>1, <2>2, <2>3 DEF CustomerLoad, Paying
  <2>8. /\ SameDocs /\ record'[u] = rec
        /\ \A v \in People : v # u => record'[v] = record[v]
    BY <2>6, <2>7 DEF StdTypeOK, SameDocs
  <2>9. SameVerdicts
    BY <2>6, <2>7, <2>8 DEF SameVerdicts
  <2>10. QED
    BY <2>1, <2>2, <2>6, <2>7, <2>8, <2>9 DEF PayLoads
<1>2. ASSUME NEW x \in Payers, CustomerMake(k, x)
      PROVE  \E u \in People : PayMakes(k, u, x)
  <2>1. task[k].op = "customer" /\ x \notin Made
    BY <1>2 DEF CustomerMake
  <2>2. PICK u \in People : u = task[k].u
    BY <2>1 DEF StdTypeOK
  <2>3. PICK t : t = [[task[k] EXCEPT !.op = "attach"] EXCEPT !.x = x]
    OBVIOUS
  <2>4. /\ t \in Task /\ t.op = "attach" /\ t.u = u /\ t.x = x
    BY <2>2, <2>3 DEF StdTypeOK, Task, TaskOps
  <2>5. payer' = [payer EXCEPT ![x] = u] /\ task' = [task EXCEPT ![k] = t]
        /\ UNCHANGED <<person, record>>
    BY <1>2, <2>2, <2>3 DEF CustomerMake
  <2>6. /\ payer' \in [Payers -> People \cup {NoPerson}] /\ payer'[x] = u
        /\ \A y \in Payers : y # x => payer'[y] = payer[y]
    BY <2>5 DEF StdTypeOK
  <2>7. Made' = Made \cup {x}
    BY <2>6, StandingConstants DEF Made
  <2>8. /\ task' \in [Tasks -> Task] /\ task'[k] = t
        /\ \A j \in Tasks : j # k => task'[j] = task[j]
    BY <2>4, <2>5 DEF StdTypeOK
  <2>9. QED
    BY <2>1, <2>2, <2>4, <2>5, <2>6, <2>7, <2>8 DEF PayMakes
<1>3. ASSUME CustomerAttach(k) \/ CustomerLost(k) PROVE \E u \in People : PayEnds(k, u)
  <2>1. Ends(k) /\ task[k].op = "attach"
    BY <1>3, AtEffect DEF CustomerAttach, CustomerLost
  <2>2. PICK u \in People : u = task[k].u
    BY <2>1 DEF StdTypeOK
  <2>3. /\ person[u] \in PersonDoc /\ record[u] \in RecordDoc
        /\ task[k].x \in Payers \cup {NoPayer}
    BY DEF StdTypeOK, Task
  <2>4. CASE CustomerAttach(k)
    <3>1. PICK doc : doc = [person[u] EXCEPT !.customer = task[k].x]
      OBVIOUS
    <3>2. /\ doc \in PersonDoc /\ doc.verdict = person[u].verdict
          /\ doc.papers = person[u].papers /\ doc.customer = task[k].x
      BY <2>3, <3>1 DEF PersonDoc
    <3>3. person' = [person EXCEPT ![u] = doc] /\ record' = record /\ payer' = payer
      BY <2>2, <2>4, <3>1 DEF CustomerAttach
    <3>4. /\ SameDocs /\ person'[u] = doc
          /\ \A v \in People : v # u => person'[v] = person[v]
      BY <3>2, <3>3 DEF StdTypeOK, SameDocs
    <3>5. SameVerdicts
      BY <3>2, <3>3, <3>4 DEF SameVerdicts
    <3>6. QED
      BY <2>1, <2>2, <3>2, <3>3, <3>4, <3>5 DEF PayEnds
  <2>5. CASE CustomerLost(k)
    <3>1. PICK rec : rec = [record[u] EXCEPT !.unsaved = TRUE]
      OBVIOUS
    <3>2. /\ rec \in RecordDoc /\ rec.seen = record[u].seen /\ rec.late = record[u].late
          /\ rec.rivals = record[u].rivals /\ rec.unsaved
      BY <2>3, <3>1 DEF RecordDoc
    <3>3. record' = [record EXCEPT ![u] = rec] /\ person' = person /\ payer' = payer
      BY <2>2, <2>5, <3>1 DEF CustomerLost
    <3>4. /\ SameDocs /\ record'[u] = rec
          /\ \A v \in People : v # u => record'[v] = record[v]
      BY <3>2, <3>3 DEF StdTypeOK, SameDocs
    <3>5. SameVerdicts
      <4>1. \A v \in People : /\ record'[v].seen = record[v].seen
                             /\ record'[v].late = record[v].late
        BY <3>2, <3>4
      <4>2. QED
        BY <3>3, <4>1 DEF SameVerdicts
    <3>6. QED
      BY <2>1, <2>2, <3>2, <3>3, <3>4, <3>5 DEF PayEnds
  <2>6. QED
    BY <1>3, <2>4, <2>5
<1>4. QED
  BY <1>1, <1>2, <1>3

\* A step is one of these.
LEMMA StdSteps ==
  ASSUME StdTypeOK, [StdNext]_stdVars
  PROVE  \/ Reads \/ Writes \/ Decides
         \/ \E k \in Tasks, u \in People :
              PayLoads(k, u) \/ PayEnds(k, u) \/ \E x \in Payers : PayMakes(k, u, x)
         \/ UNCHANGED stdVars
BY ReadSteps, WriteSteps, DecideSteps, PaySteps DEF StdNext

-----------------------------------------------------------------------------
(* Standing: the invariants hold at first and are kept *)

\* The parts of the type invariant that relate documents, customers and calls.
NamesItsOwn ==
  \A u \in People : person[u].customer # NoPayer => payer[person[u].customer] = u
CallsAreFed ==
  \A k \in Tasks :
    /\ task[k].op # "idle" => task[k].u \in People
    /\ task[k].op = "attach" => task[k].x \in Made /\ payer[task[k].x] = task[k].u
    /\ task[k].op = "verify" => task[k].number # NoNumber

\* They hold where no call has begun and no customer was made.
LEMMA StdInitInv ==
  ASSUME StdInit PROVE SeenInv /\ KeptInv
<1>1. /\ NoTask \in Task /\ NoTask.op = "idle" /\ NoRecord \in RecordDoc
  BY DEF NoTask, Task, TaskOps, NoRecord, RecordDoc
<1>2. \A u \in People : person[u] \in PersonDoc /\ person[u].verdict = "none"
                        /\ person[u].customer = NoPayer
  <2> TAKE u \in People
  <2>1. PICK n \in Numbers :
          person[u] = [phone |-> n, verified |-> FALSE, code |-> n, verdict |-> "none",
                       papers |-> 0, deleted |-> FALSE, customer |-> NoPayer]
    BY DEF StdInit
  <2>2. QED
    BY <2>1 DEF PersonDoc
<1>3. person \in [People -> PersonDoc]
  BY <1>2 DEF StdInit
<1>4. Made = {} /\ \A k \in Tasks : task[k].op = "idle"
  BY <1>1 DEF StdInit, Made
<1>5. StdTypeOK
  BY <1>1, <1>2, <1>3, <1>4 DEF StdInit, StdTypeOK
<1>6. QED
  BY <1>2, <1>4, <1>5
     DEF SeenInv, KeptInv, VerdictSeen, OneCustomer, Paying, CustomerKept

\* A step keeps the types.
LEMMA StdTypeStep ==
  ASSUME StdTypeOK, [StdNext]_stdVars
  PROVE  StdTypeOK'
<1>0. /\ person \in [People -> PersonDoc] /\ record \in [People -> RecordDoc]
      /\ payer \in [Payers -> People \cup {NoPerson}] /\ task \in [Tasks -> Task]
      /\ NamesItsOwn /\ CallsAreFed
  BY DEF StdTypeOK, NamesItsOwn, CallsAreFed
<1>1. SUFFICES /\ person' \in [People -> PersonDoc] /\ record' \in [People -> RecordDoc]
               /\ payer' \in [Payers -> People \cup {NoPerson}]
               /\ task' \in [Tasks -> Task] /\ NamesItsOwn' /\ CallsAreFed'
  BY DEF StdTypeOK, NamesItsOwn, CallsAreFed
<1>2. CASE Reads
  <2>1. /\ UNCHANGED <<person, record, payer>> /\ task' \in [Tasks -> Task] /\ Made' = Made
    BY <1>2 DEF Reads, Begins, Made
  <2>2. NamesItsOwn'
    BY <1>0, <2>1 DEF NamesItsOwn
  <2>3. CallsAreFed'
    BY <1>0, <1>2, <2>1 DEF CallsAreFed, Reads, Begins
  <2>4. QED
    BY <1>0, <2>1, <2>2, <2>3
<1>3. CASE Writes \/ Decides
  <2>1. /\ SameDocs /\ payer' = payer /\ Made' = Made
        /\ \A u \in People : person'[u].customer = person[u].customer
    BY <1>3 DEF Writes, Decides, SameCustomers, Made
  <2>2. /\ task' \in [Tasks -> Task]
        /\ \A k \in Tasks : task'[k] = task[k] \/ task'[k].op = "idle"
    BY <1>0, <1>3 DEF Writes, Decides, Ends
  <2>3. NamesItsOwn'
    BY <1>0, <2>1 DEF NamesItsOwn
  <2>4. CallsAreFed'
    BY <1>0, <2>1, <2>2 DEF CallsAreFed
  <2>5. QED
    BY <1>0, <2>1, <2>2, <2>3, <2>4 DEF SameDocs
<1>4. ASSUME NEW k \in Tasks, NEW u \in People, PayLoads(k, u)
      PROVE  /\ person' \in [People -> PersonDoc] /\ record' \in [People -> RecordDoc]
             /\ payer' \in [Payers -> People \cup {NoPerson}]
             /\ task' \in [Tasks -> Task] /\ NamesItsOwn' /\ CallsAreFed'
  <2>1. UNCHANGED <<person, payer>> /\ SameDocs /\ Made' = Made
    BY <1>4 DEF PayLoads, Made
  <2>2. NamesItsOwn'
    BY <1>0, <2>1 DEF NamesItsOwn
  <2>3. CallsAreFed' /\ task' \in [Tasks -> Task]
    BY <1>0, <1>4, <2>1 DEF CallsAreFed, PayLoads, Begins
  <2>4. QED
    BY <1>0, <2>1, <2>2, <2>3 DEF SameDocs
<1>5. ASSUME NEW k \in Tasks, NEW u \in People, NEW x \in Payers, PayMakes(k, u, x)
      PROVE  /\ person' \in [People -> PersonDoc] /\ record' \in [People -> RecordDoc]
             /\ payer' \in [Payers -> People \cup {NoPerson}]
             /\ task' \in [Tasks -> Task] /\ NamesItsOwn' /\ CallsAreFed'
  <2>1. \A y \in Made : y # x /\ payer'[y] = payer[y]
    BY <1>5 DEF PayMakes, Made
  <2>2. \A v \in People : person[v].customer # NoPayer => person[v].customer \in Made
    BY <1>0, StandingConstants DEF NamesItsOwn, Made, PersonDoc
  <2>3. NamesItsOwn'
    BY <1>0, <1>5, <2>1, <2>2 DEF NamesItsOwn, PayMakes
  <2>4. CallsAreFed'
    BY <1>0, <1>5, <2>1 DEF CallsAreFed, PayMakes
  <2>5. QED
    BY <1>0, <1>5, <2>3, <2>4 DEF PayMakes
<1>6. ASSUME NEW k \in Tasks, NEW u \in People, PayEnds(k, u)
      PROVE  /\ person' \in [People -> PersonDoc] /\ record' \in [People -> RecordDoc]
             /\ payer' \in [Payers -> People \cup {NoPerson}]
             /\ task' \in [Tasks -> Task] /\ NamesItsOwn' /\ CallsAreFed'
  <2>1. SameDocs /\ payer' = payer /\ Made' = Made
    BY <1>6 DEF PayEnds, Made
  <2>2. payer[task[k].x] = u
    BY <1>0, <1>6 DEF CallsAreFed, PayEnds
  <2>3. NamesItsOwn'
    BY <1>0, <1>6, <2>1, <2>2 DEF NamesItsOwn, PayEnds
  <2>4. CallsAreFed' /\ task' \in [Tasks -> Task]
    BY <1>0, <1>6, <2>1 DEF CallsAreFed, PayEnds, Ends
  <2>5. QED
    BY <1>0, <2>1, <2>3, <2>4 DEF SameDocs
<1>7. CASE UNCHANGED stdVars
  BY <1>0, <1>7 DEF stdVars, NamesItsOwn, CallsAreFed, Made
<1>8. QED
  BY <1>2, <1>3, <1>4, <1>5, <1>6, <1>7, StdSteps

\* A step keeps verdicts about papers that were looked at.
LEMMA SeenStep ==
  ASSUME SeenInv, [StdNext]_stdVars
  PROVE  SeenInv'
<1>0. StdTypeOK /\ StdTypeOK' /\ VerdictSeen
  BY StdTypeStep DEF SeenInv
<1>1. ASSUME SameVerdicts PROVE VerdictSeen'
  BY <1>0, <1>1 DEF SameVerdicts, VerdictSeen
<1>2. ASSUME Decides PROVE VerdictSeen'
  <2> SUFFICES ASSUME NEW u \in People, person'[u].verdict \in {"approved", "rejected"}
               PROVE  record'[u].seen = person'[u].papers \/ record'[u].late
    BY DEF VerdictSeen
  <2>1. CASE person'[u].verdict = person[u].verdict /\ person'[u].papers = person[u].papers
             /\ record'[u].seen = record[u].seen /\ record'[u].late = record[u].late
    BY <1>0, <2>1 DEF VerdictSeen
  <2>2. QED
    BY <1>2, <2>1 DEF Decides
<1>3. ASSUME UNCHANGED <<person, record>> PROVE SameVerdicts
  BY <1>3 DEF SameVerdicts
<1>4. VerdictSeen'
  BY <1>0, <1>1, <1>2, <1>3, StdSteps
     DEF Reads, Writes, PayLoads, PayMakes, PayEnds, stdVars
<1>5. QED
  BY <1>0, <1>4 DEF SeenInv

\* A step keeps the customers that calls make one at a time.
LEMMA KeptStep ==
  ASSUME KeptInv, [StdNext]_stdVars
  PROVE  KeptInv'
<1>0. StdTypeOK /\ StdTypeOK' /\ OneCustomer /\ CustomerKept
  BY StdTypeStep DEF KeptInv
<1>1. ASSUME Reads \/ Writes \/ Decides PROVE OneCustomer' /\ CustomerKept'
  <2>1. /\ Made' = Made /\ payer' = payer
        /\ \A u \in People : /\ person'[u].customer = person[u].customer
                             /\ record'[u].rivals = record[u].rivals
                             /\ record'[u].unsaved = record[u].unsaved
    BY <1>1 DEF Reads, Writes, Decides, SameCustomers, Made
  <2>2. \A k \in Tasks :
          /\ task'[k].op \in {"customer", "attach"} => task'[k] = task[k]
          /\ task[k].op \in {"customer", "attach"} => task'[k] = task[k]
    BY <1>1 DEF Reads, Writes, Decides, Begins, Ends
  <2>3. \A k \in Tasks, u \in People : Paying(k, u)' <=> Paying(k, u)
    BY <2>2 DEF Paying
  <2>4. OneCustomer'
    BY <1>0, <2>1, <2>3 DEF OneCustomer
  <2>5. \A x \in Made : payer[x] \in People
    BY <1>0 DEF StdTypeOK, Made
  <2>6. CustomerKept'
    BY <1>0, <2>1, <2>2, <2>5 DEF CustomerKept
  <2>7. QED
    BY <2>4, <2>6
<1>2. ASSUME NEW k \in Tasks, NEW u \in People, PayLoads(k, u)
      PROVE  OneCustomer' /\ CustomerKept'
  <2>1. \A j \in Tasks : j # k => task'[j] = task[j]
    BY <1>2 DEF PayLoads, Begins
  <2>2. \A j \in Tasks, v \in People : Paying(j, v)' => Paying(j, v) \/ (j = k /\ v = u)
    BY <1>2, <2>1 DEF PayLoads, Begins, Paying
  <2>3. \A v \in People : record[v].rivals => record'[v].rivals
    BY <1>0, <1>2 DEF PayLoads
  <2>4. OneCustomer'
    <3> SUFFICES ASSUME NEW v \in People, ~ record'[v].rivals,
                        NEW i \in Tasks, Paying(i, v)'
                 PROVE  /\ person'[v].customer = NoPayer
                        /\ \A j \in Tasks : Paying(j, v)' => j = i
      BY DEF OneCustomer
    <3>1. CASE v = u
      <4>1. \A j \in Tasks : ~ Paying(j, u)
        BY <1>2, <3>1 DEF PayLoads
      <4>2. QED
        BY <1>2, <2>2, <3>1, <4>1 DEF PayLoads
    <3>2. CASE v # u
      <4>1. Paying(i, v) /\ ~ record[v].rivals
        BY <2>2, <2>3, <3>2
      <4>2. person[v].customer = NoPayer /\ \A j \in Tasks : Paying(j, v) => j = i
        BY <1>0, <4>1 DEF OneCustomer
      <4>3. QED
        BY <1>2, <2>2, <3>2, <4>2 DEF PayLoads
    <3>3. QED
      BY <3>1, <3>2
  <2>5. CustomerKept'
    <3>1. \A x \in Made : payer[x] \in People
      BY <1>0 DEF StdTypeOK, Made
    <3>2. \A j \in Tasks : task[j].op = "attach" => task'[j] = task[j]
      BY <1>2, <2>1 DEF PayLoads, Begins
    <3>3. Made' = Made /\ UNCHANGED <<payer, person>>
          /\ \A v \in People : record'[v].unsaved = record[v].unsaved
      BY <1>2 DEF PayLoads, Made
    <3>4. QED
      BY <1>0, <2>3, <3>1, <3>2, <3>3 DEF CustomerKept
  <2>6. QED
    BY <2>4, <2>5
<1>3. ASSUME NEW k \in Tasks, NEW u \in People, NEW x \in Payers, PayMakes(k, u, x)
      PROVE  OneCustomer' /\ CustomerKept'
  <2>1. \A j \in Tasks, v \in People : Paying(j, v)' <=> Paying(j, v)
    BY <1>3 DEF PayMakes, Paying
  <2>2. OneCustomer'
    BY <1>0, <1>3, <2>1 DEF OneCustomer, PayMakes
  <2>3. CustomerKept'
    <3>1. \A j \in Tasks : task[j].op = "attach" => task'[j] = task[j]
      BY <1>3 DEF PayMakes
    <3>2. \A y \in Made : payer'[y] = payer[y]
      BY <1>3 DEF PayMakes, Made
    <3>3. QED
      BY <1>0, <1>3, <3>1, <3>2 DEF CustomerKept, PayMakes
  <2>4. QED
    BY <2>2, <2>3
<1>4. ASSUME NEW k \in Tasks, NEW u \in People, PayEnds(k, u)
      PROVE  OneCustomer' /\ CustomerKept'
  <2>1. /\ \A j \in Tasks : j # k => task'[j] = task[j]
        /\ task'[k].op = "idle" /\ Paying(k, u)
    BY <1>4 DEF PayEnds, Ends, Paying
  <2>2. \A j \in Tasks, v \in People : Paying(j, v)' => Paying(j, v) /\ j # k
    BY <2>1 DEF Paying
  <2>3. OneCustomer'
    <3> SUFFICES ASSUME NEW v \in People, ~ record[v].rivals,
                        NEW i \in Tasks, Paying(i, v)'
                 PROVE  /\ person'[v].customer = NoPayer
                        /\ \A j \in Tasks : Paying(j, v)' => j = i
      BY <1>4 DEF OneCustomer, PayEnds
    <3>1. Paying(i, v) /\ i # k
      BY <2>2
    <3>2. person[v].customer = NoPayer /\ \A j \in Tasks : Paying(j, v) => j = i
      BY <1>0, <3>1 DEF OneCustomer
    <3>3. v # u
      BY <2>1, <3>1, <3>2
    <3>4. QED
      BY <1>4, <2>2, <3>2, <3>3 DEF PayEnds
  <2>4. CustomerKept'
    <3> SUFFICES ASSUME NEW y \in Made
                 PROVE  LET v == payer[y]
                        IN  \/ person'[v].customer = y
                            \/ \E j \in Tasks : task'[j].op = "attach" /\ task'[j].x = y
                            \/ record'[v].rivals \/ record'[v].unsaved
      BY <1>4 DEF CustomerKept, Made, PayEnds
    <3>1. PICK v \in People : v = payer[y]
      BY <1>0 DEF StdTypeOK, Made
    <3>2. CASE v # u
      <4>1. ~ (task[k].op = "attach" /\ task[k].x = y)
        BY <1>0, <1>4, <3>1, <3>2 DEF StdTypeOK, PayEnds
      <4>2. QED
        BY <1>0, <1>4, <2>1, <3>1, <3>2, <4>1 DEF CustomerKept, PayEnds
    <3>3. CASE v = u /\ record[u].rivals
      BY <1>4, <3>1, <3>3 DEF PayEnds
    <3>4. CASE v = u /\ ~ record[u].rivals
      <4>1. /\ person[u].customer = NoPayer /\ NoPayer \notin Payers
            /\ \A j \in Tasks : Paying(j, u) => j = k
        BY <1>0, <2>1, <3>4, StandingConstants DEF OneCustomer
      <4>2. \A j \in Tasks : task[j].op = "attach" /\ task[j].x = y => j = k
        <5> SUFFICES ASSUME NEW j \in Tasks, task[j].op = "attach", task[j].x = y
                     PROVE  j = k
          OBVIOUS
        <5>1. payer[task[j].x] = task[j].u
          BY <1>0 DEF StdTypeOK
        <5>2. Paying(j, u)
          BY <3>1, <3>4, <5>1 DEF Paying
        <5>3. QED
          BY <4>1, <5>2
      <4>3. task[k].x = y \/ record[u].unsaved
        BY <1>0, <3>1, <3>4, <4>1, <4>2 DEF CustomerKept, Made
      <4>4. QED
        BY <1>4, <3>1, <3>4, <4>3 DEF PayEnds
    <3>5. QED
      BY <3>2, <3>3, <3>4
  <2>5. QED
    BY <2>3, <2>4
<1>5. ASSUME UNCHANGED stdVars PROVE OneCustomer' /\ CustomerKept'
  BY <1>0, <1>5 DEF stdVars, OneCustomer, Paying, CustomerKept, Made
<1>6. OneCustomer' /\ CustomerKept'
  BY <1>0, <1>1, <1>2, <1>3, <1>4, <1>5, StdSteps
<1>7. QED
  BY <1>0, <1>6 DEF KeptInv

-----------------------------------------------------------------------------
(* Standing: theorems *)

\* Accounts, customers and calls have their types; the customer that a document names
\* was made for that user.
THEOREM StandingTypeCorrect == StdSpec => []StdTypeOK
<1>1. StdInit => StdTypeOK
  BY StdInitInv DEF SeenInv
<1>2. StdTypeOK /\ [StdNext]_stdVars => StdTypeOK'
  BY StdTypeStep
<1>3. QED
  BY <1>1, <1>2, PTL DEF StdSpec

\* A verdict is about the papers that the administrator looked at, unless others were
\* sent in while he decided.
THEOREM VerdictsAreSeen == StdSpec => []VerdictSeen
<1>1. StdInit => SeenInv
  BY StdInitInv
<1>2. SeenInv /\ [StdNext]_stdVars => SeenInv'
  BY SeenStep
<1>3. SeenInv => VerdictSeen
  BY DEF SeenInv
<1>4. QED
  BY <1>1, <1>2, <1>3, PTL DEF StdSpec

\* A customer at Stripe is the one that the user's document names or is about to name,
\* unless two payments made one at the same time or the update failed.
THEOREM CustomersAreKept == StdSpec => []CustomerKept
<1>1. StdInit => KeptInv
  BY StdInitInv
<1>2. KeptInv /\ [StdNext]_stdVars => KeptInv'
  BY KeptStep
<1>3. KeptInv => CustomerKept
  BY DEF KeptInv
<1>4. QED
  BY <1>1, <1>2, <1>3, PTL DEF StdSpec

-----------------------------------------------------------------------------
(* The members *)

\* The six share no variable: what members do is a behaviour of each.
THEOREM MembersAreAll ==
  MembersSpec => RegSpec /\ SesSpec /\ StdSpec /\ ChatSpec /\ CatSpec /\ PagSpec
<1> DEFINE Step == [MembersNext]_<<focus, regVars, sesVars, stdVars, chatVars, catVars, pagVars>>
<1>1. MembersInit => RegInit /\ SesInit /\ StdInit /\ ChatInit /\ CatInit /\ PagInit
  BY DEF MembersInit
<1>2. Step => /\ [RegNext]_regVars /\ [SesNext]_sesVars /\ [StdNext]_stdVars
              /\ [ChatNext]_chatVars /\ [CatNext]_catVars /\ [PagNext]_pagVars
  <2>1. ASSUME MembersNext
        PROVE  /\ RegNext \/ regVars' = regVars
               /\ SesNext \/ sesVars' = sesVars
               /\ StdNext \/ stdVars' = stdVars
               /\ ChatNext \/ chatVars' = chatVars
               /\ CatNext \/ catVars' = catVars
               /\ PagNext \/ pagVars' = pagVars
    BY <2>1 DEF MembersNext, Rest
  <2>2. QED
    BY <2>1
<1>3. QED
  BY <1>1, <1>2, PTL DEF MembersSpec, RegSpec, SesSpec, StdSpec, ChatSpec, CatSpec, PagSpec

\* So the types of all six are kept.
THEOREM MembersTypeCorrect == MembersSpec => []MembersTypeOK
<1>1. RegTypeOK /\ SesTypeOK /\ StdTypeOK /\ ChatTypeOK /\ CatTypeOK /\ PagTypeOK
        => MembersTypeOK
  BY DEF MembersTypeOK
<1>2. QED
  BY <1>1, MembersAreAll, AccountsTypeCorrect, SessionsTypeCorrect, StandingTypeCorrect,
     ChatTypeCorrect, CatTypeCorrect, PagesTypeCorrect, PTL
===============================================================================
