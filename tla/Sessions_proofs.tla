--------------------------- MODULE Sessions_proofs ---------------------------
(***************************************************************************)
(* Proofs about Sessions, for any accounts, tokens and concurrent calls.   *)
(***************************************************************************)
EXTENDS Sessions, TLAPS

-----------------------------------------------------------------------------
(* Types *)

\* A call that begins has the type of calls and has not failed.
LEMMA BeginType ==
  ASSUME SesTypeOK, NEW c \in Calls, NEW new \in Call, Begin(c, new),
         new.a \in Accounts, new.op = "rotate" => new.t \in Issued
  PROVE  SesTypeOK'
BY DEF SesTypeOK, Begin, Issued, Call

\* Every step keeps the types.
LEMMA TypeStep ==
  ASSUME SesTypeOK, [SesNext]_sesVars
  PROVE  SesTypeOK'
<1> USE SessionsConstants
<1>0. NoCall \in Call
  BY DEF NoCall, Call, CallOps
<1>1. ASSUME NEW c \in Calls, NEW a \in Accounts, SignIn(c, a) PROVE SesTypeOK'
  <2> DEFINE new == [NoCall EXCEPT !.op = "token", !.a = a, !.since = account[a].password]
  <2>1. account[a].password \in Nat
    BY DEF SesTypeOK, AccountDoc
  <2>2. new \in Call /\ new.a = a /\ new.op = "token"
    BY <2>1 DEF NoCall, Call, CallOps
  <2>3. Begin(c, new)
    BY <1>1 DEF SignIn
  <2> HIDE DEF new
  <2>4. QED
    BY <2>2, <2>3, BeginType
<1>2. ASSUME NEW c \in Calls, NEW a \in Accounts, ChangePassword(c, a) \/ ResetPassword(c, a)
      PROVE  SesTypeOK'
  <2> DEFINE change == [NoCall EXCEPT !.op = "password", !.a = a]
             reset == [NoCall EXCEPT !.op = "password", !.a = a, !.clears = TRUE]
  <2>1. /\ change \in Call /\ change.a = a /\ change.op = "password"
        /\ reset \in Call /\ reset.a = a /\ reset.op = "password"
    BY DEF NoCall, Call, CallOps
  <2>2. Begin(c, change) \/ Begin(c, reset)
    BY <1>2 DEF ChangePassword, ResetPassword
  <2> HIDE DEF change, reset
  <2>3. QED
    BY <2>1, <2>2, BeginType
<1>3. ASSUME NEW c \in Calls, NEW t \in Tokens, RefreshLoad(c, t) PROVE SesTypeOK'
  <2> DEFINE new == [NoCall EXCEPT !.op = "rotate", !.a = token[t].userId, !.t = t,
                                   !.since = token[t].since, !.late = token[t].late]
  <2>1. t \in Issued /\ token[t] \in TokenDoc /\ token[t].userId \in Accounts
    BY <1>3 DEF SesTypeOK, RefreshLoad, Valid, Issued
  <2>2. token[t].since \in Nat /\ token[t].late \in BOOLEAN
    BY <2>1 DEF TokenDoc
  <2>3. new \in Call /\ new.a \in Accounts /\ new.t \in Issued
    BY <2>1, <2>2 DEF NoCall, Call, CallOps
  <2>4. Begin(c, new)
    BY <1>3 DEF RefreshLoad
  <2> HIDE DEF new
  <2>5. QED
    BY <2>3, <2>4, BeginType
<1>4. ASSUME NEW c \in Calls, Rotate(c) PROVE SesTypeOK'
  <2>1. call[c].t \in Issued /\ call[c] \in Call /\ token[call[c].t] \in TokenDoc
    BY <1>4 DEF Rotate, SesTypeOK, Issued
  <2>2. [token[call[c].t] EXCEPT !.revoked = TRUE] \in TokenDoc
    BY <2>1 DEF TokenDoc
  <2>3. token' \in [Tokens -> TokenDoc] /\ Issued' = Issued
        /\ \A t \in Tokens : token'[t].userId = token[t].userId
    BY <1>4, <2>1, <2>2 DEF Rotate, SesTypeOK, Issued
  <2>4. \A d \in Calls : /\ call'[d] \in Call
                         /\ call'[d].a = call[d].a /\ call'[d].t = call[d].t
                         /\ call'[d].op = IF d = c THEN "token" ELSE call[d].op
    <3> TAKE d \in Calls
    <3>1. PICK x \in Call : x = call[d]
      BY DEF SesTypeOK
    <3>2. call'[d] = IF d = c THEN [x EXCEPT !.op = "token"]
                     ELSE IF x.op = "rotate" /\ x.t = call[c].t THEN [x EXCEPT !.twin = TRUE]
                     ELSE x
      BY <1>4, <3>1 DEF Rotate
    <3>3. QED
      BY ZenonT(40), <3>1, <3>2 DEF Call, CallOps
  <2>5. call' \in [Calls -> Call]
    BY <1>4, <2>4 DEF Rotate
  <2>6. QED
    BY <1>4, <2>3, <2>4, <2>5 DEF Rotate, SesTypeOK
<1>5. ASSUME NEW c \in Calls, NEW t \in Tokens, IssueToken(c, t) PROVE SesTypeOK'
  <2> DEFINE new == [stored |-> TRUE, userId |-> call[c].a, revoked |-> FALSE,
                     parent |-> call[c].t, since |-> call[c].since,
                     late |-> call[c].late, twin |-> call[c].twin]
  <2>1. call[c] \in Call /\ call[c].a \in Accounts
    BY <1>5 DEF IssueToken, SesTypeOK
  <2>2. new \in TokenDoc
    BY <2>1 DEF TokenDoc, Call
  <2>3. token' = [token EXCEPT ![t] = new]
    BY <1>5 DEF IssueToken
  <2>4. /\ token' \in [Tokens -> TokenDoc]
        /\ token'[t] = new
        /\ \A s \in Tokens \ {t} : token'[s] = token[s]
    BY <2>2, <2>3 DEF SesTypeOK
  <2>5. Issued' = Issued \cup {t} /\ \A s \in Issued' : token'[s].userId \in Accounts
    BY <2>1, <2>4 DEF SesTypeOK, Issued
  <2> HIDE DEF new
  <2>6. call' = [call EXCEPT ![c] = NoCall] /\ NoCall.op = "idle"
    BY <1>5 DEF IssueToken, NoCall
  <2>7. QED
    BY <1>0, <1>5, <2>4, <2>5, <2>6 DEF IssueToken, SesTypeOK
<1>6. ASSUME NEW t \in Tokens, SignOut(t) PROVE SesTypeOK'
  <2>1. [token[t] EXCEPT !.revoked = TRUE] \in TokenDoc
    BY DEF SesTypeOK, TokenDoc
  <2>2. token' \in [Tokens -> TokenDoc] /\ Issued' = Issued
        /\ \A s \in Tokens : token'[s].userId = token[s].userId
    BY <1>6, <2>1 DEF SignOut, SesTypeOK, Issued
  <2>3. QED
    BY <1>6, <2>2 DEF SignOut, SesTypeOK
<1>7. ASSUME NEW a \in Accounts, EndSessions(a)
      PROVE  /\ token' \in [Tokens -> TokenDoc]
             /\ Issued' = Issued
             /\ \A s \in Tokens : token'[s].userId = token[s].userId
  <2>1. \A t \in Tokens : /\ [token[t] EXCEPT !.revoked = TRUE] \in TokenDoc
                          /\ [token[t] EXCEPT !.revoked = TRUE].stored = token[t].stored
                          /\ [token[t] EXCEPT !.revoked = TRUE].userId = token[t].userId
    BY DEF SesTypeOK, TokenDoc
  <2>2. QED
    BY <1>7, <2>1 DEF EndSessions, SesTypeOK, Issued
<1>8. ASSUME NEW a \in Accounts, SignOutAll(a) PROVE SesTypeOK'
  <2>1. EndSessions(a) /\ UNCHANGED <<account, call, sealed, failures>>
    BY <1>8 DEF SignOutAll
  <2>2. /\ token' \in [Tokens -> TokenDoc] /\ Issued' = Issued
        /\ \A s \in Tokens : token'[s].userId = token[s].userId
    BY <1>7, <2>1
  <2>3. \A s \in Issued' : token'[s].userId \in Accounts
    BY <2>2 DEF SesTypeOK, Issued
  <2>4. QED
    BY <2>1, <2>2, <2>3 DEF SesTypeOK
<1>9. ASSUME NEW c \in Calls, SavePassword(c) PROVE SesTypeOK'
  <2>1. call[c] \in Call /\ call[c].a \in Accounts /\ account[call[c].a] \in AccountDoc
    BY <1>9 DEF SavePassword, SesTypeOK
  <2> DEFINE old == account[call[c].a]
             keeps == old.reset /\ ~ call[c].clears
             new == [old EXCEPT !.password = @ + 1, !.reset = keeps]
  <2>7. new \in AccountDoc
    <3>1. keeps \in BOOLEAN
      OBVIOUS
    <3> HIDE DEF keeps
    <3>2. old \in AccountDoc /\ old.password + 1 \in Nat
      BY <2>1 DEF AccountDoc
    <3> HIDE DEF old
    <3>3. QED
      BY <3>1, <3>2 DEF AccountDoc
  <2>8. account' = [account EXCEPT ![call[c].a] = new]
    BY <1>9, <2>1 DEF SavePassword, SesTypeOK
  <2> HIDE DEF new, old
  <2>2. account' \in [Accounts -> AccountDoc]
    BY <2>1, <2>7, <2>8 DEF SesTypeOK
  <2>3. account[call[c].a].password + 1 \in Nat
    BY <2>1 DEF AccountDoc
  <2>4. call' \in [Calls -> Call]
    BY <1>9, <2>1, <2>3 DEF SavePassword, SesTypeOK, Call, CallOps
  <2>5. \A d \in Calls : /\ call'[d].a = call[d].a /\ call'[d].t = call[d].t
                         /\ call'[d].op = IF d = c THEN "revoke" ELSE call[d].op
    BY <1>9 DEF SavePassword, SesTypeOK, Call
  <2>6. QED
    BY SMTT(30), <1>9, <2>1, <2>2, <2>4, <2>5 DEF SavePassword, SesTypeOK, Issued
<1>10. ASSUME NEW c \in Calls, RevokeSessions(c) PROVE SesTypeOK'
  <2>1. call[c] \in Call /\ call[c].a \in Accounts /\ call[c].since \in Nat
    BY <1>10 DEF RevokeSessions, SesTypeOK, Call
  <2>2. /\ token' \in [Tokens -> TokenDoc] /\ Issued' = Issued
        /\ \A s \in Tokens : token'[s].userId = token[s].userId
    BY <1>7, <1>10, <2>1 DEF RevokeSessions
  <2>3. sealed' \in [Accounts -> Nat]
    BY <1>10, <2>1 DEF RevokeSessions, SesTypeOK
  <2>4. \A d \in Calls : /\ call'[d] \in Call
                         /\ d # c => /\ call'[d].a = call[d].a /\ call'[d].t = call[d].t
                                     /\ call'[d].op = call[d].op
                         /\ d = c => call'[d].op = "idle"
    BY <1>0, <1>10 DEF RevokeSessions, SesTypeOK, Call, NoCall
  <2>5. call' \in [Calls -> Call]
    BY <1>10, <2>4 DEF RevokeSessions
  <2>6. \A s \in Issued' : token'[s].userId \in Accounts
    BY <2>2 DEF SesTypeOK, Issued
  <2>7. \A d \in Calls : /\ call'[d].op # "idle" => call'[d].a \in Accounts
                         /\ call'[d].op = "rotate" => call'[d].t \in Issued'
    BY <2>2, <2>4 DEF SesTypeOK
  <2>8. UNCHANGED <<account, failures>>
    BY <1>10 DEF RevokeSessions
  <2>9. QED
    BY <2>2, <2>3, <2>5, <2>6, <2>7, <2>8 DEF SesTypeOK
<1>11. ASSUME NEW c \in Calls, CallFails(c) PROVE SesTypeOK'
  <2>1. call' = [call EXCEPT ![c] = NoCall] /\ NoCall.op = "idle"
    BY <1>11 DEF CallFails, NoCall
  <2>2. failures' \in 0 .. MaxFailures
    BY <1>11 DEF CallFails, SesTypeOK
  <2>3. QED
    BY <1>0, <1>11, <2>1, <2>2 DEF CallFails, SesTypeOK, Issued
<1>12. ASSUME NEW a \in Accounts, NEW b \in BOOLEAN,
              ForgotPassword(a) \/ ResetExpires(a) \/ SetAccountActive(a, b)
       PROVE  SesTypeOK'
  <2>1. /\ [account[a] EXCEPT !.reset = TRUE] \in AccountDoc
        /\ [account[a] EXCEPT !.reset = FALSE] \in AccountDoc
        /\ [account[a] EXCEPT !.active = b] \in AccountDoc
    BY DEF SesTypeOK, AccountDoc
  <2>2. account' \in [Accounts -> AccountDoc] /\ UNCHANGED <<token, call, sealed, failures>>
    BY <1>12, <2>1 DEF ForgotPassword, ResetExpires, SetAccountActive, SesTypeOK
  <2>3. QED
    BY <2>2 DEF SesTypeOK, Issued
<1>13. CASE UNCHANGED sesVars
  BY <1>13 DEF sesVars, SesTypeOK, Issued
<1>14. QED
  BY <1>1, <1>2, <1>3, <1>4, <1>5, <1>6, <1>8, <1>9, <1>10, <1>11, <1>12, <1>13
     DEF SesNext, Go

\* The types in the initial state.
LEMMA TypeInit == SesInit => SesTypeOK
BY SessionsConstants
   DEF SesInit, SesTypeOK, NewAccount, AccountDoc, NoTokenDoc, TokenDoc, NoCall, Call,
       CallOps, Issued

\* No interleaving of sign-ins, refreshes, sign-outs and password changes writes a
\* value outside the types, for any accounts, tokens and calls.
THEOREM SessionsTypeCorrect == SesSpec => []SesTypeOK
<1>1. QED
  BY TypeInit, TypeStep, PTL DEF SesSpec

-----------------------------------------------------------------------------
(* The inductive invariants *)

\* No sessions are sealed with a password that the account never had.
SealedByPasswords ==
  /\ \A a \in Accounts : sealed[a] <= account[a].password
  /\ \A c \in Calls : call[c].op = "revoke" => call[c].since <= account[call[c].a].password

\* The calls that will make a session of an older password are known to be late.
LateCalls ==
  \A c \in Calls :
    call[c].op \in {"rotate", "token"} => call[c].since >= sealed[call[c].a] \/ call[c].late

\* Together they make OldSessionsEnd inductive.
AgeInv == SesTypeOK /\ SealedByPasswords /\ LateCalls /\ OldSessionsEnd

\* A token is revoked before another one takes its place.
RevokedFirst ==
  /\ \A s \in Issued : token[s].parent # NoToken =>
       token[s].parent \in Issued /\ token[token[s].parent].revoked
  /\ \A c \in Calls : call[c].op = "token" /\ call[c].t # NoToken =>
       call[c].t \in Issued /\ token[call[c].t].revoked

\* Of two calls that replace the same token, the one that revoked it first has
\* marked the other; and so has the call that made a token in its place.
TwinCalls ==
  /\ \A c, d \in Calls :
       c # d /\ call[c].op = "token" /\ call[c].t # NoToken /\ call[d].t = call[c].t =>
         /\ call[d].op = "rotate" => call[d].twin
         /\ call[d].op = "token" => call[c].twin \/ call[d].twin
  /\ \A c \in Calls : \A s \in Issued :
       call[c].t # NoToken /\ token[s].parent = call[c].t =>
         /\ call[c].op = "rotate" => call[c].twin
         /\ call[c].op = "token" => call[c].twin \/ token[s].twin

\* Together they make TwinsOverlap inductive.
TwinInv == SesTypeOK /\ RevokedFirst /\ TwinCalls /\ TwinsOverlap

-----------------------------------------------------------------------------
(* What the steps do to the fields of calls and tokens *)

\* Everything of a token but its being revoked.
SameToken(s) ==
  /\ token'[s].userId = token[s].userId /\ token'[s].parent = token[s].parent
  /\ token'[s].since = token[s].since /\ token'[s].late = token[s].late
  /\ token'[s].twin = token[s].twin

\* A call that begins was idle, and the others are left alone.
LEMMA BeginEffect ==
  ASSUME SesTypeOK, NEW c \in Calls, NEW new, Begin(c, new)
  PROVE  /\ call'[c] = new
         /\ \A d \in Calls : d # c => call'[d] = call[d]
         /\ UNCHANGED <<account, token, sealed>> /\ Issued' = Issued
BY DEF SesTypeOK, Begin, Issued

\* A refresh revokes its token and marks the other refreshes of it.
LEMMA RotateEffect ==
  ASSUME SesTypeOK, NEW c \in Calls, Rotate(c)
  PROVE  /\ call[c].t \in Issued /\ Issued' = Issued
         /\ \A s \in Tokens : /\ SameToken(s)
                              /\ token'[s].revoked = (token[s].revoked \/ s = call[c].t)
         /\ call'[c].op = "token" /\ call'[c].twin = call[c].twin
         /\ \A d \in Calls : /\ call'[d].a = call[d].a /\ call'[d].t = call[d].t
                             /\ call'[d].since = call[d].since
                             /\ call'[d].late = call[d].late
         /\ \A d \in Calls : d # c =>
              /\ call'[d].op = call[d].op
              /\ call'[d].twin = (call[d].twin \/ (call[d].op = "rotate" /\ call[d].t = call[c].t))
<1>1. call[c].t \in Issued /\ call[c].t \in Tokens
  BY DEF Rotate, SesTypeOK, Issued
<1>2. token' = [token EXCEPT ![call[c].t].revoked = TRUE]
  BY DEF Rotate
<1>3. \A s \in Tokens : /\ SameToken(s) /\ token'[s].stored = token[s].stored
                        /\ token'[s].revoked = (token[s].revoked \/ s = call[c].t)
  BY ZenonT(40), <1>1, <1>2 DEF SesTypeOK, TokenDoc, SameToken
<1>4. Issued' = Issued
  BY <1>3 DEF Issued
<1>5. \A d \in Calls : /\ call'[d].a = call[d].a /\ call'[d].t = call[d].t
                       /\ call'[d].since = call[d].since /\ call'[d].late = call[d].late
  BY DEF Rotate, SesTypeOK, Call
<1>6. call'[c].op = "token" /\ call'[c].twin = call[c].twin
  BY DEF Rotate, SesTypeOK, Call
<1>7. \A d \in Calls : d # c =>
        /\ call'[d].op = call[d].op
        /\ call'[d].twin = (call[d].twin \/ (call[d].op = "rotate" /\ call[d].t = call[c].t))
  BY DEF Rotate, SesTypeOK, Call
<1>8. QED
  BY <1>1, <1>3, <1>4, <1>5, <1>6, <1>7

\* A new token has the marks of the call that makes it, which is then over.
LEMMA IssueEffect ==
  ASSUME SesTypeOK, NEW c \in Calls, NEW t \in Tokens, IssueToken(c, t)
  PROVE  /\ call[c].op = "token" /\ t \notin Issued
         /\ Issued' = Issued \cup {t}
         /\ token'[t].userId = call[c].a /\ token'[t].parent = call[c].t
         /\ token'[t].since = call[c].since /\ token'[t].late = call[c].late
         /\ token'[t].twin = call[c].twin
         /\ \A s \in Tokens : s # t => token'[s] = token[s]
         /\ call'[c].op = "idle" /\ call'[c].t = NoToken
         /\ \A d \in Calls : d # c => call'[d] = call[d]
         /\ UNCHANGED <<account, sealed>>
<1> DEFINE new == [stored |-> TRUE, userId |-> call[c].a, revoked |-> FALSE,
                   parent |-> call[c].t, since |-> call[c].since,
                   late |-> call[c].late, twin |-> call[c].twin]
<1>1. token' = [token EXCEPT ![t] = new] /\ new.stored
  BY DEF IssueToken
<1>2. token'[t] = new /\ \A s \in Tokens : s # t => token'[s] = token[s]
  BY <1>1 DEF SesTypeOK
<1>3. Issued' = Issued \cup {t}
  BY <1>1, <1>2 DEF Issued
<1>4. call' = [call EXCEPT ![c] = NoCall] /\ NoCall.op = "idle" /\ NoCall.t = NoToken
  BY DEF IssueToken, NoCall
<1>5. call'[c] = NoCall /\ \A d \in Calls : d # c => call'[d] = call[d]
  BY <1>4 DEF SesTypeOK
<1>6. QED
  BY <1>2, <1>3, <1>4, <1>5 DEF IssueToken

\* Tokens are revoked, and nothing else happens to them.
LEMMA RevokeEffect ==
  ASSUME SesTypeOK, NEW S \in SUBSET Tokens,
         token' = [t \in Tokens |-> IF t \in S THEN [token[t] EXCEPT !.revoked = TRUE]
                                               ELSE token[t]]
  PROVE  /\ Issued' = Issued
         /\ \A s \in Tokens : SameToken(s) /\ token'[s].revoked = (token[s].revoked \/ s \in S)
<1>1. \A s \in Tokens : /\ SameToken(s) /\ token'[s].stored = token[s].stored
                        /\ token'[s].revoked = (token[s].revoked \/ s \in S)
  BY DEF SesTypeOK, TokenDoc, SameToken
<1>2. QED
  BY <1>1 DEF Issued

\* One token is revoked by a sign-out, or all valid ones of a user.
LEMMA SignOutEffect ==
  ASSUME SesTypeOK, NEW t \in Tokens, SignOut(t)
  PROVE  /\ Issued' = Issued
         /\ \A s \in Tokens : SameToken(s) /\ (token[s].revoked => token'[s].revoked)
         /\ UNCHANGED <<account, call, sealed>>
<1>1. token' = [s \in Tokens |-> IF s \in {t} THEN [token[s] EXCEPT !.revoked = TRUE]
                                              ELSE token[s]]
  BY DEF SignOut, SesTypeOK
<1>2. QED
  BY <1>1, RevokeEffect DEF SignOut

\* The sessions of a user are revoked, and nothing else changes in the tokens.
LEMMA EndEffect ==
  ASSUME SesTypeOK, NEW a \in Accounts, EndSessions(a)
  PROVE  /\ Issued' = Issued
         /\ \A s \in Tokens : /\ SameToken(s) /\ (token[s].revoked => token'[s].revoked)
                              /\ s \in Issued /\ token[s].userId = a => token'[s].revoked
<1>1. SessionsOf(a) \in SUBSET Tokens
  BY DEF SessionsOf
<1>2. /\ Issued' = Issued
      /\ \A s \in Tokens : /\ SameToken(s)
                           /\ token'[s].revoked = (token[s].revoked \/ s \in SessionsOf(a))
  BY <1>1, RevokeEffect DEF EndSessions
<1>3. QED
  BY <1>2 DEF SessionsOf, Valid

-----------------------------------------------------------------------------
(* Old sessions end *)

\* A call that begins is not late, or as late as the token it replaces.
LEMMA AgeBegin ==
  ASSUME AgeInv, NEW c \in Calls, NEW new, Begin(c, new),
         new.op # "revoke",
         new.op \in {"rotate", "token"} => new.since >= sealed[new.a] \/ new.late
  PROVE  SealedByPasswords' /\ LateCalls' /\ OldSessionsEnd'
<1>1. /\ call'[c] = new /\ UNCHANGED <<account, token, sealed>>
      /\ \A d \in Calls : d # c => call'[d] = call[d]
  BY BeginEffect DEF AgeInv
<1>2. QED
  BY <1>1 DEF AgeInv, SealedByPasswords, LateCalls, OldSessionsEnd, Valid, Issued

\* Every step keeps the ages right.
LEMMA AgeStep ==
  ASSUME AgeInv, [SesNext]_sesVars
  PROVE  SealedByPasswords' /\ LateCalls' /\ OldSessionsEnd'
<1>0. SesTypeOK
  BY DEF AgeInv
<1>1. ASSUME NEW c \in Calls, NEW a \in Accounts, SignIn(c, a)
      PROVE  SealedByPasswords' /\ LateCalls' /\ OldSessionsEnd'
  <2> DEFINE new == [NoCall EXCEPT !.op = "token", !.a = a, !.since = account[a].password]
  <2>1. new.op = "token" /\ new.a = a /\ new.since = account[a].password
    BY DEF NoCall
  <2>2. account[a].password >= sealed[a]
    BY <1>0 DEF AgeInv, SealedByPasswords, SesTypeOK, AccountDoc
  <2>3. Begin(c, new)
    BY <1>1 DEF SignIn
  <2> HIDE DEF new
  <2>4. QED
    BY <2>1, <2>2, <2>3, AgeBegin
<1>2. ASSUME NEW c \in Calls, NEW a \in Accounts, ChangePassword(c, a) \/ ResetPassword(c, a)
      PROVE  SealedByPasswords' /\ LateCalls' /\ OldSessionsEnd'
  <2> DEFINE change == [NoCall EXCEPT !.op = "password", !.a = a]
             reset == [NoCall EXCEPT !.op = "password", !.a = a, !.clears = TRUE]
  <2>1. change.op = "password" /\ reset.op = "password"
    BY DEF NoCall
  <2>2. Begin(c, change) \/ Begin(c, reset)
    BY <1>2 DEF ChangePassword, ResetPassword
  <2> HIDE DEF change, reset
  <2>3. QED
    BY <2>1, <2>2, AgeBegin
<1>3. ASSUME NEW c \in Calls, NEW t \in Tokens, RefreshLoad(c, t)
      PROVE  SealedByPasswords' /\ LateCalls' /\ OldSessionsEnd'
  <2> DEFINE new == [NoCall EXCEPT !.op = "rotate", !.a = token[t].userId, !.t = t,
                                   !.since = token[t].since, !.late = token[t].late]
  <2>1. /\ new.op = "rotate" /\ new.a = token[t].userId
        /\ new.since = token[t].since /\ new.late = token[t].late
    BY DEF NoCall
  <2>2. Begin(c, new) /\ Valid(t)
    BY <1>3 DEF RefreshLoad
  <2>3. token[t].since \in Nat /\ sealed[token[t].userId] \in Nat
    BY <1>0, <2>2 DEF SesTypeOK, TokenDoc, Valid
  <2>4. token[t].since >= sealed[token[t].userId] \/ token[t].late
    BY <2>2, <2>3 DEF AgeInv, OldSessionsEnd
  <2> HIDE DEF new
  <2>5. QED
    BY <2>1, <2>2, <2>4, AgeBegin
<1>4. ASSUME NEW c \in Calls, Rotate(c)
      PROVE  SealedByPasswords' /\ LateCalls' /\ OldSessionsEnd'
  <2>0. \A s \in Tokens : SameToken(s) /\ (token[s].revoked => token'[s].revoked)
    BY <1>0, <1>4, RotateEffect
  <2>1. /\ Issued' = Issued /\ UNCHANGED <<account, sealed>> /\ call[c].op = "rotate"
        /\ \A d \in Calls : /\ call'[d].a = call[d].a /\ call'[d].since = call[d].since
                            /\ call'[d].late = call[d].late
        /\ call'[c].op = "token" /\ \A d \in Calls : d # c => call'[d].op = call[d].op
    BY <1>0, <1>4, RotateEffect DEF Rotate
  <2>2. SealedByPasswords'
    BY <2>1 DEF AgeInv, SealedByPasswords
  <2>3. LateCalls'
    BY <2>1 DEF AgeInv, LateCalls
  <2>4. OldSessionsEnd'
    BY <2>0, <2>1 DEF AgeInv, OldSessionsEnd, Valid, SameToken
  <2>5. QED
    BY <2>2, <2>3, <2>4
<1>5. ASSUME NEW c \in Calls, NEW t \in Tokens, IssueToken(c, t)
      PROVE  SealedByPasswords' /\ LateCalls' /\ OldSessionsEnd'
  <2>1. /\ call[c].op = "token" /\ Issued' = Issued \cup {t}
        /\ token'[t].userId = call[c].a /\ token'[t].since = call[c].since
        /\ token'[t].late = call[c].late
        /\ \A s \in Tokens : s # t => token'[s] = token[s]
        /\ call'[c].op = "idle" /\ \A d \in Calls : d # c => call'[d] = call[d]
        /\ UNCHANGED <<account, sealed>>
    BY <1>0, <1>5, IssueEffect
  <2>2. SealedByPasswords' /\ LateCalls'
    BY <2>1 DEF AgeInv, SealedByPasswords, LateCalls
  <2>3. call[c].since \in Nat /\ sealed[call[c].a] \in Nat
    BY <1>0, <2>1 DEF SesTypeOK, Call
  <2>4. ~ (token'[t].since < sealed'[token'[t].userId]) \/ token'[t].late
    BY <2>1, <2>3 DEF AgeInv, LateCalls
  <2>5. OldSessionsEnd'
    BY <2>1, <2>4 DEF AgeInv, OldSessionsEnd, Valid
  <2>6. QED
    BY <2>2, <2>5
<1>6. ASSUME NEW t \in Tokens, SignOut(t)
      PROVE  SealedByPasswords' /\ LateCalls' /\ OldSessionsEnd'
  <2>1. /\ Issued' = Issued /\ UNCHANGED <<account, call, sealed>>
        /\ \A s \in Tokens : SameToken(s) /\ (token[s].revoked => token'[s].revoked)
    BY <1>0, <1>6, SignOutEffect
  <2>2. QED
    BY <2>1 DEF AgeInv, SealedByPasswords, LateCalls, OldSessionsEnd, Valid, SameToken
<1>7. ASSUME NEW a \in Accounts, SignOutAll(a)
      PROVE  SealedByPasswords' /\ LateCalls' /\ OldSessionsEnd'
  <2>1. EndSessions(a) /\ UNCHANGED <<account, call, sealed>>
    BY <1>7 DEF SignOutAll
  <2>2. /\ Issued' = Issued
        /\ \A s \in Tokens : SameToken(s) /\ (token[s].revoked => token'[s].revoked)
    BY <1>0, <2>1, EndEffect
  <2>3. QED
    BY <2>1, <2>2 DEF AgeInv, SealedByPasswords, LateCalls, OldSessionsEnd, Valid, SameToken
<1>8. ASSUME NEW c \in Calls, SavePassword(c)
      PROVE  SealedByPasswords' /\ LateCalls' /\ OldSessionsEnd'
  <2>1. /\ call[c].op = "password" /\ call[c].a \in Accounts /\ UNCHANGED <<token, sealed>>
        /\ \A a \in Accounts : account[a].password \in Nat /\ sealed[a] \in Nat
        /\ \A d \in Calls : call[d].since \in Nat
        /\ \A d \in Calls : call[d].op # "idle" => call[d].a \in Accounts
    BY <1>0, <1>8 DEF SavePassword, SesTypeOK, AccountDoc, Call
  <2>2. \A a \in Accounts :
          account'[a].password = IF a = call[c].a THEN account[a].password + 1
                                                  ELSE account[a].password
    BY <1>0, <1>8, <2>1 DEF SavePassword, SesTypeOK, AccountDoc
  <2>3. /\ call'[c].op = "revoke" /\ call'[c].since = account[call[c].a].password + 1
        /\ call'[c].a = call[c].a
        /\ \A d \in Calls : d # c => call'[d] = call[d]
    BY <1>0, <1>8 DEF SavePassword, SesTypeOK, Call
  <2>4. \A a \in Accounts : sealed'[a] <= account'[a].password
    BY <2>1, <2>2 DEF AgeInv, SealedByPasswords
  <2>5. \A d \in Calls : call'[d].op = "revoke" => call'[d].since <= account'[call'[d].a].password
    BY <2>1, <2>2, <2>3 DEF AgeInv, SealedByPasswords
  <2>6. LateCalls'
    BY <2>1, <2>3 DEF AgeInv, LateCalls
  <2>7. OldSessionsEnd'
    BY <2>1 DEF AgeInv, OldSessionsEnd, Valid, Issued
  <2>8. QED
    BY <2>4, <2>5, <2>6, <2>7 DEF SealedByPasswords
<1>9. ASSUME NEW c \in Calls, RevokeSessions(c)
      PROVE  SealedByPasswords' /\ LateCalls' /\ OldSessionsEnd'
  <2> DEFINE a == call[c].a
  <2>1. /\ call[c].op = "revoke" /\ a \in Accounts /\ EndSessions(a) /\ UNCHANGED account
        /\ \A b \in Accounts : account[b].password \in Nat /\ sealed[b] \in Nat
        /\ \A d \in Calls : call[d].since \in Nat
        /\ \A d \in Calls : call[d].op # "idle" => call[d].a \in Accounts
    BY <1>0, <1>9 DEF RevokeSessions, SesTypeOK, AccountDoc, Call
  <2>2. /\ Issued' = Issued
        /\ \A s \in Tokens : /\ SameToken(s) /\ (token[s].revoked => token'[s].revoked)
                             /\ s \in Issued /\ token[s].userId = a => token'[s].revoked
    BY <1>0, <2>1, EndEffect
  <2>3. /\ sealed'[a] = (IF call[c].since > sealed[a] THEN call[c].since ELSE sealed[a])
        /\ \A b \in Accounts : b # a => sealed'[b] = sealed[b]
    BY <1>0, <1>9, <2>1 DEF RevokeSessions, SesTypeOK
  <2>4. /\ call'[c].op = "idle"
        /\ \A d \in Calls : d # c =>
             /\ call'[d].op = call[d].op /\ call'[d].a = call[d].a
             /\ call'[d].since = call[d].since
             /\ call[d].late => call'[d].late
             /\ call[d].op \in {"rotate", "token"} /\ call[d].a = a => call'[d].late
    BY <1>0, <1>9 DEF RevokeSessions, SesTypeOK, Call, NoCall
  <2>5. \A b \in Accounts : sealed'[b] <= account'[b].password
    BY <2>1, <2>3 DEF AgeInv, SealedByPasswords
  <2>6. \A d \in Calls : call'[d].op = "revoke" => call'[d].since <= account'[call'[d].a].password
    BY <2>1, <2>4 DEF AgeInv, SealedByPasswords
  <2>7. LateCalls'
    BY <2>1, <2>3, <2>4 DEF AgeInv, LateCalls
  <2>8. \A s \in Issued : token[s].userId \in Accounts
    BY <1>0 DEF SesTypeOK
  <2>9. OldSessionsEnd'
    BY <2>2, <2>3, <2>8 DEF AgeInv, OldSessionsEnd, Valid, SameToken
  <2>10. QED
    BY <2>5, <2>6, <2>7, <2>9 DEF SealedByPasswords
<1>10. ASSUME NEW c \in Calls, CallFails(c)
       PROVE  SealedByPasswords' /\ LateCalls' /\ OldSessionsEnd'
  <2>1. call'[c].op = "idle" /\ \A d \in Calls : d # c => call'[d] = call[d]
    BY <1>0, <1>10 DEF CallFails, SesTypeOK, NoCall
  <2>2. UNCHANGED <<account, token, sealed>>
    BY <1>10 DEF CallFails
  <2>3. QED
    BY <2>1, <2>2 DEF AgeInv, SealedByPasswords, LateCalls, OldSessionsEnd, Valid, Issued
<1>11. ASSUME NEW a \in Accounts, NEW b \in BOOLEAN,
              ForgotPassword(a) \/ ResetExpires(a) \/ SetAccountActive(a, b)
       PROVE  SealedByPasswords' /\ LateCalls' /\ OldSessionsEnd'
  <2>1. \A x \in Accounts : account'[x].password = account[x].password
    BY <1>0, <1>11 DEF ForgotPassword, ResetExpires, SetAccountActive, SesTypeOK, AccountDoc
  <2>2. UNCHANGED <<token, call, sealed>>
    BY <1>11 DEF ForgotPassword, ResetExpires, SetAccountActive
  <2>3. \A c \in Calls : call[c].op = "revoke" => call[c].a \in Accounts
    BY <1>0 DEF SesTypeOK
  <2>4. QED
    BY <2>1, <2>2, <2>3
       DEF AgeInv, SealedByPasswords, LateCalls, OldSessionsEnd, Valid, Issued
<1>12. CASE UNCHANGED sesVars
  BY <1>12 DEF sesVars, AgeInv, SealedByPasswords, LateCalls, OldSessionsEnd, Valid, Issued
<1>13. QED
  BY <1>1, <1>2, <1>3, <1>4, <1>5, <1>6, <1>7, <1>8, <1>9, <1>10, <1>11, <1>12
     DEF SesNext, Go

\* When a password was changed or reset and the sessions ended, no session that began
\* with an older password is left, but those that calls were just making.
THEOREM OldSessionsAreEnded == SesSpec => []OldSessionsEnd
<1>1. SesInit => AgeInv
  <2>1. SesInit => SealedByPasswords /\ LateCalls /\ OldSessionsEnd
    BY DEF SesInit, SealedByPasswords, LateCalls, OldSessionsEnd, Valid, Issued,
           NewAccount, NoCall, NoTokenDoc
  <2>2. QED
    BY <2>1, TypeInit DEF AgeInv
<1>2. AgeInv /\ [SesNext]_sesVars => AgeInv'
  BY AgeStep, TypeStep DEF AgeInv
<1>3. AgeInv => OldSessionsEnd
  BY DEF AgeInv
<1>4. QED
  BY <1>1, <1>2, <1>3, PTL DEF SesSpec
-----------------------------------------------------------------------------
(* A token is replaced once *)

\* A call that begins without a token takes part in no race for one.
LEMMA TwinBegin ==
  ASSUME TwinInv, NEW c \in Calls, NEW new, Begin(c, new),
         new.op \in {"password", "token"} /\ new.t = NoToken
  PROVE  RevokedFirst' /\ TwinCalls' /\ TwinsOverlap'
<1>1. /\ call'[c] = new /\ UNCHANGED token /\ Issued' = Issued
      /\ \A d \in Calls : d # c => call'[d] = call[d]
  BY BeginEffect DEF TwinInv
<1>2. RevokedFirst'
  BY <1>1 DEF TwinInv, RevokedFirst
<1>3. TwinCalls'
  BY <1>1 DEF TwinInv, TwinCalls
<1>4. TwinsOverlap'
  BY <1>1 DEF TwinInv, TwinsOverlap
<1>5. QED
  BY <1>2, <1>3, <1>4

\* Tokens that are revoked, and calls that are over, keep the marks.
LEMMA TwinRevoke ==
  ASSUME TwinInv, Issued' = Issued,
         \A s \in Tokens : SameToken(s) /\ (token[s].revoked => token'[s].revoked),
         \A d \in Calls : \/ call'[d].op \notin {"rotate", "token"}
                          \/ call'[d].op = call[d].op /\ call'[d].t = call[d].t
                             /\ call'[d].twin = call[d].twin
  PROVE  RevokedFirst' /\ TwinCalls' /\ TwinsOverlap'
<1>0. Issued \subseteq Tokens
  BY DEF Issued
<1>1. \A s \in Issued : /\ token'[s].parent = token[s].parent /\ token'[s].twin = token[s].twin
                        /\ token[s].revoked => token'[s].revoked
  BY <1>0 DEF SameToken
<1>2. RevokedFirst'
  BY <1>1 DEF TwinInv, RevokedFirst
<1>3. TwinCalls'
  BY <1>1 DEF TwinInv, TwinCalls
<1>4. TwinsOverlap'
  BY <1>1 DEF TwinInv, TwinsOverlap
<1>5. QED
  BY <1>2, <1>3, <1>4

\* Every step keeps the marks right.
LEMMA TwinStep ==
  ASSUME TwinInv, [SesNext]_sesVars
  PROVE  RevokedFirst' /\ TwinCalls' /\ TwinsOverlap'
<1>0. SesTypeOK
  BY DEF TwinInv
<1>1. ASSUME NEW c \in Calls, NEW a \in Accounts, SignIn(c, a)
      PROVE  RevokedFirst' /\ TwinCalls' /\ TwinsOverlap'
  <2> DEFINE new == [NoCall EXCEPT !.op = "token", !.a = a, !.since = account[a].password]
  <2>1. Begin(c, new) /\ new.op = "token" /\ new.t = NoToken
    BY <1>1 DEF SignIn, NoCall
  <2> HIDE DEF new
  <2>2. QED
    BY <2>1, TwinBegin
<1>2. ASSUME NEW c \in Calls, NEW a \in Accounts, ChangePassword(c, a) \/ ResetPassword(c, a)
      PROVE  RevokedFirst' /\ TwinCalls' /\ TwinsOverlap'
  <2> DEFINE change == [NoCall EXCEPT !.op = "password", !.a = a]
             reset == [NoCall EXCEPT !.op = "password", !.a = a, !.clears = TRUE]
  <2>1. /\ change.op = "password" /\ change.t = NoToken
        /\ reset.op = "password" /\ reset.t = NoToken
    BY DEF NoCall
  <2>2. Begin(c, change) \/ Begin(c, reset)
    BY <1>2 DEF ChangePassword, ResetPassword
  <2> HIDE DEF change, reset
  <2>3. QED
    BY <2>1, <2>2, TwinBegin
<1>3. ASSUME NEW c \in Calls, NEW t \in Tokens, RefreshLoad(c, t)
      PROVE  RevokedFirst' /\ TwinCalls' /\ TwinsOverlap'
  <2> DEFINE new == [NoCall EXCEPT !.op = "rotate", !.a = token[t].userId, !.t = t,
                                   !.since = token[t].since, !.late = token[t].late]
  <2>1. new.op = "rotate" /\ new.t = t /\ t # NoToken
    BY SessionsConstants DEF NoCall
  <2>2. Begin(c, new) /\ t \in Issued /\ ~ token[t].revoked
    BY <1>3 DEF RefreshLoad, Valid
  <2> HIDE DEF new
  <2>3. /\ call'[c] = new /\ UNCHANGED token /\ Issued' = Issued
        /\ \A d \in Calls : d # c => call'[d] = call[d]
    BY <1>0, <2>2, BeginEffect
  <2>4. \A d \in Calls : call[d].op = "token" => call[d].t # t
    BY <2>1, <2>2 DEF TwinInv, RevokedFirst
  <2>5. \A s \in Issued : token[s].parent # t
    BY <2>1, <2>2 DEF TwinInv, RevokedFirst
  <2>6. RevokedFirst' /\ TwinsOverlap'
    BY <2>1, <2>3 DEF TwinInv, RevokedFirst, TwinsOverlap
  <2>7. TwinCalls'
    BY <2>1, <2>3, <2>4, <2>5 DEF TwinInv, TwinCalls
  <2>8. QED
    BY <2>6, <2>7
<1>4. ASSUME NEW c \in Calls, Rotate(c)
      PROVE  RevokedFirst' /\ TwinCalls' /\ TwinsOverlap'
  <2>1. /\ call[c].op = "rotate" /\ call[c].t \in Issued /\ Issued' = Issued
        /\ Issued \subseteq Tokens
        /\ \A s \in Tokens : /\ SameToken(s)
                             /\ token'[s].revoked = (token[s].revoked \/ s = call[c].t)
    BY <1>0, <1>4, RotateEffect DEF Rotate, Issued
  <2>2. /\ call'[c].op = "token" /\ call'[c].t = call[c].t /\ call'[c].twin = call[c].twin
        /\ \A d \in Calls : d # c =>
             /\ call'[d].op = call[d].op /\ call'[d].t = call[d].t
             /\ call'[d].twin = (call[d].twin \/ (call[d].op = "rotate" /\ call[d].t = call[c].t))
    BY <1>0, <1>4, RotateEffect
  <2>3. \A s \in Issued : /\ token'[s].parent = token[s].parent /\ token'[s].twin = token[s].twin
                          /\ token[s].revoked => token'[s].revoked
                          /\ s = call[c].t => token'[s].revoked
    BY <2>1 DEF SameToken
  <2>4. \A d \in Calls : d # c => /\ call[d].twin => call'[d].twin
                                  /\ call[d].op = "rotate" /\ call[d].t = call[c].t
                                       => call'[d].twin
                                  /\ call[d].op = "token" => call'[d].twin = call[d].twin
    <3>1. \A d \in Calls : call[d].twin \in BOOLEAN
      BY <1>0 DEF SesTypeOK, Call
    <3>2. QED
      BY <2>2, <3>1
  <2>5. RevokedFirst'
    BY <2>1, <2>2, <2>3 DEF TwinInv, RevokedFirst
  <2>6. TwinsOverlap'
    BY <2>1, <2>3 DEF TwinInv, TwinsOverlap
  <2>7. ASSUME NEW d \in Calls, NEW e \in Calls, d # e, call'[d].op = "token",
               call'[d].t # NoToken, call'[e].t = call'[d].t
        PROVE  /\ call'[e].op = "rotate" => call'[e].twin
               /\ call'[e].op = "token" => call'[d].twin \/ call'[e].twin
    <3>1. CASE d = c
      BY <2>1, <2>2, <2>4, <2>7, <3>1 DEF TwinInv, TwinCalls
    <3>2. CASE e = c
      BY <2>1, <2>2, <2>4, <2>7, <3>2 DEF TwinInv, TwinCalls
    <3>3. CASE d # c /\ e # c
      BY <2>2, <2>4, <2>7, <3>3 DEF TwinInv, TwinCalls
    <3>4. QED
      BY <3>1, <3>2, <3>3
  <2>8. ASSUME NEW d \in Calls, NEW s \in Issued, call'[d].t # NoToken,
               token'[s].parent = call'[d].t
        PROVE  /\ call'[d].op = "rotate" => call'[d].twin
               /\ call'[d].op = "token" => call'[d].twin \/ token'[s].twin
    <3>1. CASE d = c
      BY <2>1, <2>2, <2>3, <2>8, <3>1 DEF TwinInv, TwinCalls
    <3>2. CASE d # c
      BY <2>2, <2>3, <2>4, <2>8, <3>2 DEF TwinInv, TwinCalls
    <3>3. QED
      BY <3>1, <3>2
  <2>9. TwinCalls'
    BY <2>1, <2>7, <2>8 DEF TwinCalls
  <2>10. QED
    BY <2>5, <2>6, <2>9
<1>5. ASSUME NEW c \in Calls, NEW t \in Tokens, IssueToken(c, t)
      PROVE  RevokedFirst' /\ TwinCalls' /\ TwinsOverlap'
  <2>1. /\ call[c].op = "token" /\ t \notin Issued /\ Issued' = Issued \cup {t}
        /\ token'[t].parent = call[c].t /\ token'[t].twin = call[c].twin
        /\ \A s \in Issued : token'[s] = token[s]
        /\ call'[c].op = "idle" /\ call'[c].t = NoToken
        /\ \A d \in Calls : d # c => call'[d] = call[d]
    BY <1>0, <1>5, IssueEffect DEF Issued
  <2>2. call[c].t # NoToken => call[c].t \in Issued /\ token[call[c].t].revoked
    BY <2>1 DEF TwinInv, RevokedFirst
  <2>3. RevokedFirst'
    BY <2>1, <2>2 DEF TwinInv, RevokedFirst
  <2>4. TwinCalls'
    BY <2>1 DEF TwinInv, TwinCalls
  <2>5. TwinsOverlap'
    BY <2>1 DEF TwinInv, TwinCalls, TwinsOverlap
  <2>6. QED
    BY <2>3, <2>4, <2>5
<1>6. ASSUME NEW t \in Tokens, SignOut(t)
      PROVE  RevokedFirst' /\ TwinCalls' /\ TwinsOverlap'
  <2>1. /\ Issued' = Issued /\ UNCHANGED call
        /\ \A s \in Tokens : SameToken(s) /\ (token[s].revoked => token'[s].revoked)
    BY <1>0, <1>6, SignOutEffect
  <2>2. QED
    BY <2>1, TwinRevoke
<1>7. ASSUME NEW a \in Accounts, SignOutAll(a)
      PROVE  RevokedFirst' /\ TwinCalls' /\ TwinsOverlap'
  <2>1. EndSessions(a) /\ UNCHANGED call
    BY <1>7 DEF SignOutAll
  <2>2. /\ Issued' = Issued
        /\ \A s \in Tokens : SameToken(s) /\ (token[s].revoked => token'[s].revoked)
    BY <1>0, <2>1, EndEffect
  <2>3. QED
    BY <2>1, <2>2, TwinRevoke
<1>8. ASSUME NEW c \in Calls, SavePassword(c)
      PROVE  RevokedFirst' /\ TwinCalls' /\ TwinsOverlap'
  <2>1. UNCHANGED token /\ call'[c].op = "revoke" /\ \A d \in Calls : d # c => call'[d] = call[d]
    BY <1>0, <1>8 DEF SavePassword, SesTypeOK, Call
  <2>2. Issued' = Issued /\ \A s \in Tokens : SameToken(s)
    BY <2>1 DEF Issued, SameToken
  <2>3. \A s \in Tokens : SameToken(s) /\ (token[s].revoked => token'[s].revoked)
    BY <2>1, <2>2
  <2>4. \A d \in Calls : \/ call'[d].op \notin {"rotate", "token"}
                         \/ call'[d].op = call[d].op /\ call'[d].t = call[d].t
                            /\ call'[d].twin = call[d].twin
    BY <2>1
  <2>5. QED
    BY <2>2, <2>3, <2>4, TwinRevoke
<1>9. ASSUME NEW c \in Calls, RevokeSessions(c)
      PROVE  RevokedFirst' /\ TwinCalls' /\ TwinsOverlap'
  <2>1. call[c].a \in Accounts /\ EndSessions(call[c].a)
    BY <1>0, <1>9 DEF RevokeSessions, SesTypeOK
  <2>2. /\ Issued' = Issued
        /\ \A s \in Tokens : SameToken(s) /\ (token[s].revoked => token'[s].revoked)
    BY <1>0, <2>1, EndEffect
  <2>3. \A d \in Calls : \/ call'[d].op \notin {"rotate", "token"}
                         \/ call'[d].op = call[d].op /\ call'[d].t = call[d].t
                            /\ call'[d].twin = call[d].twin
    BY <1>0, <1>9 DEF RevokeSessions, SesTypeOK, Call, NoCall
  <2>4. QED
    BY <2>2, <2>3, TwinRevoke
<1>10. ASSUME NEW c \in Calls, CallFails(c)
       PROVE  RevokedFirst' /\ TwinCalls' /\ TwinsOverlap'
  <2>1. UNCHANGED token /\ call'[c].op = "idle" /\ \A d \in Calls : d # c => call'[d] = call[d]
    BY <1>0, <1>10 DEF CallFails, SesTypeOK, NoCall
  <2>2. Issued' = Issued /\ \A s \in Tokens : SameToken(s)
    BY <2>1 DEF Issued, SameToken
  <2>3. \A s \in Tokens : SameToken(s) /\ (token[s].revoked => token'[s].revoked)
    BY <2>1, <2>2
  <2>4. \A d \in Calls : \/ call'[d].op \notin {"rotate", "token"}
                         \/ call'[d].op = call[d].op /\ call'[d].t = call[d].t
                            /\ call'[d].twin = call[d].twin
    BY <2>1
  <2>5. QED
    BY <2>2, <2>3, <2>4, TwinRevoke
<1>11. ASSUME UNCHANGED <<token, call>>
       PROVE  RevokedFirst' /\ TwinCalls' /\ TwinsOverlap'
  BY <1>11 DEF TwinInv, RevokedFirst, TwinCalls, TwinsOverlap, Issued
<1>12. ASSUME NEW a \in Accounts, NEW b \in BOOLEAN,
              ForgotPassword(a) \/ ResetExpires(a) \/ SetAccountActive(a, b)
       PROVE  RevokedFirst' /\ TwinCalls' /\ TwinsOverlap'
  BY <1>11, <1>12 DEF ForgotPassword, ResetExpires, SetAccountActive
<1>13. CASE UNCHANGED sesVars
  BY <1>11, <1>13 DEF sesVars
<1>14. QED
  BY <1>1, <1>2, <1>3, <1>4, <1>5, <1>6, <1>7, <1>8, <1>9, <1>10, <1>12, <1>13
     DEF SesNext, Go

\* A refresh token is replaced once: two tokens that replace the same one come from
\* refreshes that overlapped, however many calls there are.
THEOREM TokensAreReplacedOnce == SesSpec => []TwinsOverlap
<1>1. SesInit => TwinInv
  <2>1. SesInit => RevokedFirst /\ TwinCalls /\ TwinsOverlap
    BY DEF SesInit, RevokedFirst, TwinCalls, TwinsOverlap, Issued, NoCall, NoTokenDoc
  <2>2. QED
    BY <2>1, TypeInit DEF TwinInv
<1>2. TwinInv /\ [SesNext]_sesVars => TwinInv'
  BY TwinStep, TypeStep DEF TwinInv
<1>3. TwinInv => TwinsOverlap
  BY DEF TwinInv
<1>4. QED
  BY <1>1, <1>2, <1>3, PTL DEF SesSpec
=============================================================================
