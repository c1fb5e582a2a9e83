------------------------------ MODULE Sessions ------------------------------
(***************************************************************************)
(* The sessions of an account: AuthService signs in, refreshes, signs out, *)
(* changes and resets passwords; administrators deactivate and activate    *)
(* the account.  A session is a chain of refresh tokens, each replacing    *)
(* the one before.                                                         *)
(*                                                                         *)
(* Every handler awaits between its reads and its writes: a call is a      *)
(* chain of steps, and the steps of different calls interleave.            *)
(***************************************************************************)
EXTENDS Naturals, FiniteSets

CONSTANTS
  Accounts,     \* the users
  Tokens,       \* the ids of refresh token documents
  NoAccount, NoToken,
  Calls,        \* bounds the calls in progress at the same time
  MaxPasswords, \* bounds the passwords of an account
  MaxFailures   \* bounds the calls that fail half-way

VARIABLES
  account,  \* account[a]: the user document
  token,    \* token[t]: the refresh token document
  call,     \* call[c]: what a call has still to do, and what it has read
  sealed,   \* sealed[a]: the newest password after whose save the sessions ended
  failures    \* how many calls failed half-way

sesVars == <<account, token, call, sealed, failures>>

-----------------------------------------------------------------------------
(* Documents *)

AccountDoc == [active   : BOOLEAN,
               password : Nat,      \* the n-th password of the account
               reset    : BOOLEAN]  \* passwordResetToken is set and not expired
NewAccount == [active |-> TRUE, password |-> 1, reset |-> FALSE]

\* The last four are history: the token that this one replaced, the password its
\* session began with, whether its call was under way when the sessions of the user
\* were ended, and whether another call replaced the same token meanwhile.
TokenDoc == [stored  : BOOLEAN,
             userId  : Accounts \cup {NoAccount},
             revoked : BOOLEAN,
             parent  : Tokens \cup {NoToken},
             since   : Nat,
             late    : BOOLEAN,
             twin    : BOOLEAN]
NoTokenDoc == [stored |-> FALSE, userId |-> NoAccount, revoked |-> FALSE,
               parent |-> NoToken, since |-> 0, late |-> FALSE, twin |-> FALSE]

Issued == {t \in Tokens : token[t].stored}
Valid(t) == t \in Issued /\ ~ token[t].revoked

CallOps == {"idle", "rotate", "token", "password", "revoke"}
NoCall == [op |-> "idle", a |-> NoAccount, t |-> NoToken, since |-> 0,
           clears |-> FALSE, late |-> FALSE, twin |-> FALSE]
Call == [op : CallOps, a : Accounts \cup {NoAccount}, t : Tokens \cup {NoToken},
         since : Nat, clears : BOOLEAN, late : BOOLEAN, twin : BOOLEAN]

ASSUME SessionsConstants ==
  /\ NoAccount \notin Accounts
  /\ NoToken \notin Tokens
  /\ MaxPasswords \in Nat \ {0}
  /\ MaxFailures \in Nat

SesInit ==
  /\ account = [a \in Accounts |-> NewAccount]
  /\ token = [t \in Tokens |-> NoTokenDoc]
  /\ call = [c \in Calls |-> NoCall]
  /\ sealed = [a \in Accounts |-> 0]
  /\ failures = 0

\* Call c has passed its checks; new is what it goes on with.
Begin(c, new) ==
  /\ call[c] = NoCall
  /\ call' = [call EXCEPT ![c] = new]
  /\ UNCHANGED <<account, token, sealed, failures>>

-----------------------------------------------------------------------------
(* Sessions *)

\* signIn, socialSignIn and the end of a sign-up: the user is found, is active, and
\* the password is right.
SignIn(c, a) ==
  /\ account[a].active
  /\ Begin(c, [NoCall EXCEPT !.op = "token", !.a = a, !.since = account[a].password])

\* refreshToken: the token is not revoked and its user is active.
RefreshLoad(c, t) ==
  /\ Valid(t) /\ account[token[t].userId].active
  /\ Begin(c, [NoCall EXCEPT !.op = "rotate", !.a = token[t].userId, !.t = t,
                             !.since = token[t].since, !.late = token[t].late])

\* Mutant of Rotate: the new token is made before the old one is revoked.
RotateNot(c) ==
  /\ call[c].op = "rotate"
  /\ call' = [call EXCEPT ![c].op = "token"]
  /\ UNCHANGED <<account, token, sealed, failures>>

\* revokeRefreshToken, whatever the token has become since it was read.
Rotate(c) ==
  /\ call[c].op = "rotate"
  /\ token' = [token EXCEPT ![call[c].t].revoked = TRUE]
  /\ call' = [d \in Calls |->
       IF d = c THEN [call[c] EXCEPT !.op = "token"]
       ELSE IF call[d].op = "rotate" /\ call[d].t = call[c].t
            THEN [call[d] EXCEPT !.twin = TRUE]
       ELSE call[d]]
  /\ UNCHANGED <<account, sealed, failures>>

\* generateTokens stores the new token.
IssueToken(c, t) ==
  /\ call[c].op = "token" /\ t \notin Issued
  /\ token' = [token EXCEPT ![t] =
       [stored |-> TRUE, userId |-> call[c].a, revoked |-> FALSE, parent |-> call[c].t,
        since |-> call[c].since, late |-> call[c].late, twin |-> call[c].twin]]
  /\ call' = [call EXCEPT ![c] = NoCall]
  /\ UNCHANGED <<account, sealed, failures>>

\* signOut of one session.
SignOut(t) ==
  /\ t \in Issued
  /\ token' = [token EXCEPT ![t].revoked = TRUE]
  /\ UNCHANGED <<account, call, sealed, failures>>

\* Mutant of SessionsOf: only the tokens of the first sign-ins are found.
SessionsOfRoots(a) ==
  {t \in Tokens : Valid(t) /\ token[t].userId = a /\ token[t].parent = NoToken}

\* The tokens that updateMany({ userId, isRevoked: false }) finds.
SessionsOf(a) == {t \in Tokens : Valid(t) /\ token[t].userId = a}

EndSessions(a) ==
  token' = [t \in Tokens |-> IF t \in SessionsOf(a) THEN [token[t] EXCEPT !.revoked = TRUE]
                                                    ELSE token[t]]

SignOutAll(a) ==
  /\ EndSessions(a)
  /\ UNCHANGED <<account, call, sealed, failures>>

-----------------------------------------------------------------------------
(* Passwords and activation *)

\* changePassword has compared the current password.
ChangePassword(c, a) == Begin(c, [NoCall EXCEPT !.op = "password", !.a = a])

\* forgotPassword stores a reset token; it is good for an hour.
ForgotPassword(a) ==
  /\ account' = [account EXCEPT ![a].reset = TRUE]
  /\ UNCHANGED <<token, call, sealed, failures>>

ResetExpires(a) ==
  /\ account[a].reset
  /\ account' = [account EXCEPT ![a].reset = FALSE]
  /\ UNCHANGED <<token, call, sealed, failures>>

\* resetPassword has found the user by the reset token.
ResetPassword(c, a) ==
  /\ account[a].reset
  /\ Begin(c, [NoCall EXCEPT !.op = "password", !.a = a, !.clears = TRUE])

\* The new password is saved; a reset clears its token.
SavePassword(c) ==
  LET a == call[c].a
  IN  /\ call[c].op = "password" /\ account[a].password < MaxPasswords
      /\ account' = [account EXCEPT ![a].password = @ + 1,
                                    ![a].reset = @ /\ ~ call[c].clears]
      /\ call' = [call EXCEPT ![c].op = "revoke", ![c].since = account[a].password + 1]
      /\ UNCHANGED <<token, sealed, failures>>

\* Then all sessions end; a token that another call is just making is missed.
RevokeSessions(c) ==
  LET a == call[c].a
  IN  /\ call[c].op = "revoke"
      /\ EndSessions(a)
      /\ call' = [d \in Calls |->
           IF d = c THEN NoCall
           ELSE IF call[d].op \in {"rotate", "token"} /\ call[d].a = a
                THEN [call[d] EXCEPT !.late = TRUE]
           ELSE call[d]]
      /\ sealed' = [sealed EXCEPT ![a] = IF call[c].since > @ THEN call[c].since ELSE @]
      /\ UNCHANGED <<account, failures>>

\* A write of the call throws: what was written before stays.
CallFails(c) ==
  /\ call[c].op # "idle"
  /\ failures < MaxFailures /\ failures' = failures + 1
  /\ call' = [call EXCEPT ![c] = NoCall]
  /\ UNCHANGED <<account, token, sealed>>

\* deactivateUser and activateUser; the sessions stay as they are.
SetAccountActive(a, b) ==
  /\ account' = [account EXCEPT ![a].active = b]
  /\ UNCHANGED <<token, call, sealed, failures>>

-----------------------------------------------------------------------------
Go(c) ==
  \/ Rotate(c) \/ SavePassword(c) \/ RevokeSessions(c)
  \/ \E t \in Tokens : IssueToken(c, t)

SesNext ==
  \/ \E c \in Calls :
       \/ \E a \in Accounts : SignIn(c, a) \/ ChangePassword(c, a) \/ ResetPassword(c, a)
       \/ \E t \in Tokens : RefreshLoad(c, t)
       \/ Go(c) \/ CallFails(c)
  \/ \E t \in Tokens : SignOut(t)
  \/ \E a \in Accounts :
       \/ SignOutAll(a) \/ ForgotPassword(a) \/ ResetExpires(a)
       \/ \E b \in BOOLEAN : SetAccountActive(a, b)

SesSpec == SesInit /\ [][SesNext]_sesVars

-----------------------------------------------------------------------------
(* Properties *)

\* Type invariant; a call at work has a user, and the token it replaces exists.
SesTypeOK ==
  /\ account \in [Accounts -> AccountDoc]
  /\ token \in [Tokens -> TokenDoc]
  /\ \A t \in Issued : token[t].userId \in Accounts
  /\ call \in [Calls -> Call]
  /\ \A c \in Calls : call[c].op # "idle" => call[c].a \in Accounts
  /\ \A c \in Calls : call[c].op = "rotate" => call[c].t \in Issued
  /\ sealed \in [Accounts -> Nat]
  /\ failures \in 0 .. MaxFailures

\* When a password was changed or reset and the sessions ended, no session that
\* began with an older password is left, but those that were just being made.
OldSessionsEnd ==
  \A t \in Tokens : Valid(t) /\ token[t].since < sealed[token[t].userId] => token[t].late

\* A refresh token is replaced once: two tokens that replace the same one come from
\* refreshes that overlapped.
TwinsOverlap ==
  \A s, t \in Issued :
    s # t /\ token[s].parent = token[t].parent /\ token[s].parent # NoToken
      => token[s].twin \/ token[t].twin

=============================================================================
