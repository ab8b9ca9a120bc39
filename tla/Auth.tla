-------------------------------- MODULE Auth --------------------------------
(***************************************************************************)
(* The workflows of createAuth over its repositories: sign-in, session     *)
(* validation with sliding refresh, sign-out, requests for and uses of     *)
(* verification and reset tokens.                                          *)
(*                                                                         *)
(* A call is suspended only at awaits; an action is the code between two   *)
(* awaits together with the effect of the await it ends in.  transaction() *)
(* is present, since resetPassword refuses to work without it (the token   *)
(* requests and verifyEmail also run without, which is not modelled): what *)
(* a transaction deletes is fixed by its statement and disappears when it  *)
(* commits, and a consumed token stays locked until then.  Rows that are   *)
(* only read stay free for other writers.                                  *)
(***************************************************************************)
EXTENDS Integers

CONSTANTS
  Users, Emails, Passwords, Sessions, Tokens,
  NoPassword,     \* the credential of a user that has none
  None,           \* no session or token
  Requests,       \* slots for calls in flight
  SessionTtl, AbsoluteTtl, RefreshWindow, TokenTtl,   \* AuthConfig
  HasMailer,      \* ports.mailer is configured
  Replaced,       \* purposes whose older tokens a request replaces
  Horizon         \* bound of the clock

Purposes == {"email_verification", "password_reset"}

\* normalizeAuthConfig refuses any other lifetimes.
LifetimesAccepted ==
  /\ SessionTtl \in Nat \ {0} /\ RefreshWindow \in Nat /\ AbsoluteTtl \in Nat
  /\ TokenTtl \in Nat \ {0}
  /\ RefreshWindow < SessionTtl
  /\ AbsoluteTtl >= SessionTtl
ASSUME LifetimesAssumption == LifetimesAccepted
ASSUME NamesAssumption ==
  /\ Users # {} /\ Emails # {}
  /\ NoPassword \notin Passwords
  /\ None \notin Sessions \cup Tokens
ASSUME OptionsAssumption ==
  HasMailer \in BOOLEAN /\ Replaced \subseteq Purposes /\ Horizon \in Nat

VARIABLES users, sessions, tokens, call, now

vars == <<users, sessions, tokens, call, now>>

\* A user and its credential.  Two fields record history: whether the email was
\* marked verified by a call that had checked an earlier one, and whether the
\* registration ended because getUserId threw.
User == [state : {"absent", "present", "removed"}, email : Emails,
         password : Passwords \cup {NoPassword}, verified : BOOLEAN, active : BOOLEAN,
         overtaken : BOOLEAN, unidentified : BOOLEAN]

\* A session row.  Two fields record history: the password its sign-in
\* verified, and whether it may outlive the reset of that password.
Session == [state : {"unused", "live", "revoked"}, user : Users,
            createdAt : Nat, expiresAt : Nat,
            password : Passwords \cup {NoPassword}, excused : BOOLEAN]

\* A token row.  History: whether its mail may have arrived, how often it was
\* used, and the tokens that were live when it was asked for.
Token == [state : {"unused", "live", "gone"}, user : Users,
          purpose : Purposes, email : Emails, expiresAt : Nat,
          mailed : BOOLEAN, uses : Nat, older : SUBSET Tokens]

\* The awaits at which a call may be suspended; "stranded" is a call that died
\* and left behind something its error path would have removed.
Steps ==
  {"session",                                   \* signIn
   "drop", "refresh",                           \* validateSession
   "replace", "create", "mail", "compensate",   \* token requests
   "bind", "mark",                              \* verifyEmail
   "hash",                                      \* resetPassword
   "create user", "credential", "enroll", "notify", "rollback",  \* registration
   "stranded"}

Call == [step : Steps, user : Users, id : Sessions \cup Tokens \cup {None},
         purpose : Purposes, email : Emails,
         password : Passwords \cup {NoPassword}, next : Nat,
         doomed : SUBSET (Sessions \cup Tokens), older : SUBSET Tokens,
         excused : BOOLEAN]

AnyUser == CHOOSE u \in Users : TRUE
AnyEmail == CHOOSE e \in Emails : TRUE

Idle == [step |-> "idle", user |-> AnyUser, id |-> None,
         purpose |-> "password_reset", email |-> AnyEmail,
         password |-> NoPassword, next |-> 0, doomed |-> {}, older |-> {},
         excused |-> FALSE]

NoSession == [state |-> "unused", user |-> AnyUser, createdAt |-> 0, expiresAt |-> 0,
              password |-> NoPassword, excused |-> FALSE]

NoToken == [state |-> "unused", user |-> AnyUser, purpose |-> "password_reset",
            email |-> AnyEmail, expiresAt |-> 0, mailed |-> FALSE, uses |-> 0,
            older |-> {}]

Init ==
  /\ users = [u \in Users |->
       [state |-> "absent", email |-> AnyEmail, password |-> NoPassword,
        verified |-> FALSE, active |-> TRUE,
        overtaken |-> FALSE, unidentified |-> FALSE]]
  /\ sessions = [s \in Sessions |-> NoSession]
  /\ tokens = [t \in Tokens |-> NoToken]
  /\ call = [r \in Requests |-> Idle]
  /\ now = 0

-----------------------------------------------------------------------------
At(r, step) == call[r].step = step

Suspend(r, c) == call' = [call EXCEPT ![r] = c]
Goto(r, step) == call' = [call EXCEPT ![r].step = step]
Finish(r) == call' = [call EXCEPT ![r] = Idle]

Present(u) == users[u].state = "present"
LiveSessions(u) == {s \in Sessions : sessions[s].state = "live" /\ sessions[s].user = u}
LiveTokens(u, p) ==
  {t \in Tokens : tokens[t].state = "live" /\ tokens[t].user = u /\ tokens[t].purpose = p}

IsExpired(expiresAt) == expiresAt <= now
ShouldRefresh(expiresAt) == expiresAt - now <= RefreshWindow
Earlier(a, b) == IF a < b THEN a ELSE b

\* Some transaction has consumed the token and not yet ended.
Held(t) == \E r \in Requests : call[r].id = t /\ call[r].step \in {"bind", "mark", "hash"}

-----------------------------------------------------------------------------
(* signIn *)

\* findByEmail, verify and canSignIn; a rejection changes nothing.
ReadCredentials(r, u, p) ==
  /\ At(r, "idle")
  /\ Present(u) /\ users[u].active /\ users[u].password = p
  /\ Suspend(r, [Idle EXCEPT !.step = "session", !.user = u, !.password = p])
  /\ UNCHANGED <<users, sessions, tokens, now>>

\* A reset of the password of user u is about to commit.
Resetting(u) == \E r \in Requests : At(r, "hash") /\ call[r].user = u

InsertSession(r, s) ==
  LET u == call[r].user IN
  /\ sessions[s].state = "unused"
  /\ sessions' = [sessions EXCEPT ![s] =
       [state |-> "live", user |-> u, createdAt |-> now,
        expiresAt |-> now + SessionTtl, password |-> call[r].password,
        excused |-> call[r].excused \/ Resetting(u)]]

CreateSession(r, s) ==
  /\ At(r, "session")
  /\ InsertSession(r, s)
  /\ Finish(r)
  /\ UNCHANGED <<users, tokens, now>>

-----------------------------------------------------------------------------
(* validateSession and signOut *)

\* Nothing of a deleted row is left but that it existed.
RevokedSession == [NoSession EXCEPT !.state = "revoked"]

Revoke(set) ==
  sessions' = [s \in Sessions |->
    IF s \in set THEN RevokedSession ELSE sessions[s]]

AbsoluteEnd(s) == sessions[s].createdAt + AbsoluteTtl

\* findWithUserById joins the user: a session without one is not found.
Found(s) == sessions[s].state = "live" /\ Present(sessions[s].user)

Valid(s) ==
  /\ Found(s)
  /\ ~IsExpired(AbsoluteEnd(s)) /\ ~IsExpired(sessions[s].expiresAt)
  /\ users[sessions[s].user].active

FindInvalid(r, s) ==
  /\ At(r, "idle")
  /\ Found(s) /\ ~Valid(s)
  /\ Suspend(r, [Idle EXCEPT !.step = "drop", !.id = s])
  /\ UNCHANGED <<users, sessions, tokens, now>>

DropSession(r) ==
  /\ At(r, "drop")
  /\ Revoke({call[r].id})
  /\ Finish(r)
  /\ UNCHANGED <<users, tokens, now>>

(* Mutant: a refresh forgets the absolute lifetime.                          *)
NextExpiryUncapped(s) == now + SessionTtl

NextExpiry(s) == Earlier(now + SessionTtl, AbsoluteEnd(s))

Due(s) == /\ Valid(s) /\ ShouldRefresh(sessions[s].expiresAt)
          /\ NextExpiry(s) > sessions[s].expiresAt

FindDue(r, s) ==
  /\ At(r, "idle")
  /\ Due(s)
  /\ Suspend(r, [Idle EXCEPT !.step = "refresh", !.id = s, !.next = NextExpiry(s)])
  /\ UNCHANGED <<users, sessions, tokens, now>>

(* Mutant: updateExpiry writes the row back if it is gone.                   *)
RefreshSessionUpserting(r) ==
  LET s == call[r].id IN
  /\ At(r, "refresh")
  /\ sessions' = [sessions EXCEPT ![s].state = "live", ![s].expiresAt = call[r].next]
  /\ Finish(r)
  /\ UNCHANGED <<users, tokens, now>>

\* updateExpiry updates the row if there still is one.
RefreshSession(r) ==
  LET s == call[r].id IN
  /\ At(r, "refresh")
  /\ sessions' = IF sessions[s].state = "live"
                 THEN [sessions EXCEPT ![s].expiresAt = call[r].next]
                 ELSE sessions
  /\ Finish(r)
  /\ UNCHANGED <<users, tokens, now>>

SignOut(s) ==
  /\ sessions[s].state = "live"
  /\ Revoke({s})
  /\ UNCHANGED <<users, tokens, call, now>>

-----------------------------------------------------------------------------
(* requestEmailVerification and requestPasswordReset *)

TokenRequest(u, p) ==
  [Idle EXCEPT !.step = "replace", !.user = u, !.purpose = p,
               !.email = users[u].email, !.next = now + TokenTtl,
               !.older = IF p \in Replaced THEN LiveTokens(u, p) ELSE {}]

RequestEmailVerification(r, u) ==
  /\ At(r, "idle")
  /\ Present(u) /\ ~users[u].verified
  /\ Suspend(r, TokenRequest(u, "email_verification"))
  /\ UNCHANGED <<users, sessions, tokens, now>>

RequestPasswordReset(r, u) ==
  /\ At(r, "idle")
  /\ Present(u) /\ users[u].active
  /\ Suspend(r, TokenRequest(u, "password_reset"))
  /\ UNCHANGED <<users, sessions, tokens, now>>

(* Mutant: replacement is configured but never done.                         *)
ReplaceTokensNever(r) ==
  /\ At(r, "replace")
  /\ Goto(r, "create")
  /\ UNCHANGED <<users, sessions, tokens, now>>

\* The statement of deleteManyForUserAndPurpose sees the tokens live now.
ReplaceTokens(r) ==
  LET c == call[r] IN
  /\ At(r, "replace")
  /\ Suspend(r, [c EXCEPT !.step = "create",
       !.doomed = IF c.purpose \in Replaced THEN LiveTokens(c.user, c.purpose) ELSE {}])
  /\ UNCHANGED <<users, sessions, tokens, now>>

Deleted(t) == IF tokens[t].state = "live" THEN [NoToken EXCEPT !.state = "gone"] ELSE tokens[t]

\* The insertion and the commit, which waits for transactions that hold a
\* token to be deleted.
CreateToken(r, t) ==
  LET c == call[r] IN
  /\ At(r, "create")
  /\ tokens[t].state = "unused"
  /\ \A d \in c.doomed : ~Held(d)
  /\ tokens' = [i \in Tokens |->
       IF i = t THEN [state |-> "live", user |-> c.user, purpose |-> c.purpose,
                      email |-> c.email, expiresAt |-> c.next, mailed |-> FALSE,
                      uses |-> 0, older |-> c.older]
       ELSE IF i \in c.doomed THEN Deleted(i)
       ELSE tokens[i]]
  /\ Suspend(r, [Idle EXCEPT !.step = "mail", !.id = t])
  /\ UNCHANGED <<users, sessions, now>>

(* Mutant: the request ends and is still about its token.                    *)
DeliverKeepingToken(r) ==
  /\ At(r, "mail")
  /\ tokens' = [tokens EXCEPT ![call[r].id].mailed = TRUE]
  /\ Goto(r, "idle")
  /\ UNCHANGED <<users, sessions, now>>

\* Without a mailer the request ends all the same, and its token stays.
Deliver(r) ==
  /\ At(r, "mail")
  /\ tokens' = [tokens EXCEPT ![call[r].id].mailed = HasMailer]
  /\ Finish(r)
  /\ UNCHANGED <<users, sessions, now>>

(* Mutant: a delivery failure is only logged.                                *)
DeliveryFailsUncompensated(r, left) ==
  /\ At(r, "mail")
  /\ tokens' = [tokens EXCEPT ![call[r].id].mailed = left]
  /\ Finish(r)
  /\ UNCHANGED <<users, sessions, now>>

\* The mailer throws; the mail may have left all the same.
DeliveryFails(r, left) ==
  /\ HasMailer
  /\ At(r, "mail")
  /\ tokens' = [tokens EXCEPT ![call[r].id].mailed = left]
  /\ Goto(r, "compensate")
  /\ UNCHANGED <<users, sessions, now>>

Compensate(r) ==
  LET t == call[r].id IN
  /\ At(r, "compensate")
  /\ ~Held(t)
  /\ tokens' = [tokens EXCEPT ![t] = Deleted(t)]
  /\ Finish(r)
  /\ UNCHANGED <<users, sessions, now>>

-----------------------------------------------------------------------------
(* verifyEmail and resetPassword: the token comes from its mail. *)

(* Mutant: consume finds the token without locking it.                       *)
ConsumableUnlocked(t, p) ==
  /\ tokens[t].mailed /\ tokens[t].state = "live" /\ tokens[t].purpose = p
  /\ ~IsExpired(tokens[t].expiresAt)

Consumable(t, p) ==
  /\ tokens[t].mailed /\ tokens[t].state = "live" /\ tokens[t].purpose = p
  /\ ~Held(t)
  /\ ~IsExpired(tokens[t].expiresAt)

Consumed(token) ==
  [token EXCEPT !.state = "gone", !.uses = token.uses + 1, !.expiresAt = 0,
                !.mailed = FALSE, !.older = {}]

Used(t) == tokens' = [tokens EXCEPT ![t] = Consumed(tokens[t])]

ConsumeVerification(r, t) ==
  /\ At(r, "idle")
  /\ Consumable(t, "email_verification")
  /\ Suspend(r, [Idle EXCEPT !.step = "bind", !.id = t, !.user = tokens[t].user])
  /\ UNCHANGED <<users, sessions, tokens, now>>

(* Mutant: any user the token names will do.                                 *)
BoundToUser(r) == Present(call[r].user)

Bound(r) == /\ Present(call[r].user)
            /\ users[call[r].user].email = tokens[call[r].id].email

CheckBinding(r) ==
  /\ At(r, "bind")
  /\ Bound(r)
  /\ Goto(r, "mark")
  /\ UNCHANGED <<users, sessions, tokens, now>>

\* The error rolls the consumption back.
BindingFails(r) ==
  /\ At(r, "bind")
  /\ ~Bound(r)
  /\ Finish(r)
  /\ UNCHANGED <<users, sessions, tokens, now>>

\* The write does not look at the email again.
MarkVerified(r) ==
  LET u == call[r].user IN
  /\ At(r, "mark")
  /\ users' = [users EXCEPT ![u].verified = TRUE,
       ![u].overtaken = call[r].excused /\ (users[u].verified => @)]
  /\ Used(call[r].id)
  /\ Finish(r)
  /\ UNCHANGED <<sessions, now>>

(* Mutant: the flag is read the wrong way round.                             *)
SessionsToRevokeInverted(u, keep) == IF keep THEN LiveSessions(u) ELSE {}

SessionsToRevoke(u, keep) == IF keep THEN {} ELSE LiveSessions(u)

\* consume and, unless the caller keeps the sessions, deleteManyForUser.
ConsumeReset(r, t, p, keep) ==
  LET u == tokens[t].user IN
  /\ At(r, "idle")
  /\ Consumable(t, "password_reset")
  /\ Suspend(r, [Idle EXCEPT !.step = "hash", !.id = t, !.user = u, !.password = p,
                             !.doomed = SessionsToRevoke(u, keep),
                             !.excused = keep])
  /\ UNCHANGED <<users, sessions, tokens, now>>

\* updatePasswordHash updates a credential that exists.
CommitReset(r) ==
  LET c == call[r] IN
  /\ At(r, "hash")
  /\ users' = IF Present(c.user) /\ users[c.user].password # NoPassword
              THEN [users EXCEPT ![c.user].password = c.password]
              ELSE users
  /\ sessions' = [s \in Sessions |->
       IF s \in c.doomed THEN RevokedSession
       ELSE IF s \in LiveSessions(c.user)
            THEN [sessions[s] EXCEPT !.excused = @ \/ c.excused]
       ELSE sessions[s]]
  /\ Used(c.id)
  /\ call' = [q \in Requests |->
       IF q = r THEN Idle
       ELSE IF call[q].user = c.user /\ call[q].step \in {"session", "enroll"}
            THEN [call[q] EXCEPT !.excused = TRUE]
       ELSE call[q]]
  /\ UNCHANGED now

-----------------------------------------------------------------------------
(* What happens around the workflows *)

\* A write throws or the process dies: the call ends without an effect, and a
\* transaction is rolled back.
Fails(r) ==
  /\ call[r].step \in {"session", "drop", "refresh", "replace", "create", "mark", "hash"}
  /\ Finish(r)
  /\ UNCHANGED <<users, sessions, tokens, now>>

\* The process dies before its error path has run, or the error path throws.
Strand(r) ==
  /\ call[r].step \in {"mail", "compensate", "credential", "enroll", "rollback"}
  /\ Suspend(r, [Idle EXCEPT !.step = "stranded", !.user = call[r].user, !.id = call[r].id])
  /\ UNCHANGED <<users, sessions, tokens, now>>

\* The application changes an email, which makes it unverified, also between
\* the two statements of a verification: the first read the row without a lock.
ChangeEmail(u, e) ==
  /\ Present(u) /\ users[u].email # e
  /\ users' = [users EXCEPT ![u].email = e, ![u].verified = FALSE, ![u].overtaken = FALSE]
  /\ call' = [r \in Requests |->
       IF At(r, "mark") /\ call[r].user = u THEN [call[r] EXCEPT !.excused = TRUE]
       ELSE call[r]]
  /\ UNCHANGED <<sessions, tokens, now>>

\* canSignIn and canRequestPasswordReset change their mind about a user.
SetActive(u) ==
  /\ Present(u)
  /\ users' = [users EXCEPT ![u].active = ~@]
  /\ UNCHANGED <<sessions, tokens, call, now>>

Tick ==
  /\ now < Horizon
  /\ now' = now + 1
  /\ UNCHANGED <<users, sessions, tokens, call>>

AuthNext ==
  \/ \E r \in Requests :
       \/ \E u \in Users, p \in Passwords : ReadCredentials(r, u, p)
       \/ \E s \in Sessions : CreateSession(r, s) \/ FindInvalid(r, s) \/ FindDue(r, s)
       \/ DropSession(r) \/ RefreshSession(r)
       \/ \E u \in Users : RequestEmailVerification(r, u) \/ RequestPasswordReset(r, u)
       \/ ReplaceTokens(r) \/ Deliver(r) \/ Compensate(r)
       \/ \E left \in BOOLEAN : DeliveryFails(r, left)
       \/ \E t \in Tokens :
            \/ CreateToken(r, t) \/ ConsumeVerification(r, t)
            \/ \E p \in Passwords, keep \in BOOLEAN : ConsumeReset(r, t, p, keep)
       \/ CheckBinding(r) \/ BindingFails(r) \/ MarkVerified(r) \/ CommitReset(r)
       \/ Fails(r) \/ Strand(r)
  \/ \E s \in Sessions : SignOut(s)
  \/ \E u \in Users : SetActive(u) \/ \E e \in Emails : ChangeEmail(u, e)
  \/ Tick
=============================================================================
