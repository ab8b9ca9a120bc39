---------------------------- MODULE Registration ----------------------------
(***************************************************************************)
(* registerWithPassword of the registration service, wired as its docs do  *)
(* to createSession and requestEmailVerification of createAuth, and        *)
(* without the transaction hook: every step of a registration is visible   *)
(* to the other calls, and rollbackUser undoes the first when a later one  *)
(* throws.  The specification of the module is the two services together.  *)
(***************************************************************************)
EXTENDS Auth

CONSTANT HasRollback   \* config.rollbackUser is given

ASSUME RollbackAssumption == HasRollback \in BOOLEAN

\* validateInput and hash.
StartRegistration(r, e, p) ==
  /\ At(r, "idle")
  /\ Suspend(r, [Idle EXCEPT !.step = "create user", !.email = e, !.password = p])
  /\ UNCHANGED <<users, sessions, tokens, now>>

\* The unique index on emails.
Taken(e) == \E u \in Users : Present(u) /\ users[u].email = e

CreateUser(r, u) ==
  /\ At(r, "create user")
  /\ users[u].state = "absent" /\ ~Taken(call[r].email)
  /\ users' = [users EXCEPT ![u].state = "present", ![u].email = call[r].email]
  /\ Suspend(r, [call[r] EXCEPT !.step = "credential", !.user = u])
  /\ UNCHANGED <<sessions, tokens, now>>

\* The user is there, and then getUserId throws: created is not yet assigned, so
\* nothing is rolled back.
CreateUserUnidentified(r, u) ==
  /\ At(r, "create user")
  /\ users[u].state = "absent" /\ ~Taken(call[r].email)
  /\ users' = [users EXCEPT ![u].state = "present", ![u].email = call[r].email,
                            ![u].unidentified = TRUE]
  /\ Finish(r)
  /\ UNCHANGED <<sessions, tokens, now>>

\* createUser throws; there is nothing to roll back.
CreateUserRefused(r) ==
  /\ At(r, "create user")
  /\ Finish(r)
  /\ UNCHANGED <<users, sessions, tokens, now>>

SaveCredential(r) ==
  /\ At(r, "credential")
  /\ users' = [users EXCEPT ![call[r].user].password = call[r].password]
  /\ Goto(r, "enroll")
  /\ UNCHANGED <<sessions, tokens, now>>

Enroll(r, s) ==
  /\ At(r, "enroll")
  /\ InsertSession(r, s)
  /\ Suspend(r, [Idle EXCEPT !.step = "notify", !.user = call[r].user])
  /\ UNCHANGED <<users, tokens, now>>

RollBack(r) == Suspend(r, [Idle EXCEPT !.step = "rollback", !.user = call[r].user])

(* Mutant: created is assigned only after saveCredential.                    *)
RegistrationFailsCreatedLate(r) ==
  /\ call[r].step \in {"credential", "enroll"}
  /\ IF HasRollback /\ At(r, "enroll") THEN RollBack(r) ELSE Finish(r)
  /\ UNCHANGED <<users, sessions, tokens, now>>

\* saveCredential or createSession throws; without rollbackUser the user stays.
RegistrationFails(r) ==
  /\ call[r].step \in {"credential", "enroll"}
  /\ IF HasRollback THEN RollBack(r) ELSE Finish(r)
  /\ UNCHANGED <<users, sessions, tokens, now>>

RollBackUser(r) ==
  /\ At(r, "rollback")
  /\ users' = [users EXCEPT ![call[r].user].state = "removed"]
  /\ Finish(r)
  /\ UNCHANGED <<sessions, tokens, now>>

\* requestEmailVerification finds the user by its email; what it throws is
\* reported, and the registration stands.
Notify(r) ==
  LET u == call[r].user IN
  /\ At(r, "notify")
  /\ IF Present(u) /\ ~users[u].verified
     THEN Suspend(r, TokenRequest(u, "email_verification"))
     ELSE Finish(r)
  /\ UNCHANGED <<users, sessions, tokens, now>>

RegistrationNext ==
  \E r \in Requests :
    \/ \E e \in Emails, p \in Passwords : StartRegistration(r, e, p)
    \/ \E u \in Users : CreateUser(r, u) \/ CreateUserUnidentified(r, u)
    \/ \E s \in Sessions : Enroll(r, s)
    \/ CreateUserRefused(r) \/ SaveCredential(r) \/ RegistrationFails(r)
    \/ RollBackUser(r) \/ Notify(r)

Next == AuthNext \/ RegistrationNext

Spec == Init /\ [][Next]_vars

-----------------------------------------------------------------------------
TypeOK ==
  /\ users \in [Users -> User]
  /\ sessions \in [Sessions -> Session]
  /\ tokens \in [Tokens -> Token]
  /\ call \in [Requests -> Call \cup {Idle}]
  /\ now \in Nat

\* However refreshes, sign-outs and the clock interleave, a session's expiry
\* never moves back before the one it was created with, nor past its absolute
\* lifetime (validateSession caps every refresh).
SessionLifetimeBounded ==
  \A s \in Sessions : sessions[s].state = "live" =>
    /\ sessions[s].createdAt <= now
    /\ sessions[s].createdAt + SessionTtl <= sessions[s].expiresAt
    /\ sessions[s].expiresAt <= AbsoluteEnd(s)

\* A session that was signed out, dropped or revoked by a reset never comes
\* back, whatever refresh was computed from the row before.
RevokedForGood ==
  [][\A s \in Sessions : sessions[s].state = "revoked" => sessions'[s] = sessions[s]]_vars

\* A session that was signed in with a password the user no longer has exists
\* only if its sign-in overlapped the reset, or the reset was told to keep it.
ResetRevokes ==
  \A s \in Sessions :
    sessions[s].state = "live" /\ Present(sessions[s].user) /\ ~sessions[s].excused
      => sessions[s].password = users[sessions[s].user].password

\* No interleaving of verifications, resets, replacements and compensations
\* lets a token take effect twice.
TokenSingleUse == \A t \in Tokens : tokens[t].uses <= 1

\* What the documentation says of verifyEmail: a verified email was proven by a
\* token mailed to that very address.  The code does not keep it (FindEmailChange).
VerifiedEmailProven ==
  \A u \in Users : users[u].verified =>
    \E t \in Tokens :
      /\ tokens[t].purpose = "email_verification" /\ tokens[t].uses = 1
      /\ tokens[t].user = u /\ tokens[t].email = users[u].email

\* The same of every email that did not change between the check of a
\* verification and its write, whatever else changed, was replaced, used or
\* rolled back meanwhile.
UndisturbedEmailProven ==
  \A u \in Users : users[u].verified /\ ~users[u].overtaken =>
    \E t \in Tokens :
      /\ tokens[t].purpose = "email_verification" /\ tokens[t].uses = 1
      /\ tokens[t].user = u /\ tokens[t].email = users[u].email

\* With a mailer, a token nobody was sent goes away when its request ends,
\* unless the request died before its error path had run, or the deletion in
\* that path failed.
UndeliveredTokensVoid ==
  HasMailer =>
    \A t \in Tokens : tokens[t].state = "live" /\ ~tokens[t].mailed =>
      \E r \in Requests :
        call[r].id = t /\ call[r].step \in {"mail", "compensate", "stranded"}

\* Once a request has replaced the tokens of its purpose, none that was live
\* when it was made can be used, even if it was being used meanwhile.
SupersededTokensDead ==
  \A t \in Tokens : \A o \in tokens[t].older : tokens[o].state = "gone"

\* With rollbackUser, a user without a credential belongs to a registration in
\* flight, to one that died or whose rollback failed, or to one that ended
\* because getUserId threw.
NoHalfRegistered ==
  HasRollback =>
    \A u \in Users : Present(u) /\ users[u].password = NoPassword =>
      \/ users[u].unidentified
      \/ \E r \in Requests :
           call[r].user = u /\ call[r].step \in {"credential", "rollback", "stranded"}
=============================================================================
