--------------------- MODULE RegistrationSessions_proofs ---------------------
(***************************************************************************)
(* Theorems about the sessions and the credentials of the auth workflows:  *)
(* lifetimes, revocation, resets and registrations left half done; and     *)
(* about what the HTTP adapters make of the sessions.                      *)
(***************************************************************************)
EXTENDS Registration_proofs, AuthHttp

USE NamesAssumption

-----------------------------------------------------------------------------
(* How calls enter and leave their steps *)

LEMMA Entered ==
  ASSUME TypeOK, NEW r \in Requests, StepOf(r)
  PROVE  /\ call'[r].step = "session" => \E u \in Users, p \in Passwords : ReadCredentials(r, u, p)
         /\ call'[r].step = "refresh" => \E s \in Sessions : FindDue(r, s)
         /\ call'[r].step = "hash" =>
              \E t \in Tokens, p \in Passwords, keep \in BOOLEAN : ConsumeReset(r, t, p, keep)
         /\ call'[r].step = "create user" =>
              \E e \in Emails, p \in Passwords : StartRegistration(r, e, p)
         /\ call'[r].step = "credential" => \E u \in Users : CreateUser(r, u)
         /\ call'[r].step = "enroll" => SaveCredential(r)
<1>1. call \in [Requests -> Call \cup {Idle}]
  BY DEF TypeOK
<1>2. \A c : Suspend(r, c) => call'[r] = c
  BY <1>1 DEF Suspend
<1>3. Finish(r) => call'[r] = Idle
  BY <1>1 DEF Finish
<1>4. Finish(r) => call'[r].step = "idle"
  BY <1>3 DEF Idle
<1>5. ASSUME NEW step, ~At(r, "idle"), Goto(r, step)
      PROVE  call'[r].step = step
  <2>1. call[r] \in Call
    BY <1>5, CallTyped
  <2>2. call'[r] = [call[r] EXCEPT !.step = step]
    BY <1>1, <1>5, Zenon DEF Goto
  <2>3. QED
    BY <2>1, <2>2 DEF Call
<1>6. CASE \/ \E s \in Sessions : CreateSession(r, s)
           \/ DropSession(r) \/ RefreshSession(r) \/ Deliver(r) \/ Compensate(r)
           \/ Fails(r) \/ BindingFails(r) \/ MarkVerified(r) \/ CreateUserRefused(r)
           \/ RollBackUser(r) \/ \E u \in Users : CreateUserUnidentified(r, u)
  BY <1>4, <1>6 DEF CreateSession, DropSession, RefreshSession, Deliver, Compensate, Fails,
                    BindingFails, MarkVerified, CreateUserRefused, RollBackUser,
                    CreateUserUnidentified
<1>7. CASE CommitReset(r)
  BY <1>1, <1>7 DEF CommitReset, Idle
<1>8. CASE CheckBinding(r) \/ SaveCredential(r) \/ \E left \in BOOLEAN : DeliveryFails(r, left)
  BY <1>5, <1>8 DEF CheckBinding, SaveCredential, DeliveryFails, At
<1>9. CASE \/ \E s \in Sessions : FindInvalid(r, s) \/ Enroll(r, s)
           \/ RegistrationFails(r) \/ Strand(r)
  <2>1. (\E s \in Sessions : FindInvalid(r, s)) => call'[r].step = "drop"
    BY <1>2 DEF FindInvalid, Idle
  <2>2. (\E s \in Sessions : Enroll(r, s)) => call'[r].step = "notify"
    BY <1>2 DEF Enroll, Idle
  <2>3. RegistrationFails(r) => call'[r].step \in {"rollback", "idle"}
    BY <1>2, <1>4 DEF RegistrationFails, RollBack, Idle
  <2>4. Strand(r) => call'[r].step = "stranded"
    BY <1>2 DEF Strand, Idle
  <2>5. QED
    BY <1>9, <2>1, <2>2, <2>3, <2>4
<1>10. CASE \/ \E t \in Tokens : CreateToken(r, t) \/ ConsumeVerification(r, t)
  <2>1. \A t \in Tokens : CreateToken(r, t) => call'[r].step = "mail"
    BY <1>2 DEF CreateToken, Idle
  <2>2. \A t \in Tokens : ConsumeVerification(r, t) => call'[r].step = "bind"
    BY <1>2 DEF ConsumeVerification, Idle
  <2>3. QED
    BY <1>10, <2>1, <2>2
<1>11. \A u \in Users, p \in Purposes : TokenRequest(u, p).step = "replace"
  BY DEF TokenRequest, Idle
<1>12. CASE \E u \in Users : RequestEmailVerification(r, u) \/ RequestPasswordReset(r, u)
  BY <1>2, <1>11, <1>12 DEF RequestEmailVerification, RequestPasswordReset, Purposes
<1>13. CASE Notify(r)
  BY <1>2, <1>4, <1>11, <1>13, CallTyped DEF Notify, Purposes
<1>14. CASE ReplaceTokens(r)
  <2>1. call[r] \in Call
    BY <1>14, CallTyped DEF ReplaceTokens, At
  <2>2. call'[r].step = "create"
    BY <1>1, <1>14, <2>1 DEF ReplaceTokens, Suspend, Call
  <2>3. QED
    BY <2>2
<1>15. ASSUME NEW u \in Users, CreateUser(r, u)
       PROVE  call'[r].step = "credential"
  <2>1. call[r] \in Call
    BY <1>15, CallTyped DEF CreateUser, At
  <2>2. QED
    BY <1>1, <1>15, <2>1 DEF CreateUser, Suspend, Call
<1>16. ASSUME NEW u \in Users, NEW p \in Passwords, ReadCredentials(r, u, p)
       PROVE  call'[r].step = "session"
  <2>1. call'[r] = [Idle EXCEPT !.step = "session", !.user = u, !.password = p]
    BY <1>2, <1>16 DEF ReadCredentials
  <2>2. QED
    BY <2>1 DEF Idle
<1>17. (\E s \in Sessions : FindDue(r, s)) => call'[r].step = "refresh"
  BY <1>2 DEF FindDue, Idle
<1>18. (\E t \in Tokens, p \in Passwords, keep \in BOOLEAN : ConsumeReset(r, t, p, keep))
         => call'[r].step = "hash"
  BY <1>2 DEF ConsumeReset, Idle
<1>19. (\E e \in Emails, p \in Passwords : StartRegistration(r, e, p))
         => call'[r].step = "create user"
  BY <1>2 DEF StartRegistration, Idle
<1>20. QED
  BY <1>6, <1>7, <1>8, <1>9, <1>10, <1>12, <1>13, <1>14, <1>15, <1>16, <1>17, <1>18, <1>19
     DEF StepOf

-----------------------------------------------------------------------------
(* What a step does to a session *)

Inserted(s) ==
  \E r \in Requests :
    /\ call[r].step \in {"session", "enroll"} /\ StepOf(r) /\ UNCHANGED <<users, now>>
    /\ sessions[s].state = "unused"
    /\ sessions'[s] = [state |-> "live", user |-> call[r].user, createdAt |-> now,
                       expiresAt |-> now + SessionTtl, password |-> call[r].password,
                       excused |-> call[r].excused \/ Resetting(call[r].user)]

Extended(s) ==
  \E r \in Requests :
    /\ call[r].step = "refresh" /\ call[r].id = s /\ UNCHANGED now
    /\ sessions[s].state = "live"
    /\ sessions'[s] = [sessions[s] EXCEPT !.expiresAt = call[r].next]

Excused(s) ==
  \E r \in Requests :
    /\ CommitReset(r) /\ s \notin call[r].doomed
    /\ sessions[s].state = "live" /\ sessions[s].user = call[r].user
    /\ sessions'[s] = [sessions[s] EXCEPT !.excused = sessions[s].excused \/ call[r].excused]

LEMMA SessionsMove ==
  ASSUME TypeOK, [Next]_vars, NEW s \in Sessions
  PROVE  \/ sessions'[s] = sessions[s]
         \/ sessions'[s] = RevokedSession
         \/ Inserted(s) \/ Extended(s) \/ Excused(s)
<1>0. sessions \in [Sessions -> Session]
  BY DEF TypeOK
<1>1. CASE Outside
  BY <1>1 DEF Outside, SignOut, Revoke, SetActive, ChangeEmail, Tick, vars
<1>2. ASSUME NEW r \in Requests, NEW i \in Sessions, CreateSession(r, i) \/ Enroll(r, i)
      PROVE  sessions'[s] = sessions[s] \/ Inserted(s)
  <2>1. StepOf(r) /\ InsertSession(r, i) /\ call[r].step \in {"session", "enroll"}
        /\ UNCHANGED <<users, now>>
    BY <1>2 DEF StepOf, CreateSession, Enroll, At
  <2>2. CASE i = s
    BY <1>0, <2>1, <2>2 DEF InsertSession, Inserted
  <2>3. CASE i # s
    BY <1>0, <2>1, <2>3 DEF InsertSession
  <2>4. QED
    BY <2>2, <2>3
<1>3. ASSUME NEW r \in Requests, RefreshSession(r)
      PROVE  sessions'[s] = sessions[s] \/ Extended(s)
  <2>1. call[r].step = "refresh" /\ UNCHANGED now
    BY <1>3 DEF RefreshSession, At
  <2>2. CASE call[r].id = s /\ sessions[s].state = "live"
    <3>1. sessions'[s] = [sessions[s] EXCEPT !.expiresAt = call[r].next]
      BY <1>0, <1>3, <2>2, Zenon DEF RefreshSession
    <3>2. QED
      BY <2>1, <2>2, <3>1 DEF Extended
  <2>3. CASE ~(call[r].id = s /\ sessions[s].state = "live")
    BY <1>0, <1>3, <2>3 DEF RefreshSession
  <2>4. QED
    BY <2>2, <2>3
<1>4. ASSUME NEW r \in Requests, CommitReset(r)
      PROVE  \/ sessions'[s] = sessions[s] \/ sessions'[s] = RevokedSession
             \/ Excused(s)
  BY <1>4 DEF CommitReset, Excused, LiveSessions
<1>5. ASSUME NEW r \in Requests, DropSession(r)
      PROVE  sessions'[s] = sessions[s] \/ sessions'[s] = RevokedSession
  BY <1>5 DEF DropSession, Revoke
<1>6. ASSUME NEW r \in Requests, StepOf(r), ~DropSession(r), ~CommitReset(r), ~RefreshSession(r),
             ~\E i \in Sessions : CreateSession(r, i) \/ Enroll(r, i)
      PROVE  sessions' = sessions
  BY <1>6
     DEF StepOf, ReadCredentials, FindInvalid, FindDue, RequestEmailVerification,
         RequestPasswordReset, ReplaceTokens, Deliver, Compensate, DeliveryFails, CreateToken,
         ConsumeVerification, ConsumeReset, CheckBinding, BindingFails, MarkVerified, Fails,
         Strand, StartRegistration, CreateUser, CreateUserUnidentified, CreateUserRefused,
         SaveCredential,
         RegistrationFails, RollBackUser, Notify
<1>7. QED
  BY <1>1, <1>2, <1>3, <1>4, <1>5, <1>6, SomeoneSteps

-----------------------------------------------------------------------------
(* Revocation *)

\* Nothing is left of a deleted row that a later step could tell apart.
RevokedInv == \A s \in Sessions : sessions[s].state = "revoked" => sessions[s] = RevokedSession

LEMMA RevokedStep ==
  ASSUME TypeOK, RevokedInv, [Next]_vars, NEW s \in Sessions, sessions[s].state = "revoked"
  PROVE  sessions'[s] = sessions[s]
BY SessionsMove DEF RevokedInv, Inserted, Extended, Excused

LEMMA RevokedInvariant == Spec => []RevokedInv
<1>1. Init => RevokedInv
  BY DEF Init, RevokedInv, NoSession
<1>2. ASSUME TypeOK, RevokedInv, [Next]_vars
      PROVE  RevokedInv'
  <2>1. ASSUME NEW s \in Sessions, sessions'[s].state = "revoked"
        PROVE  sessions'[s] = RevokedSession
    <3>1. CASE sessions'[s] = sessions[s]
      BY <1>2, <2>1, <3>1 DEF RevokedInv
    <3>2. CASE Inserted(s)
      BY <2>1, <3>2 DEF Inserted
    <3>3. CASE Extended(s) \/ Excused(s)
      BY <1>2, <2>1, <3>3 DEF Extended, Excused, TypeOK, Session
    <3>4. QED
      BY <1>2, <3>1, <3>2, <3>3, SessionsMove
  <2>2. QED
    BY <2>1 DEF RevokedInv
<1>3. QED
  BY <1>1, <1>2, TypeCorrect, PTL DEF Spec

\* A session that was signed out, dropped or revoked never comes back, whatever
\* refresh was computed from the row before.
THEOREM RevocationFinal == Spec => RevokedForGood
<1>1. TypeOK /\ RevokedInv /\ [Next]_vars =>
        [\A s \in Sessions : sessions[s].state = "revoked" => sessions'[s] = sessions[s]]_vars
  BY RevokedStep
<1>2. QED
  BY <1>1, TypeCorrect, RevokedInvariant, PTL DEF Spec, RevokedForGood

-----------------------------------------------------------------------------
(* Lifetimes *)

\* A refresh on its way keeps the session it was computed for within bounds,
\* even if other refreshes overtake it.
LifetimeInv ==
  /\ SessionLifetimeBounded
  /\ \A r \in Requests : call[r].step = "refresh" =>
       LET s == call[r].id IN
       /\ s \in Sessions /\ sessions[s].state # "unused"
       /\ sessions[s].state = "live" =>
            /\ sessions[s].createdAt + SessionTtl <= call[r].next
            /\ call[r].next <= AbsoluteEnd(s)

LEMMA LiveAsBefore ==
  ASSUME TypeOK, [Next]_vars, NEW s \in Sessions
  PROVE  /\ sessions[s].state # "unused" => sessions'[s].state # "unused"
         /\ sessions[s].state # "unused" /\ sessions'[s].state = "live" =>
              /\ sessions[s].state = "live"
              /\ sessions'[s].createdAt = sessions[s].createdAt
              /\ sessions'[s].user = sessions[s].user
              /\ sessions'[s].password = sessions[s].password
              /\ sessions[s].excused => sessions'[s].excused
<1>0. sessions[s] \in Session
  BY DEF TypeOK
<1>1. CASE sessions'[s] = sessions[s] \/ Inserted(s)
  BY <1>1 DEF Inserted
<1>2. CASE sessions'[s] = RevokedSession
  BY <1>2 DEF RevokedSession, NoSession
<1>3. CASE Extended(s)
  BY <1>0, <1>3 DEF Extended, Session
<1>4. CASE Excused(s)
  BY <1>0, <1>4 DEF Excused, Session
<1>5. QED
  BY <1>1, <1>2, <1>3, <1>4, SessionsMove

LEMMA ClockAdvances == ASSUME TypeOK, [Next]_vars PROVE now' \in Nat /\ now <= now'
<1>1. now \in Nat
  BY DEF TypeOK
<1>2. CASE Outside
  <2>1. now' = now \/ now' = now + 1
    BY <1>2 DEF Outside, SignOut, SetActive, ChangeEmail, Tick, vars
  <2>2. QED
    BY <1>1, <2>1
<1>3. ASSUME NEW r \in Requests, StepOf(r)
      PROVE  now' = now
  BY <1>3
     DEF StepOf, ReadCredentials, CreateSession, FindInvalid, FindDue, DropSession,
         RefreshSession, RequestEmailVerification, RequestPasswordReset, ReplaceTokens,
         Deliver, Compensate, DeliveryFails, CreateToken, ConsumeVerification, ConsumeReset,
         CheckBinding, BindingFails, MarkVerified, CommitReset, Fails, Strand,
         StartRegistration, CreateUser, CreateUserUnidentified, Enroll, CreateUserRefused,
         SaveCredential, RegistrationFails, RollBackUser, Notify
<1>4. QED
  BY <1>1, <1>2, <1>3, SomeoneSteps

LEMMA LifetimesKept ==
  ASSUME TypeOK, LifetimeInv, [Next]_vars
  PROVE  LifetimeInv'
<1>0. /\ SessionTtl \in Nat /\ AbsoluteTtl \in Nat /\ SessionTtl <= AbsoluteTtl
      /\ now \in Nat /\ now' \in Nat /\ now <= now'
  BY LifetimesAssumption, ClockAdvances DEF LifetimesAccepted, TypeOK
<1>1. ASSUME NEW s \in Sessions, sessions'[s].state = "live"
      PROVE  /\ sessions'[s].createdAt <= now'
             /\ sessions'[s].createdAt + SessionTtl <= sessions'[s].expiresAt
             /\ sessions'[s].expiresAt <= sessions'[s].createdAt + AbsoluteTtl
  <2>0. sessions[s] \in Session /\ sessions[s].createdAt \in Nat /\ sessions[s].expiresAt \in Nat
    BY DEF TypeOK, Session
  <2>1. CASE sessions'[s] = sessions[s]
    BY <1>0, <1>1, <2>0, <2>1 DEF LifetimeInv, SessionLifetimeBounded, AbsoluteEnd
  <2>2. CASE sessions'[s] = RevokedSession
    BY <1>1, <2>2 DEF RevokedSession, NoSession
  <2>3. CASE Inserted(s)
    <3>1. sessions'[s].createdAt = now /\ sessions'[s].expiresAt = now + SessionTtl
      BY <2>3 DEF Inserted
    <3>2. QED
      BY <1>0, <3>1
  <2>4. CASE Extended(s)
    <3>1. PICK r \in Requests :
            /\ call[r].step = "refresh" /\ call[r].id = s
            /\ sessions[s].state = "live"
            /\ sessions'[s] = [sessions[s] EXCEPT !.expiresAt = call[r].next]
      BY <2>4 DEF Extended
    <3>2. /\ sessions'[s].expiresAt = call[r].next
          /\ sessions'[s].createdAt = sessions[s].createdAt
      BY <2>0, <3>1 DEF Session
    <3>3. sessions[s].createdAt <= now
      BY <3>1 DEF LifetimeInv, SessionLifetimeBounded
    <3>4. /\ sessions[s].createdAt + SessionTtl <= call[r].next
          /\ call[r].next <= sessions[s].createdAt + AbsoluteTtl
      BY <3>1 DEF LifetimeInv, AbsoluteEnd
    <3>5. QED
      BY <1>0, <2>0, <3>2, <3>3, <3>4
  <2>5. CASE Excused(s)
    <3>1. /\ sessions'[s].expiresAt = sessions[s].expiresAt
          /\ sessions'[s].createdAt = sessions[s].createdAt
          /\ sessions[s].state = "live"
      BY <2>0, <2>5 DEF Excused, Session
    <3>2. QED
      BY <1>0, <2>0, <3>1 DEF LifetimeInv, SessionLifetimeBounded, AbsoluteEnd
  <2>6. QED
    BY <2>1, <2>2, <2>3, <2>4, <2>5, SessionsMove
<1>2. ASSUME NEW r \in Requests, call[r].step = "refresh", call'[r].id = call[r].id,
             call'[r].next = call[r].next
      PROVE  LET s == call'[r].id IN
             /\ s \in Sessions /\ sessions'[s].state # "unused"
             /\ sessions'[s].state = "live" =>
                  /\ sessions'[s].createdAt + SessionTtl <= call'[r].next
                  /\ call'[r].next <= sessions'[s].createdAt + AbsoluteTtl
  <2>1. PICK s \in Sessions : s = call[r].id /\ sessions[s].state # "unused"
    BY <1>2 DEF LifetimeInv
  <2>2. sessions[s].state = "live" =>
          /\ sessions[s].createdAt + SessionTtl <= call[r].next
          /\ call[r].next <= sessions[s].createdAt + AbsoluteTtl
    BY <1>2, <2>1 DEF LifetimeInv, AbsoluteEnd
  <2>3. QED
    BY <1>2, <2>1, <2>2, LiveAsBefore
<1>3. ASSUME NEW r \in Requests, NEW s \in Sessions, FindDue(r, s)
      PROVE  /\ call'[r].id = s /\ sessions'[s].state = "live"
             /\ sessions'[s].createdAt + SessionTtl <= call'[r].next
             /\ call'[r].next <= sessions'[s].createdAt + AbsoluteTtl
  <2>1. /\ call'[r].id = s /\ call'[r].next = NextExpiry(s) /\ sessions' = sessions
    BY <1>3 DEF FindDue, Suspend, Idle, TypeOK
  <2>2. sessions[s].state = "live" /\ NextExpiry(s) > sessions[s].expiresAt
    BY <1>3 DEF FindDue, Due, Valid, Found
  <2>3. sessions[s].createdAt \in Nat /\ sessions[s].expiresAt \in Nat
    BY DEF TypeOK, Session
  <2>4. sessions[s].createdAt + SessionTtl <= sessions[s].expiresAt
    BY <2>2 DEF LifetimeInv, SessionLifetimeBounded
  <2>5. NextExpiry(s) \in Nat /\ NextExpiry(s) <= sessions[s].createdAt + AbsoluteTtl
    BY <1>0, <2>3 DEF NextExpiry, Earlier, AbsoluteEnd
  <2>6. QED
    BY <1>0, <2>1, <2>2, <2>3, <2>4, <2>5
<1>4. ASSUME NEW r \in Requests, call'[r].step = "refresh"
      PROVE  LET s == call'[r].id IN
             /\ s \in Sessions /\ sessions'[s].state # "unused"
             /\ sessions'[s].state = "live" =>
                  /\ sessions'[s].createdAt + SessionTtl <= call'[r].next
                  /\ call'[r].next <= sessions'[s].createdAt + AbsoluteTtl
  <2>1. CASE \A p \in Requests : Undisturbed(p)
    BY <1>2, <1>4, <2>1, UndisturbedFields
  <2>2. ASSUME NEW q \in Requests, StepOf(q), \A p \in Requests \ {q} : Undisturbed(p)
        PROVE  \/ /\ call[r].step = "refresh" /\ call'[r].id = call[r].id
                  /\ call'[r].next = call[r].next
               \/ \E s \in Sessions : FindDue(r, s)
    BY <1>4, <2>2, Entered, UndisturbedFields
  <2>3. CASE \E s \in Sessions : FindDue(r, s)
    BY <1>3, <2>3
  <2>4. QED
    BY <1>2, <2>1, <2>2, <2>3, SomeoneSteps
<1>5. QED
  BY <1>1, <1>4 DEF LifetimeInv, SessionLifetimeBounded, AbsoluteEnd

\* However refreshes, sign-outs and the clock interleave, a session expires no
\* earlier than it was created to and no later than its absolute lifetime.
THEOREM LifetimeBounded == Spec => []SessionLifetimeBounded
<1>1. Init => LifetimeInv
  BY DEF Init, LifetimeInv, SessionLifetimeBounded, NoSession, Idle
<1>2. TypeOK /\ LifetimeInv /\ [Next]_vars => LifetimeInv'
  BY LifetimesKept
<1>3. LifetimeInv => SessionLifetimeBounded
  BY DEF LifetimeInv
<1>4. QED
  BY <1>1, <1>2, <1>3, TypeCorrect, PTL DEF Spec

-----------------------------------------------------------------------------
(* What a step does to a user *)

UserKept(u) ==
  /\ users'[u].state = users[u].state /\ users'[u].password = users[u].password
  /\ users'[u].unidentified = users[u].unidentified

LEMMA UsersMove ==
  ASSUME TypeOK, NEW r \in Requests, StepOf(r), NEW u \in Users
  PROVE  \/ UserKept(u)
         \/ /\ CreateUser(r, u) /\ users[u].state = "absent"
            /\ users'[u].state = "present" /\ users'[u].password = users[u].password
         \/ /\ CreateUserUnidentified(r, u) /\ users[u].state = "absent"
            /\ users'[u].state = "present" /\ users'[u].password = users[u].password
            /\ users'[u].unidentified
         \/ /\ SaveCredential(r) /\ call[r].user = u
            /\ users'[u].state = users[u].state /\ users'[u].password = call[r].password
         \/ /\ RollBackUser(r) /\ call[r].user = u
            /\ users'[u].state = "removed" /\ users'[u].password = users[u].password
         \/ /\ CommitReset(r) /\ call[r].user = u
            /\ users'[u].state = users[u].state /\ users[u].password # NoPassword
            /\ users'[u].password = call[r].password
<1>0. users \in [Users -> User]
  BY DEF TypeOK
<1>1. CASE MarkVerified(r)
  BY <1>0, <1>1 DEF MarkVerified, UserKept, User
<1>2. CASE CommitReset(r)
  <2>1. CASE users' = users
    BY <2>1 DEF UserKept
  <2>2. CASE /\ users[call[r].user].password # NoPassword
             /\ users' = [users EXCEPT ![call[r].user].password = call[r].password]
    BY <1>0, <1>2, <2>2, CallTyped DEF UserKept, User
  <2>3. QED
    BY <1>2, <2>1, <2>2 DEF CommitReset
<1>3. CASE SaveCredential(r)
  <2>1. users' = [users EXCEPT ![call[r].user].password = call[r].password]
    BY <1>3 DEF SaveCredential
  <2>2. QED
    BY <1>0, <1>3, <2>1, CallTyped DEF UserKept, User
<1>4. CASE RollBackUser(r)
  <2>1. users' = [users EXCEPT ![call[r].user].state = "removed"]
    BY <1>4 DEF RollBackUser
  <2>2. QED
    BY <1>0, <1>4, <2>1, CallTyped DEF UserKept, User
<1>5. ASSUME NEW w \in Users, CreateUser(r, w)
      PROVE  \/ UserKept(u)
             \/ /\ CreateUser(r, u) /\ users[u].state = "absent"
                /\ users'[u].state = "present" /\ users'[u].password = users[u].password
  <2>1. CASE w = u
    BY <1>0, <1>5, <2>1 DEF CreateUser, User
  <2>2. CASE w # u
    BY <1>0, <1>5, <2>2 DEF CreateUser, UserKept
  <2>3. QED
    BY <2>1, <2>2
<1>6. ASSUME NEW w \in Users, CreateUserUnidentified(r, w)
      PROVE  \/ UserKept(u)
             \/ /\ CreateUserUnidentified(r, u) /\ users[u].state = "absent"
                /\ users'[u].state = "present" /\ users'[u].password = users[u].password
                /\ users'[u].unidentified
  <2>1. CASE w = u
    BY <1>0, <1>6, <2>1 DEF CreateUserUnidentified, User
  <2>2. CASE w # u
    BY <1>0, <1>6, <2>2 DEF CreateUserUnidentified, UserKept
  <2>3. QED
    BY <2>1, <2>2
<1>7. ASSUME ~MarkVerified(r), ~CommitReset(r), ~SaveCredential(r), ~RollBackUser(r),
             ~\E w \in Users : CreateUser(r, w) \/ CreateUserUnidentified(r, w)
      PROVE  UserKept(u)
  <2>1. users' = users
    BY <1>7
       DEF StepOf, ReadCredentials, CreateSession, FindInvalid, FindDue, DropSession,
           RefreshSession, RequestEmailVerification, RequestPasswordReset, ReplaceTokens,
           Deliver, Compensate, DeliveryFails, CreateToken, ConsumeVerification, ConsumeReset,
           CheckBinding, BindingFails, Fails, Strand, StartRegistration, Enroll,
           CreateUserRefused, RegistrationFails, Notify
  <2>2. QED
    BY <2>1 DEF UserKept
<1>8. QED
  BY <1>1, <1>2, <1>3, <1>4, <1>5, <1>6, <1>7

LEMMA UsersKeptOutside ==
  ASSUME TypeOK, Outside, NEW u \in Users
  PROVE  UserKept(u)
<1>1. CASE users' = users
  BY <1>1 DEF UserKept
<1>2. ASSUME NEW w \in Users, SetActive(w)
      PROVE  UserKept(u)
  BY <1>2 DEF SetActive, UserKept, TypeOK, User
<1>3. ASSUME NEW w \in Users, NEW e \in Emails, ChangeEmail(w, e)
      PROVE  UserKept(u)
  BY <1>3 DEF ChangeEmail, UserKept, TypeOK, User
<1>4. QED
  BY <1>1, <1>2, <1>3 DEF Outside, SignOut, Tick, vars

-----------------------------------------------------------------------------
(* Registrations left half done *)

\* What a registration or a reset will store is a password.
PasswordInv ==
  \A r \in Requests :
    call[r].step \in {"session", "create user", "credential", "enroll", "hash"}
      => call[r].password \in Passwords

LEMMA PasswordStep ==
  ASSUME TypeOK, PasswordInv, NEW r \in Requests, StepOf(r),
         \A q \in Requests \ {r} : Undisturbed(q)
  PROVE  PasswordInv'
<1>0. call \in [Requests -> Call \cup {Idle}]
  BY DEF TypeOK
<1>1. ASSUME NEW q \in Requests \ {r}
      PROVE  call'[q].step = call[q].step /\ call'[q].password = call[q].password
  BY UndisturbedFields
<1>2. (\E u \in Users, p \in Passwords : ReadCredentials(r, u, p)) => call'[r].password \in Passwords
  BY <1>0 DEF ReadCredentials, Suspend, Idle
<1>3. (\E t \in Tokens, p \in Passwords, keep \in BOOLEAN : ConsumeReset(r, t, p, keep))
        => call'[r].password \in Passwords
  BY <1>0 DEF ConsumeReset, Suspend, Idle
<1>4. (\E e \in Emails, p \in Passwords : StartRegistration(r, e, p))
        => call'[r].password \in Passwords
  BY <1>0 DEF StartRegistration, Suspend, Idle
<1>5. ASSUME \/ SaveCredential(r) \/ \E u \in Users : CreateUser(r, u)
      PROVE  call'[r].password \in Passwords
  <2>1. call[r] \in Call /\ call[r].password \in Passwords
    BY <1>5, CallTyped DEF SaveCredential, CreateUser, At, PasswordInv
  <2>2. call'[r].password = call[r].password
    <3>1. CASE SaveCredential(r)
      BY <1>0, <2>1, <3>1 DEF SaveCredential, Goto, Call
    <3>2. CASE \E u \in Users : CreateUser(r, u)
      <4>1. PICK u \in Users : call' = [call EXCEPT ![r] =
                                          [call[r] EXCEPT !.step = "credential", !.user = u]]
        BY <3>2 DEF CreateUser, Suspend
      <4>2. QED
        BY <1>0, <2>1, <4>1 DEF Call
    <3>3. QED
      BY <1>5, <3>1, <3>2
  <2>3. QED
    BY <2>1, <2>2
<1>6. QED
  BY <1>1, <1>2, <1>3, <1>4, <1>5, Entered DEF PasswordInv

LEMMA PasswordInvariant == Spec => []PasswordInv
<1>1. Init => PasswordInv
  <2>1. Idle.step = "idle"
    BY DEF Idle
  <2>2. QED
    BY <2>1 DEF Init, PasswordInv
<1>2. ASSUME TypeOK, PasswordInv, [Next]_vars
      PROVE  PasswordInv'
  <2>1. CASE \A q \in Requests : Undisturbed(q)
    BY <1>2, <2>1, UndisturbedFields DEF PasswordInv
  <2>2. QED
    BY <1>2, <2>1, SomeoneSteps, PasswordStep
<1>3. QED
  BY <1>1, <1>2, TypeCorrect, PTL DEF Spec

Unfinished == {"credential", "rollback", "stranded"}

LEMMA LeavingUnfinished ==
  ASSUME TypeOK, HasRollback, NEW r \in Requests, StepOf(r), call[r].step \in Unfinished
  PROVE  \/ SaveCredential(r) \/ RollBackUser(r)
         \/ call'[r].step \in Unfinished /\ call'[r].user = call[r].user
<1>0. call \in [Requests -> Call \cup {Idle}]
  BY DEF TypeOK
<1>1. SaveCredential(r) \/ RollBackUser(r) \/ RegistrationFails(r) \/ Strand(r)
  BY DEF Unfinished, StepOf, ReadCredentials, CreateSession, FindInvalid, FindDue, DropSession,
         RefreshSession, RequestEmailVerification, RequestPasswordReset, ReplaceTokens,
         Deliver, Compensate, DeliveryFails, CreateToken, ConsumeVerification, ConsumeReset,
         CheckBinding, BindingFails, MarkVerified, CommitReset, Fails, StartRegistration,
         CreateUser, CreateUserUnidentified, Enroll, CreateUserRefused, Notify, At
<1>2. CASE RegistrationFails(r)
  <2>1. call'[r] = [Idle EXCEPT !.step = "rollback", !.user = call[r].user]
    BY <1>0, <1>2, Zenon DEF RegistrationFails, RollBack, Suspend
  <2>2. QED
    BY <2>1 DEF Idle, Unfinished
<1>3. CASE Strand(r)
  BY <1>0, <1>3 DEF Strand, Suspend, Idle, Unfinished
<1>4. QED
  BY <1>1, <1>2, <1>3

LEMMA HalfRegisteredStep ==
  ASSUME TypeOK, HasRollback, PasswordInv, NoHalfRegistered, NEW r \in Requests, StepOf(r),
         \A q \in Requests \ {r} : Undisturbed(q)
  PROVE  NoHalfRegistered'
<1>0. call \in [Requests -> Call \cup {Idle}]
  BY DEF TypeOK
<1>1. \A q \in Requests \ {r} : call'[q].step = call[q].step /\ call'[q].user = call[q].user
  BY UndisturbedFields
<1>2. SUFFICES ASSUME NEW u \in Users, users'[u].state = "present",
                      users'[u].password = NoPassword, ~users'[u].unidentified
               PROVE  \E q \in Requests : call'[q].user = u /\ call'[q].step \in Unfinished
  BY DEF NoHalfRegistered, Present, Unfinished
<1>3. CASE UserKept(u)
  <2>1. PICK q \in Requests : call[q].user = u /\ call[q].step \in Unfinished
    BY <1>2, <1>3 DEF UserKept, NoHalfRegistered, Present, Unfinished
  <2>2. CASE q # r
    BY <1>1, <2>1, <2>2
  <2>3. CASE q = r
    <3>1. ~SaveCredential(r)
      <4>1. SaveCredential(r) => users'[u].password = call[r].password
                                 /\ call[r].password \in Passwords
        <5>1. ASSUME SaveCredential(r)
              PROVE  users' = [users EXCEPT ![u].password = call[r].password]
          BY <2>1, <2>3, <5>1 DEF SaveCredential
        <5>2. SaveCredential(r) => call[r].password \in Passwords
          BY DEF SaveCredential, At, PasswordInv
        <5>3. QED
          BY <5>1, <5>2 DEF TypeOK, User
      <4>2. QED
        BY <1>2, <4>1
    <3>2. ~RollBackUser(r)
      <4>1. RollBackUser(r) => users'[u].state = "removed"
        BY <2>1, <2>3 DEF RollBackUser, TypeOK, User
      <4>2. QED
        BY <1>2, <4>1
    <3>3. QED
      BY <2>1, <2>3, <3>1, <3>2, LeavingUnfinished
  <2>4. QED
    BY <2>2, <2>3
<1>4. CASE CreateUser(r, u)
  <2>1. call[r] \in Call
    BY <1>4, CallTyped DEF CreateUser, At
  <2>2. call'[r].user = u /\ call'[r].step = "credential"
    BY <1>0, <1>4, <2>1 DEF CreateUser, Suspend, Call
  <2>3. QED
    BY <2>2 DEF Unfinished
<1>5. CASE (SaveCredential(r) \/ CommitReset(r)) /\ users'[u].password = call[r].password
  BY <1>2, <1>5 DEF SaveCredential, CommitReset, At, PasswordInv
<1>6. CASE users'[u].state = "removed" \/ users'[u].unidentified
  BY <1>2, <1>6
<1>7. QED
  BY <1>3, <1>4, <1>5, <1>6, UsersMove

\* Where rollbackUser is configured, a user without a credential belongs to a
\* registration that will still give it one or remove it, to one that died or
\* whose rollback failed, or to one that ended because getUserId threw.
THEOREM HalfRegisteredAccounted == Spec => []NoHalfRegistered
<1>1. Init => NoHalfRegistered
  BY DEF Init, NoHalfRegistered, Present
<1>2. ASSUME TypeOK, NoHalfRegistered, Outside, \A q \in Requests : Undisturbed(q)
      PROVE  NoHalfRegistered'
  <2>1. \A q \in Requests : call'[q].step = call[q].step /\ call'[q].user = call[q].user
    BY <1>2, UndisturbedFields
  <2>2. \A u \in Users : UserKept(u)
    BY <1>2, UsersKeptOutside
  <2>3. QED
    BY <1>2, <2>1, <2>2 DEF NoHalfRegistered, Present, UserKept
<1>3. TypeOK /\ PasswordInv /\ NoHalfRegistered /\ [Next]_vars => NoHalfRegistered'
  <2>1. ~HasRollback => NoHalfRegistered'
    BY DEF NoHalfRegistered
  <2>2. QED
    BY <1>2, <2>1, SomeoneSteps, HalfRegisteredStep
<1>4. QED
  BY <1>1, <1>3, TypeCorrect, PasswordInvariant, PTL DEF Spec

-----------------------------------------------------------------------------
(* Resets *)

\* A call that will create a session or a credential.
CallMatches(r) ==
  LET c == call[r] IN
  /\ c.step \in {"session", "enroll"} =>
       /\ users[c.user].state # "absent"
       /\ Present(c.user) /\ ~c.excused => c.password = users[c.user].password
  /\ c.step = "credential" =>
       users[c.user].state # "absent" /\ users[c.user].password = NoPassword
  /\ c.step = "hash" /\ ~c.excused =>
       \A s \in Sessions : sessions[s].state = "live" /\ sessions[s].user = c.user
         => s \in c.doomed \/ sessions[s].excused

\* Who registers a user is alone with it until there is a credential.
OneRegistration ==
  \A q, r \in Requests :
    At(q, "credential") /\ At(r, "credential") /\ call[q].user = call[r].user => q = r

KnownUsers ==
  /\ \A s \in Sessions : sessions[s].state = "live" =>
       users[sessions[s].user].state # "absent" /\ sessions[s].password \in Passwords
  /\ \A u \in Users : users[u].state = "absent" => users[u].password = NoPassword

\* What makes a reset reach every session of the old password: those that exist
\* are doomed, and those that are created meanwhile are excused.
ResetInv ==
  /\ ResetRevokes /\ KnownUsers /\ OneRegistration
  /\ \A r \in Requests : CallMatches(r)

LEMMA InsertedFields ==
  ASSUME TypeOK, NEW s \in Sessions, Inserted(s)
  PROVE  \E r \in Requests :
           /\ call[r].step \in {"session", "enroll"} /\ users' = users
           /\ sessions'[s].user = call[r].user /\ sessions'[s].password = call[r].password
           /\ call[r].excused => sessions'[s].excused
           /\ Resetting(call[r].user) => sessions'[s].excused
<1>1. PICK r \in Requests :
        /\ call[r].step \in {"session", "enroll"} /\ users' = users
        /\ sessions'[s] = [state |-> "live", user |-> call[r].user, createdAt |-> now,
                           expiresAt |-> now + SessionTtl, password |-> call[r].password,
                           excused |-> call[r].excused \/ Resetting(call[r].user)]
  BY DEF Inserted
<1>2. sessions'[s].user = call[r].user /\ sessions'[s].password = call[r].password
  BY <1>1
<1>3. sessions'[s].excused = (call[r].excused \/ Resetting(call[r].user))
  BY <1>1
<1>4. QED
  BY <1>1, <1>2, <1>3

LEMMA NewSessionInserted ==
  ASSUME TypeOK, [Next]_vars, NEW s \in Sessions,
         sessions[s].state = "unused", sessions'[s].state = "live"
  PROVE  Inserted(s)
BY SessionsMove DEF RevokedSession, NoSession, Extended, Excused

LEMMA UsersStay ==
  ASSUME TypeOK, NEW r \in Requests, StepOf(r), NEW u \in Users, users[u].state # "absent"
  PROVE  users'[u].state # "absent"
BY UsersMove DEF UserKept

LEMMA KnownUsersStep ==
  ASSUME TypeOK, PasswordInv, ResetInv, [Next]_vars,
         \/ \A u \in Users : UserKept(u)
         \/ \E r \in Requests : StepOf(r)
  PROVE  KnownUsers'
<1>1. ASSUME NEW s \in Sessions, sessions'[s].state = "live"
      PROVE  users'[sessions'[s].user].state # "absent" /\ sessions'[s].password \in Passwords
  <2>1. CASE sessions[s].state = "unused"
    <3>1. PICK r \in Requests :
            /\ call[r].step \in {"session", "enroll"} /\ users' = users
            /\ sessions'[s].user = call[r].user /\ sessions'[s].password = call[r].password
      BY <1>1, <2>1, NewSessionInserted, InsertedFields
    <3>2. QED
      BY <3>1 DEF ResetInv, CallMatches, PasswordInv
  <2>2. CASE sessions[s].state # "unused"
    <3>1. /\ sessions[s].state = "live" /\ sessions'[s].user = sessions[s].user
          /\ sessions'[s].password = sessions[s].password
      BY <1>1, <2>2, LiveAsBefore
    <3>2. sessions[s].user \in Users
      BY DEF TypeOK, Session
    <3>3. QED
      BY <3>1, <3>2, UsersStay DEF ResetInv, KnownUsers, UserKept
  <2>3. QED
    BY <2>1, <2>2
<1>2. ASSUME NEW u \in Users, users'[u].state = "absent"
      PROVE  users'[u].password = NoPassword
  <2>1. CASE UserKept(u)
    BY <1>2, <2>1 DEF UserKept, ResetInv, KnownUsers
  <2>2. ASSUME NEW r \in Requests, StepOf(r)
        PROVE  users'[u].password = NoPassword
    <3>1. users[u].state = "absent" /\ users[u].password = NoPassword
      BY <1>2, <2>2, UsersStay DEF ResetInv, KnownUsers
    <3>2. SaveCredential(r) => call[r].user # u
      BY <3>1 DEF SaveCredential, At, ResetInv, CallMatches
    <3>3. QED
      BY <1>2, <2>2, <3>1, <3>2, UsersMove DEF UserKept
  <2>3. QED
    BY <2>1, <2>2
<1>3. QED
  BY <1>1, <1>2 DEF KnownUsers

LEMMA OneRegistrationStep ==
  ASSUME TypeOK, ResetInv, NEW r \in Requests, StepOf(r),
         \A q \in Requests \ {r} : Undisturbed(q)
  PROVE  OneRegistration'
<1>0. call \in [Requests -> Call \cup {Idle}]
  BY DEF TypeOK
<1>1. \A q \in Requests \ {r} : call'[q].step = call[q].step /\ call'[q].user = call[q].user
  BY UndisturbedFields
<1>2. ASSUME call'[r].step = "credential", NEW q \in Requests \ {r},
             call[q].step = "credential"
      PROVE  call[q].user # call'[r].user
  <2>1. PICK u \in Users : CreateUser(r, u)
    BY <1>2, Entered
  <2>2. call[r] \in Call
    BY <2>1, CallTyped DEF CreateUser, At
  <2>3. call'[r] = [call[r] EXCEPT !.step = "credential", !.user = u]
    BY <1>0, <2>1 DEF CreateUser, Suspend
  <2>4. call'[r].user = u /\ users[u].state = "absent"
    BY <2>1, <2>2, <2>3 DEF CreateUser, Call
  <2>5. QED
    BY <1>2, <2>4 DEF ResetInv, CallMatches
<1>3. QED
  BY <1>1, <1>2 DEF ResetInv, OneRegistration, At

\* The sessions a waiting reset would miss are excused.
LEMMA DoomedOrExcused ==
  ASSUME TypeOK, ResetInv, [Next]_vars, NEW r \in Requests, call[r].step = "hash",
         ~call[r].excused, NEW s \in Sessions, sessions'[s].state = "live",
         sessions'[s].user = call[r].user
  PROVE  s \in call[r].doomed \/ sessions'[s].excused
<1>1. CASE sessions[s].state = "unused"
  <2>1. PICK q \in Requests :
          /\ sessions'[s].user = call[q].user
          /\ Resetting(call[q].user) => sessions'[s].excused
    BY <1>1, NewSessionInserted, InsertedFields
  <2>2. Resetting(call[q].user)
    BY <2>1 DEF Resetting, At
  <2>3. QED
    BY <2>1, <2>2
<1>2. CASE sessions[s].state # "unused"
  <2>1. /\ sessions[s].state = "live" /\ sessions'[s].user = sessions[s].user
        /\ sessions[s].excused => sessions'[s].excused
    BY <1>2, LiveAsBefore
  <2>2. s \in call[r].doomed \/ sessions[s].excused
    BY <2>1 DEF ResetInv, CallMatches
  <2>3. QED
    BY <2>1, <2>2
<1>3. QED
  BY <1>1, <1>2

LEMMA OtherCallMatches ==
  ASSUME TypeOK, PasswordInv, ResetInv, [Next]_vars, NEW r \in Requests, StepOf(r),
         NEW q \in Requests \ {r}, Undisturbed(q)
  PROVE  CallMatches(q)'
<1> DEFINE u == call[q].user
<1>0. /\ call'[q].step = call[q].step /\ call'[q].user = u /\ u \in Users
      /\ call'[q].password = call[q].password /\ call'[q].doomed = call[q].doomed
      /\ call[q].excused => call'[q].excused
  BY UndisturbedFields, CallTyped
<1>1. ASSUME call[q].step \in {"session", "enroll"}
      PROVE  /\ users'[u].state # "absent"
             /\ users'[u].state = "present" /\ ~call'[q].excused
                  => call[q].password = users'[u].password
  <2>1. users[u].state # "absent" /\ users'[u].state # "absent"
    BY <1>0, <1>1, UsersStay DEF ResetInv, CallMatches
  <2>2. ASSUME users'[u].state = "present", ~call'[q].excused
        PROVE  call[q].password = users'[u].password
    <3>1. users[u].state = "present" => call[q].password = users[u].password
      BY <1>0, <1>1, <2>2 DEF ResetInv, CallMatches, Present
    <3>2. CASE UserKept(u)
      BY <2>2, <3>1, <3>2 DEF UserKept
    <3>3. CASE SaveCredential(r) /\ call[r].user = u /\ users'[u].state = users[u].state
      <4>1. users[u].password = NoPassword
        BY <3>3 DEF SaveCredential, At, ResetInv, CallMatches
      <4>2. call[q].password \in Passwords
        BY <1>1 DEF PasswordInv
      <4>3. QED
        BY <2>2, <3>1, <3>3, <4>1, <4>2
    <3>4. CASE CommitReset(r) /\ call[r].user = u
      <4>1. call'[q] = [call[q] EXCEPT !.excused = TRUE]
        BY <1>1, <3>4 DEF CommitReset
      <4>2. call[q] \in Call
        BY <1>1, CallTyped DEF At
      <4>3. QED
        BY <2>2, <4>1, <4>2 DEF Call
    <3>5. QED
      BY <1>0, <2>1, <2>2, <3>2, <3>3, <3>4, UsersMove
  <2>3. QED
    BY <2>1, <2>2
<1>2. ASSUME call[q].step = "credential"
      PROVE  users'[u].state # "absent" /\ users'[u].password = NoPassword
  <2>1. /\ users[u].state # "absent" /\ users'[u].state # "absent"
        /\ users[u].password = NoPassword
    BY <1>0, <1>2, UsersStay DEF ResetInv, CallMatches
  <2>2. ~(SaveCredential(r) /\ call[r].user = u)
    BY <1>2 DEF SaveCredential, At, ResetInv, OneRegistration
  <2>3. QED
    BY <1>0, <2>1, <2>2, UsersMove DEF UserKept
<1>3. ASSUME call[q].step = "hash", ~call'[q].excused
      PROVE  \A s \in Sessions : sessions'[s].state = "live" /\ sessions'[s].user = u
               => s \in call[q].doomed \/ sessions'[s].excused
  BY <1>0, <1>3, DoomedOrExcused
<1>4. QED
  BY <1>0, <1>1, <1>2, <1>3 DEF CallMatches, Present

LEMMA OwnCallMatches ==
  ASSUME TypeOK, ResetInv, NEW r \in Requests, StepOf(r)
  PROVE  CallMatches(r)'
<1>0. call \in [Requests -> Call \cup {Idle}] /\ users \in [Users -> User]
  BY DEF TypeOK
<1>1. ASSUME NEW u \in Users, NEW p \in Passwords, ReadCredentials(r, u, p)
      PROVE  CallMatches(r)'
  <2>1. /\ users' = users /\ users[u].state = "present" /\ users[u].password = p
        /\ call'[r] = [Idle EXCEPT !.step = "session", !.user = u, !.password = p]
    BY <1>0, <1>1 DEF ReadCredentials, Present, Suspend
  <2>2. call'[r].step = "session" /\ call'[r].user = u /\ call'[r].password = p
    BY <2>1 DEF Idle
  <2>3. QED
    BY <2>1, <2>2 DEF CallMatches
<1>2. ASSUME SaveCredential(r)
      PROVE  CallMatches(r)'
  <2>1. call[r] \in Call /\ call[r].step = "credential" /\ call[r].user \in Users
    BY <1>2, CallTyped DEF SaveCredential, At
  <2>2. call'[r] = [call[r] EXCEPT !.step = "enroll"]
    BY <1>0, <1>2, Zenon DEF SaveCredential, Goto
  <2>3. /\ call'[r].step = "enroll" /\ call'[r].user = call[r].user
        /\ call'[r].password = call[r].password
    BY <2>1, <2>2 DEF Call
  <2>4. users' = [users EXCEPT ![call[r].user].password = call[r].password]
    BY <1>2 DEF SaveCredential
  <2>5. users'[call[r].user].password = call[r].password
        /\ users'[call[r].user].state = users[call[r].user].state
    BY <1>0, <2>1, <2>4 DEF User
  <2>6. users[call[r].user].state # "absent"
    BY <2>1 DEF ResetInv, CallMatches
  <2>7. QED
    BY <2>3, <2>5, <2>6 DEF CallMatches
<1>3. ASSUME NEW u \in Users, CreateUser(r, u)
      PROVE  CallMatches(r)'
  <2>1. call[r] \in Call
    BY <1>3, CallTyped DEF CreateUser, At
  <2>2. call'[r] = [call[r] EXCEPT !.step = "credential", !.user = u]
    BY <1>0, <1>3 DEF CreateUser, Suspend
  <2>3. call'[r].step = "credential" /\ call'[r].user = u
    BY <2>1, <2>2 DEF Call
  <2>4. users[u].password = NoPassword
    BY <1>3 DEF CreateUser, ResetInv, KnownUsers
  <2>5. users'[u].state = "present" /\ users'[u].password = users[u].password
    BY <1>0, <1>3 DEF CreateUser, User
  <2>6. QED
    BY <2>3, <2>4, <2>5 DEF CallMatches
<1>4. ASSUME NEW t \in Tokens, NEW p \in Passwords, NEW keep \in BOOLEAN,
             ConsumeReset(r, t, p, keep)
      PROVE  CallMatches(r)'
  <2>1. /\ sessions' = sessions /\ call'[r].step = "hash" /\ call'[r].user = tokens[t].user
        /\ call'[r].doomed = SessionsToRevoke(tokens[t].user, keep)
        /\ call'[r].excused = keep
    BY <1>0, <1>4 DEF ConsumeReset, Suspend, Idle
  <2>2. QED
    BY <2>1 DEF CallMatches, SessionsToRevoke, LiveSessions
<1>5. CASE call'[r].step \notin {"session", "enroll", "credential", "hash"}
  BY <1>5 DEF CallMatches
<1>6. QED
  BY <1>1, <1>2, <1>3, <1>4, <1>5, Entered

LEMMA CommittedResetRevokes ==
  ASSUME TypeOK, ResetInv, NEW r \in Requests, StepOf(r), CommitReset(r),
         NEW s \in Sessions, NEW u \in Users, sessions'[s].state = "live",
         sessions'[s].user = u, users'[u].state = "present", ~sessions'[s].excused
  PROVE  sessions'[s].password = users'[u].password
<1>1. s \notin call[r].doomed
  BY DEF CommitReset, RevokedSession, NoSession
<1>2. CASE s \in LiveSessions(call[r].user)
  <2>1. sessions[s].state = "live" /\ sessions[s].user = call[r].user
    BY <1>2 DEF LiveSessions
  <2>2. sessions'[s] = [sessions[s] EXCEPT !.excused = sessions[s].excused \/ call[r].excused]
    BY <1>1, <1>2 DEF CommitReset
  <2>3. sessions[s] \in Session
    BY DEF TypeOK
  <2>4. ~sessions[s].excused /\ ~call[r].excused
    BY <2>2, <2>3 DEF Session
  <2>5. call[r].step = "hash"
    BY DEF CommitReset, At
  <2>6. QED
    BY <1>1, <2>1, <2>4, <2>5 DEF ResetInv, CallMatches
<1>3. CASE s \notin LiveSessions(call[r].user)
  <2>1. sessions'[s] = sessions[s]
    BY <1>1, <1>3 DEF CommitReset
  <2>2. call[r].user # u
    BY <1>3, <2>1 DEF LiveSessions
  <2>3. UserKept(u)
    BY <2>2, UsersMove, ZenonT(60) 
       DEF CommitReset, CreateUser, CreateUserUnidentified, SaveCredential, RollBackUser, At
  <2>4. QED
    BY <2>1, <2>3 DEF UserKept, ResetInv, ResetRevokes, Present
<1>4. QED
  BY <1>2, <1>3

LEMMA SessionMatches ==
  ASSUME TypeOK, PasswordInv, ResetInv, [Next]_vars,
         NEW s \in Sessions, sessions'[s].state = "live", ~sessions'[s].excused,
         users'[sessions'[s].user].state = "present",
         \/ UserKept(sessions'[s].user)
         \/ \E r \in Requests : StepOf(r) /\ ~CommitReset(r)
  PROVE  sessions'[s].password = users'[sessions'[s].user].password
<1>1. CASE sessions[s].state = "unused"
  <2>1. PICK q \in Requests :
          /\ call[q].step \in {"session", "enroll"} /\ users' = users
          /\ sessions'[s].user = call[q].user /\ sessions'[s].password = call[q].password
          /\ call[q].excused => sessions'[s].excused
    BY <1>1, NewSessionInserted, InsertedFields
  <2>2. QED
    BY <2>1 DEF ResetInv, CallMatches, Present
<1>2. CASE sessions[s].state # "unused"
  <2>1. PICK u \in Users :
          /\ sessions[s].state = "live" /\ sessions[s].user = u /\ sessions'[s].user = u
          /\ sessions'[s].password = sessions[s].password
          /\ ~sessions[s].excused
    <3>1. sessions[s].user \in Users
      BY DEF TypeOK, Session
    <3>2. QED
      BY <1>2, <3>1, LiveAsBefore
  <2>2. /\ users[u].state = "present" => sessions[s].password = users[u].password
        /\ users[u].state # "absent" /\ sessions[s].password \in Passwords
    BY <2>1 DEF ResetInv, ResetRevokes, KnownUsers, Present
  <2>3. CASE UserKept(u)
    BY <2>1, <2>2, <2>3 DEF UserKept
  <2>4. ASSUME NEW r \in Requests, StepOf(r), ~CommitReset(r)
        PROVE  UserKept(u)
    <3>1. SaveCredential(r) /\ call[r].user = u => users[u].password = NoPassword
      BY DEF SaveCredential, At, ResetInv, CallMatches
    <3>2. QED
      BY <2>1, <2>2, <2>4, <3>1, UsersMove
  <2>5. QED
    BY <2>1, <2>3, <2>4
<1>3. QED
  BY <1>1, <1>2

LEMMA ResetStep ==
  ASSUME TypeOK, PasswordInv, ResetInv, [Next]_vars, NEW r \in Requests, StepOf(r),
         \A q \in Requests \ {r} : Undisturbed(q)
  PROVE  ResetInv'
<1>1. ResetRevokes'
  <2>1. ASSUME NEW s \in Sessions, sessions'[s].state = "live", ~sessions'[s].excused,
               users'[sessions'[s].user].state = "present"
        PROVE  sessions'[s].password = users'[sessions'[s].user].password
    <3>1. CASE CommitReset(r)
      <4>1. sessions'[s].user \in Users
        BY NextTyped DEF TypeOK, Session
      <4>2. QED
        BY <2>1, <3>1, <4>1, CommittedResetRevokes
    <3>2. CASE ~CommitReset(r)
      BY <2>1, <3>2, SessionMatches
    <3>3. QED
      BY <3>1, <3>2
  <2>2. QED
    BY <2>1 DEF ResetRevokes, Present
<1>2. KnownUsers' /\ OneRegistration'
  BY KnownUsersStep, OneRegistrationStep
<1>3. \A q \in Requests : CallMatches(q)'
  BY OtherCallMatches, OwnCallMatches
<1>4. QED
  BY <1>1, <1>2, <1>3 DEF ResetInv

LEMMA ResetOutside ==
  ASSUME TypeOK, PasswordInv, ResetInv, [Next]_vars, Outside,
         \A q \in Requests : Undisturbed(q)
  PROVE  ResetInv'
<1>0. \A u \in Users : UserKept(u)
  BY UsersKeptOutside
<1>9. \A q \in Requests : /\ call'[q].step = call[q].step /\ call'[q].user = call[q].user
                          /\ call'[q].password = call[q].password
                          /\ call'[q].doomed = call[q].doomed
                          /\ call[q].excused => call'[q].excused
  BY UndisturbedFields
<1>1. ResetRevokes'
  <2>1. \A s \in Sessions : sessions'[s].user \in Users
    BY NextTyped DEF TypeOK, Session
  <2>2. QED
    BY <1>0, <2>1, SessionMatches DEF ResetRevokes, Present
<1>2. KnownUsers'
  BY <1>0, KnownUsersStep
<1>3. OneRegistration'
  BY <1>9 DEF ResetInv, OneRegistration, At
<1>4. ASSUME NEW q \in Requests
      PROVE  CallMatches(q)'
  <2>1. call[q].user \in Users
    BY CallTyped
  <2>2. call[q].step = "hash" /\ ~call[q].excused =>
          \A s \in Sessions : sessions'[s].state = "live" /\ sessions'[s].user = call[q].user
            => s \in call[q].doomed \/ sessions'[s].excused
    BY DoomedOrExcused
  <2>3. QED
    BY <1>0, <1>9, <2>1, <2>2 DEF ResetInv, CallMatches, Present, UserKept
<1>5. QED
  BY <1>1, <1>2, <1>3, <1>4 DEF ResetInv

\* A session that was signed in with a password the user no longer has exists
\* only if its sign-in overlapped the reset, or the reset was told to keep it.
THEOREM ResetReachesSessions == Spec => []ResetRevokes
<1>1. Init => ResetInv
  BY DEF Init, ResetInv, ResetRevokes, KnownUsers, OneRegistration, CallMatches, At, NoSession,
         Idle
<1>2. TypeOK /\ PasswordInv /\ ResetInv /\ [Next]_vars => ResetInv'
  BY SomeoneSteps, ResetStep, ResetOutside
<1>3. ResetInv => ResetRevokes
  BY DEF ResetInv
<1>4. QED
  BY <1>1, <1>2, <1>3, TypeCorrect, PasswordInvariant, PTL DEF Spec

-----------------------------------------------------------------------------
(* What the HTTP adapters decide, in every state and whatever happens to the *)
(* sessions between the awaits of a request.                                 *)

\* No session is named None.
LEMMA ValidAreNamed ==
  ASSUME NEW second \in SUBSET ValidSessions
  PROVE  None \notin ValidSessions /\ None \notin second
BY DEF ValidSessions

\* What a context says when the cookie decided, over the sessions then valid.
CookieContext(context, q, valid) ==
  /\ context.session = None \/ context.session = q.cookie
  /\ context.source = IF q.cookie \in valid THEN "cookie" ELSE "none"
  /\ context.session # None => context.source = "cookie"
  /\ context.clears => q.cookie \notin valid
  /\ context.sets \in {None, q.cookie}

\* Express takes a user from the header or the cookie, and asks for the cookie
\* a second time only when there is one.
LEMMA AttachedContext ==
  ASSUME NEW q \in Request, NEW second \in SUBSET ValidSessions
  PROVE  LET context == AttachAuthContext(q, ValidSessions, second)
         IN  /\ context.session # None =>
                  \/ /\ context.source = "bearer" /\ context.session = q.bearer
                     /\ q.bearer \in ValidSessions
                  \/ context.source = "cookie" /\ context.session = q.cookie
             /\ context.source = "bearer" => context.session = q.bearer /\ q.bearer \in ValidSessions
             /\ context.clears => q.cookie \notin second
             /\ context.sets \in {None, q.cookie}
<1> DEFINE context == AttachAuthContext(q, ValidSessions, second)
<1>1. None \notin ValidSessions /\ None \notin second /\ second \subseteq ValidSessions
  BY ValidAreNamed
<1>2. CASE q.bearer # None /\ q.bearer \in ValidSessions
  <2>1. context = [session |-> q.bearer, source |-> "bearer", clears |-> FALSE, sets |-> None]
    BY <1>2 DEF AttachAuthContext, SessionTokenContext
  <2>2. QED
    BY <1>2, <2>1
<1>3. CASE q.bearer # None /\ q.bearer \notin ValidSessions /\ q.cookie = None
  <2>1. context = [session |-> None, source |-> "none", clears |-> FALSE, sets |-> None]
    BY <1>3 DEF AttachAuthContext, SessionTokenContext
  <2>2. QED
    BY <2>1
<1>4. CASE q.bearer # None /\ q.bearer \notin ValidSessions /\ q.cookie # None
  <2>1. context = [session |-> IF q.cookie \in second THEN q.cookie ELSE None,
                   source |-> IF q.cookie \in second THEN "cookie" ELSE "none",
                   clears |-> q.cookie \notin second,
                   sets |-> IF q.cookie \in second /\ Due(q.cookie) THEN q.cookie ELSE None]
    BY <1>4 DEF AttachAuthContext, SessionTokenContext
  <2>2. CookieContext(context, q, second)
    <3>1. CASE q.cookie \in second
      <4>1. PICK due : due = IF Due(q.cookie) THEN q.cookie ELSE None
        OBVIOUS
      <4>2. context = [session |-> q.cookie, source |-> "cookie", clears |-> FALSE, sets |-> due]
        BY <2>1, <3>1, <4>1
      <4>3. QED
        BY <3>1, <4>1, <4>2 DEF CookieContext
    <3>2. CASE q.cookie \notin second
      BY <2>1, <3>2 DEF CookieContext
    <3>3. QED
      BY <3>1, <3>2
  <2>3. QED
    BY <1>1, <2>2 DEF CookieContext
<1>5. CASE q.bearer = None /\ q.cookie # None
  <2>1. context = [session |-> IF q.cookie \in ValidSessions THEN q.cookie ELSE None,
                   source |-> IF q.cookie \in ValidSessions THEN "cookie" ELSE "none",
                   clears |-> q.cookie \notin ValidSessions,
                   sets |-> IF q.cookie \in ValidSessions /\ Due(q.cookie)
                            THEN q.cookie ELSE None]
    BY <1>5 DEF AttachAuthContext, SessionTokenContext
  <2>2. CookieContext(context, q, ValidSessions)
    <3>1. CASE q.cookie \in ValidSessions
      <4>1. PICK due : due = IF Due(q.cookie) THEN q.cookie ELSE None
        OBVIOUS
      <4>2. context = [session |-> q.cookie, source |-> "cookie", clears |-> FALSE, sets |-> due]
        BY <2>1, <3>1, <4>1
      <4>3. QED
        BY <3>1, <4>1, <4>2 DEF CookieContext
    <3>2. CASE q.cookie \notin ValidSessions
      BY <2>1, <3>2 DEF CookieContext
    <3>3. QED
      BY <3>1, <3>2
  <2>3. QED
    BY <1>1, <2>2 DEF CookieContext
<1>6. CASE q.bearer = None /\ q.cookie = None
  <2>1. context = [session |-> None, source |-> "none", clears |-> FALSE, sets |-> None]
    BY <1>1, <1>6 DEF AttachAuthContext, SessionTokenContext
  <2>2. QED
    BY <2>1
<1>7. QED
  BY <1>2, <1>3, <1>4, <1>5, <1>6

\* Next knows no user but the cookie's.
LEMMA CurrentUser ==
  ASSUME NEW q \in Request, NEW valid \in SUBSET ValidSessions
  PROVE  LET context == GetCurrentUser(q, valid)
         IN  /\ context.session # None => q.cookie \in valid
             /\ context.clears => q.cookie \notin valid
             /\ context.sets \in {None, q.cookie}
BY DEF GetCurrentUser

\* Whatever sessions, users, requests and expiries there are, neither adapter
\* clears the cookie of a valid session, and a cookie is renewed only with the
\* token the browser sent.
THEOREM ValidCookiesAreKept == Spec => []ValidCookieKept
<1>1. ValidCookieKept
  BY AttachedContext, CurrentUser DEF ValidCookieKept
<1>2. QED
  BY <1>1, PTL

\* Whatever sessions, users and permissions there are, a request that changes
\* state and is not from a trusted origin passes only with a bearer token that
\* is valid, and never acts as the user of the cookie in Express.
THEOREM StateChangesAreProven == Spec => []StateChangesProven
<1>1. ASSUME NEW q \in Request, NEW second \in SUBSET ValidSessions, NEW third \in SUBSET second,
             ~q.safe, ~OriginTrusted(q)
      PROVE  LET context == AttachAuthContext(q, ValidSessions, second)
             IN /\ EnforceRequestOrigin(q, context, third) =>
                     q.bearer \in ValidSessions /\ context.source = "bearer"
                /\ NextEnforceRequestOrigin(q, third) => q.bearer \in third
                /\ \A p \in Permissions :
                     RequirePermission(q, context, p) /\ EnforceRequestOrigin(q, context, third)
                       => context.session = q.bearer
                /\ \A p \in Permissions :
                     NextRequirePermission(q, third, p) => q.cookie \in third
  <2>1. PICK context : context = AttachAuthContext(q, ValidSessions, second)
    OBVIOUS
  <2>2. None \notin third /\ third \subseteq ValidSessions
    BY ValidAreNamed
  <2>3. q.bearer \in ValidSessions => context.source = "bearer"
    BY <2>1, ValidAreNamed DEF AttachAuthContext, SessionTokenContext
  <2>4. EnforceRequestOrigin(q, context, third) =>
          q.bearer \in ValidSessions /\ context.source = "bearer"
    BY <1>1, <2>1, <2>2, <2>3, AttachedContext DEF EnforceRequestOrigin
  <2>5. context.source = "bearer" => context.session = q.bearer
    BY <2>1, AttachedContext
  <2>6. NextEnforceRequestOrigin(q, third) => q.bearer \in third
    BY <1>1 DEF NextEnforceRequestOrigin
  <2>7. \A p \in Permissions : NextRequirePermission(q, third, p) => q.cookie \in third
    BY <2>2, CurrentUser DEF NextRequirePermission, RequireAuth
  <2>8. QED
    BY <2>1, <2>4, <2>5, <2>6, <2>7
<1>2. StateChangesProven
  BY <1>1 DEF StateChangesProven
<1>3. QED
  BY <1>2, PTL
=============================================================================
