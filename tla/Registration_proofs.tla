-------------------------- MODULE Registration_proofs --------------------------
(***************************************************************************)
(* Theorems about the auth workflows and registration.                     *)
(***************************************************************************)
EXTENDS Registration, TLAPS

-----------------------------------------------------------------------------
(* Types *)

USE NamesAssumption

\* What a free slot holds, but for its step.
LEMMA IdleFields ==
  /\ Idle.user \in Users /\ Idle.id = None /\ Idle.purpose \in Purposes
  /\ Idle.email \in Emails /\ Idle.password = NoPassword /\ Idle.next \in Nat
  /\ Idle.doomed = {} /\ Idle.older = {} /\ Idle.excused \in BOOLEAN
BY DEF Idle, AnyUser, AnyEmail, Purposes

\* A call that has just begun.
LEMMA BegunTyped ==
  ASSUME NEW step \in Steps
  PROVE  /\ \A u \in Users, p \in Passwords :
              [Idle EXCEPT !.step = step, !.user = u, !.password = p] \in Call
         /\ \A u \in Users : [Idle EXCEPT !.step = step, !.user = u] \in Call
         /\ \A i \in Sessions \cup Tokens : [Idle EXCEPT !.step = step, !.id = i] \in Call
         /\ \A i \in Sessions, n \in Nat :
              [Idle EXCEPT !.step = step, !.id = i, !.next = n] \in Call
         /\ \A i \in Tokens, u \in Users :
              [Idle EXCEPT !.step = step, !.id = i, !.user = u] \in Call
         /\ \A u \in Users, i \in Sessions \cup Tokens \cup {None} :
              [Idle EXCEPT !.step = step, !.user = u, !.id = i] \in Call
         /\ \A e \in Emails, p \in Passwords :
              [Idle EXCEPT !.step = step, !.email = e, !.password = p] \in Call
         /\ \A i \in Tokens, u \in Users, p \in Passwords,
               d \in SUBSET (Sessions \cup Tokens), x \in BOOLEAN :
              [Idle EXCEPT !.step = step, !.id = i, !.user = u, !.password = p,
                           !.doomed = d, !.excused = x] \in Call
         /\ \A u \in Users, p \in Purposes, e \in Emails, n \in Nat, o \in SUBSET Tokens :
              [Idle EXCEPT !.step = step, !.user = u, !.purpose = p, !.email = e,
                           !.next = n, !.older = o] \in Call
BY ZenonT(60) DEF Idle, AnyUser, AnyEmail, Purposes, Call

LEMMA CallTyped ==
  ASSUME TypeOK, NEW r \in Requests
  PROVE  /\ ~At(r, "idle") => call[r] \in Call
         /\ call[r].step \in Steps \cup {"idle"} /\ call[r].user \in Users
         /\ call[r].id \in Sessions \cup Tokens \cup {None}
         /\ call[r].purpose \in Purposes /\ call[r].email \in Emails
         /\ call[r].password \in Passwords \cup {NoPassword} /\ call[r].next \in Nat
         /\ call[r].doomed \in SUBSET (Sessions \cup Tokens)
         /\ call[r].older \in SUBSET Tokens /\ call[r].excused \in BOOLEAN
<1>1. call[r] \in Call \/ call[r] = Idle
  BY DEF TypeOK
<1>2. CASE call[r] = Idle
  BY <1>2, IdleFields DEF At, Idle
<1>3. CASE call[r] \in Call
  BY <1>3 DEF Call
<1>4. QED
  BY <1>1, <1>2, <1>3

\* How the call of a slot changes.
LEMMA CallUpdatesTyped ==
  ASSUME TypeOK, NEW r \in Requests
  PROVE  /\ Finish(r) => call' \in [Requests -> Call \cup {Idle}]
         /\ \A c \in Call : Suspend(r, c) => call' \in [Requests -> Call \cup {Idle}]
         /\ \A step \in Steps : ~At(r, "idle") /\ Goto(r, step)
              => call' \in [Requests -> Call \cup {Idle}]
<1>1. Finish(r) => call' \in [Requests -> Call \cup {Idle}]
  BY DEF TypeOK, Finish
<1>2. \A c \in Call : Suspend(r, c) => call' \in [Requests -> Call \cup {Idle}]
  BY DEF TypeOK, Suspend
<1>3. ASSUME NEW step \in Steps, ~At(r, "idle"), Goto(r, step)
      PROVE  call' \in [Requests -> Call \cup {Idle}]
  <2>1. [call[r] EXCEPT !.step = step] \in Call
    BY <1>3, CallTyped DEF Call
  <2>2. QED
    BY <1>3, <2>1 DEF TypeOK, Goto
<1>4. QED
  BY <1>1, <1>2, <1>3

\* How sessions and tokens change.
LEMMA RowUpdatesTyped ==
  ASSUME TypeOK, NEW r \in Requests
  PROVE  /\ \A s \in Sessions : InsertSession(r, s) => sessions' \in [Sessions -> Session]
         /\ \A set : Revoke(set) => sessions' \in [Sessions -> Session]
         /\ \A t \in Tokens : Deleted(t) \in Token
         /\ \A t : Used(t) => tokens' \in [Tokens -> Token]
         /\ \A left \in BOOLEAN : \A t : tokens' = [tokens EXCEPT ![t].mailed = left]
              => tokens' \in [Tokens -> Token]
<1>1. RevokedSession \in Session /\ [NoToken EXCEPT !.state = "gone"] \in Token
  BY DEF RevokedSession, NoSession, Session, NoToken, Token, AnyUser, AnyEmail, Purposes
<1>2. ASSUME NEW s \in Sessions, InsertSession(r, s)
      PROVE  sessions' \in [Sessions -> Session]
  <2>1. call[r].excused \/ Resetting(call[r].user) \in BOOLEAN
    BY CallTyped DEF Resetting
  <2>2. now + SessionTtl \in Nat
    BY LifetimesAssumption DEF LifetimesAccepted, TypeOK
  <2>3. QED
    BY <1>2, <2>1, <2>2, CallTyped DEF InsertSession, TypeOK, Session
<1>3. ASSUME NEW set, Revoke(set)
      PROVE  sessions' \in [Sessions -> Session]
  BY <1>1, <1>3 DEF Revoke, TypeOK
<1>4. \A t \in Tokens : Deleted(t) \in Token
  BY <1>1 DEF Deleted, TypeOK
<1>5. ASSUME NEW t, Used(t)
      PROVE  tokens' \in [Tokens -> Token]
  <2>1. ASSUME NEW token \in Token
        PROVE  Consumed(token) \in Token
    <3>1. \A n \in Nat : [token EXCEPT !.state = "gone", !.uses = n, !.expiresAt = 0,
                                        !.mailed = FALSE, !.older = {}] \in Token
      BY DEF Token
    <3>2. token.uses + 1 \in Nat
      BY DEF Token
    <3>3. QED
      BY <3>1, <3>2 DEF Consumed
  <2>2. QED
    BY <1>5, <2>1 DEF Used, TypeOK
<1>6. ASSUME NEW t, NEW left \in BOOLEAN, tokens' = [tokens EXCEPT ![t].mailed = left]
      PROVE  tokens' \in [Tokens -> Token]
  BY <1>6, ZenonT(60) DEF TypeOK, Token
<1>7. QED
  BY <1>2, <1>3, <1>4, <1>5, <1>6

Rows == <<users, sessions, tokens, now>>

\* The calls that begin or end without having written anything.
LEMMA QuietStepTyped ==
  ASSUME TypeOK, NEW r \in Requests, UNCHANGED Rows,
         \/ \E u \in Users, p \in Passwords : ReadCredentials(r, u, p)
         \/ \E s \in Sessions : FindInvalid(r, s) \/ FindDue(r, s)
         \/ \E u \in Users : RequestEmailVerification(r, u) \/ RequestPasswordReset(r, u)
         \/ \E t \in Tokens : ConsumeVerification(r, t)
         \/ \E t \in Tokens, p \in Passwords, keep \in BOOLEAN : ConsumeReset(r, t, p, keep)
         \/ \E e \in Emails, p \in Passwords : StartRegistration(r, e, p)
         \/ RegistrationFails(r) \/ Strand(r) \/ Fails(r) \/ CreateUserRefused(r)
         \/ BindingFails(r) \/ CheckBinding(r) \/ ReplaceTokens(r) \/ Notify(r)
  PROVE  TypeOK'
<1> SUFFICES call' \in [Requests -> Call \cup {Idle}]
  BY DEF TypeOK, Rows
<1>1. CASE \E u \in Users, p \in Passwords : ReadCredentials(r, u, p)
  BY <1>1, BegunTyped, CallUpdatesTyped DEF ReadCredentials, Steps
<1>2. CASE \E s \in Sessions : FindInvalid(r, s)
  BY <1>2, BegunTyped, CallUpdatesTyped DEF FindInvalid, Steps
<1>3. CASE \E s \in Sessions : FindDue(r, s)
  <2>1. PICK s \in Sessions : FindDue(r, s)
    BY <1>3
  <2>2. NextExpiry(s) \in Nat
    BY LifetimesAssumption DEF NextExpiry, Earlier, AbsoluteEnd, LifetimesAccepted, TypeOK, Session
  <2>3. QED
    BY <2>1, <2>2, BegunTyped, CallUpdatesTyped DEF FindDue, Steps
<1>4. ASSUME NEW u \in Users, NEW p \in Purposes
      PROVE  TokenRequest(u, p) \in Call
  <2>1. now + TokenTtl \in Nat
    BY LifetimesAssumption DEF LifetimesAccepted, TypeOK
  <2>2. users[u].email \in Emails
    BY DEF TypeOK, User
  <2>3. (IF p \in Replaced THEN LiveTokens(u, p) ELSE {}) \in SUBSET Tokens
    BY DEF LiveTokens
  <2>4. \A n \in Nat, e \in Emails, o \in SUBSET Tokens :
          [Idle EXCEPT !.step = "replace", !.user = u, !.purpose = p, !.email = e,
                       !.next = n, !.older = o] \in Call
    <3>1. "replace" \in Steps
      BY DEF Steps
    <3>2. QED
      BY <3>1, BegunTyped, Zenon
  <2>5. QED
    BY <2>1, <2>2, <2>3, <2>4, Zenon DEF TokenRequest
<1>5. CASE \E u \in Users : RequestEmailVerification(r, u) \/ RequestPasswordReset(r, u)
  BY <1>4, <1>5, CallUpdatesTyped DEF RequestEmailVerification, RequestPasswordReset, Purposes
<1>6. ASSUME NEW t \in Tokens, ConsumeVerification(r, t)
      PROVE  call' \in [Requests -> Call \cup {Idle}]
  <2>1. tokens[t].user \in Users
    BY DEF TypeOK, Token
  <2>2. QED
    BY <1>6, <2>1, BegunTyped, CallUpdatesTyped DEF ConsumeVerification, Steps
<1>7. ASSUME NEW t \in Tokens, NEW p \in Passwords, NEW keep \in BOOLEAN,
             ConsumeReset(r, t, p, keep)
      PROVE  call' \in [Requests -> Call \cup {Idle}]
  <2>1. tokens[t].user \in Users
    BY DEF TypeOK, Token
  <2>2. SessionsToRevoke(tokens[t].user, keep) \in SUBSET (Sessions \cup Tokens)
    BY DEF SessionsToRevoke, LiveSessions
  <2>3. QED
    BY <1>7, <2>1, <2>2, BegunTyped, CallUpdatesTyped, ZenonT(60) DEF ConsumeReset, Steps
<1>8. CASE \E e \in Emails, p \in Passwords : StartRegistration(r, e, p)
  BY <1>8, BegunTyped, CallUpdatesTyped DEF StartRegistration, Steps
<1>9. CASE RegistrationFails(r) \/ Strand(r)
  BY <1>9, BegunTyped, CallTyped, CallUpdatesTyped DEF RegistrationFails, RollBack, Strand, Steps
<1>10. CASE Fails(r) \/ CreateUserRefused(r) \/ BindingFails(r)
  BY <1>10, CallUpdatesTyped DEF Fails, CreateUserRefused, BindingFails
<1>11. CASE CheckBinding(r)
  BY <1>11, CallUpdatesTyped DEF CheckBinding, At, Steps
<1>12. CASE ReplaceTokens(r)
  <2>1. call[r] \in Call
    BY <1>12, CallTyped DEF ReplaceTokens, At
  <2>2. \A d \in SUBSET (Sessions \cup Tokens) :
          [call[r] EXCEPT !.step = "create", !.doomed = d] \in Call
    BY <2>1 DEF Call, Steps
  <2>3. QED
    BY <1>12, <2>2, CallUpdatesTyped DEF ReplaceTokens, LiveTokens
<1>13. CASE Notify(r)
  BY <1>4, <1>13, CallTyped, CallUpdatesTyped DEF Notify, Purposes
<1>14. QED
  BY <1>1, <1>2, <1>3, <1>5, <1>6, <1>7, <1>8, <1>9, <1>10, <1>11, <1>12, <1>13

\* The calls that write sessions or tokens and nothing else.
LEMMA RowStepTyped ==
  ASSUME TypeOK, NEW r \in Requests, UNCHANGED <<users, now>>,
         \/ \E s \in Sessions : CreateSession(r, s) \/ Enroll(r, s)
         \/ DropSession(r) \/ RefreshSession(r)
         \/ \E t \in Tokens : CreateToken(r, t)
         \/ Deliver(r) \/ Compensate(r)
         \/ \E left \in BOOLEAN : DeliveryFails(r, left)
  PROVE  TypeOK'
<1> SUFFICES /\ sessions' \in [Sessions -> Session]
             /\ tokens' \in [Tokens -> Token]
             /\ call' \in [Requests -> Call \cup {Idle}]
  BY DEF TypeOK
<1>0. sessions \in [Sessions -> Session] /\ tokens \in [Tokens -> Token]
  BY DEF TypeOK
<1>1. CASE \E s \in Sessions : CreateSession(r, s)
  BY <1>0, <1>1, RowUpdatesTyped, CallUpdatesTyped DEF CreateSession
<1>2. CASE \E s \in Sessions : Enroll(r, s)
  BY <1>0, <1>2, RowUpdatesTyped, CallUpdatesTyped, CallTyped, BegunTyped DEF Enroll, Steps
<1>3. CASE DropSession(r)
  BY <1>0, <1>3, RowUpdatesTyped, CallUpdatesTyped DEF DropSession
<1>4. CASE RefreshSession(r)
  <2>1. \A n \in Nat : [sessions EXCEPT ![call[r].id].expiresAt = n] \in [Sessions -> Session]
    BY <1>0, ZenonT(60) DEF Session
  <2>2. QED
    BY <1>0, <1>4, <2>1, CallTyped, CallUpdatesTyped DEF RefreshSession
<1>5. ASSUME NEW t \in Tokens, CreateToken(r, t)
      PROVE  /\ tokens' \in [Tokens -> Token]
             /\ call' \in [Requests -> Call \cup {Idle}]
  <2>1. tokens' \in [Tokens -> Token]
    <3>1. \A u \in Users, p \in Purposes, e \in Emails, n \in Nat, o \in SUBSET Tokens :
            [state |-> "live", user |-> u, purpose |-> p, email |-> e, expiresAt |-> n,
             mailed |-> FALSE, uses |-> 0, older |-> o] \in Token
      BY DEF Token
    <3>2. QED
      BY <1>0, <1>5, <3>1, CallTyped, RowUpdatesTyped DEF CreateToken
  <2>2. call' \in [Requests -> Call \cup {Idle}]
    BY <1>5, BegunTyped, CallUpdatesTyped DEF CreateToken, Steps
  <2>3. QED
    BY <2>1, <2>2
<1>6. CASE \E t \in Tokens : CreateToken(r, t)
  BY <1>0, <1>5, <1>6 DEF CreateToken
<1>7. CASE Deliver(r)
  <2>1. HasMailer \in BOOLEAN /\ tokens' = [tokens EXCEPT ![call[r].id].mailed = HasMailer]
    BY <1>7, OptionsAssumption DEF Deliver
  <2>2. tokens' \in [Tokens -> Token]
    BY <2>1, RowUpdatesTyped, Zenon
  <2>3. QED
    BY <1>0, <1>7, <2>2, CallUpdatesTyped DEF Deliver
<1>8. CASE Compensate(r)
  BY <1>0, <1>8, RowUpdatesTyped, CallUpdatesTyped DEF Compensate
<1>9. CASE \E left \in BOOLEAN : DeliveryFails(r, left)
  <2>1. tokens' \in [Tokens -> Token]
    BY <1>9, RowUpdatesTyped, Zenon DEF DeliveryFails
  <2>2. "compensate" \in Steps
    BY DEF Steps
  <2>3. QED
    BY <1>0, <1>9, <2>1, <2>2, CallUpdatesTyped DEF DeliveryFails, At
<1>10. QED
  BY <1>1, <1>2, <1>3, <1>4, <1>6, <1>7, <1>8, <1>9

\* The steps that write users.
LEMMA UserStepTyped ==
  ASSUME TypeOK, NEW r \in Requests, UNCHANGED now,
         \/ MarkVerified(r) \/ CommitReset(r) \/ SaveCredential(r) \/ RollBackUser(r)
         \/ \E u \in Users : CreateUser(r, u) \/ CreateUserUnidentified(r, u)
  PROVE  TypeOK'
<1> SUFFICES /\ users' \in [Users -> User]
             /\ sessions' \in [Sessions -> Session]
             /\ tokens' \in [Tokens -> Token]
             /\ call' \in [Requests -> Call \cup {Idle}]
  BY DEF TypeOK
<1>0. /\ users \in [Users -> User] /\ sessions \in [Sessions -> Session]
      /\ tokens \in [Tokens -> Token] /\ call \in [Requests -> Call \cup {Idle}]
  BY DEF TypeOK
<1>1. CASE MarkVerified(r)
  <2>1. \A b \in BOOLEAN :
          [users EXCEPT ![call[r].user].verified = TRUE,
                        ![call[r].user].overtaken = b] \in [Users -> User]
    BY <1>0, ZenonT(60) DEF User
  <2>2. (call[r].excused /\ (users[call[r].user].verified =>
                               users[call[r].user].overtaken)) \in BOOLEAN
    BY Zenon
  <2>3. users' \in [Users -> User]
    BY <1>1, <2>1, <2>2, Zenon DEF MarkVerified
  <2>4. QED
    BY <1>0, <1>1, <2>3, RowUpdatesTyped, CallUpdatesTyped DEF MarkVerified
<1>2. CASE CommitReset(r)
  <2>1. users' \in [Users -> User]
    <3>1. [users EXCEPT ![call[r].user].password = call[r].password] \in [Users -> User]
      BY <1>0, CallTyped DEF User
    <3>2. QED
      BY <1>0, <1>2, <3>1 DEF CommitReset
  <2>2. sessions' \in [Sessions -> Session]
    <3>1. RevokedSession \in Session
      BY DEF RevokedSession, NoSession, Session, AnyUser
    <3>2. ASSUME NEW s \in Sessions
          PROVE  [sessions[s] EXCEPT !.excused = @ \/ call[r].excused] \in Session
      BY <1>0, CallTyped DEF Session
    <3>3. QED
      BY <1>0, <1>2, <3>1, <3>2 DEF CommitReset
  <2>3. tokens' \in [Tokens -> Token]
    BY <1>2, RowUpdatesTyped DEF CommitReset
  <2>4. call' \in [Requests -> Call \cup {Idle}]
    <3>1. ASSUME NEW q \in Requests, call[q].step \in {"session", "enroll"}
          PROVE  [call[q] EXCEPT !.excused = TRUE] \in Call
      BY <3>1, CallTyped, ZenonT(60) DEF Call, At
    <3>2. QED
      BY <1>0, <1>2, <3>1 DEF CommitReset
  <2>5. QED
    BY <2>1, <2>2, <2>3, <2>4
<1>3. CASE SaveCredential(r)
  <2>1. \A u \in Users, p \in Passwords \cup {NoPassword} :
          [users EXCEPT ![u].password = p] \in [Users -> User]
    BY <1>0 DEF User
  <2>2. users' \in [Users -> User]
    BY <1>3, <2>1, CallTyped, Zenon DEF SaveCredential
  <2>3. "enroll" \in Steps
    BY DEF Steps
  <2>4. QED
    BY <1>0, <1>3, <2>2, <2>3, CallUpdatesTyped DEF SaveCredential, At
<1>4. CASE RollBackUser(r)
  BY <1>0, <1>4, CallUpdatesTyped, ZenonT(60) DEF RollBackUser, User
<1>5. ASSUME NEW u \in Users, CreateUser(r, u)
      PROVE  users' \in [Users -> User] /\ call' \in [Requests -> Call \cup {Idle}]
  <2>1. users' \in [Users -> User]
    <3>1. \A e \in Emails :
            [users EXCEPT ![u].state = "present", ![u].email = e] \in [Users -> User]
      <4>1. [users[u] EXCEPT !.state = "present"] \in User
        BY <1>0 DEF User
      <4>2. QED
        BY <1>0, <4>1 DEF User
    <3>2. QED
      BY <1>5, <3>1, CallTyped, Zenon DEF CreateUser
  <2>2. [call[r] EXCEPT !.step = "credential", !.user = u] \in Call
    <3>1. call[r] \in Call
      BY <1>5, CallTyped DEF CreateUser, At
    <3>2. QED
      BY <3>1 DEF Call, Steps
  <2>3. QED
    BY <1>5, <2>1, <2>2, CallUpdatesTyped DEF CreateUser
<1>6. CASE \E u \in Users : CreateUser(r, u)
  BY <1>0, <1>5, <1>6 DEF CreateUser
<1>7. CASE \E u \in Users : CreateUserUnidentified(r, u)
  <2>1. PICK u \in Users : CreateUserUnidentified(r, u)
    BY <1>7
  <2>2. \A e \in Emails :
          [users EXCEPT ![u].state = "present", ![u].email = e,
                        ![u].unidentified = TRUE] \in [Users -> User]
    <3>1. \A e \in Emails :
            [users EXCEPT ![u].state = "present", ![u].email = e] \in [Users -> User]
      <4>1. [users[u] EXCEPT !.state = "present"] \in User
        BY <1>0 DEF User
      <4>2. QED
        BY <1>0, <4>1 DEF User
    <3>2. \A f \in [Users -> User] : [f EXCEPT ![u].unidentified = TRUE] \in [Users -> User]
      BY DEF User
    <3>3. QED
      BY <3>1, <3>2
  <2>3. users' \in [Users -> User]
    BY <2>1, <2>2, CallTyped, Zenon DEF CreateUserUnidentified
  <2>4. QED
    BY <1>0, <2>1, <2>3, CallUpdatesTyped DEF CreateUserUnidentified
<1>8. QED
  BY <1>1, <1>2, <1>3, <1>4, <1>6, <1>7

LEMMA InitTyped == Init => TypeOK
<1> SUFFICES ASSUME Init
             PROVE  TypeOK
  OBVIOUS
<1>1. users \in [Users -> User]
  BY DEF Init, User, AnyEmail
<1>2. NoSession \in Session /\ NoToken \in Token
  BY DEF NoSession, NoToken, Session, Token, AnyUser, AnyEmail, Purposes
<1>3. QED
  BY <1>1, <1>2 DEF Init, TypeOK

LEMMA NextTyped == TypeOK /\ [Next]_vars => TypeOK'
<1> SUFFICES ASSUME TypeOK, [Next]_vars
             PROVE  TypeOK'
  OBVIOUS
<1>1. CASE UNCHANGED vars
  BY <1>1 DEF vars, TypeOK
<1>2. ASSUME NEW s \in Sessions, SignOut(s)
      PROVE  TypeOK'
  <2>1. RevokedSession \in Session
    BY DEF RevokedSession, NoSession, Session, AnyUser
  <2>2. QED
    BY <1>2, <2>1 DEF SignOut, Revoke, TypeOK
<1>3. CASE Tick
  BY <1>3 DEF Tick, TypeOK
<1>4. ASSUME NEW u \in Users, SetActive(u) \/ \E e \in Emails : ChangeEmail(u, e)
      PROVE  TypeOK'
  <2>1. \A b \in BOOLEAN : [users EXCEPT ![u].active = b] \in [Users -> User]
    BY DEF TypeOK, User
  <2>2. \A e \in Emails :
          [users EXCEPT ![u].email = e, ![u].verified = FALSE,
                        ![u].overtaken = FALSE] \in [Users -> User]
    BY ZenonT(60) DEF TypeOK, User
  <2>3. \A b : (~b) \in BOOLEAN
    BY Zenon
  <2>4. users' \in [Users -> User]
    BY <1>4, <2>1, <2>2, <2>3, ZenonT(60) DEF SetActive, ChangeEmail
  <2>5. \A r \in Requests : At(r, "mark") =>
          [call[r] EXCEPT !.excused = TRUE] \in Call
    BY CallTyped, ZenonT(60) DEF Call, At
  <2>6. call' \in [Requests -> Call \cup {Idle}]
    <3>1. CASE SetActive(u)
      BY <3>1 DEF SetActive, TypeOK
    <3>2. CASE \E e \in Emails : ChangeEmail(u, e)
      <4>1. call' = [r \in Requests |->
              IF At(r, "mark") /\ call[r].user = u THEN [call[r] EXCEPT !.excused = TRUE]
              ELSE call[r]]
        BY <3>2 DEF ChangeEmail
      <4>2. QED
        BY <2>5, <4>1 DEF TypeOK
    <3>3. QED
      BY <1>4, <3>1, <3>2
  <2>7. QED
    BY <1>4, <2>4, <2>6 DEF SetActive, ChangeEmail, TypeOK
<1>5. ASSUME NEW r \in Requests,
             \/ MarkVerified(r) \/ CommitReset(r) \/ SaveCredential(r) \/ RollBackUser(r)
             \/ \E u \in Users : CreateUser(r, u) \/ CreateUserUnidentified(r, u)
      PROVE  TypeOK'
  <2>1. UNCHANGED now
    BY <1>5 DEF MarkVerified, CommitReset, SaveCredential, RollBackUser, CreateUser,
                CreateUserUnidentified
  <2>2. QED
    BY <1>5, <2>1, UserStepTyped
<1>6. ASSUME NEW r \in Requests,
             \/ \E s \in Sessions : CreateSession(r, s) \/ Enroll(r, s)
             \/ DropSession(r) \/ RefreshSession(r)
             \/ \E t \in Tokens : CreateToken(r, t)
             \/ Deliver(r) \/ Compensate(r)
             \/ \E left \in BOOLEAN : DeliveryFails(r, left)
      PROVE  TypeOK'
  <2>1. UNCHANGED <<users, now>>
    BY <1>6 DEF CreateSession, Enroll, DropSession, RefreshSession, CreateToken, Deliver,
                Compensate, DeliveryFails
  <2>2. QED
    BY <1>6, <2>1, RowStepTyped
<1>7. ASSUME NEW r \in Requests,
             \/ \E u \in Users, p \in Passwords : ReadCredentials(r, u, p)
             \/ \E s \in Sessions : FindInvalid(r, s) \/ FindDue(r, s)
             \/ \E u \in Users : RequestEmailVerification(r, u) \/ RequestPasswordReset(r, u)
             \/ \E t \in Tokens : ConsumeVerification(r, t)
             \/ \E t \in Tokens, p \in Passwords, keep \in BOOLEAN : ConsumeReset(r, t, p, keep)
             \/ \E e \in Emails, p \in Passwords : StartRegistration(r, e, p)
             \/ RegistrationFails(r) \/ Strand(r) \/ Fails(r) \/ CreateUserRefused(r)
             \/ BindingFails(r) \/ CheckBinding(r) \/ ReplaceTokens(r) \/ Notify(r)
      PROVE  TypeOK'
  <2>1. UNCHANGED Rows
    BY <1>7 DEF Rows, ReadCredentials, FindInvalid, FindDue, RequestEmailVerification,
                RequestPasswordReset, ConsumeVerification, ConsumeReset, StartRegistration,
                RegistrationFails, Strand, Fails, CreateUserRefused, BindingFails,
                CheckBinding, ReplaceTokens, Notify
  <2>2. QED
    BY <1>7, <2>1, QuietStepTyped
<1>8. QED
  BY <1>1, <1>2, <1>3, <1>4, <1>5, <1>6, <1>7 DEF Next, AuthNext, RegistrationNext

\* The rows and the calls in flight keep their shape through every step of the
\* auth workflows and of registrations.
THEOREM TypeCorrect == Spec => []TypeOK
  BY InitTyped, NextTyped, PTL DEF Spec

-----------------------------------------------------------------------------
(* Who steps *)

\* Everything a call does.
StepOf(r) ==
  \/ \E u \in Users, p \in Passwords : ReadCredentials(r, u, p)
  \/ \E s \in Sessions : CreateSession(r, s) \/ FindInvalid(r, s) \/ FindDue(r, s)
  \/ DropSession(r) \/ RefreshSession(r)
  \/ \E u \in Users : RequestEmailVerification(r, u) \/ RequestPasswordReset(r, u)
  \/ ReplaceTokens(r) \/ Deliver(r) \/ Compensate(r)
  \/ \E left \in BOOLEAN : DeliveryFails(r, left)
  \/ \E t \in Tokens : CreateToken(r, t) \/ ConsumeVerification(r, t)
  \/ \E t \in Tokens, p \in Passwords, keep \in BOOLEAN : ConsumeReset(r, t, p, keep)
  \/ CheckBinding(r) \/ BindingFails(r) \/ MarkVerified(r) \/ CommitReset(r)
  \/ Fails(r) \/ Strand(r)
  \/ \E e \in Emails, p \in Passwords : StartRegistration(r, e, p)
  \/ \E u \in Users : CreateUser(r, u) \/ CreateUserUnidentified(r, u)
  \/ \E s \in Sessions : Enroll(r, s)
  \/ CreateUserRefused(r) \/ SaveCredential(r) \/ RegistrationFails(r)
  \/ RollBackUser(r) \/ Notify(r)

\* Everything else.
Outside ==
  \/ \E s \in Sessions : SignOut(s)
  \/ \E u \in Users : SetActive(u) \/ \E e \in Emails : ChangeEmail(u, e)
  \/ Tick
  \/ UNCHANGED vars

\* What other steps may do to a call: a reset of its user's password excuses the
\* session it is about to create, a change of its user's email the mark.
Undisturbed(q) ==
  \/ call'[q] = call[q]
  \/ /\ call[q].step \in {"session", "enroll", "mark"}
     /\ call'[q] = [call[q] EXCEPT !.excused = TRUE]

LEMMA SomeoneSteps ==
  ASSUME TypeOK, [Next]_vars
  PROVE  \/ /\ Outside /\ tokens' = tokens
            /\ \A q \in Requests : Undisturbed(q)
         \/ \E r \in Requests :
              StepOf(r) /\ \A q \in Requests \ {r} : Undisturbed(q)
<1>1. CASE Outside
  <2>1. call \in [Requests -> Call \cup {Idle}]
    BY DEF TypeOK
  <2>2. CASE \E u \in Users, e \in Emails : ChangeEmail(u, e)
    <3>1. PICK u \in Users : \E e \in Emails : ChangeEmail(u, e)
      BY <2>2
    <3>2. /\ tokens' = tokens
          /\ call' = [r \in Requests |->
               IF At(r, "mark") /\ call[r].user = u THEN [call[r] EXCEPT !.excused = TRUE]
               ELSE call[r]]
      BY <3>1 DEF ChangeEmail
    <3>3. QED
      BY <1>1, <2>1, <3>2 DEF Undisturbed, At
  <2>3. QED
    BY <1>1, <2>2 DEF Outside, SignOut, SetActive, Tick, vars, Undisturbed
<1>2. ASSUME NEW r \in Requests, StepOf(r)
      PROVE  \A q \in Requests \ {r} : Undisturbed(q)
  <2>1. call \in [Requests -> Call \cup {Idle}]
    BY DEF TypeOK
  <2>2. CASE CommitReset(r)
    BY <2>2 DEF CommitReset, Undisturbed
  <2>3. ASSUME ~CommitReset(r)
        PROVE  \E c : call' = [call EXCEPT ![r] = c]
    BY <1>2, <2>3, Zenon
       DEF StepOf, ReadCredentials, CreateSession, FindInvalid, FindDue, DropSession,
           RefreshSession, RequestEmailVerification, RequestPasswordReset, ReplaceTokens,
           Deliver, Compensate, DeliveryFails, CreateToken, ConsumeVerification,
           ConsumeReset, CheckBinding, BindingFails, MarkVerified, Fails, Strand,
           StartRegistration, CreateUser, CreateUserUnidentified, Enroll, CreateUserRefused,
           SaveCredential, RegistrationFails, RollBack, RollBackUser, Notify, Suspend, Goto, Finish
  <2>4. QED
    BY <2>1, <2>2, <2>3 DEF Undisturbed
<1>3. QED
  BY <1>1, <1>2 DEF Next, AuthNext, RegistrationNext, StepOf, Outside

LEMMA UndisturbedFields ==
  ASSUME TypeOK, NEW q \in Requests, Undisturbed(q)
  PROVE  /\ call'[q].step = call[q].step /\ call'[q].user = call[q].user
         /\ call'[q].id = call[q].id /\ call'[q].purpose = call[q].purpose
         /\ call'[q].email = call[q].email /\ call'[q].password = call[q].password
         /\ call'[q].next = call[q].next /\ call'[q].doomed = call[q].doomed
         /\ call'[q].older = call[q].older
         /\ call[q].excused => call'[q].excused
<1>1. CASE call'[q] = call[q]
  BY <1>1
<1>2. CASE /\ call[q].step \in {"session", "enroll", "mark"}
           /\ call'[q] = [call[q] EXCEPT !.excused = TRUE]
  <2>1. call[q] \in Call
    BY <1>2, CallTyped DEF At
  <2>2. QED
    BY <1>2, <2>1 DEF Call
<1>3. QED
  BY <1>1, <1>2 DEF Undisturbed
=============================================================================
