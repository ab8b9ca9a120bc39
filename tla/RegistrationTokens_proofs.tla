---------------------- MODULE RegistrationTokens_proofs ----------------------
(***************************************************************************)
(* Theorems about the tokens of the auth workflows: single use, replaced   *)
(* tokens, undelivered tokens and what a verified email stands for.        *)
(***************************************************************************)
EXTENDS Registration_proofs

USE NamesAssumption

-----------------------------------------------------------------------------
(* What a step does to the tokens *)

Holding == {"bind", "mark", "hash"}

\* A transaction holds a token it has consumed.
Holds(r, t) == call[r].id = t /\ call[r].step \in Holding

LEMMA HeldByHolder == \A t : Held(t) <=> \E r \in Requests : Holds(r, t)
BY DEF Held, Holds, Holding

\* The steps of a call, by what they do to tokens.
Consuming(r) ==
  \/ \E t \in Tokens : ConsumeVerification(r, t)
  \/ \E t \in Tokens, p \in Passwords, keep \in BOOLEAN : ConsumeReset(r, t, p, keep)

Using(r) == MarkVerified(r) \/ CommitReset(r)

Mailing(r) == Deliver(r) \/ \E left \in BOOLEAN : DeliveryFails(r, left)

\* A step that leaves the tokens alone, and holds or mails none afterwards.
Aloof(r) ==
  /\ tokens' = tokens
  /\ call'[r].step \notin Holding \cup {"create", "mail", "compensate"}
  /\ call'[r].step = "replace" =>
       \E u \in Users, p \in Purposes : call'[r] = TokenRequest(u, p)
  /\ call[r].step \in {"mail", "compensate", "stranded"} =>
       call'[r].step = "stranded" /\ call'[r].id = call[r].id

LEMMA TokenSteps ==
  ASSUME TypeOK, NEW r \in Requests, StepOf(r)
  PROVE  \/ Consuming(r) \/ CheckBinding(r) \/ Using(r) \/ Mailing(r) \/ Compensate(r)
         \/ \E t \in Tokens : CreateToken(r, t)
         \/ ReplaceTokens(r)
         \/ Aloof(r)
<1>1. call \in [Requests -> Call \cup {Idle}]
  BY DEF TypeOK
<1>2. ASSUME NEW c, call' = [call EXCEPT ![r] = c], tokens' = tokens,
             c.step \notin Holding \cup {"create", "mail", "compensate", "replace"},
             call[r].step \notin {"mail", "compensate", "stranded"}
      PROVE  Aloof(r)
  BY <1>1, <1>2 DEF Aloof
<1>3. CASE \/ \E s \in Sessions : CreateSession(r, s)
           \/ DropSession(r) \/ RefreshSession(r) \/ Fails(r) \/ BindingFails(r)
           \/ CreateUserRefused(r) \/ RollBackUser(r)
           \/ \E u \in Users : CreateUserUnidentified(r, u)
  <2>1. /\ call' = [call EXCEPT ![r] = Idle] /\ tokens' = tokens
        /\ call[r].step \notin {"mail", "compensate", "stranded"}
    BY <1>3 DEF CreateSession, DropSession, RefreshSession, Fails, BindingFails,
                CreateUserRefused, RollBackUser, CreateUserUnidentified, At, Finish
  <2>2. Idle.step \notin Holding \cup {"create", "mail", "compensate", "replace"}
    BY DEF Idle, Holding
  <2>3. QED
    BY <1>2, <2>1, <2>2
<1>4. CASE \/ \E u \in Users, p \in Passwords : ReadCredentials(r, u, p)
           \/ \E s \in Sessions : FindInvalid(r, s) \/ FindDue(r, s) \/ Enroll(r, s)
           \/ \E e \in Emails, p \in Passwords : StartRegistration(r, e, p)
           \/ RegistrationFails(r)
  <2>1. CASE \E u \in Users, p \in Passwords : ReadCredentials(r, u, p)
    BY <1>2, <2>1 DEF ReadCredentials, At, Suspend, Idle, Holding
  <2>2. CASE \E s \in Sessions : FindInvalid(r, s) \/ FindDue(r, s)
    BY <1>2, <2>2 DEF FindInvalid, FindDue, At, Suspend, Idle, Holding
  <2>3. CASE \E s \in Sessions : Enroll(r, s)
    BY <1>2, <2>3 DEF Enroll, At, Suspend, Idle, Holding
  <2>4. CASE \E e \in Emails, p \in Passwords : StartRegistration(r, e, p)
    BY <1>2, <2>4 DEF StartRegistration, At, Suspend, Idle, Holding
  <2>5. CASE RegistrationFails(r)
    BY <1>2, <2>5 DEF RegistrationFails, RollBack, Finish, Suspend, Idle, Holding
  <2>6. QED
    BY <1>4, <2>1, <2>2, <2>3, <2>4, <2>5
<1>5. CASE \E u \in Users : CreateUser(r, u)
  <2>1. PICK u \in Users : CreateUser(r, u)
    BY <1>5
  <2>2. [call[r] EXCEPT !.step = "credential", !.user = u].step = "credential"
    BY <2>1, CallTyped DEF CreateUser, At, Call
  <2>3. QED
    BY <1>2, <2>1, <2>2 DEF CreateUser, At, Suspend, Holding
<1>6. CASE Strand(r)
  BY <1>1, <1>6 DEF Strand, Suspend, Idle, Aloof, Holding
<1>7. CASE SaveCredential(r)
  BY <1>1, <1>7 DEF Aloof, Holding, SaveCredential, At, Goto, Call
<1>8. ASSUME NEW u \in Users, NEW p \in Purposes, Suspend(r, TokenRequest(u, p)),
             tokens' = tokens, call[r].step \in {"idle", "notify"}
      PROVE  Aloof(r)
  BY <1>1, <1>8 DEF Aloof, Holding, Suspend, TokenRequest, Idle
<1>9. CASE \E u \in Users : RequestEmailVerification(r, u) \/ RequestPasswordReset(r, u)
  BY <1>8, <1>9 DEF RequestEmailVerification, RequestPasswordReset, At, Purposes
<1>10. CASE Notify(r)
  <2>1. call[r].user \in Users
    BY CallTyped
  <2>2. CASE Finish(r)
    BY <1>1, <1>10, <2>2 DEF Aloof, Holding, Notify, At, Finish, Idle
  <2>3. CASE Suspend(r, TokenRequest(call[r].user, "email_verification"))
    BY <1>8, <1>10, <2>1, <2>3 DEF Notify, At, Purposes
  <2>4. QED
    BY <1>10, <2>2, <2>3 DEF Notify
<1>11. QED
  BY <1>3, <1>4, <1>5, <1>6, <1>7, <1>9, <1>10 DEF StepOf, Consuming, Using, Mailing

\* What a transaction does to the token it held.
LEMMA UsingTokens ==
  ASSUME TypeOK, NEW r \in Requests, Using(r)
  PROVE  /\ call[r].step \in {"mark", "hash"}
         /\ \A t \in Tokens \ {call[r].id} : tokens'[t] = tokens[t]
         /\ \A t \in Tokens : t = call[r].id =>
              /\ tokens'[t].state = "gone" /\ tokens'[t].older = {}
              /\ tokens'[t].uses = tokens[t].uses + 1
              /\ tokens'[t].purpose = tokens[t].purpose /\ tokens'[t].user = tokens[t].user
              /\ tokens'[t].email = tokens[t].email
<1>0. tokens \in [Tokens -> Token]
  BY DEF TypeOK
<1>1. call[r].step \in {"mark", "hash"} /\ Used(call[r].id)
  BY DEF Using, MarkVerified, CommitReset, At
<1>2. \A t \in Tokens : tokens[t] \in Token
  BY <1>0
<1>3. \A token \in Token :
        /\ Consumed(token).state = "gone" /\ Consumed(token).older = {}
        /\ Consumed(token).uses = token.uses + 1
        /\ Consumed(token).purpose = token.purpose /\ Consumed(token).user = token.user
        /\ Consumed(token).email = token.email
  BY DEF Consumed, Token
<1>4. \A t \in Tokens : IF t = call[r].id THEN tokens'[t] = Consumed(tokens[t])
                        ELSE tokens'[t] = tokens[t]
  BY <1>0, <1>1 DEF Used
<1>5. QED
  BY <1>1, <1>2, <1>3, <1>4

-----------------------------------------------------------------------------
(* A token takes effect once *)

\* Why a token is used once: until it is gone it has not been used, and the
\* one transaction that holds it keeps it from going otherwise.
SingleUseInv ==
  /\ \A t \in Tokens : tokens[t].uses <= 1 /\ (tokens[t].state # "gone" => tokens[t].uses = 0)
  /\ \A r \in Requests : call[r].step \in Holding =>
       call[r].id \in Tokens /\ tokens[call[r].id].state = "live"
  /\ \A q, r \in Requests : \A t \in Tokens : Holds(q, t) /\ Holds(r, t) => q = r

LEMMA SingleUseStep ==
  ASSUME TypeOK, SingleUseInv, NEW r \in Requests, StepOf(r),
         \A q \in Requests \ {r} : Undisturbed(q)
  PROVE  SingleUseInv'
<1>0. tokens \in [Tokens -> Token] /\ call \in [Requests -> Call \cup {Idle}]
  BY DEF TypeOK
<1>1. \A q \in Requests \ {r} :
        /\ call'[q].step = call[q].step /\ call'[q].id = call[q].id
        /\ \A t : Holds(q, t)' <=> Holds(q, t)
  BY UndisturbedFields DEF Holds
<1>2. ASSUME \A t \in Tokens :
               /\ tokens'[t].uses = tokens[t].uses
               /\ tokens[t].state # "gone" <=> tokens'[t].state # "gone"
               /\ tokens[t].state = "live" => tokens'[t].state = "live",
             \/ call'[r].step \notin Holding
             \/ call'[r].step \in Holding /\ call[r].step \in Holding /\ call'[r].id = call[r].id
             \/ \E t \in Tokens :
                  /\ call'[r].id = t /\ call'[r].step \in Holding
                  /\ tokens[t].state = "live" /\ ~Held(t)
      PROVE  SingleUseInv'
  BY <1>1, <1>2, HeldByHolder DEF SingleUseInv, Holds
<1>3. CASE Aloof(r)
  BY <1>2, <1>3 DEF Aloof
<1>4. CASE ReplaceTokens(r)
  <2>1. call'[r].step = "create" /\ tokens' = tokens
    BY <1>0, <1>4, CallTyped DEF ReplaceTokens, At, Suspend, Call
  <2>2. QED
    BY <1>2, <2>1 DEF Holding
<1>5. CASE CheckBinding(r)
  <2>1. /\ call[r].step = "bind" /\ call'[r].step = "mark" /\ call'[r].id = call[r].id
        /\ tokens' = tokens
    BY <1>0, <1>5, CallTyped DEF CheckBinding, At, Goto, Call
  <2>2. QED
    BY <1>2, <2>1 DEF Holding
<1>6. CASE Consuming(r)
  <2>1. PICK t \in Tokens : /\ call'[r].id = t /\ call'[r].step \in Holding
                            /\ tokens[t].state = "live" /\ ~Held(t) /\ tokens' = tokens
    <3>1. CASE \E t \in Tokens : ConsumeVerification(r, t)
      BY <1>0, <3>1 DEF ConsumeVerification, Consumable, Suspend, Idle, Holding
    <3>2. CASE \E t \in Tokens, p \in Passwords, keep \in BOOLEAN : ConsumeReset(r, t, p, keep)
      BY <1>0, <3>2 DEF ConsumeReset, Consumable, Suspend, Idle, Holding
    <3>3. QED
      BY <1>6, <3>1, <3>2 DEF Consuming
  <2>2. QED
    BY <1>2, <2>1
<1>7. CASE Mailing(r)
  <2>1. PICK left \in BOOLEAN : tokens' = [tokens EXCEPT ![call[r].id].mailed = left]
    BY <1>7, OptionsAssumption DEF Mailing, Deliver, DeliveryFails
  <2>2. \A t \in Tokens : tokens'[t].uses = tokens[t].uses /\ tokens'[t].state = tokens[t].state
    BY <1>0, <2>1 DEF Token
  <2>3. call'[r].step \in {"idle", "compensate"}
    <3>1. CASE Deliver(r)
      BY <1>0, <3>1 DEF Deliver, Finish, Idle
    <3>2. CASE \E b \in BOOLEAN : DeliveryFails(r, b)
      BY <1>0, <3>2, CallTyped DEF DeliveryFails, At, Goto, Call
    <3>3. QED
      BY <1>7, <3>1, <3>2 DEF Mailing
  <2>4. QED
    BY <1>2, <2>2, <2>3 DEF Holding
<1>8. ASSUME NEW d, \A t \in d : ~Held(t),
             \A t \in Tokens \ d : tokens'[t] = tokens[t],
             \A t \in Tokens \cap d : tokens'[t].uses = 0 \/ tokens'[t] = tokens[t],
             call'[r].step \notin Holding
      PROVE  SingleUseInv'
  BY <1>0, <1>1, <1>8, HeldByHolder DEF SingleUseInv, Holds, Token
<1>9. CASE Compensate(r)
  <2>1. call'[r].step = "idle"
    BY <1>0, <1>9 DEF Compensate, Finish, Idle
  <2>2. ~Held(call[r].id) /\ tokens' = [tokens EXCEPT ![call[r].id] = Deleted(call[r].id)]
    BY <1>9 DEF Compensate
  <2>3. PICK d : d = {call[r].id}
    OBVIOUS
  <2>4. \A t \in Tokens \ d : tokens'[t] = tokens[t]
    BY <1>0, <2>2, <2>3
  <2>5. \A t \in Tokens \cap d : tokens'[t].uses = 0 \/ tokens'[t] = tokens[t]
    BY <1>0, <2>2, <2>3 DEF Deleted, NoToken
  <2>6. \A t \in d : ~Held(t)
    BY <2>2, <2>3
  <2>7. call'[r].step \notin Holding
    BY <2>1 DEF Holding
  <2>8. QED
    BY <1>8, <2>4, <2>5, <2>6, <2>7
<1>10. ASSUME NEW t \in Tokens, CreateToken(r, t)
       PROVE  SingleUseInv'
  <2>1. call'[r].step = "mail" /\ tokens[t].state = "unused"
    BY <1>0, <1>10 DEF CreateToken, Suspend, Idle
  <2>2. ~Held(t)
    BY <2>1, HeldByHolder DEF SingleUseInv, Holds
  <2>3. /\ tokens'[t].uses = 0
        /\ \A i \in Tokens \ {t} :
             IF i \in call[r].doomed THEN tokens'[i] = Deleted(i) ELSE tokens'[i] = tokens[i]
    BY <1>10 DEF CreateToken
  <2>4. \A i \in Tokens : Deleted(i) = tokens[i] \/ (Deleted(i).state = "gone" /\ Deleted(i).uses = 0)
    BY DEF Deleted, NoToken
  <2>5. \A i \in call[r].doomed \cup {t} : ~Held(i)
    BY <1>10, <2>2 DEF CreateToken
  <2>6. QED
    BY <1>8, <2>1, <2>3, <2>4, <2>5 DEF Holding
<1>11. CASE Using(r)
  <2>1. /\ Used(call[r].id) /\ call'[r].step = "idle"
        /\ call[r].step \in Holding
    BY <1>0, <1>11 DEF Using, MarkVerified, CommitReset, At, Finish, Idle, Holding
  <2>2. /\ tokens'[call[r].id].uses = tokens[call[r].id].uses + 1
        /\ tokens'[call[r].id].state = "gone"
        /\ \A t \in Tokens \ {call[r].id} : tokens'[t] = tokens[t]
    BY <1>0, <2>1 DEF Used, Consumed, Token, SingleUseInv
  <2>3. QED
    BY <1>1, <2>1, <2>2 DEF SingleUseInv, Holds, Holding
<1>12. QED
  BY <1>3, <1>4, <1>5, <1>6, <1>7, <1>9, <1>10, <1>11, TokenSteps

LEMMA SingleUseInvariant == Spec => []SingleUseInv
<1>1. Init => SingleUseInv
  BY DEF Init, SingleUseInv, NoToken, Idle, Holds, Holding
<1>2. ASSUME TypeOK, SingleUseInv, [Next]_vars
      PROVE  SingleUseInv'
  <2>1. CASE tokens' = tokens /\ \A q \in Requests : Undisturbed(q)
    BY <1>2, <2>1, UndisturbedFields DEF SingleUseInv, Holds
  <2>2. QED
    BY <1>2, <2>1, SomeoneSteps, SingleUseStep
<1>3. QED
  BY <1>1, <1>2, TypeCorrect, PTL DEF Spec

\* Whatever resets, verifications, replacements and compensations overlap, a
\* token has taken effect at most once.
THEOREM TokenUsedOnce == Spec => []TokenSingleUse
<1>1. SingleUseInv => TokenSingleUse
  BY DEF SingleUseInv, TokenSingleUse
<1>2. QED
  BY <1>1, SingleUseInvariant, PTL

-----------------------------------------------------------------------------
(* A token that was not delivered *)

InFlight == {"mail", "compensate", "stranded"}

LEMMA UndeliveredStep ==
  ASSUME TypeOK, HasMailer, UndeliveredTokensVoid, NEW r \in Requests, StepOf(r),
         \A q \in Requests \ {r} : Undisturbed(q)
  PROVE  UndeliveredTokensVoid'
<1>0. tokens \in [Tokens -> Token] /\ call \in [Requests -> Call \cup {Idle}]
  BY DEF TypeOK
<1>1. \A q \in Requests \ {r} : call'[q].step = call[q].step /\ call'[q].id = call[q].id
  BY UndisturbedFields
\* A step that is not about an undelivered token only has to add none.
<1>2. ASSUME \A t \in Tokens : tokens'[t].state = "live" /\ ~tokens'[t].mailed
               => \/ tokens[t].state = "live" /\ ~tokens[t].mailed
                     /\ (call[r].step \in InFlight /\ call[r].id = t
                           => call'[r].step \in InFlight /\ call'[r].id = t)
                  \/ call'[r].step \in InFlight /\ call'[r].id = t
      PROVE  UndeliveredTokensVoid'
  BY <1>1, <1>2 DEF UndeliveredTokensVoid, InFlight
<1>3. CASE Aloof(r)
  BY <1>2, <1>3 DEF Aloof, InFlight
<1>4. CASE ReplaceTokens(r) \/ CheckBinding(r) \/ Consuming(r)
  <2>1. tokens' = tokens /\ call[r].step \notin InFlight
    BY <1>4 DEF ReplaceTokens, CheckBinding, Consuming, ConsumeVerification, ConsumeReset, At,
                InFlight
  <2>2. QED
    BY <1>2, <2>1
<1>5. CASE Using(r)
  <2>1. call[r].step \notin InFlight
    BY <1>5 DEF Using, MarkVerified, CommitReset, At, InFlight
  <2>2. \A t \in Tokens : tokens'[t] = tokens[t] \/ tokens'[t].state = "gone"
    BY <1>5, UsingTokens
  <2>3. QED
    BY <1>2, <2>1, <2>2
<1>6. CASE Deliver(r)
  <2>1. \A t \in Tokens : t = call[r].id => tokens'[t].mailed
    BY <1>0, <1>6, OptionsAssumption DEF Deliver, Token
  <2>2. \A t \in Tokens : t # call[r].id => tokens'[t] = tokens[t]
    BY <1>0, <1>6 DEF Deliver
  <2>3. QED
    BY <1>2, <2>1, <2>2
<1>7. CASE \E left \in BOOLEAN : DeliveryFails(r, left)
  <2>1. call[r].step = "mail" /\ call'[r].step = "compensate" /\ call'[r].id = call[r].id
    BY <1>0, <1>7, CallTyped DEF DeliveryFails, At, Goto, Call
  <2>2. \A t \in Tokens : t # call[r].id => tokens'[t] = tokens[t]
    BY <1>0, <1>7 DEF DeliveryFails
  <2>3. QED
    BY <1>2, <2>1, <2>2 DEF InFlight
<1>8. CASE Compensate(r)
  <2>1. \A t \in Tokens : t = call[r].id => tokens'[t].state # "live"
    BY <1>0, <1>8 DEF Compensate, Deleted, NoToken
  <2>2. \A t \in Tokens : t # call[r].id => tokens'[t] = tokens[t]
    BY <1>0, <1>8 DEF Compensate
  <2>3. QED
    BY <1>2, <2>1, <2>2
<1>9. ASSUME NEW i \in Tokens, CreateToken(r, i)
      PROVE  UndeliveredTokensVoid'
  <2>1. call[r].step = "create" /\ call'[r].step = "mail" /\ call'[r].id = i
    BY <1>0, <1>9 DEF CreateToken, At, Suspend, Idle
  <2>2. \A t \in Tokens \ {i} : tokens'[t] = tokens[t] \/ tokens'[t].state = "gone"
    BY <1>9 DEF CreateToken, Deleted, NoToken
  <2>3. QED
    BY <1>2, <2>1, <2>2 DEF InFlight
<1>10. QED
  BY <1>3, <1>4, <1>5, <1>6, <1>7, <1>8, <1>9, TokenSteps DEF Mailing

\* Where a mailer is configured, a token whose mail surely did not arrive belongs
\* to a request that will still remove it, that died before it could, or whose
\* removal failed.
THEOREM UndeliveredVoid == Spec => []UndeliveredTokensVoid
<1>1. Init => UndeliveredTokensVoid
  BY DEF Init, UndeliveredTokensVoid, NoToken
<1>2. ASSUME TypeOK, UndeliveredTokensVoid, [Next]_vars
      PROVE  UndeliveredTokensVoid'
  <2>1. CASE ~HasMailer
    BY <2>1 DEF UndeliveredTokensVoid
  <2>2. CASE HasMailer /\ tokens' = tokens /\ \A q \in Requests : Undisturbed(q)
    BY <1>2, <2>2, UndisturbedFields DEF UndeliveredTokensVoid
  <2>3. QED
    BY <1>2, <2>1, <2>2, SomeoneSteps, UndeliveredStep
<1>3. QED
  BY <1>1, <1>2, TypeCorrect, PTL DEF Spec

-----------------------------------------------------------------------------
(* Replaced tokens *)

\* What a request set out to replace is gone, or among the tokens its
\* transaction will delete, or still to be found by its deletion.
SupersededInv ==
  /\ SupersededTokensDead
  /\ \A r \in Requests : \A o \in call[r].older :
       /\ call[r].step = "replace" =>
            /\ call[r].purpose \in Replaced
            /\ tokens[o].state = "gone" \/ o \in LiveTokens(call[r].user, call[r].purpose)
       /\ call[r].step = "create" =>
            \/ tokens[o].state = "gone"
            \/ tokens[o].state = "live" /\ o \in call[r].doomed

\* A token only ever moves on, and a live one stays what it is.
Onward(t) ==
  /\ tokens[t].state = "gone" => tokens'[t].state = "gone"
  /\ tokens[t].state = "live" =>
       \/ tokens'[t].state = "gone"
       \/ /\ tokens'[t].state = "live"
          /\ tokens'[t].user = tokens[t].user /\ tokens'[t].purpose = tokens[t].purpose
          /\ tokens'[t].email = tokens[t].email

LEMMA TokensMoveOnward ==
  ASSUME TypeOK, NEW r \in Requests, StepOf(r)
  PROVE  /\ \A t \in Tokens : Onward(t)
         /\ (~\E t \in Tokens : CreateToken(r, t)) =>
              \A t \in Tokens : tokens'[t].older = tokens[t].older \/ tokens'[t].older = {}
<1>0. tokens \in [Tokens -> Token]
  BY DEF TypeOK
<1>1. CASE Aloof(r) \/ ReplaceTokens(r) \/ CheckBinding(r) \/ Consuming(r)
  <2>1. tokens' = tokens
    BY <1>1 DEF Aloof, ReplaceTokens, CheckBinding, Consuming, ConsumeVerification, ConsumeReset
  <2>2. QED
    BY <2>1 DEF Onward
<1>2. CASE Using(r)
  <2>1. \A t \in Tokens : \/ tokens'[t] = tokens[t]
                          \/ tokens'[t].state = "gone" /\ tokens'[t].older = {}
    BY <1>2, UsingTokens
  <2>2. QED
    BY <2>1 DEF Onward
<1>3. CASE Mailing(r)
  <2>1. PICK left \in BOOLEAN : tokens' = [tokens EXCEPT ![call[r].id].mailed = left]
    BY <1>3, OptionsAssumption DEF Mailing, Deliver, DeliveryFails
  <2>2. \A t \in Tokens : /\ tokens'[t].state = tokens[t].state /\ tokens'[t].user = tokens[t].user
                          /\ tokens'[t].purpose = tokens[t].purpose
                          /\ tokens'[t].email = tokens[t].email
                          /\ tokens'[t].older = tokens[t].older
    BY <1>0, <2>1 DEF Token
  <2>3. QED
    BY <1>0, <2>2 DEF Onward
<1>4. \A t \in Tokens : \/ Deleted(t) = tokens[t]
                        \/ Deleted(t).state = "gone" /\ Deleted(t).older = {}
  BY DEF Deleted, NoToken
<1>5. CASE Compensate(r)
  <2>1. \A t \in Tokens : tokens'[t] = tokens[t] \/ tokens'[t] = Deleted(t)
    BY <1>0, <1>5 DEF Compensate
  <2>2. QED
    BY <1>4, <2>1 DEF Onward
<1>6. ASSUME NEW i \in Tokens, CreateToken(r, i)
      PROVE  \A t \in Tokens : Onward(t)
  <2>1. tokens[i].state = "unused"
    BY <1>6 DEF CreateToken
  <2>2. \A t \in Tokens \ {i} : tokens'[t] = tokens[t] \/ tokens'[t] = Deleted(t)
    BY <1>6 DEF CreateToken
  <2>3. QED
    BY <1>4, <2>1, <2>2 DEF Onward
<1>7. QED
  BY <1>1, <1>2, <1>3, <1>5, <1>6, TokenSteps

\* Where the steps that write tokens or hold them leave the call.
LEMMA StepsAfter ==
  ASSUME TypeOK, NEW r \in Requests
  PROVE  /\ Consuming(r) => call'[r].step \in {"bind", "hash"}
         /\ CheckBinding(r) => call'[r].step = "mark"
         /\ Using(r) \/ Compensate(r) => call'[r].step = "idle"
         /\ Mailing(r) => call'[r].step \in {"idle", "compensate"}
         /\ \A t \in Tokens : CreateToken(r, t) => call'[r].step = "mail"
<1>0. call \in [Requests -> Call \cup {Idle}]
  BY DEF TypeOK
<1>1. Consuming(r) => call'[r].step \in {"bind", "hash"}
  <2>1. (\E t \in Tokens : ConsumeVerification(r, t)) => call'[r].step = "bind"
    BY <1>0 DEF ConsumeVerification, Suspend, Idle
  <2>2. (\E t \in Tokens, p \in Passwords, keep \in BOOLEAN : ConsumeReset(r, t, p, keep))
          => call'[r].step = "hash"
    BY <1>0 DEF ConsumeReset, Suspend, Idle
  <2>3. QED
    BY <2>1, <2>2 DEF Consuming
<1>2. CheckBinding(r) => call'[r].step = "mark"
  BY <1>0, CallTyped DEF CheckBinding, At, Goto, Call
<1>3. Using(r) \/ Compensate(r) => call'[r].step = "idle"
  BY <1>0 DEF Using, MarkVerified, CommitReset, Compensate, Finish, Idle
<1>4. Mailing(r) => call'[r].step \in {"idle", "compensate"}
  <2>1. Deliver(r) => call'[r].step = "idle"
    BY <1>0 DEF Deliver, Finish, Idle
  <2>2. (\E left \in BOOLEAN : DeliveryFails(r, left)) => call'[r].step = "compensate"
    BY <1>0, CallTyped DEF DeliveryFails, At, Goto, Call
  <2>3. QED
    BY <2>1, <2>2 DEF Mailing
<1>5. \A t \in Tokens : CreateToken(r, t) => call'[r].step = "mail"
  BY <1>0 DEF CreateToken, Suspend, Idle
<1>6. QED
  BY <1>1, <1>2, <1>3, <1>4, <1>5

LEMMA SupersededStep ==
  ASSUME TypeOK, SupersededInv, NEW r \in Requests, StepOf(r),
         \A q \in Requests \ {r} : Undisturbed(q)
  PROVE  SupersededInv'
<1>0. call \in [Requests -> Call \cup {Idle}]
  BY DEF TypeOK
<1>1. SupersededTokensDead'
  <2>1. ASSUME NEW t \in Tokens, CreateToken(r, t), NEW o \in tokens'[t].older
        PROVE  tokens'[o].state = "gone"
    <3>1. call[r].step = "create" /\ tokens'[t].older = call[r].older
          /\ tokens[t].state = "unused"
      BY <2>1 DEF CreateToken, At
    <3>2. o \in Tokens /\ o # t
          /\ (tokens[o].state = "gone" \/ (tokens[o].state = "live" /\ o \in call[r].doomed))
      <4>1. o \in call[r].older
        BY <2>1, <3>1
      <4>2. o \in Tokens
        BY <4>1, CallTyped
      <4>3. tokens[o].state = "gone" \/ (tokens[o].state = "live" /\ o \in call[r].doomed)
        BY <3>1, <4>1 DEF SupersededInv
      <4>4. QED
        BY <3>1, <4>2, <4>3
    <3>3. o \in call[r].doomed => tokens'[o] = Deleted(o)
      BY <2>1, <3>2 DEF CreateToken
    <3>4. QED
      BY <3>2, <3>3, TokensMoveOnward DEF Deleted, NoToken, Onward
  <2>2. ASSUME NEW t \in Tokens, tokens'[t].older = tokens[t].older
        PROVE  \A o \in tokens'[t].older : tokens'[o].state = "gone"
    <3>1. tokens[t].older \subseteq Tokens
      BY DEF TypeOK, Token
    <3>2. QED
      BY <2>2, <3>1, TokensMoveOnward DEF SupersededInv, SupersededTokensDead, Onward
  <2>3. ASSUME NEW i \in Tokens, CreateToken(r, i), NEW t \in Tokens \ {i}
        PROVE  tokens'[t].older = tokens[t].older \/ tokens'[t].older = {}
    BY <2>3 DEF CreateToken, Deleted, NoToken
  <2>4. QED
    BY <2>1, <2>2, <2>3, TokensMoveOnward DEF SupersededTokensDead
<1>2. ASSUME NEW q \in Requests, NEW o \in call[q].older,
             call'[q].step = call[q].step, call'[q].purpose = call[q].purpose,
             call'[q].user = call[q].user, call'[q].older = call[q].older,
             call'[q].doomed = call[q].doomed
      PROVE  /\ call'[q].step = "replace" =>
                  /\ call'[q].purpose \in Replaced
                  /\ tokens'[o].state = "gone"
                     \/ o \in LiveTokens(call[q].user, call[q].purpose)'
             /\ call'[q].step = "create" =>
                  \/ tokens'[o].state = "gone"
                  \/ tokens'[o].state = "live" /\ o \in call'[q].doomed
  <2>1. o \in Tokens /\ Onward(o)
    BY CallTyped, TokensMoveOnward
  <2>2. QED
    BY <1>2, <2>1 DEF SupersededInv, LiveTokens, Onward
<1>3. \A q \in Requests \ {r} : \A o \in call'[q].older :
        /\ call'[q].step = "replace" =>
             /\ call'[q].purpose \in Replaced
             /\ tokens'[o].state = "gone"
                \/ o \in LiveTokens(call[q].user, call[q].purpose)'
        /\ call'[q].step = "create" =>
             \/ tokens'[o].state = "gone"
             \/ tokens'[o].state = "live" /\ o \in call'[q].doomed
  BY <1>2, UndisturbedFields
<1>4. ASSUME call'[r].step = "replace", NEW o \in call'[r].older
      PROVE  /\ call'[r].purpose \in Replaced
             /\ o \in LiveTokens(call[r].user, call[r].purpose)'
  <2>1. Aloof(r)
    <3>1. ~ReplaceTokens(r)
      <4>1. ReplaceTokens(r) => call[r] \in Call
        BY CallTyped DEF ReplaceTokens, At
      <4>2. ReplaceTokens(r) => call'[r].step = "create"
        BY <1>0, <4>1 DEF ReplaceTokens, Suspend, Call
      <4>3. QED
        BY <1>4, <4>2
    <3>2. QED
      BY <1>4, <3>1, StepsAfter, TokenSteps
  <2>2. PICK u \in Users, p \in Purposes : call'[r] = TokenRequest(u, p)
    BY <1>4, <2>1 DEF Aloof
  <2>3. /\ call'[r].user = u /\ call'[r].purpose = p
        /\ call'[r].older = IF p \in Replaced THEN LiveTokens(u, p) ELSE {}
    BY <2>2 DEF TokenRequest, Idle
  <2>4. tokens' = tokens
    BY <2>1 DEF Aloof
  <2>5. QED
    BY <1>4, <2>3, <2>4 DEF LiveTokens
<1>5. ASSUME call'[r].step = "create", NEW o \in call'[r].older
      PROVE  \/ tokens'[o].state = "gone"
             \/ tokens'[o].state = "live" /\ o \in call'[r].doomed
  <2>1. ReplaceTokens(r)
    BY <1>5, StepsAfter, TokenSteps DEF Aloof
  <2>2. /\ call[r].step = "replace" /\ tokens' = tokens /\ call'[r].older = call[r].older
        /\ call'[r].doomed = IF call[r].purpose \in Replaced
                             THEN LiveTokens(call[r].user, call[r].purpose) ELSE {}
    BY <1>0, <2>1, CallTyped DEF ReplaceTokens, At, Suspend, Call
  <2>3. QED
    BY <1>5, <2>2 DEF SupersededInv, LiveTokens
<1>6. QED
  BY <1>1, <1>3, <1>4, <1>5 DEF SupersededInv

\* Once a request has replaced the tokens of its purpose, none that was live
\* when it was made can still be used.
THEOREM SupersededDead == Spec => []SupersededTokensDead
<1>1. Init => SupersededInv
  BY DEF Init, SupersededInv, SupersededTokensDead, NoToken, Idle
<1>2. ASSUME TypeOK, SupersededInv, [Next]_vars
      PROVE  SupersededInv'
  <2>1. CASE tokens' = tokens /\ \A q \in Requests : Undisturbed(q)
    BY <1>2, <2>1, UndisturbedFields DEF SupersededInv, SupersededTokensDead, LiveTokens
  <2>2. QED
    BY <1>2, <2>1, SomeoneSteps, SupersededStep
<1>3. SupersededInv => SupersededTokensDead
  BY DEF SupersededInv
<1>4. QED
  BY <1>1, <1>2, <1>3, TypeCorrect, PTL DEF Spec

-----------------------------------------------------------------------------
(* What a verified email stands for *)

\* A token that took effect is the record of a proof.
Proves(t, u) ==
  /\ tokens[t].purpose = "email_verification" /\ tokens[t].uses = 1
  /\ tokens[t].user = u /\ tokens[t].email = users[u].email

\* A verification that has found its token is about that token's user, and once
\* it has compared the emails they stay equal unless the application changes
\* the user's.
ProvenInv ==
  /\ \A u \in Users : users[u].verified =>
       /\ users[u].state # "absent"
       /\ ~users[u].overtaken => \E t \in Tokens : Proves(t, u)
  /\ \A r \in Requests :
       /\ call[r].step \in {"bind", "mark"} =>
            /\ tokens[call[r].id].purpose = "email_verification"
            /\ tokens[call[r].id].user = call[r].user
       /\ call[r].step = "mark" =>
            /\ users[call[r].user].state # "absent"
            /\ ~call[r].excused => tokens[call[r].id].email = users[call[r].user].email

\* A step that does not touch what is known of a user's email.
EmailKept(u) ==
  /\ users'[u].email = users[u].email /\ users'[u].verified = users[u].verified
  /\ users'[u].overtaken = users[u].overtaken
  /\ users[u].state # "absent" => users'[u].state # "absent"

LEMMA EmailsChange ==
  ASSUME TypeOK, NEW r \in Requests, StepOf(r), NEW u \in Users
  PROVE  \/ EmailKept(u)
         \/ users[u].state = "absent" /\ users'[u].verified = users[u].verified
         \/ /\ MarkVerified(r) /\ call[r].user = u
            /\ users'[u].email = users[u].email /\ users'[u].state = users[u].state
            /\ users[u].verified /\ ~users[u].overtaken => ~users'[u].overtaken
            /\ ~users'[u].overtaken => ~call[r].excused \/ (users[u].verified /\ ~users[u].overtaken)
<1>0. users \in [Users -> User]
  BY DEF TypeOK
<1>1. ASSUME users' = users
      PROVE  EmailKept(u)
  BY <1>1 DEF EmailKept
<1>2. CASE MarkVerified(r)
  <2>1. CASE call[r].user = u
    <3>1. /\ users'[u].email = users[u].email /\ users'[u].state = users[u].state
          /\ users'[u].overtaken = (call[r].excused /\ (users[u].verified => users[u].overtaken))
      BY <1>0, <1>2, <2>1 DEF MarkVerified, User
    <3>2. QED
      BY <1>2, <2>1, <3>1
  <2>2. CASE call[r].user # u
    BY <1>0, <1>2, <2>2 DEF MarkVerified, EmailKept
  <2>3. QED
    BY <2>1, <2>2
<1>3. ASSUME NEW w \in Users, NEW p, users' = [users EXCEPT ![w].password = p]
      PROVE  EmailKept(u)
  BY <1>0, <1>3 DEF EmailKept, User
<1>4. CASE CommitReset(r) \/ SaveCredential(r)
  <2>1. call[r].user \in Users
    BY CallTyped
  <2>2. users' = users \/ users' = [users EXCEPT ![call[r].user].password = call[r].password]
    BY <1>4 DEF CommitReset, SaveCredential
  <2>3. QED
    BY <1>1, <1>3, <2>1, <2>2
<1>5. CASE RollBackUser(r)
  BY <1>0, <1>5 DEF RollBackUser, EmailKept, User
<1>6. ASSUME NEW w \in Users, CreateUser(r, w) \/ CreateUserUnidentified(r, w)
      PROVE  \/ EmailKept(u)
             \/ users[u].state = "absent" /\ users'[u].verified = users[u].verified
  <2>1. CASE w = u
    <3>1. CASE CreateUser(r, w)
      BY <1>0, <2>1, <3>1 DEF CreateUser, User
    <3>2. CASE CreateUserUnidentified(r, w)
      BY <1>0, <2>1, <3>2 DEF CreateUserUnidentified, User
    <3>3. QED
      BY <1>6, <3>1, <3>2
  <2>2. CASE w # u
    BY <1>0, <1>6, <2>2 DEF CreateUser, CreateUserUnidentified, EmailKept
  <2>3. QED
    BY <2>1, <2>2
<1>7. ASSUME ~MarkVerified(r), ~CommitReset(r), ~SaveCredential(r), ~RollBackUser(r),
             ~\E w \in Users : CreateUser(r, w) \/ CreateUserUnidentified(r, w)
      PROVE  users' = users
  BY <1>7
     DEF StepOf, ReadCredentials, CreateSession, FindInvalid, FindDue, DropSession,
         RefreshSession, RequestEmailVerification, RequestPasswordReset, ReplaceTokens,
         Deliver, Compensate, DeliveryFails, CreateToken, ConsumeVerification, ConsumeReset,
         CheckBinding, BindingFails, Fails, Strand, StartRegistration, Enroll,
         CreateUserRefused, RegistrationFails, Notify
<1>8. QED
  BY <1>1, <1>2, <1>4, <1>5, <1>6, <1>7

LEMMA ProofsKept ==
  ASSUME TypeOK, SingleUseInv, NEW r \in Requests, StepOf(r),
         NEW t \in Tokens, tokens[t].uses = 1
  PROVE  /\ tokens'[t].purpose = tokens[t].purpose /\ tokens'[t].uses = tokens[t].uses
         /\ tokens'[t].user = tokens[t].user /\ tokens'[t].email = tokens[t].email
<1>0. tokens \in [Tokens -> Token]
  BY DEF TypeOK
<1>1. tokens[t].state = "gone"
  BY DEF SingleUseInv
<1>2. Deleted(t) = tokens[t]
  BY <1>1 DEF Deleted
<1>3. CASE Aloof(r) \/ ReplaceTokens(r) \/ CheckBinding(r) \/ Consuming(r)
  BY <1>3 DEF Aloof, ReplaceTokens, CheckBinding, Consuming, ConsumeVerification, ConsumeReset
<1>4. CASE Using(r)
  <2>1. t # call[r].id
    BY <1>1, <1>4, UsingTokens DEF SingleUseInv, Holding
  <2>2. QED
    BY <1>4, <2>1, UsingTokens
<1>5. CASE Mailing(r)
  <2>1. PICK left \in BOOLEAN : tokens' = [tokens EXCEPT ![call[r].id].mailed = left]
    BY <1>5, OptionsAssumption DEF Mailing, Deliver, DeliveryFails
  <2>2. QED
    BY <1>0, <2>1 DEF Token
<1>6. CASE Compensate(r)
  BY <1>0, <1>2, <1>6 DEF Compensate
<1>7. CASE \E i \in Tokens : CreateToken(r, i)
  BY <1>0, <1>1, <1>2, <1>7 DEF CreateToken
<1>8. QED
  BY <1>3, <1>4, <1>5, <1>6, <1>7, TokenSteps

\* What a verification in flight knows.
MarkKnows(r) ==
  /\ call[r].step \in {"bind", "mark"} =>
       /\ tokens[call[r].id].purpose = "email_verification"
       /\ tokens[call[r].id].user = call[r].user
  /\ call[r].step = "mark" =>
       /\ users[call[r].user].state # "absent"
       /\ ~call[r].excused => tokens[call[r].id].email = users[call[r].user].email

LEMMA ProvenStep ==
  ASSUME TypeOK, SingleUseInv, ProvenInv, NEW r \in Requests, StepOf(r),
         \A q \in Requests \ {r} : Undisturbed(q)
  PROVE  ProvenInv'
<1>0. tokens \in [Tokens -> Token] /\ call \in [Requests -> Call \cup {Idle}]
  BY DEF TypeOK
<1>1. SingleUseInv'
  BY SingleUseStep
\* It stays true while the call waits.
<1>2. ASSUME NEW q \in Requests, call[q].step \in {"bind", "mark"}, ~MarkVerified(r),
             call'[q].id = call[q].id, call'[q].user = call[q].user,
             call[q].excused => call'[q].excused, call'[q].step = call[q].step
      PROVE  MarkKnows(q)'
  <2>1. call[q].id \in Tokens /\ tokens[call[q].id].state = "live"
    BY <1>2 DEF SingleUseInv, Holding
  <2>2. tokens'[call[q].id].state = "live"
    BY <1>1, <1>2 DEF SingleUseInv, Holding
  <2>3. /\ tokens'[call[q].id].user = tokens[call[q].id].user
        /\ tokens'[call[q].id].purpose = tokens[call[q].id].purpose
        /\ tokens'[call[q].id].email = tokens[call[q].id].email
    BY <2>1, <2>2, TokensMoveOnward DEF Onward
  <2>4. call[q].user \in Users
    BY CallTyped
  <2>5. call[q].step = "mark" => EmailKept(call[q].user)
    BY <1>2, <2>4, EmailsChange DEF ProvenInv
  <2>6. QED
    BY <1>2, <2>3, <2>5 DEF ProvenInv, MarkKnows, EmailKept
<1>3. ASSUME NEW u \in Users, users'[u].verified
      PROVE  /\ users'[u].state # "absent"
             /\ ~users'[u].overtaken => \E t \in Tokens : Proves(t, u)'
  <2>0. ASSUME users[u].verified, ~users[u].overtaken, users'[u].email = users[u].email
        PROVE  \E t \in Tokens : Proves(t, u)'
    <3>1. PICK t \in Tokens : Proves(t, u)
      BY <2>0 DEF ProvenInv
    <3>2. QED
      BY <2>0, <3>1, ProofsKept DEF Proves
  <2>1. CASE EmailKept(u)
    BY <1>3, <2>0, <2>1 DEF EmailKept, ProvenInv
  <2>2. CASE users[u].state = "absent" /\ users'[u].verified = users[u].verified
    BY <1>3, <2>2 DEF ProvenInv
  <2>3. CASE /\ MarkVerified(r) /\ call[r].user = u
             /\ users'[u].email = users[u].email /\ users'[u].state = users[u].state
             /\ ~users'[u].overtaken =>
                  ~call[r].excused \/ (users[u].verified /\ ~users[u].overtaken)
    <3>1. call[r].step = "mark" /\ Using(r)
      BY <2>3 DEF MarkVerified, At, Using
    <3>2. PICK t \in Tokens : t = call[r].id /\ tokens[t].uses = 0
      BY <3>1 DEF SingleUseInv, Holding
    <3>3. ~call[r].excused => Proves(t, u)'
      <4>1. /\ tokens[t].purpose = "email_verification" /\ tokens[t].user = u
            /\ ~call[r].excused => tokens[t].email = users[u].email
        BY <2>3, <3>1, <3>2 DEF ProvenInv
      <4>2. QED
        BY <2>3, <3>1, <3>2, <4>1, UsingTokens DEF Proves
    <3>4. users[u].state # "absent"
      BY <2>3, <3>1 DEF ProvenInv
    <3>5. QED
      BY <2>0, <2>3, <3>2, <3>3, <3>4
  <2>4. QED
    BY <2>1, <2>2, <2>3, EmailsChange
<1>4. ASSUME NEW q \in Requests \ {r}
      PROVE  MarkKnows(q)'
  <2>1. /\ call'[q].step = call[q].step /\ call'[q].id = call[q].id
        /\ call'[q].user = call[q].user /\ (call[q].excused => call'[q].excused)
    BY UndisturbedFields
  <2>2. CASE call[q].step \notin {"bind", "mark"}
    BY <2>1, <2>2 DEF MarkKnows
  <2>3. CASE call[q].step \in {"bind", "mark"} /\ ~MarkVerified(r)
    BY <1>2, <2>1, <2>3
  <2>4. CASE call[q].step \in {"bind", "mark"} /\ MarkVerified(r)
    <3>1. tokens'[call[q].id] = tokens[call[q].id]
      <4>1. /\ call[q].id \in Tokens /\ Using(r) /\ call[r].step \in Holding
            /\ call[q].step \in Holding
        BY <2>4 DEF SingleUseInv, Using, MarkVerified, At, Holding
      <4>2. call[q].id # call[r].id
        BY <4>1 DEF SingleUseInv, Holds
      <4>3. QED
        BY <4>1, <4>2, UsingTokens
    <3>2. \A u \in Users : /\ users'[u].email = users[u].email
                           /\ users'[u].state = users[u].state
      BY <2>4 DEF MarkVerified, TypeOK, User
    <3>3. QED
      BY <2>1, <3>1, <3>2, CallTyped DEF ProvenInv, MarkKnows
  <2>5. QED
    BY <2>2, <2>3, <2>4
<1>5. MarkKnows(r)'
  <2>1. CASE Consuming(r)
    <3>1. ASSUME NEW t \in Tokens, ConsumeVerification(r, t)
          PROVE  /\ call'[r].step = "bind" /\ call'[r].id = t /\ tokens' = tokens
                 /\ call'[r].user = tokens[t].user
                 /\ tokens[t].purpose = "email_verification"
      BY <1>0, <3>1 DEF ConsumeVerification, Consumable, Suspend, Idle
    <3>2. (\E t \in Tokens, p \in Passwords, keep \in BOOLEAN : ConsumeReset(r, t, p, keep))
            => call'[r].step = "hash"
      BY <1>0 DEF ConsumeReset, Suspend, Idle
    <3>3. QED
      BY <2>1, <3>1, <3>2 DEF Consuming, MarkKnows
  <2>2. CASE CheckBinding(r)
    <3>1. /\ call[r].step = "bind" /\ Bound(r) /\ UNCHANGED <<users, tokens>>
          /\ call'[r].step = "mark" /\ call'[r].id = call[r].id /\ call'[r].user = call[r].user
      <4>1. call[r] \in Call /\ call' = [call EXCEPT ![r].step = "mark"]
        BY <2>2, CallTyped DEF CheckBinding, At, Goto
      <4>2. /\ call'[r].step = "mark" /\ call'[r].id = call[r].id
            /\ call'[r].user = call[r].user
        BY <1>0, <4>1 DEF Call
      <4>3. QED
        BY <2>2, <4>2 DEF CheckBinding, At
    <3>2. /\ tokens[call[r].id].purpose = "email_verification"
          /\ tokens[call[r].id].user = call[r].user
      BY <3>1 DEF ProvenInv
    <3>3. /\ users[call[r].user].state # "absent"
          /\ tokens[call[r].id].email = users[call[r].user].email
      BY <3>1 DEF Bound, Present
    <3>4. QED
      BY <3>1, <3>2, <3>3 DEF MarkKnows
  <2>3. CASE ~Consuming(r) /\ ~CheckBinding(r)
    <3>1. ReplaceTokens(r) => call'[r].step = "create"
      <4>1. ReplaceTokens(r) => call[r] \in Call
        BY CallTyped DEF ReplaceTokens, At
      <4>2. QED
        BY <1>0, <4>1 DEF ReplaceTokens, Suspend, Call
    <3>2. call'[r].step \notin {"bind", "mark"}
      BY <2>3, <3>1, StepsAfter, TokenSteps DEF Aloof, Holding
    <3>3. QED
      BY <3>2 DEF MarkKnows
  <2>4. QED
    BY <2>1, <2>2, <2>3
<1>6. QED
  BY <1>3, <1>4, <1>5 DEF ProvenInv, MarkKnows

LEMMA ProvenOutside ==
  ASSUME TypeOK, ProvenInv, Outside, tokens' = tokens, \A q \in Requests : Undisturbed(q)
  PROVE  ProvenInv'
<1>0. \A q \in Requests : /\ call'[q].step = call[q].step /\ call'[q].id = call[q].id
                          /\ call'[q].user = call[q].user
                          /\ call[q].excused => call'[q].excused
  BY UndisturbedFields
<1>1. CASE users' = users
  BY <1>0, <1>1 DEF ProvenInv, Proves
<1>2. ASSUME NEW w \in Users, SetActive(w)
      PROVE  ProvenInv'
  <2>1. \A u \in Users : /\ users'[u].email = users[u].email
                         /\ users'[u].verified = users[u].verified
                         /\ users'[u].overtaken = users[u].overtaken
                         /\ users'[u].state = users[u].state
    BY <1>2 DEF SetActive, TypeOK, User
  <2>2. QED
    BY <1>0, <2>1, CallTyped DEF ProvenInv, Proves
<1>3. ASSUME NEW w \in Users, NEW e \in Emails, ChangeEmail(w, e)
      PROVE  ProvenInv'
  <2>1. /\ \A u \in Users \ {w} : users'[u] = users[u]
        /\ users'[w].state = users[w].state /\ ~users'[w].verified
    BY <1>3 DEF ChangeEmail, TypeOK, User
  <2>2. \A r \in Requests : call[r].step = "mark" /\ call[r].user = w => call'[r].excused
    <3>1. \A r \in Requests : call[r].step = "mark" => call[r] \in Call
      BY CallTyped DEF At
    <3>2. QED
      BY <1>3, <3>1 DEF ChangeEmail, At, Call
  <2>3. ASSUME NEW r \in Requests
        PROVE  MarkKnows(r)'
    <3>1. call[r].user \in Users
      BY CallTyped
    <3>2. QED
      BY <1>0, <2>1, <2>2, <3>1 DEF ProvenInv, MarkKnows
  <2>4. \A u \in Users : users'[u].verified => users'[u] = users[u] /\ users[u].verified
    BY <2>1
  <2>5. QED
    BY <2>3, <2>4 DEF ProvenInv, MarkKnows, Proves
<1>4. QED
  BY <1>1, <1>2, <1>3 DEF Outside, SignOut, Tick, vars

\* An email marked verified was proven by a token mailed to that very address,
\* unless it was changed between the check and the mark of the same call.
THEOREM UndisturbedProven == Spec => []UndisturbedEmailProven
<1>1. Init => ProvenInv
  BY DEF Init, ProvenInv, Idle
<1>2. TypeOK /\ SingleUseInv /\ ProvenInv /\ [Next]_vars => ProvenInv'
  BY SomeoneSteps, ProvenStep, ProvenOutside
<1>3. ProvenInv => UndisturbedEmailProven
  BY DEF ProvenInv, Proves, UndisturbedEmailProven
<1>4. QED
  BY <1>1, <1>2, <1>3, TypeCorrect, SingleUseInvariant, PTL DEF Spec
=============================================================================
