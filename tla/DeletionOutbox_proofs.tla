------------------------- MODULE DeletionOutbox_proofs -------------------------
(***************************************************************************)
(* Theorems about DeletionOutbox, for every set of jobs, keys and workers, *)
(* every assignment of keys to jobs, and every limit.                      *)
(***************************************************************************)
EXTENDS DeletionOutbox, TLAPS

-----------------------------------------------------------------------------
(* Type correctness *)

LEMMA IdleTyped == IdleCall \in Call
BY DEF IdleCall, Call, Outcome

LEMMA RestTyped ==
  ASSUME TypeOK, NEW w \in Workers, Rest(w)
  PROVE  worker' \in [Workers -> Call]
BY IdleTyped DEF TypeOK, Rest

LEMMA StatusUpdateTyped ==
  ASSUME TypeOK, NEW j \in Jobs, NEW s \in JobStatus, status' = [status EXCEPT ![j] = s]
  PROVE  status' \in [Jobs -> JobStatus]
BY DEF TypeOK

LEMMA ProcessTyped ==
  ASSUME TypeOK, NEW w \in Workers, Process(w)
  PROVE  TypeOK'
<1>1. worker[w] \in Call
  BY DEF TypeOK
<1>2. CASE ClaimObjectDeletions(w)
  <2>1. PICK S \in SUBSET Pending :
          /\ status' = [j \in Jobs |-> IF j \in S THEN "locked" ELSE status[j]]
          /\ worker' = [worker EXCEPT ![w] =
               [step |-> "batch", claimed |-> S,
                seen |-> [j \in Jobs |-> IF j \in S THEN attempts[j] ELSE 0],
                outcome |-> [k \in Keys |-> "none"]]]
    BY <1>2 DEF ClaimObjectDeletions
  <2> USE DEF Pending
  <2>2. status' \in [Jobs -> JobStatus]
    BY <2>1 DEF TypeOK, JobStatus
  <2>3. [step |-> "batch", claimed |-> S,
         seen |-> [j \in Jobs |-> IF j \in S THEN attempts[j] ELSE 0],
         outcome |-> [k \in Keys |-> "none"]] \in Call
    BY DEF TypeOK, Call, Outcome
  <2>4. QED
    BY <1>2, <2>1, <2>2, <2>3 DEF TypeOK, ClaimObjectDeletions
<1>3. CASE DeleteBatch(w)
  <2>1. PICK outcome \in [Keys -> Outcome] :
          worker' = [worker EXCEPT ![w].step = "single", ![w].outcome = outcome]
    BY <1>3 DEF DeleteBatch
  <2>2. [worker[w] EXCEPT !.step = "single", !.outcome = outcome] \in Call
    BY <1>1 DEF Call
  <2>3. stored' \subseteq Keys
    BY <1>3 DEF TypeOK, DeleteBatch
  <2>4. QED
    BY <1>3, <2>1, <2>2, <2>3 DEF TypeOK, DeleteBatch
<1>4. ASSUME NEW k \in Keys, DeleteOne(w, k) PROVE TypeOK'
  <2>1. PICK answer \in Outcome : worker' = [worker EXCEPT ![w].outcome[k] = answer]
    BY <1>4 DEF DeleteOne, Answers, Outcome
  <2>2. [worker[w].outcome EXCEPT ![k] = answer] \in [Keys -> Outcome]
    BY <1>1 DEF Call
  <2>3. [worker[w] EXCEPT !.outcome[k] = answer] \in Call
    BY <1>1, <2>2 DEF Call
  <2>4. stored' \subseteq Keys
    BY <1>4 DEF TypeOK, DeleteOne
  <2>5. QED
    BY <1>4, <2>1, <2>3, <2>4 DEF TypeOK, DeleteOne
<1>5. CASE MarkSucceeded(w)
  <2>1. status' \in [Jobs -> JobStatus]
    BY <1>5 DEF TypeOK, MarkSucceeded, JobStatus
  <2>2. worker' \in [Workers -> Call]
    <3>1. [worker[w] EXCEPT !.step = "fail"] \in Call
      BY <1>1 DEF Call
    <3>2. QED
      BY <1>5, <3>1, RestTyped DEF TypeOK, MarkSucceeded
  <2>3. QED
    BY <1>5, <2>1, <2>2 DEF TypeOK, MarkSucceeded
<1>6. CASE MarkFailed(w)
  <2>1. status' \in [Jobs -> JobStatus] /\ attempts' \in [Jobs -> Nat]
    BY <1>6 DEF TypeOK, MarkFailed, JobStatus
  <2>2. QED
    BY <1>6, <2>1, RestTyped DEF TypeOK, MarkFailed
<1>7. QED
  BY <1>2, <1>3, <1>4, <1>5, <1>6 DEF Process

LEMMA NextTyped == TypeOK /\ [Next]_vars => TypeOK'
<1> SUFFICES ASSUME TypeOK, [Next]_vars PROVE TypeOK'
  OBVIOUS
<1>1. CASE \E j \in Jobs : Enqueue(j) \/ LockExpires(j) \/ RetryDue(j)
  BY <1>1, StatusUpdateTyped DEF TypeOK, Enqueue, LockExpires, RetryDue, JobStatus
<1>2. CASE \E k \in Keys : DeleteAtOnce(k)
  BY <1>2 DEF TypeOK, DeleteAtOnce
<1>3. CASE \E w \in Workers : Process(w)
  BY <1>3, ProcessTyped
<1>4. CASE \E w \in Workers : Stop(w)
  BY <1>4, RestTyped, MaxStopsAssumption DEF TypeOK, Stop
<1>5. CASE UNCHANGED vars
  BY <1>5 DEF TypeOK, vars
<1>6. QED
  BY <1>1, <1>2, <1>3, <1>4, <1>5 DEF Next

\* Every reachable state of the outbox and its workers is well typed.
THEOREM OutboxTypeCorrect == Spec => []TypeOK
<1>1. Init => TypeOK
  BY IdleTyped, MaxStopsAssumption DEF Init, TypeOK, JobStatus
<1>2. QED
  BY <1>1, NextTyped, PTL DEF Spec

-----------------------------------------------------------------------------
(* Succeeded jobs have no object.  A worker that knows a key to be deleted   *)
(* or missing is right, because keys only ever leave the store; and a job is *)
(* marked succeeded on such knowledge alone.                                 *)

KnownGone ==
  \A w \in Workers, k \in Keys :
    worker[w].outcome[k] \in {"deleted", "missing"} => k \notin stored

GoneInv == TypeOK /\ KnownGone /\ SucceededGone

\* The form of a step that keeps GoneInv.
KeepsGone ==
  /\ stored' \subseteq stored
  /\ \A w \in Workers, k \in Keys :
       worker'[w].outcome[k] \in {"deleted", "missing"} =>
         worker[w].outcome[k] \in {"deleted", "missing"} \/ k \notin stored'
  /\ \A j \in Jobs :
       status'[j] = "succeeded" => status[j] = "succeeded" \/ KeyOf[j] \notin stored'

LEMMA KeepsGoneSuffices == GoneInv /\ TypeOK' /\ KeepsGone => GoneInv'
BY KeyOfAssumption DEF GoneInv, KeepsGone, KnownGone, SucceededGone

\* A worker that starts over knows nothing.
LEMMA RestForgets ==
  ASSUME TypeOK, NEW w \in Workers, Rest(w), NEW v \in Workers, NEW k \in Keys
  PROVE  worker'[v].outcome[k] \in {"none", worker[v].outcome[k]}
BY DEF TypeOK, Rest, IdleCall

\* The jobs marked succeeded are those whose key is known to be gone.
LEMMA MarkSucceededKeepsGone ==
  ASSUME GoneInv, NEW w \in Workers, MarkSucceeded(w)
  PROVE  KeepsGone
<1>1. \A j \in Succeeded(w) : KeyOf[j] \notin stored
  BY KeyOfAssumption DEF GoneInv, KnownGone, Succeeded, JobsWith, TypeOK, Call
<1>2. \A j \in Jobs :
        status'[j] = "succeeded" => status[j] = "succeeded" \/ KeyOf[j] \notin stored
  BY <1>1 DEF MarkSucceeded
<1>3. \A v \in Workers, k \in Keys :
        worker'[v].outcome[k] \in {"none", worker[v].outcome[k]}
  <2>1. CASE Rest(w)
    BY <2>1, RestForgets DEF GoneInv
  <2>2. CASE worker' = [worker EXCEPT ![w].step = "fail"]
    BY <2>2 DEF GoneInv, TypeOK, Call
  <2>3. QED
    BY <2>1, <2>2 DEF MarkSucceeded
<1>4. QED
  BY <1>2, <1>3 DEF MarkSucceeded, KeepsGone

LEMMA ProcessKeepsGone ==
  ASSUME GoneInv, NEW w \in Workers, Process(w)
  PROVE  KeepsGone
<1> USE DEF GoneInv
<1>1. worker[w] \in Call
  BY DEF TypeOK
<1>2. CASE ClaimObjectDeletions(w)
  <2>1. PICK S \in SUBSET Pending :
          /\ status' = [j \in Jobs |-> IF j \in S THEN "locked" ELSE status[j]]
          /\ worker' = [worker EXCEPT ![w] =
               [step |-> "batch", claimed |-> S,
                seen |-> [j \in Jobs |-> IF j \in S THEN attempts[j] ELSE 0],
                outcome |-> [k \in Keys |-> "none"]]]
    BY <1>2 DEF ClaimObjectDeletions
  <2> USE DEF Pending
  <2>2. \A v \in Workers, k \in Keys :
          worker'[v].outcome[k] \in {"none", worker[v].outcome[k]}
    BY <2>1 DEF TypeOK
  <2>3. QED
    BY <1>2, <2>1, <2>2 DEF KeepsGone, ClaimObjectDeletions
<1>3. CASE DeleteBatch(w)
  <2>1. /\ stored' \subseteq stored
        /\ \E outcome \in [Keys -> Outcome] :
             /\ \A k \in Keys : outcome[k] \in {"deleted", "missing"} => k \notin stored'
             /\ worker' = [worker EXCEPT ![w].step = "single", ![w].outcome = outcome]
    BY <1>3 DEF DeleteBatch, Answers
  <2>2. \A v \in Workers, k \in Keys :
          worker'[v].outcome[k] \in {"deleted", "missing"} =>
            worker[v].outcome[k] \in {"deleted", "missing"} \/ k \notin stored'
    BY <1>1, <2>1 DEF TypeOK, Call
  <2>3. QED
    BY <1>3, <2>1, <2>2 DEF KeepsGone, DeleteBatch
<1>4. ASSUME NEW k \in Keys, DeleteOne(w, k) PROVE KeepsGone
  <2>1. /\ stored' \subseteq stored
        /\ \E answer \in Outcome :
             /\ answer \in {"deleted", "missing"} => k \notin stored'
             /\ worker' = [worker EXCEPT ![w].outcome[k] = answer]
    BY <1>4 DEF DeleteOne, Answers, Outcome
  <2>2. \A v \in Workers, k2 \in Keys :
          worker'[v].outcome[k2] \in {"deleted", "missing"} =>
            worker[v].outcome[k2] \in {"deleted", "missing"} \/ k2 \notin stored'
    BY <1>1, <2>1 DEF TypeOK, Call
  <2>3. QED
    BY <1>4, <2>1, <2>2 DEF KeepsGone, DeleteOne
<1>5. CASE MarkSucceeded(w)
  BY <1>5, MarkSucceededKeepsGone
<1>6. CASE MarkFailed(w)
  BY <1>6, RestForgets DEF KeepsGone, MarkFailed
<1>7. QED
  BY <1>2, <1>3, <1>4, <1>5, <1>6 DEF Process

LEMMA NextKeepsGone == GoneInv /\ [Next]_vars => GoneInv'
<1> SUFFICES ASSUME GoneInv, [Next]_vars PROVE KeepsGone
  BY NextTyped, KeepsGoneSuffices DEF GoneInv
<1>1. CASE \E j \in Jobs : Enqueue(j) \/ LockExpires(j) \/ RetryDue(j)
  BY <1>1 DEF GoneInv, TypeOK, KeepsGone, Enqueue, LockExpires, RetryDue
<1>2. CASE \E k \in Keys : DeleteAtOnce(k)
  BY <1>2 DEF KeepsGone, DeleteAtOnce
<1>3. CASE \E w \in Workers : Process(w)
  BY <1>3, ProcessKeepsGone
<1>4. CASE \E w \in Workers : Stop(w)
  BY <1>4, RestForgets DEF GoneInv, KeepsGone, Stop
<1>5. CASE UNCHANGED vars
  BY <1>5 DEF KeepsGone, vars
<1>6. QED
  BY <1>1, <1>2, <1>3, <1>4, <1>5 DEF Next

\* processObjectDeletionOutbox never marks a job succeeded while its object
\* exists, for any number of overlapping workers, jobs of one key and partial
\* batch answers.
THEOREM SucceededJobsGone == Spec => []SucceededGone
<1>1. Init => GoneInv
  <2>1. Init => TypeOK
    BY IdleTyped, MaxStopsAssumption DEF Init, TypeOK, JobStatus
  <2>2. Init => KnownGone /\ SucceededGone
    BY DEF Init, KnownGone, SucceededGone, IdleCall
  <2>3. QED
    BY <2>1, <2>2 DEF GoneInv
<1>2. GoneInv => SucceededGone
  BY DEF GoneInv
<1>3. QED
  BY <1>1, <1>2, NextKeepsGone, PTL DEF Spec

-----------------------------------------------------------------------------
(* Giving up.  The attempts a worker has read are never more than those in   *)
(* the outbox, which only grow, so a decision taken from the former stands.  *)

SeenBehind ==
  \A w \in Workers, j \in Jobs : worker[w].seen[j] <= attempts[j]

AttemptsInv == TypeOK /\ SeenBehind /\ TerminalAfterMaxAttempts

\* The form of a step that keeps AttemptsInv.
KeepsAttempts ==
  \A j \in Jobs :
    /\ attempts'[j] >= attempts[j]
    /\ \A w \in Workers : worker'[w].seen[j] \in {0, worker[w].seen[j], attempts[j]}
    /\ status'[j] = "failed" => status[j] = "failed" \/ attempts'[j] >= MaxAttempts

LEMMA KeepsAttemptsSuffices == AttemptsInv /\ TypeOK' /\ KeepsAttempts => AttemptsInv'
<1> SUFFICES ASSUME AttemptsInv, TypeOK', KeepsAttempts PROVE AttemptsInv'
  OBVIOUS
<1>1. \A j \in Jobs : attempts[j] \in Nat /\ attempts'[j] \in Nat
  BY DEF AttemptsInv, TypeOK
<1>2. SeenBehind'
  <2> SUFFICES ASSUME NEW w \in Workers, NEW j \in Jobs
               PROVE  worker'[w].seen[j] <= attempts'[j]
    BY DEF SeenBehind
  <2>1. worker[w].seen[j] \in Nat
    BY DEF AttemptsInv, TypeOK, Call
  <2>2. QED
    BY <1>1, <2>1 DEF KeepsAttempts, AttemptsInv, SeenBehind
<1>3. TerminalAfterMaxAttempts'
  BY <1>1, MaxAttemptsAssumption DEF KeepsAttempts, AttemptsInv, TerminalAfterMaxAttempts
<1>4. QED
  BY <1>2, <1>3 DEF AttemptsInv

\* A worker that starts over has read nothing.
LEMMA RestForgetsAttempts ==
  ASSUME TypeOK, NEW w \in Workers, Rest(w), NEW v \in Workers, NEW j \in Jobs
  PROVE  worker'[v].seen[j] \in {0, worker[v].seen[j]}
BY DEF TypeOK, Rest, IdleCall

LEMMA MarkFailedKeepsAttempts ==
  ASSUME AttemptsInv, NEW w \in Workers, MarkFailed(w)
  PROVE  KeepsAttempts
<1> SUFFICES ASSUME NEW j \in Jobs
             PROVE  /\ attempts'[j] >= attempts[j]
                    /\ \A v \in Workers :
                         worker'[v].seen[j] \in {0, worker[v].seen[j], attempts[j]}
                    /\ status'[j] = "failed" =>
                         status[j] = "failed" \/ attempts'[j] >= MaxAttempts
  BY DEF KeepsAttempts
<1>1. attempts[j] \in Nat /\ worker[w].seen[j] \in Nat
  BY DEF AttemptsInv, TypeOK, Call
<1>2. worker[w].seen[j] <= attempts[j]
  BY DEF AttemptsInv, SeenBehind
<1>3. attempts'[j] \in {attempts[j], attempts[j] + 1}
  BY DEF MarkFailed
<1>4. ASSUME status'[j] = "failed", status[j] # "failed"
      PROVE  attempts'[j] = attempts[j] + 1 /\ Terminal(worker[w].seen[j])
  BY <1>4 DEF MarkFailed
<1>5. \A v \in Workers : worker'[v].seen[j] \in {0, worker[v].seen[j], attempts[j]}
  BY RestForgetsAttempts DEF AttemptsInv, MarkFailed
<1>6. QED
  BY <1>1, <1>2, <1>3, <1>4, <1>5, MaxAttemptsAssumption DEF Terminal

LEMMA NextKeepsAttempts == AttemptsInv /\ [Next]_vars => AttemptsInv'
<1> SUFFICES ASSUME AttemptsInv, [Next]_vars PROVE KeepsAttempts
  BY NextTyped, KeepsAttemptsSuffices DEF AttemptsInv
<1>1. \A j \in Jobs : attempts[j] \in Nat
  BY DEF AttemptsInv, TypeOK
<1>2. CASE \E j \in Jobs : Enqueue(j) \/ LockExpires(j) \/ RetryDue(j)
  BY <1>1, <1>2 DEF AttemptsInv, TypeOK, KeepsAttempts, Enqueue, LockExpires, RetryDue
<1>3. CASE \E k \in Keys : DeleteAtOnce(k)
  BY <1>1, <1>3 DEF KeepsAttempts, DeleteAtOnce
<1>4. ASSUME NEW w \in Workers, ClaimObjectDeletions(w) PROVE KeepsAttempts
  <2>1. PICK S \in SUBSET Pending :
          /\ status' = [j \in Jobs |-> IF j \in S THEN "locked" ELSE status[j]]
          /\ worker' = [worker EXCEPT ![w] =
               [step |-> "batch", claimed |-> S,
                seen |-> [j \in Jobs |-> IF j \in S THEN attempts[j] ELSE 0],
                outcome |-> [k \in Keys |-> "none"]]]
    BY <1>4 DEF ClaimObjectDeletions
  <2> USE DEF Pending
  <2>2. \A v \in Workers, j \in Jobs :
          worker'[v].seen[j] \in {0, worker[v].seen[j], attempts[j]}
    BY <2>1 DEF AttemptsInv, TypeOK
  <2>3. QED
    BY <1>1, <1>4, <2>1, <2>2 DEF KeepsAttempts, ClaimObjectDeletions
<1>5. ASSUME NEW w \in Workers,
             \/ DeleteBatch(w)
             \/ \E k \in Keys : DeleteOne(w, k)
      PROVE  KeepsAttempts
  <2>1. worker \in [Workers -> Call]
    BY DEF AttemptsInv, TypeOK
  <2>2. CASE DeleteBatch(w)
    <3>1. PICK outcome \in [Keys -> Outcome] :
            worker' = [worker EXCEPT ![w].step = "single", ![w].outcome = outcome]
      BY <2>2 DEF DeleteBatch
    <3>2. \A v \in Workers : worker'[v].seen = worker[v].seen
      BY <2>1, <3>1 DEF Call
    <3>3. UNCHANGED <<status, attempts>>
      BY <2>2 DEF DeleteBatch
    <3>4. QED
      BY <1>1, <3>2, <3>3 DEF KeepsAttempts
  <2>3. ASSUME NEW k \in Keys, DeleteOne(w, k) PROVE KeepsAttempts
    <3>1. PICK answer : worker' = [worker EXCEPT ![w].outcome[k] = answer]
      BY <2>3 DEF DeleteOne
    <3>2. \A v \in Workers : worker'[v].seen = worker[v].seen
      BY <2>1, <3>1 DEF Call
    <3>3. QED
      BY <1>1, <2>3, <3>2 DEF KeepsAttempts, DeleteOne
  <2>4. QED
    BY <1>5, <2>2, <2>3
<1>6. ASSUME NEW w \in Workers, MarkSucceeded(w) PROVE KeepsAttempts
  <2>1. \A v \in Workers, j \in Jobs : worker'[v].seen[j] \in {0, worker[v].seen[j]}
    <3>1. CASE Rest(w)
      BY <3>1, RestForgetsAttempts DEF AttemptsInv
    <3>2. CASE worker' = [worker EXCEPT ![w].step = "fail"]
      BY <3>2 DEF AttemptsInv, TypeOK, Call
    <3>3. QED
      BY <1>6, <3>1, <3>2 DEF MarkSucceeded
  <2>2. \A j \in Jobs : status'[j] = "failed" => status[j] = "failed"
    BY <1>6 DEF MarkSucceeded
  <2>3. QED
    BY <1>1, <1>6, <2>1, <2>2 DEF KeepsAttempts, MarkSucceeded
<1>7. ASSUME NEW w \in Workers, Stop(w) PROVE KeepsAttempts
  BY <1>1, <1>7, RestForgetsAttempts DEF AttemptsInv, KeepsAttempts, Stop
<1>8. CASE UNCHANGED vars
  BY <1>1, <1>8 DEF KeepsAttempts, vars
<1>9. QED
  BY <1>2, <1>3, <1>4, <1>5, <1>6, <1>7, <1>8, MarkFailedKeepsAttempts DEF Next, Process

\* No worker gives a job up before maxAttempts failures have been counted,
\* whoever counted them.
THEOREM GivesUpLate == Spec => []TerminalAfterMaxAttempts
<1>1. Init => AttemptsInv
  <2>1. Init => TypeOK
    BY IdleTyped, MaxStopsAssumption DEF Init, TypeOK, JobStatus
  <2>2. Init => SeenBehind /\ TerminalAfterMaxAttempts
    BY DEF Init, SeenBehind, TerminalAfterMaxAttempts, IdleCall
  <2>3. QED
    BY <2>1, <2>2 DEF AttemptsInv
<1>2. AttemptsInv => TerminalAfterMaxAttempts
  BY DEF AttemptsInv
<1>3. QED
  BY <1>1, <1>2, NextKeepsAttempts, PTL DEF Spec
=============================================================================
