-------------------------- MODULE RetriedCompletions --------------------------
(***************************************************************************)
(* Completions that run under the limiter and call the storage through     *)
(* retry() of the context: a call that sleeps between two attempts keeps   *)
(* its place, so the places and the backoff have to be looked at together. *)
(*                                                                         *)
(* A completion makes several retried calls one after the other; one of    *)
(* them stands for all.                                                    *)
(***************************************************************************)
EXTENDS CompletionLimiter

CONSTANTS
  MaxAttempts, InitialDelay, MaxDelay, Multiplier   \* the resolved policy

\* What resolveRetryPolicy accepts.  Delays and the multiplier are numbers in
\* the code; whole ones lose nothing but rounding.
RetryPolicyAccepted ==
  /\ MaxAttempts \in Nat \ {0}
  /\ InitialDelay \in Nat
  /\ MaxDelay \in Nat
  /\ Multiplier \in Nat \ {0}
ASSUME RetryPolicyAssumption == RetryPolicyAccepted

VARIABLE loop   \* the retry loop of each slot

retryVars == <<vars, loop>>

\* attempt and delayMs of the loop before it is entered.
Fresh == [phase |-> "new", attempt |-> 1, delay |-> InitialDelay]

LoopTypeOK ==
  /\ TypeOK
  /\ loop \in [Tasks -> [phase : {"new", "attempt", "sleep", "over"},
                         attempt : Nat, delay : Nat]]

RetryInit == Init /\ loop = [t \in Tasks |-> Fresh]

In(t, phase) == state[t] = "running" /\ loop[t].phase = phase

Enter(t, phase) == loop' = [loop EXCEPT ![t].phase = phase]

-----------------------------------------------------------------------------
\* throwIfAborted at the head of the loop: an aborted call makes no attempt.
Begin(t) ==
  /\ In(t, "new")
  /\ Enter(t, IF t \in aborted THEN "over" ELSE "attempt")
  /\ UNCHANGED vars

\* The task resolves.
Answer(t) ==
  /\ In(t, "attempt")
  /\ Enter(t, "over")
  /\ UNCHANGED vars

(* Mutant: the attempts are counted from zero. *)
GivesUpOneLate(t) == t \in aborted \/ loop[t].attempt > MaxAttempts

GivesUp(t) == t \in aborted \/ loop[t].attempt >= MaxAttempts

\* The task rejects, with an error the policy retries or not.
AttemptFails(t) ==
  /\ In(t, "attempt")
  /\ \/ Enter(t, "over")
     \/ ~GivesUp(t) /\ Enter(t, "sleep")
  /\ UNCHANGED vars

(* Mutant: the signal is not looked at again after the sleep. *)
WakeUnchecked(t) ==
  /\ In(t, "sleep")
  /\ loop' = [loop EXCEPT ![t] =
       [phase |-> "attempt", attempt |-> @.attempt + 1,
        delay |-> IF MaxDelay < @.delay * Multiplier THEN MaxDelay
                                                     ELSE @.delay * Multiplier]]
  /\ UNCHANGED vars

\* The sleep is not cut short by an abort, but ends in the check.
Wake(t) ==
  /\ In(t, "sleep")
  /\ loop' = [loop EXCEPT ![t] =
       [phase |-> IF t \in aborted THEN "over" ELSE "attempt",
        attempt |-> @.attempt + 1,
        delay |-> IF MaxDelay < @.delay * Multiplier THEN MaxDelay
                                                     ELSE @.delay * Multiplier]]
  /\ UNCHANGED vars

\* The completion ends before its storage call, or after it, never during it.
Leave(t) ==
  /\ In(t, "new") \/ In(t, "over")
  /\ Finish(t)
  /\ loop' = [loop EXCEPT ![t] = Fresh]

Advance(t) == Begin(t) \/ Answer(t) \/ AttemptFails(t) \/ Wake(t)

RetryNext ==
  \E t \in Tasks :
    \/ /\ StartNow(t) \/ Wait(t) \/ Refuse(t) \/ AbortWaiting(t) \/ AbortOther(t)
       /\ UNCHANGED loop
    \/ Advance(t) \/ Leave(t)

RetrySpec == RetryInit /\ [][RetryNext]_retryVars

\* Storage calls settle, timers fire, and completions end.
FairRetrySpec ==
  RetrySpec /\ \A t \in Tasks : WF_retryVars(Advance(t)) /\ WF_retryVars(Leave(t))

-----------------------------------------------------------------------------
(* Properties *)

\* backoffMultiplier^n.
Power[n \in Nat] == IF n = 0 THEN 1 ELSE Multiplier * Power[n - 1]

\* The schedule the loop computes step by step is the one its policy
\* describes: fewer than maxAttempts sleeps, the first of initialDelayMs, which
\* nothing caps, the k-th of initialDelayMs * backoffMultiplier^(k-1) capped at
\* maxDelayMs.
BackoffSchedule ==
  \A t \in Tasks : In(t, "sleep") =>
    LET k == loop[t].attempt
        uncapped == InitialDelay * Power[k - 1]
    IN /\ k < MaxAttempts
       /\ loop[t].delay = IF k = 1 \/ uncapped < MaxDelay THEN uncapped ELSE MaxDelay

\* A call whose signal fires while it queues, is handed a place or sleeps
\* starts no further attempt.
NoAttemptAfterAbort ==
  [][\A t \in Tasks :
       t \in aborted /\ ~In(t, "attempt") => ~(In(t, "attempt"))']_retryVars
=============================================================================
