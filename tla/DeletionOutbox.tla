---------------------------- MODULE DeletionOutbox ----------------------------
(***************************************************************************)
(* processObjectDeletionOutbox: workers claim deletion jobs, delete their  *)
(* objects in a batch and then one by one, and mark the jobs succeeded or  *)
(* failed.  A claim is a lock with a deadline, and a mark names its job by *)
(* id only, so a slow worker and the one that took over its jobs may both  *)
(* report on them.                                                         *)
(*                                                                         *)
(* An action is the code up to one await with the effect of that await.    *)
(* Time only matters as "the deadline has passed": LockExpires and         *)
(* RetryDue.  The outbox itself belongs to the application: the statuses   *)
(* are those of recipes/delete-outbox.md, and marks apply to any job, as   *)
(* in the outbox of tests/delete-outbox.test.ts.                           *)
(***************************************************************************)
EXTENDS Integers, FiniteSets

CONSTANTS
  Jobs,         \* identities of deletion jobs
  Keys,         \* object keys
  KeyOf,        \* the key of each job; several jobs may name one key
  Workers,      \* concurrent calls of processObjectDeletionOutbox
  MaxAttempts,
  Limit,        \* most jobs claimed by one call
  MaxStops      \* bound: how often a call of a worker aborts or dies

\* assertPositiveInteger; a job names one key.
ASSUME MaxAttemptsAssumption == MaxAttempts \in Nat \ {0}
ASSUME LimitAssumption == Limit \in Nat \ {0}
ASSUME KeyOfAssumption == KeyOf \in [Jobs -> Keys]
ASSUME MaxStopsAssumption == MaxStops \in Nat

VARIABLES
  status,     \* outbox row: where each job stands
  attempts,   \* outbox row: failures counted so far
  stored,     \* object store: the keys that exist
  worker,     \* the state of each call
  stops       \* calls that have been stopped so far

vars == <<status, attempts, stored, worker, stops>>

JobStatus ==
  {"absent", "pending",      \* claimable
   "locked",                 \* claimed, lockedUntil in the future
   "delayed",                \* retryAt in the future
   "succeeded", "failed"}

Outcome == {"none", "deleted", "missing", "failed"}

\* A call: the jobs it claimed, their attempts as read by the claim, and what
\* it knows of their keys.
Call ==
  [step : {"idle", "batch", "single", "fail"}, claimed : SUBSET Jobs,
   seen : [Jobs -> Nat], outcome : [Keys -> Outcome]]

IdleCall == [step |-> "idle", claimed |-> {}, seen |-> [j \in Jobs |-> 0],
             outcome |-> [k \in Keys |-> "none"]]

TypeOK ==
  /\ status \in [Jobs -> JobStatus]
  /\ attempts \in [Jobs -> Nat]
  /\ stored \subseteq Keys
  /\ worker \in [Workers -> Call]
  /\ stops \in 0..MaxStops

Init ==
  /\ status = [j \in Jobs |-> "absent"]
  /\ attempts = [j \in Jobs |-> 0]
  /\ stored \in SUBSET Keys
  /\ worker = [w \in Workers |-> IdleCall]
  /\ stops = 0

-----------------------------------------------------------------------------
\* groupJobsByObjectKey: every key is deleted once for all its jobs.
ClaimedKeys(w) == {KeyOf[j] : j \in worker[w].claimed}

\* The jobs of w whose key had one of these outcomes.
JobsWith(w, outcomes) ==
  {j \in worker[w].claimed : worker[w].outcome[KeyOf[j]] \in outcomes}

Succeeded(w) == JobsWith(w, {"deleted", "missing"})

FailedJobs(w) == JobsWith(w, {"failed"})

(* Mutant: the last attempt is given away.                                   *)
TerminalTooSoon(seen) == seen + 1 >= MaxAttempts - 1

\* Decided from the attempts read by the claim.
Terminal(seen) == seen + 1 >= MaxAttempts

Rest(w) == worker' = [worker EXCEPT ![w] = IdleCall]

-----------------------------------------------------------------------------
(* The application and the clock *)

Enqueue(j) ==
  /\ status[j] = "absent"
  /\ status' = [status EXCEPT ![j] = "pending"]
  /\ UNCHANGED <<attempts, stored, worker, stops>>

\* The workflow that wrote the job also deletes the object itself.
DeleteAtOnce(k) ==
  /\ k \in stored
  /\ \E j \in Jobs : KeyOf[j] = k /\ status[j] # "absent"
  /\ stored' = stored \ {k}
  /\ UNCHANGED <<status, attempts, worker, stops>>

LockExpires(j) ==
  /\ status[j] = "locked"
  /\ status' = [status EXCEPT ![j] = "pending"]
  /\ UNCHANGED <<attempts, stored, worker, stops>>

RetryDue(j) ==
  /\ status[j] = "delayed"
  /\ status' = [status EXCEPT ![j] = "pending"]
  /\ UNCHANGED <<attempts, stored, worker, stops>>

-----------------------------------------------------------------------------
(* One call of processObjectDeletionOutbox *)

Pending == {j \in Jobs : status[j] = "pending"}

\* The outbox hands out as many claimable jobs as the limit allows.
ClaimObjectDeletions(w) ==
  /\ worker[w].step = "idle"
  /\ \E S \in SUBSET Pending :
       /\ S # {}
       /\ S = Pending \/ Cardinality(S) = Limit
       /\ Cardinality(S) <= Limit
       /\ status' = [j \in Jobs |-> IF j \in S THEN "locked" ELSE status[j]]
       /\ worker' = [worker EXCEPT ![w] =
            [step |-> "batch", claimed |-> S,
             seen |-> [j \in Jobs |-> IF j \in S THEN attempts[j] ELSE 0],
             outcome |-> [k \in Keys |-> "none"]]]
  /\ UNCHANGED <<attempts, stored, stops>>

\* What a provider may answer for key k when it leaves the store as it is or
\* erases k: a failed deletion may have been carried out.
Answers(k, after) ==
  (IF k \notin after THEN {"deleted"} ELSE {})
  \cup (IF k \notin stored THEN {"missing"} ELSE {})
  \cup {"failed"}

\* deleteObjects: keys it does not report, all of them if it throws or does
\* not exist, are left to deleteOne.
DeleteBatch(w) ==
  /\ worker[w].step = "batch"
  /\ \E erased \in SUBSET ClaimedKeys(w) :
       /\ stored' = stored \ erased
       /\ \E outcome \in [Keys -> Outcome] :
            /\ \A k \in ClaimedKeys(w) : outcome[k] \in Answers(k, stored') \cup {"none"}
            /\ \A k \in Keys \ ClaimedKeys(w) : outcome[k] = "none"
            /\ worker' = [worker EXCEPT ![w].step = "single", ![w].outcome = outcome]
  /\ UNCHANGED <<status, attempts, stops>>

DeleteOne(w, k) ==
  /\ worker[w].step = "single"
  /\ k \in ClaimedKeys(w)
  /\ worker[w].outcome[k] = "none"
  /\ \E erased \in SUBSET {k} :
       /\ stored' = stored \ erased
       /\ \E answer \in Answers(k, stored') :
            worker' = [worker EXCEPT ![w].outcome[k] = answer]
  /\ UNCHANGED <<status, attempts, stops>>

\* Every key has an outcome.
Decided(w) ==
  /\ worker[w].step = "single"
  /\ \A k \in ClaimedKeys(w) : worker[w].outcome[k] # "none"

(* Mutant: every claimed job is marked, whatever became of its key.          *)
MarkAllSucceeded(w) ==
  /\ Decided(w)
  /\ status' = [j \in Jobs |-> IF j \in worker[w].claimed THEN "succeeded" ELSE status[j]]
  /\ Rest(w)
  /\ UNCHANGED <<attempts, stored, stops>>

MarkSucceeded(w) ==
  /\ Decided(w)
  /\ Succeeded(w) # {}
  /\ status' = [j \in Jobs |-> IF j \in Succeeded(w) THEN "succeeded" ELSE status[j]]
  /\ IF FailedJobs(w) = {} THEN Rest(w) ELSE worker' = [worker EXCEPT ![w].step = "fail"]
  /\ UNCHANGED <<attempts, stored, stops>>

(* Mutant: failures are logged but not marked.                               *)
MarkFailedForgotten(w) ==
  /\ worker[w].step = "fail" \/ (Decided(w) /\ Succeeded(w) = {})
  /\ Rest(w)
  /\ UNCHANGED <<status, attempts, stored, stops>>

(* Mutant: attempts are counted down.                                        *)
MarkFailedCountingDown(w) ==
  /\ worker[w].step = "fail" \/ (Decided(w) /\ Succeeded(w) = {})
  /\ status' = [j \in Jobs |-> IF j \in FailedJobs(w) THEN "delayed" ELSE status[j]]
  /\ attempts' = [j \in Jobs |->
                    IF j \in FailedJobs(w) THEN attempts[j] - 1 ELSE attempts[j]]
  /\ Rest(w)
  /\ UNCHANGED <<stored, stops>>

MarkFailed(w) ==
  /\ worker[w].step = "fail" \/ (Decided(w) /\ Succeeded(w) = {})
  /\ status' = [j \in Jobs |->
                  IF j \notin FailedJobs(w) THEN status[j]
                  ELSE IF Terminal(worker[w].seen[j]) THEN "failed" ELSE "delayed"]
  /\ attempts' = [j \in Jobs |->
                    IF j \in FailedJobs(w) THEN attempts[j] + 1 ELSE attempts[j]]
  /\ Rest(w)
  /\ UNCHANGED <<stored, stops>>

\* The signal is found aborted, a mark throws, or the process dies: the
\* claimed jobs stay locked until the deadline.
Stop(w) ==
  /\ stops < MaxStops
  /\ stops' = stops + 1
  /\ worker[w].step # "idle"
  /\ Rest(w)
  /\ UNCHANGED <<status, attempts, stored>>

-----------------------------------------------------------------------------
Process(w) ==
  \/ ClaimObjectDeletions(w)
  \/ DeleteBatch(w)
  \/ \E k \in Keys : DeleteOne(w, k)
  \/ MarkSucceeded(w)
  \/ MarkFailed(w)

Next ==
  \/ \E j \in Jobs : Enqueue(j) \/ LockExpires(j) \/ RetryDue(j)
  \/ \E k \in Keys : DeleteAtOnce(k)
  \/ \E w \in Workers : Process(w) \/ Stop(w)

Spec == Init /\ [][Next]_vars

\* The worker is polled for as long as jobs remain, its awaits settle, and
\* deadlines pass.
Fairness ==
  /\ \A w \in Workers : WF_vars(Process(w))
  /\ \A j \in Jobs : WF_vars(LockExpires(j)) /\ WF_vars(RetryDue(j))

FairSpec == Spec /\ Fairness

-----------------------------------------------------------------------------
(* Properties *)

\* A job is only ever marked succeeded when its object is gone, although
\* batch answers may be partial, several jobs share a key, workers overlap
\* once a lock has expired, and a worker may die between deleting and marking.
SucceededGone == \A j \in Jobs : status[j] = "succeeded" => KeyOf[j] \notin stored

\* No job is given up before maxAttempts failures have been counted, although
\* the decision is taken from attempts read before the deletions.
TerminalAfterMaxAttempts ==
  \A j \in Jobs : status[j] = "failed" => attempts[j] >= MaxAttempts

\* Every job is eventually settled for good, although late marks of workers
\* that lost their lock can reopen it.
Settled(j) == status[j] \in {"succeeded", "failed"}

JobsSettle == \A j \in Jobs : status[j] # "absent" ~> []Settled(j)
=============================================================================
