------------------------ MODULE UploadLifecycle_proofs ------------------------
(***************************************************************************)
(* Theorems about UploadLifecycle, for every set of uploads, requests and  *)
(* variants, among them that it implements UploadContract.                 *)
(***************************************************************************)
EXTENDS UploadRefinement, TLAPS

-----------------------------------------------------------------------------
(* The repository operations *)

\* The two writes of a cleanup together.
Cleaned(row) == Deleted(SessionEnded(row))

\* Every repository operation turns rows into rows.
LEMMA RowOperationsTyped ==
  ASSUME NEW row \in Row, NEW vs \in SUBSET Variants
  PROVE  /\ NoRow \in Row /\ PendingRow \in Row
         /\ Claimed(row) \in Row /\ Completed(row, vs) \in Row
         /\ Failed(row) \in Row /\ Released(row) \in Row
         /\ Expired(row) \in Row /\ Cancelled(row) \in Row /\ Deleted(row) \in Row
         /\ SessionEnded(row) \in Row /\ Cleaned(row) \in Row
BY DEF Row, SessionStatus, AssetStatus, NoRow, PendingRow, Claimed, Completed,
       Failed, Released, Expired, Cancelled, Deleted, Cleaned, SessionEnded, Moved

\* Only releaseUploadClaim makes an existing upload claimable again.
LEMMA RowOperationsNotClaimable ==
  ASSUME NEW row \in Row, NEW vs \in SUBSET Variants, ~Claimable(row)
  PROVE  /\ ~Claimable(Claimed(row)) /\ ~Claimable(Completed(row, vs))
         /\ ~Claimable(Failed(row)) /\ ~Claimable(Expired(row))
         /\ ~Claimable(Cancelled(row)) /\ ~Claimable(Deleted(row))
         /\ ~Claimable(SessionEnded(row)) /\ ~Claimable(Cleaned(row))
BY DEF Row, Claimable, Claimed, Completed, Failed, Expired, Cancelled, Deleted,
       Cleaned, SessionEnded, Moved

-----------------------------------------------------------------------------
(* Type correctness *)

LEMMA InitTyped == Init => TypeOK
BY DEF Init, TypeOK, Row, SessionStatus, AssetStatus, NoRow

\* The values a request record takes.
LEMMA CallTyped ==
  ASSUME TypeOK, NEW r \in Requests, ~At(r, "idle")
  PROVE  /\ req[r] \in Call
         /\ req[r].upload \in Uploads
         /\ Current(r) \in Row
         /\ PushedKeys(r) \subseteq Key
         /\ SeenKeys(r) \subseteq Key
         /\ OriginalKey(req[r].upload) \in Key
<1>1. req[r] \in Call
  BY DEF TypeOK, At, Idle
<1>2. req[r].upload \in Uploads /\ Current(r) \in Row
  BY <1>1 DEF TypeOK, Call, Current
<1>3. req[r].pushed \subseteq Variants /\ req[r].seen.variants \subseteq Variants
  BY <1>1 DEF Call, Row
<1>4. QED
  BY <1>1, <1>2, <1>3 DEF PushedKeys, SeenKeys, VariantKeys, OriginalKey, Key

\* How the request variable changes.
LEMMA RequestUpdatesTyped ==
  ASSUME TypeOK, NEW r \in Requests
  PROVE  /\ Finish(r) => req' \in [Requests -> Call \cup {Idle}]
         /\ ~At(r, "idle") =>
              /\ \A step \in Steps : Goto(r, step) => req' \in [Requests -> Call \cup {Idle}]
              /\ \A error \in {"retryable", "terminal"} :
                   Raise(r, error) => req' \in [Requests -> Call \cup {Idle}]
         /\ \A u \in Uploads, step \in Steps, seen \in Row :
              Begin(r, u, step, seen) => req' \in [Requests -> Call \cup {Idle}]
<1>1. Finish(r) => req' \in [Requests -> Call \cup {Idle}]
  BY DEF TypeOK, Finish
<1>2. ASSUME ~At(r, "idle"), NEW step \in Steps, Goto(r, step)
      PROVE  req' \in [Requests -> Call \cup {Idle}]
  <2>1. [req[r] EXCEPT !.step = step] \in Call
    BY <1>2, CallTyped DEF Call
  <2>2. QED
    BY <1>2, <2>1 DEF TypeOK, Goto
<1>3. ASSUME ~At(r, "idle"), NEW error \in {"retryable", "terminal"}, Raise(r, error)
      PROVE  req' \in [Requests -> Call \cup {Idle}]
  <2>1. CatchStep(req[r].pushed) \in Steps
    BY ModeAssumption DEF CatchStep, Steps
  <2>2. [req[r] EXCEPT !.step = CatchStep(req[r].pushed), !.error = error] \in Call
    BY <1>3, <2>1, CallTyped DEF Call
  <2>3. QED
    BY <1>3, <2>2 DEF TypeOK, Raise
<1>4. ASSUME NEW u \in Uploads, NEW step \in Steps, NEW seen \in Row, Begin(r, u, step, seen)
      PROVE  req' \in [Requests -> Call \cup {Idle}]
  BY <1>4 DEF TypeOK, Begin, Call
<1>5. QED
  BY <1>1, <1>2, <1>3, <1>4

\* What the updates of a request do to its fields, and to other requests.
LEMMA RequestFields ==
  ASSUME TypeOK, NEW r \in Requests, ~At(r, "idle")
  PROVE  /\ Finish(r) => req'[r] = Idle
         /\ \A step : Goto(r, step) =>
              /\ req'[r].step = step
              /\ req'[r].upload = req[r].upload
              /\ req'[r].seen = req[r].seen
              /\ req'[r].pushed = req[r].pushed
              /\ req'[r].error = req[r].error
         /\ \A error : Raise(r, error) =>
              /\ req'[r].step = CatchStep(req[r].pushed)
              /\ req'[r].upload = req[r].upload
              /\ req'[r].seen = req[r].seen
              /\ req'[r].pushed = req[r].pushed
              /\ req'[r].error = error
         /\ \A v : StoreVariant(r, v) =>
              /\ req'[r].step = req[r].step
              /\ req'[r].upload = req[r].upload
              /\ req'[r].seen = req[r].seen
              /\ req'[r].pushed = req[r].pushed \cup {v}
              /\ req'[r].error = req[r].error
<1>1. req \in [Requests -> Call \cup {Idle}] /\ req[r] \in Call
  BY CallTyped DEF TypeOK
<1>2. ASSUME NEW step, Goto(r, step)
      PROVE  /\ req'[r].step = step
             /\ req'[r].upload = req[r].upload
             /\ req'[r].seen = req[r].seen
             /\ req'[r].pushed = req[r].pushed
             /\ req'[r].error = req[r].error
  BY <1>1, <1>2 DEF Goto, Call
<1>3. ASSUME NEW error, Raise(r, error)
      PROVE  /\ req'[r].step = CatchStep(req[r].pushed)
             /\ req'[r].upload = req[r].upload
             /\ req'[r].seen = req[r].seen
             /\ req'[r].pushed = req[r].pushed
             /\ req'[r].error = error
  <2> DEFINE raised == [req[r] EXCEPT !.step = CatchStep(req[r].pushed)]
  <2>1. /\ DOMAIN raised = {"step", "upload", "seen", "pushed", "error"}
        /\ raised.step = CatchStep(req[r].pushed)
        /\ raised.upload = req[r].upload
        /\ raised.seen = req[r].seen
        /\ raised.pushed = req[r].pushed
    BY <1>1 DEF Call
  <2>2. req'[r] = [raised EXCEPT !.error = error]
    BY <1>1, <1>3 DEF Raise
  <2> HIDE DEF raised
  <2>3. QED
    BY <2>1, <2>2
<1>4. ASSUME NEW v, StoreVariant(r, v)
      PROVE  /\ req'[r].step = req[r].step
             /\ req'[r].upload = req[r].upload
             /\ req'[r].seen = req[r].seen
             /\ req'[r].pushed = req[r].pushed \cup {v}
             /\ req'[r].error = req[r].error
  BY <1>1, <1>4 DEF StoreVariant, Call
<1>5. Finish(r) => req'[r] = Idle
  BY <1>1 DEF Finish
<1>6. QED
  BY <1>2, <1>3, <1>4, <1>5

\* Deleting, storing and enqueueing keys.
LEMMA StorageUpdatesTyped ==
  ASSUME TypeOK, NEW keys \in SUBSET Key
  PROVE  /\ BestEffortDelete(keys) => objects' \subseteq Key
         /\ Enqueue(keys) => jobs' \subseteq Key
BY DEF TypeOK, BestEffortDelete, Enqueue

\* A write to the rows of the upload of a call in flight.
LEMMA WriteTyped ==
  ASSUME TypeOK, NEW r \in Requests, ~At(r, "idle"), NEW row \in Row, Write(r, row)
  PROVE  rows' \in [Uploads -> Row]
BY CallTyped DEF TypeOK, Write

LEMMA StartTyped ==
  ASSUME TypeOK, NEW r \in Requests, NEW u \in Uploads, Start(r, u)
  PROVE  TypeOK'
<1>1. rows[u] \in Row /\ NoRow \in Row /\ PendingRow \in Row
  BY DEF TypeOK, Row, NoRow, PendingRow, SessionStatus, AssetStatus
<1>2. CASE CreatePendingUpload(r, u)
  BY <1>1, <1>2, RequestUpdatesTyped DEF CreatePendingUpload, TypeOK, ledger, Steps
<1>3. CASE StartComplete(r, u)
  BY <1>1, <1>3, RequestUpdatesTyped DEF StartComplete, TypeOK, ledger, Steps
<1>4. CASE StartCancel(r, u)
  BY <1>1, <1>4, RequestUpdatesTyped DEF StartCancel, TypeOK, ledger, Steps
<1>5. CASE StartDelete(r, u)
  BY <1>1, <1>5, RequestUpdatesTyped DEF StartDelete, TypeOK, ledger, Steps
<1>6. CASE PlanCleanup(r, u)
  BY <1>1, <1>6, RequestUpdatesTyped DEF PlanCleanup, TypeOK, ledger, Steps
<1>7. QED
  BY <1>2, <1>3, <1>4, <1>5, <1>6 DEF Start

\* A call in flight is at one of the steps of the code.
LEMMA InFlight ==
  ASSUME TypeOK, NEW r \in Requests, Resume(r)
  PROVE  ~At(r, "idle")
BY DEF Resume, At, ReturnTarget, TargetFails, AbandonIntent, LeaveUnclaimed,
       FindExpired, ExpireUpload, GoClaim, Claim, ClaimRefused, LoadSource,
       ProcessingFails, StoreVariant, StoreVariantUnrecorded, Commit,
       CommitWrite, CommitRefused, CommitReplyLost, EnqueueSweep, Sweep,
       Release, Fail, Discard, CancelUpload, MarkAssetDeleted, Purge,
       CleanObjects, MarkCleaned, MarkSessionExpired, MarkAssetCleaned, PolicyDenies, WriteFails

\* A step of a call leaves the other calls alone.
LEMMA OthersUnmoved ==
  ASSUME TypeOK, NEW r \in Requests, Resume(r)
  PROVE  \A r2 \in Requests \ {r} : req'[r2] = req[r2]
BY DEF TypeOK, Resume, ReturnTarget, TargetFails, AbandonIntent, LeaveUnclaimed,
       FindExpired, ExpireUpload, GoClaim, Claim, ClaimRefused, LoadSource,
       ProcessingFails, StoreVariant, StoreVariantUnrecorded, Commit,
       CommitRefused, CommitReplyLost, EnqueueSweep, Sweep, Release,
       Fail, AfterFailure, Discard, CancelUpload, MarkAssetDeleted, Purge,
       CleanObjects, MarkCleaned, MarkSessionExpired, MarkAssetCleaned, PolicyDenies, WriteFails, Finish, Goto, Raise

LEMMA ResumeTyped ==
  ASSUME TypeOK, NEW r \in Requests, Resume(r)
  PROVE  TypeOK'
<1> DEFINE u == req[r].upload
<1> USE RequestUpdatesTyped
<1>1. ~At(r, "idle")
  BY InFlight
<1>2. /\ req[r] \in Call /\ u \in Uploads /\ Current(r) \in Row
      /\ PushedKeys(r) \subseteq Key /\ SeenKeys(r) \subseteq Key
      /\ {OriginalKey(u)} \subseteq Key /\ req[r].pushed \in SUBSET Variants
  BY <1>1, CallTyped DEF Call
<1>3. /\ Claimed(Current(r)) \in Row /\ Failed(Current(r)) \in Row
      /\ Completed(Current(r), req[r].pushed) \in Row
      /\ Released(Current(r)) \in Row /\ Expired(Current(r)) \in Row
      /\ Cancelled(Current(r)) \in Row /\ Deleted(Current(r)) \in Row
      /\ Cleaned(Current(r)) \in Row /\ SessionEnded(Current(r)) \in Row
  BY <1>2, RowOperationsTyped
<1>4. CASE ReturnTarget(r) \/ TargetFails(r) \/ LeaveUnclaimed(r) \/ FindExpired(r)
           \/ GoClaim(r) \/ ClaimRefused(r) \/ LoadSource(r) \/ PolicyDenies(r)
  BY <1>1, <1>2, <1>4
     DEF TypeOK, ledger, Steps, ReturnTarget, TargetFails, LeaveUnclaimed, FindExpired,
         GoClaim, ClaimRefused, LoadSource, PolicyDenies
<1>5. CASE AbandonIntent(r) \/ ExpireUpload(r) \/ Claim(r) \/ Release(r) \/ Commit(r)
           \/ CommitReplyLost(r) \/ MarkCleaned(r) \/ MarkSessionExpired(r)
           \/ MarkAssetCleaned(r)
  <2>1. rows' \in [Uploads -> Row]
    <3>1. \A row \in CleanedRows(Current(r)) : row \in Row /\ Deleted(row) \in Row
      BY <1>2, <1>3 DEF CleanedRows, Cleaned
    <3>2. QED
      BY <1>1, <1>3, <1>5, <3>1, WriteTyped
         DEF AbandonIntent, ExpireUpload, Claim, Release, Commit, CommitReplyLost, CommitWrite,
             MarkCleaned, MarkSessionExpired, MarkAssetCleaned
  <2>2. req' \in [Requests -> Call \cup {Idle}]
    BY <1>1, <1>5
       DEF AbandonIntent, ExpireUpload, Claim, Release, Commit, CommitReplyLost,
           MarkCleaned, MarkSessionExpired, MarkAssetCleaned, Steps
  <2>3. QED
    BY <1>5, <2>1, <2>2
       DEF TypeOK, ledger, AbandonIntent, ExpireUpload, Claim, Release, Commit, CommitReplyLost,
           MarkCleaned, MarkSessionExpired, MarkAssetCleaned
<1>6. CASE ProcessingFails(r) \/ CommitRefused(r)
  BY <1>1, <1>6 DEF TypeOK, ledger, ProcessingFails, CommitRefused
<1>7. ASSUME NEW v \in Variants, StoreVariant(r, v) \/ StoreVariantUnrecorded(r, v)
      PROVE  TypeOK'
  <2>1. objects' \subseteq Key
    BY <1>2, <1>7
       DEF TypeOK, ledger, StoreVariant, StoreVariantUnrecorded, VariantKeys, Key
  <2>2. req' \in [Requests -> Call \cup {Idle}]
    <3>1. CASE StoreVariantUnrecorded(r, v)
      BY <1>1, <3>1 DEF StoreVariantUnrecorded
    <3>2. CASE StoreVariant(r, v)
      <4>1. [req[r] EXCEPT !.pushed = @ \cup {v}] \in Call
        BY <1>2 DEF Call
      <4>2. QED
        BY <3>2, <4>1 DEF TypeOK, StoreVariant
    <3>3. QED
      BY <1>7, <3>1, <3>2
  <2>3. QED
    BY <1>7, <2>1, <2>2 DEF TypeOK, ledger, StoreVariant, StoreVariantUnrecorded
<1>8. CASE EnqueueSweep(r) \/ Sweep(r) \/ Discard(r) \/ Purge(r)
  <2>1. objects' \subseteq Key /\ jobs' \subseteq Key
    BY <1>2, <1>8, StorageUpdatesTyped
       DEF TypeOK, EnqueueSweep, Sweep, Discard, Purge
  <2>2. QED
    BY <1>1, <1>8, <2>1 DEF TypeOK, ledger, Steps, EnqueueSweep, Sweep, Discard, Purge
<1>9. CASE Fail(r) \/ CancelUpload(r) \/ MarkAssetDeleted(r)
  <2>1. jobs' \subseteq Key
    BY <1>2, <1>9, StorageUpdatesTyped DEF Fail, CancelUpload, MarkAssetDeleted
  <2>2. rows' \in [Uploads -> Row]
    BY <1>1, <1>3, <1>9, WriteTyped DEF Fail, CancelUpload, MarkAssetDeleted
  <2>3. req' \in [Requests -> Call \cup {Idle}]
    BY <1>1, <1>9 DEF Fail, AfterFailure, CancelUpload, MarkAssetDeleted, Steps
  <2>4. QED
    BY <1>9, <2>1, <2>2, <2>3 DEF TypeOK, ledger, Fail, CancelUpload, MarkAssetDeleted
<1>10. CASE WriteFails(r)
  <2>1. req' \in [Requests -> Call \cup {Idle}]
    BY <1>1, <1>10 DEF WriteFails, AfterFailure, Steps
  <2>2. forsaken' \subseteq Uploads
    BY <1>2, <1>10 DEF TypeOK, WriteFails
  <2>3. QED
    BY <1>10, <2>1, <2>2 DEF TypeOK, WriteFails
<1>11. CASE CleanObjects(r)
  <2>1. objects' \subseteq Key
    BY <1>2, <1>11 DEF TypeOK, CleanObjects
  <2>2. QED
    <3>1. orphaned' \subseteq Uploads
      BY <1>2, <1>11 DEF TypeOK, CleanObjects
    <3>2. req' \in [Requests -> Call \cup {Idle}]
      BY <1>1, <1>11 DEF CleanObjects, Steps
    <3>3. QED
      BY <1>11, <2>1, <3>1, <3>2 DEF TypeOK, CleanObjects
<1>12. QED
  BY <1>4, <1>5, <1>6, <1>7, <1>8, <1>9, <1>10, <1>11 DEF Resume

LEMMA NextTyped == TypeOK /\ [Next]_vars => TypeOK'
<1> SUFFICES ASSUME TypeOK, [Next]_vars PROVE TypeOK'
  OBVIOUS
<1>1. CASE \E r \in Requests, u \in Uploads : Start(r, u)
  BY <1>1, StartTyped
<1>2. CASE \E r \in Requests : Resume(r)
  BY <1>2, ResumeTyped
<1>3. CASE \E r \in Requests : Crash(r)
  BY <1>3, RequestUpdatesTyped, CallTyped DEF Crash, TypeOK
<1>4. CASE \E u \in Uploads : ClientPut(u) \/ SessionExpires(u)
  BY <1>4 DEF TypeOK, ledger, ClientPut, SessionExpires, OriginalKey, Key
<1>5. CASE \E key \in jobs : RunDeletionJob(key) \/ GiveUpDeletionJob(key)
  BY <1>5 DEF TypeOK, ledger, RunDeletionJob, GiveUpDeletionJob
<1>6. CASE UNCHANGED vars
  BY <1>6 DEF TypeOK, ledger, vars
<1>7. QED
  BY <1>1, <1>2, <1>3, <1>4, <1>5, <1>6 DEF Next

\* Every reachable state is well typed; in particular every call in flight
\* belongs to an upload, at a step of the code.
THEOREM TypeCorrect == Spec => []TypeOK
BY InitTyped, NextTyped, PTL DEF Spec

-----------------------------------------------------------------------------
(* Exclusive claims.  A held upload is protected: it exists and cannot be    *)
(* claimed.  Every step but two keeps protected rows protected and adds no   *)
(* holder; Claim adds one where there can be none, and Release removes the   *)
(* only one.                                                                 *)

Protected(row) == ~Claimable(row) /\ row.session # "none"

HeldProtected == \A r \in Requests : Holds(r) => Protected(Current(r))

ClaimInv == TypeOK /\ HeldProtected /\ ClaimExclusive

\* The form of a step that cannot disturb ClaimInv.
KeepsClaims ==
  /\ \A u \in Uploads : Protected(rows[u]) => Protected(rows'[u])
  /\ \A r \in Requests : Holds(r)' => Holds(r) /\ req'[r].upload = req[r].upload

LEMMA KeepsClaimsSuffices == ClaimInv /\ TypeOK' /\ KeepsClaims => ClaimInv'
<1> SUFFICES ASSUME ClaimInv, TypeOK', KeepsClaims PROVE ClaimInv'
  OBVIOUS
<1>1. ASSUME NEW r \in Requests, Holds(r)' PROVE Protected(Current(r))'
  <2>1. Holds(r) /\ req'[r].upload = req[r].upload
    BY <1>1 DEF KeepsClaims
  <2>2. req[r].upload \in Uploads
    BY <2>1, CallTyped DEF ClaimInv, Holds, At
  <2>3. Protected(rows[req[r].upload])
    BY <2>1 DEF ClaimInv, HeldProtected, Current
  <2>4. QED
    BY <2>1, <2>2, <2>3 DEF KeepsClaims, Current, Protected, Claimable
<1>2. HeldProtected'
  BY <1>1 DEF HeldProtected
<1>3. ClaimExclusive'
  BY DEF ClaimInv, ClaimExclusive, KeepsClaims
<1>4. QED
  BY <1>2, <1>3 DEF ClaimInv

\* Every repository operation but releaseUploadClaim keeps a row protected.
LEMMA RowOperationsProtect ==
  ASSUME NEW row \in Row, NEW vs \in SUBSET Variants, Protected(row)
  PROVE  /\ Protected(Failed(row)) /\ Protected(Expired(row))
         /\ Protected(Cancelled(row)) /\ Protected(Deleted(row))
         /\ Protected(Completed(row, vs)) 
         /\ Protected(SessionEnded(row)) /\ Protected(Cleaned(row))
BY DEF Row, Protected, Claimable, Failed, Expired, Cancelled, Deleted, Completed,
       Cleaned, SessionEnded, Moved

LEMMA StartKeepsClaims ==
  ASSUME TypeOK, NEW r \in Requests, NEW u \in Uploads, Start(r, u)
  PROVE  KeepsClaims
<1>1. \A w \in Uploads : Protected(rows[w]) => Protected(rows'[w])
  BY DEF TypeOK, Start, CreatePendingUpload, StartComplete, StartCancel, StartDelete, PlanCleanup,
         Protected, NoRow
<1>2. \E step \in {"target", "decide", "cancel", "delete", "clean"} : \E seen : Begin(r, u, step, seen)
  BY DEF Start, CreatePendingUpload, StartComplete, StartCancel, StartDelete, PlanCleanup
<1>3. \A r2 \in Requests : Holds(r2)' => Holds(r2) /\ req'[r2].upload = req[r2].upload
  BY <1>2 DEF TypeOK, Begin, Holds
<1>4. QED
  BY <1>1, <1>3 DEF KeepsClaims

\* The steps of a call other than Claim and Release: a holder moves on under
\* its claim or stops, and nobody else starts to hold.
LEMMA ResumeKeepsClaims ==
  ASSUME TypeOK, NEW r \in Requests, Resume(r), ~Claim(r), ~Release(r)
  PROVE  KeepsClaims
<1>1. ~At(r, "idle")
  BY InFlight
<1>2. req[r] \in Call /\ Current(r) \in Row /\ req[r].pushed \in SUBSET Variants
  BY <1>1, CallTyped DEF Call
<1>3. \A w \in Uploads : Protected(rows[w]) => Protected(rows'[w])
  <2>1. \/ UNCHANGED rows
        \/ \E row \in {Current(r), Failed(Current(r)), Expired(Current(r)), Cancelled(Current(r)),
                       Deleted(Current(r)), Completed(Current(r), req[r].pushed),
                       Cleaned(Current(r)), SessionEnded(Current(r))} :
             Write(r, row)
    BY DEF CleanedRows, Cleaned, Resume, ReturnTarget, TargetFails, AbandonIntent, LeaveUnclaimed,
         FindExpired, ExpireUpload, GoClaim, ClaimRefused, LoadSource,
         ProcessingFails, StoreVariant, StoreVariantUnrecorded, Commit,
         CommitWrite, CommitRefused, CommitReplyLost, EnqueueSweep, Sweep,
         Fail, Discard, CancelUpload, MarkAssetDeleted, Purge,
         CleanObjects, MarkCleaned, MarkSessionExpired, MarkAssetCleaned, PolicyDenies, WriteFails
  <2>2. Protected(Current(r)) =>
          \A row \in {Current(r), Failed(Current(r)), Expired(Current(r)), Cancelled(Current(r)),
                      Deleted(Current(r)), Completed(Current(r), req[r].pushed),
                      Cleaned(Current(r)), SessionEnded(Current(r))} :
            Protected(row)
    BY <1>2, RowOperationsProtect
  <2>3. QED
    BY <2>1, <2>2 DEF TypeOK, Write, Current
<1>4. \A r2 \in Requests \ {r} : req'[r2] = req[r2]
  BY OthersUnmoved
<1>5. Holds(r)' => Holds(r) /\ req'[r].upload = req[r].upload
  <2>1. CASE \/ ReturnTarget(r) \/ TargetFails(r) \/ AbandonIntent(r)
             \/ LeaveUnclaimed(r) \/ FindExpired(r) \/ ExpireUpload(r)
             \/ GoClaim(r) \/ ClaimRefused(r) \/ Commit(r)
             \/ Fail(r) \/ Discard(r) \/ CancelUpload(r) \/ MarkAssetDeleted(r)
             \/ Purge(r) \/ PolicyDenies(r) \/ CleanObjects(r) \/ MarkCleaned(r)
    BY <1>1, <2>1, RequestFields
       DEF ReturnTarget, TargetFails, AbandonIntent, LeaveUnclaimed,
           FindExpired, ExpireUpload, GoClaim, ClaimRefused, Commit, Fail, AfterFailure,
           Discard, CancelUpload, MarkAssetDeleted, Purge, PolicyDenies,
           CleanObjects, MarkCleaned, Holds, At, Idle
  <2>2. CASE \/ LoadSource(r) \/ ProcessingFails(r)
             \/ \E v \in Variants : StoreVariant(r, v) \/ StoreVariantUnrecorded(r, v)
             \/ CommitRefused(r) \/ CommitReplyLost(r) \/ EnqueueSweep(r) \/ Sweep(r)
    BY <1>1, <2>2, RequestFields
       DEF LoadSource, ProcessingFails, StoreVariant, StoreVariantUnrecorded,
           CommitRefused, CommitReplyLost, CommitWrite, EnqueueSweep, Sweep,
           Holds, At
  <2>3. CASE WriteFails(r)
    <3>1. \/ req'[r] = Idle
          \/ At(r, "enqueue") /\ Goto(r, "sweep")
          \/ Goto(r, "discard")
      BY <1>1, <2>3, RequestFields DEF WriteFails, AfterFailure
    <3>2. QED
      BY <1>1, <3>1, RequestFields DEF Holds, At, Idle
  <2>4. CASE MarkSessionExpired(r) \/ MarkAssetCleaned(r)
    <3>1. req'[r] = Idle \/ req'[r].step = "mark_asset"
      BY <1>1, <2>4, RequestFields DEF MarkSessionExpired, MarkAssetCleaned
    <3>2. QED
      BY <3>1 DEF Holds, Idle
  <2>5. QED
    BY <1>1, <2>1, <2>2, <2>3, <2>4 DEF Resume
<1>6. QED
  BY <1>3, <1>4, <1>5 DEF KeepsClaims, Holds

\* A claimed row is not claimable again.
LEMMA ClaimProtects ==
  ASSUME NEW row \in Row PROVE Protected(Claimed(row))
  BY DEF Protected, Claimable, Claimed, Row

\* A successful claim finds the upload claimable, hence unheld.
LEMMA ClaimKeepsClaimInv ==
  ASSUME ClaimInv, NEW r \in Requests, Claim(r), TypeOK'
  PROVE  ClaimInv'
<1> DEFINE u == req[r].upload
<1>1. u \in Uploads /\ Current(r) \in Row
  BY CallTyped DEF ClaimInv, Claim, At
<1>2. \A r2 \in Requests : Holds(r2) => req[r2].upload # u
  BY DEF ClaimInv, HeldProtected, Protected, Current, Claim
<1>3. /\ rows' = [rows EXCEPT ![u] = Claimed(Current(r))]
      /\ \A r2 \in Requests : req'[r2].upload = req[r2].upload
      /\ \A r2 \in Requests \ {r} : req'[r2] = req[r2]
  BY DEF Claim, Write, Goto, ClaimInv, TypeOK
<1>4. Protected(Claimed(Current(r)))
  BY <1>1, ClaimProtects
<1>5. HeldProtected'
  BY <1>1, <1>2, <1>3, <1>4 DEF HeldProtected, Current, Holds, ClaimInv, TypeOK, Protected, Claimable
<1>6. ClaimExclusive'
  BY <1>2, <1>3 DEF ClaimExclusive, Holds, ClaimInv
<1>7. QED
  BY <1>5, <1>6 DEF ClaimInv

\* A release makes the upload claimable, and ends the only claim on it.
LEMMA ReleaseKeepsClaimInv ==
  ASSUME ClaimInv, NEW r \in Requests, Release(r), TypeOK'
  PROVE  ClaimInv'
<1> DEFINE u == req[r].upload
<1>1. Holds(r) /\ u \in Uploads
  BY CallTyped DEF ClaimInv, Release, At, Holds
<1>2. /\ \A w \in Uploads \ {u} : rows'[w] = rows[w]
      /\ ~Holds(r)'
      /\ \A r2 \in Requests \ {r} : req'[r2] = req[r2]
  BY DEF Release, Write, Finish, Idle, Holds, ClaimInv, TypeOK
<1>3. \A r2 \in Requests \ {r} : Holds(r2) => req[r2].upload \in Uploads \ {u}
  BY <1>1, CallTyped DEF ClaimInv, ClaimExclusive, Holds, At
<1>4. HeldProtected'
  BY <1>2, <1>3 DEF HeldProtected, Current, Holds, ClaimInv, Protected, Claimable
<1>5. ClaimExclusive'
  BY <1>2 DEF ClaimExclusive, Holds, ClaimInv
<1>6. QED
  BY <1>4, <1>5 DEF ClaimInv

LEMMA NextKeepsClaimInv == ClaimInv /\ [Next]_vars => ClaimInv'
<1> SUFFICES ASSUME ClaimInv, [Next]_vars PROVE ClaimInv'
  OBVIOUS
<1>1. TypeOK /\ TypeOK'
  BY NextTyped DEF ClaimInv
<1>2. CASE \E r \in Requests, u \in Uploads : Start(r, u)
  BY <1>1, <1>2, StartKeepsClaims, KeepsClaimsSuffices
<1>3. CASE \E r \in Requests : Resume(r)
  BY <1>1, <1>3, ResumeKeepsClaims, KeepsClaimsSuffices, ClaimKeepsClaimInv,
     ReleaseKeepsClaimInv
<1>4. CASE \E r \in Requests : Crash(r)
  <2>1. KeepsClaims
    BY <1>1, <1>4 DEF KeepsClaims, Crash, Finish, Idle, Holds, TypeOK
  <2>2. QED
    BY <1>1, <2>1, KeepsClaimsSuffices
<1>5. CASE \/ \E u \in Uploads : ClientPut(u) \/ SessionExpires(u)
           \/ \E key \in jobs : RunDeletionJob(key) \/ GiveUpDeletionJob(key)
           \/ UNCHANGED vars
  <2>1. UNCHANGED <<rows, req>>
    BY <1>5 DEF ClientPut, SessionExpires, RunDeletionJob, GiveUpDeletionJob, vars
  <2>2. QED
    BY <1>1, <2>1, KeepsClaimsSuffices DEF KeepsClaims, Holds
<1>6. QED
  BY <1>2, <1>3, <1>4, <1>5 DEF Next

\* At most one live call of completeUpload processes an upload, whatever the
\* repository guards, the mode, the faults and the other workflows.
THEOREM ClaimsAreExclusive == Spec => []ClaimExclusive
<1>1. Init => ClaimInv
  BY InitTyped DEF Init, ClaimInv, HeldProtected, ClaimExclusive, Holds, Idle
<1>2. ClaimInv => ClaimExclusive
  BY DEF ClaimInv
<1>3. QED
  BY <1>1, <1>2, NextKeepsClaimInv, PTL DEF Spec

-----------------------------------------------------------------------------
(* What a step may do to the rows, to a call, to the objects and to the      *)
(* outbox.  The invariants below are proved from these four facts rather     *)
(* than action by action.                                                    *)

\* The write request r makes while it is suspended at its current await.
RowMoves(r) ==
  \/ /\ At(r, "claim") /\ Claimable(Current(r))
     /\ Write(r, Claimed(Current(r)))
     /\ At(r, "load")'
  \/ /\ At(r, "store") /\ req[r].pushed = Variants /\ Completable(Current(r))
     /\ Write(r, Completed(Current(r), Variants))
     /\ req'[r] = Idle \/ "lost_reply" \in Faults
  \/ /\ At(r, "settle") /\ Releases(r)
     /\ Write(r, Released(Current(r)))
     /\ req'[r] = Idle
  \/ /\ At(r, "settle") /\ ~Releases(r)
     /\ Write(r, Failed(Current(r)))
     /\ Enqueue(IF req[r].error = "terminal" THEN {OriginalKey(req[r].upload)} ELSE {})
     /\ ~Holds(r)'
  \/ At(r, "abandon") /\ Write(r, Failed(Current(r))) /\ req'[r] = Idle
  \/ At(r, "expire") /\ Write(r, Expired(Current(r))) /\ req'[r] = Idle
  \/ /\ At(r, "cancel") /\ Write(r, Cancelled(Current(r)))
     /\ Enqueue({OriginalKey(req[r].upload)})
     /\ At(r, "discard")'
  \/ /\ At(r, "delete") /\ Write(r, Deleted(Current(r)))
     /\ Enqueue(SeenKeys(r))
     /\ At(r, "purge")'
  \/ /\ At(r, "mark")
     /\ \E row \in {Deleted(Current(r)), Cleaned(Current(r))} : Write(r, row)
     /\ req'[r] = Idle
  \/ At(r, "mark") /\ Write(r, SessionEnded(Current(r))) /\ At(r, "mark_asset")'
  \/ At(r, "mark_asset") /\ Write(r, Deleted(Current(r))) /\ req'[r] = Idle

\* How a call in flight goes on: the await it moves to, and what it has
\* recorded by then.
CallMoves(r) ==
  /\ req'[r].upload = req[r].upload
  /\ req'[r].seen = req[r].seen
  /\ \/ At(r, "store") /\ At(r, "store")'
     \/ req'[r].pushed = req[r].pushed
  /\ \/ At(r, "target") /\ At(r, "abandon")'
     \/ At(r, "decide") /\ req'[r].step \in {"expire", "claim"}
     \/ At(r, "claim") /\ At(r, "load")' /\ Claimable(Current(r)) /\ Write(r, Claimed(Current(r)))
     \/ At(r, "load") /\ At(r, "store")'
     \/ /\ At(r, "store") /\ At(r, "store")'
        /\ \E v \in Variants : /\ req'[r].pushed = req[r].pushed \cup {v}
                               /\ objects' = objects \cup VariantKeys(req[r].upload, {v})
     \/ /\ At(r, "load") \/ At(r, "store")
        /\ req'[r].step = CatchStep(req[r].pushed)
        /\ req'[r].error \in {"retryable", "terminal"}
     \/ At(r, "enqueue") /\ At(r, "sweep")' /\ req'[r].error = req[r].error
     \/ At(r, "sweep") /\ At(r, "settle")' /\ req'[r].error = req[r].error
     \/ (At(r, "settle") \/ At(r, "cancel")) /\ At(r, "discard")'
     \/ At(r, "delete") /\ At(r, "purge")' /\ Write(r, Deleted(Current(r)))
     \/ At(r, "clean") /\ At(r, "mark")' /\ objects' = objects \ SeenKeys(r)
     \/ At(r, "mark") /\ At(r, "mark_asset")' /\ objects' = objects

\* The keys request r may delete at its current await.
Deleting(r) ==
  CASE At(r, "sweep") -> PushedKeys(r)
    [] At(r, "discard") -> {OriginalKey(req[r].upload)}
    [] req[r].step \in {"purge", "clean"} -> SeenKeys(r)
    [] OTHER -> {}

\* A cleanup that deletes objects of a ready asset leaves a record of it.
Recorded(r) ==
  At(r, "clean") /\ req[r].seen.asset = "ready" => req[r].upload \in orphaned'

\* The objects and jobs after a step of request r.
StorageMoves(r) ==
  /\ \A key \in objects \ objects' : key \in Deleting(r) /\ Recorded(r)
  /\ \A key \in objects' \ objects :
       At(r, "store") /\ \E v \in Variants : key = <<req[r].upload, v>>
  /\ jobs \subseteq jobs'
  /\ ~OutboxMode => jobs' = jobs
  /\ givenUp' = givenUp /\ orphaned \subseteq orphaned'

\* No step of a call writes rows but as RowMoves says.
LEMMA ResumeRows ==
  ASSUME TypeOK, NEW r \in Requests, Resume(r)
  PROVE  UNCHANGED rows \/ RowMoves(r)
<1>1. ~At(r, "idle")
  BY InFlight
<1>2. CASE \/ Claim(r) \/ Release(r) \/ AbandonIntent(r) \/ ExpireUpload(r)
           \/ MarkCleaned(r) \/ MarkAssetCleaned(r)
  BY <1>1, <1>2, RequestFields
     DEF RowMoves, At, Claim, Release, AbandonIntent, ExpireUpload, MarkCleaned, MarkAssetCleaned,
         CleanedRows, Cleaned
<1>3. CASE Commit(r) \/ CommitReplyLost(r)
  BY <1>1, <1>3, RequestFields DEF RowMoves, Commit, CommitReplyLost, CommitWrite
<1>4. CASE Fail(r)
  <2>1. ~Holds(r)'
    BY <1>1, <1>4, RequestFields DEF Fail, AfterFailure, Holds, Idle
  <2>2. QED
    BY <1>4, <2>1 DEF RowMoves, Fail
<1>5. CASE CancelUpload(r) \/ MarkAssetDeleted(r)
  BY <1>1, <1>5, RequestFields DEF RowMoves, CancelUpload, MarkAssetDeleted, At
<1>6. CASE MarkSessionExpired(r)
  <2>1. CASE Write(r, Current(r))
    BY <1>1, <2>1, CallTyped DEF Write, Current, TypeOK
  <2>2. CASE Write(r, SessionEnded(Current(r)))
    BY <1>1, <1>6, <2>2, RequestFields DEF RowMoves, MarkSessionExpired, At
  <2>3. QED
    BY <1>6, <2>1, <2>2 DEF MarkSessionExpired, CleanedRows
<1>7. QED
  BY <1>2, <1>3, <1>4, <1>5, <1>6
     DEF Resume, ReturnTarget, TargetFails, LeaveUnclaimed,
         FindExpired, GoClaim, ClaimRefused, LoadSource,
         ProcessingFails, StoreVariant, StoreVariantUnrecorded,
         CommitRefused, EnqueueSweep, Sweep, Discard, Purge,
         CleanObjects, PolicyDenies, WriteFails

\* A step of a call ends it or moves it on as CallMoves says.
LEMMA ResumeCall ==
  ASSUME TypeOK, NEW r \in Requests, Resume(r)
  PROVE  req'[r] = Idle \/ CallMoves(r)
<1>1. ~At(r, "idle")
  BY InFlight
<1>2. CASE \/ ReturnTarget(r) \/ AbandonIntent(r) \/ LeaveUnclaimed(r) \/ ExpireUpload(r)
           \/ ClaimRefused(r) \/ Commit(r) \/ Release(r) \/ Discard(r) \/ Purge(r)
           \/ MarkCleaned(r) \/ MarkAssetCleaned(r) \/ PolicyDenies(r)
  BY <1>1, <1>2, RequestFields
     DEF ReturnTarget, AbandonIntent, LeaveUnclaimed, ExpireUpload, ClaimRefused, Commit,
         Release, Discard, Purge, MarkCleaned, MarkAssetCleaned, PolicyDenies
<1>3. CASE TargetFails(r) \/ FindExpired(r) \/ GoClaim(r) \/ LoadSource(r)
  BY <1>1, <1>3, RequestFields DEF CallMoves, At, TargetFails, FindExpired, GoClaim, LoadSource
<1>4. CASE Claim(r) \/ EnqueueSweep(r) \/ Sweep(r)
  BY <1>1, <1>4, RequestFields DEF CallMoves, At, Claim, EnqueueSweep, Sweep
<1>5. CASE CancelUpload(r) \/ MarkAssetDeleted(r) \/ CleanObjects(r) \/ MarkSessionExpired(r)
  <2>1. CASE CancelUpload(r) \/ MarkAssetDeleted(r)
    BY <1>1, <2>1, RequestFields DEF CallMoves, At, CancelUpload, MarkAssetDeleted
  <2>2. CASE CleanObjects(r)
    BY <1>1, <2>2, RequestFields DEF CallMoves, At, CleanObjects
  <2>3. CASE MarkSessionExpired(r)
    BY <1>1, <2>3, RequestFields DEF CallMoves, At, MarkSessionExpired
  <2>4. QED
    BY <1>5, <2>1, <2>2, <2>3
<1>6. CASE \/ ProcessingFails(r) \/ CommitRefused(r) \/ CommitReplyLost(r)
           \/ \E v \in Variants : StoreVariantUnrecorded(r, v)
  BY <1>1, <1>6, RequestFields
     DEF CallMoves, At, ProcessingFails, CommitRefused, CommitReplyLost, CommitWrite,
         StoreVariantUnrecorded
<1>7. ASSUME NEW v \in Variants, StoreVariant(r, v) PROVE CallMoves(r)
  BY <1>1, <1>7, RequestFields DEF CallMoves, At, StoreVariant
<1>8. CASE Fail(r)
  BY <1>1, <1>8, RequestFields DEF CallMoves, At, Fail, AfterFailure
<1>9. CASE WriteFails(r)
  BY <1>1, <1>9, RequestFields DEF CallMoves, At, WriteFails, AfterFailure
<1>10. QED
  BY <1>2, <1>3, <1>4, <1>5, <1>6, <1>7, <1>8, <1>9 DEF Resume

\* A step of a call touches objects and jobs as StorageMoves says.
LEMMA ResumeStorage ==
  ASSUME TypeOK, NEW r \in Requests, Resume(r)
  PROVE  StorageMoves(r)
<1>1. ~At(r, "idle")
  BY InFlight
<1>2. ASSUME NEW keys, Enqueue(keys) PROVE jobs \subseteq jobs' /\ (~OutboxMode => jobs' = jobs)
  BY <1>2 DEF Enqueue
<1>3. ASSUME NEW keys, BestEffortDelete(keys)
      PROVE  objects' \subseteq objects /\ objects \ objects' \subseteq keys
  BY <1>3 DEF BestEffortDelete
<1>4. CASE EnqueueSweep(r) \/ Fail(r) \/ CancelUpload(r) \/ MarkAssetDeleted(r)
  <2>1. objects' = objects
    BY <1>4 DEF EnqueueSweep, Fail, CancelUpload, MarkAssetDeleted
  <2>2. \E keys : Enqueue(keys)
    BY <1>4 DEF EnqueueSweep, Fail, CancelUpload, MarkAssetDeleted
  <2>3. givenUp' = givenUp /\ orphaned' = orphaned
    BY <1>4 DEF EnqueueSweep, Fail, CancelUpload, MarkAssetDeleted, ledger
  <2>4. QED
    BY <1>2, <2>1, <2>2, <2>3 DEF StorageMoves
<1>5. CASE Sweep(r) \/ Discard(r) \/ Purge(r)
  <2>1. BestEffortDelete(Deleting(r)) /\ jobs' = jobs /\ ~At(r, "clean")
    BY <1>5 DEF Deleting, At, Sweep, Discard, Purge
  <2>2. givenUp' = givenUp /\ orphaned' = orphaned
    BY <1>5 DEF Sweep, Discard, Purge, ledger
  <2>3. QED
    BY <1>3, <2>1, <2>2 DEF StorageMoves, Recorded
<1>6. CASE CleanObjects(r)
  <2>1. jobs' = jobs /\ Deleting(r) = SeenKeys(r)
    BY <1>6 DEF CleanObjects, Deleting, At
  <2>2. objects' \subseteq objects /\ objects \ objects' \subseteq SeenKeys(r)
    BY <1>6 DEF CleanObjects
  <2>3. givenUp' = givenUp /\ orphaned \subseteq orphaned' /\ Recorded(r)
    BY <1>6 DEF CleanObjects, Recorded
  <2>4. QED
    BY <2>1, <2>2, <2>3 DEF StorageMoves
<1>7. ASSUME NEW v \in Variants, StoreVariant(r, v) \/ StoreVariantUnrecorded(r, v)
      PROVE  StorageMoves(r)
  <2>1. jobs' = jobs /\ At(r, "store") /\ objects' = objects \cup {<<req[r].upload, v>>}
    BY <1>7 DEF StoreVariant, StoreVariantUnrecorded, VariantKeys
  <2>2. givenUp' = givenUp /\ orphaned' = orphaned
    BY <1>7 DEF StoreVariant, StoreVariantUnrecorded, ledger
  <2>3. QED
    BY <2>1, <2>2 DEF StorageMoves
<1>8. CASE UNCHANGED <<objects, jobs, givenUp, orphaned>>
  BY <1>8 DEF StorageMoves
<1>9. QED
  BY <1>4, <1>5, <1>6, <1>7, <1>8
     DEF Resume, ReturnTarget, TargetFails, AbandonIntent, LeaveUnclaimed,
         FindExpired, ExpireUpload, GoClaim, Claim, ClaimRefused, LoadSource,
         ProcessingFails, Commit, CommitRefused, CommitReplyLost, Release,
         MarkCleaned, MarkSessionExpired, MarkAssetCleaned, PolicyDenies, WriteFails, ledger

\* The call a free slot takes, and why it may.
StartMoves(r, u) ==
  /\ At(r, "idle")
  /\ req'[r].upload = u /\ req'[r].pushed = {} /\ req'[r].error = "none"
  /\ \/ /\ At(r, "target")' /\ rows[u] = NoRow
        /\ rows' = [rows EXCEPT ![u] = PendingRow]
     \/ /\ UNCHANGED rows /\ req'[r].seen = rows[u]
        /\ \/ At(r, "decide")' /\ u \in targets
           \/ At(r, "cancel")' /\ "cancel" \in Calls /\ u \in targets /\ Claimable(rows[u])
           \/ At(r, "delete")' /\ rows[u].asset \notin {"none", "deleted"}
           \/ At(r, "clean")' /\ Stale(u)

LEMMA StartCall ==
  ASSUME TypeOK, NEW r \in Requests, NEW u \in Uploads, Start(r, u)
  PROVE  /\ StartMoves(r, u)
         /\ \A r2 \in Requests \ {r} : req'[r2] = req[r2]
         /\ UNCHANGED <<expired, targets, objects, jobs, ledger>>
<1>1. ASSUME NEW step, NEW seen, Begin(r, u, step, seen)
      PROVE  /\ At(r, "idle") /\ At(r, step)'
             /\ req'[r].upload = u /\ req'[r].pushed = {} /\ req'[r].error = "none"
             /\ req'[r].seen = seen
             /\ \A r2 \in Requests \ {r} : req'[r2] = req[r2]
  BY <1>1 DEF Begin, At, TypeOK
<1>2. CASE CreatePendingUpload(r, u)
  BY <1>1, <1>2 DEF StartMoves, CreatePendingUpload
<1>3. CASE StartComplete(r, u) \/ StartCancel(r, u)
  BY <1>1, <1>3 DEF StartMoves, StartComplete, StartCancel
<1>4. CASE StartDelete(r, u) \/ PlanCleanup(r, u)
  BY <1>1, <1>4 DEF StartMoves, StartDelete, PlanCleanup
<1>5. QED
  BY <1>2, <1>3, <1>4 DEF Start

\* A row stays, is inserted, or is written by a call in flight.
LEMMA RowsMove ==
  ASSUME TypeOK, [Next]_vars, NEW u \in Uploads
  PROVE  \/ rows'[u] = rows[u]
         \/ rows[u] = NoRow /\ rows'[u] = PendingRow
         \/ \E r \in Requests : Resume(r) /\ RowMoves(r) /\ req[r].upload = u
<1>1. ASSUME NEW r \in Requests, NEW w \in Uploads, Start(r, w)
      PROVE  rows'[u] = rows[u] \/ (rows[u] = NoRow /\ rows'[u] = PendingRow)
  BY <1>1, StartCall DEF StartMoves, TypeOK
<1>2. ASSUME NEW r \in Requests, Resume(r)
      PROVE  rows'[u] = rows[u] \/ (RowMoves(r) /\ req[r].upload = u)
  BY <1>2, ResumeRows DEF RowMoves, Write, TypeOK
<1>3. CASE \/ \E r \in Requests : Crash(r)
           \/ \E w \in Uploads : ClientPut(w) \/ SessionExpires(w)
           \/ \E key \in jobs : RunDeletionJob(key) \/ GiveUpDeletionJob(key)
           \/ UNCHANGED vars
  BY <1>3 DEF Crash, ClientPut, SessionExpires, RunDeletionJob, GiveUpDeletionJob, vars
<1>4. QED
  BY <1>1, <1>2, <1>3 DEF Next

\* A request slot stays, is freed, moves on, or takes a call.
LEMMA CallsMove ==
  ASSUME TypeOK, [Next]_vars, NEW r \in Requests
  PROVE  \/ req'[r] = req[r]
         \/ req'[r] = Idle
         \/ Resume(r) /\ CallMoves(r)
         \/ \E u \in Uploads : Start(r, u)
<1>1. CASE \E r2 \in Requests, u \in Uploads : Start(r2, u)
  BY <1>1, StartCall
<1>2. CASE \E r2 \in Requests : Resume(r2)
  BY <1>2, OthersUnmoved, ResumeCall
<1>3. CASE \/ \E r2 \in Requests : Crash(r2)
           \/ \E w \in Uploads : ClientPut(w) \/ SessionExpires(w)
           \/ \E key \in jobs : RunDeletionJob(key) \/ GiveUpDeletionJob(key)
           \/ UNCHANGED vars
  BY <1>3 DEF TypeOK, Crash, Finish, ClientPut, SessionExpires, RunDeletionJob, GiveUpDeletionJob, vars
<1>4. QED
  BY <1>1, <1>2, <1>3 DEF Next

LEMMA OriginalInKey == \A u \in Uploads : OriginalKey(u) \in Key
BY DEF OriginalKey, Key

\* An object goes because a call deletes it or its job runs; it comes because
\* the client uploads or a call stores a variant.
LEMMA ObjectsMove ==
  ASSUME TypeOK, [Next]_vars, NEW key \in Key
  PROVE  /\ key \in objects \ objects' =>
              \/ \E r \in Requests : Resume(r) /\ key \in Deleting(r) /\ Recorded(r)
              \/ key \in jobs /\ RunDeletionJob(key)
         /\ key \in objects' \ objects =>
              \/ \E u \in targets : ClientPut(u) /\ key = OriginalKey(u)
              \/ \E r \in Requests : /\ Resume(r) /\ At(r, "store")
                                     /\ \E v \in Variants : key = <<req[r].upload, v>>
         /\ key \in jobs \ jobs' => key \notin objects' \/ key \in givenUp'
         /\ jobs' # jobs => OutboxMode \/ (jobs' \subseteq jobs)
         /\ givenUp \subseteq givenUp' /\ orphaned \subseteq orphaned'
<1>1. CASE \E r \in Requests, u \in Uploads : Start(r, u)
  BY <1>1, StartCall DEF ledger
<1>2. CASE \E r \in Requests : Resume(r)
  BY <1>2, ResumeStorage DEF StorageMoves
<1>3. CASE \E r \in Requests : Crash(r)
  BY <1>3 DEF Crash
<1>4. CASE \E u \in Uploads : ClientPut(u) \/ SessionExpires(u)
  BY <1>4 DEF ClientPut, SessionExpires, ledger
<1>5. CASE \E k \in jobs : RunDeletionJob(k) \/ GiveUpDeletionJob(k)
  BY <1>5 DEF RunDeletionJob, GiveUpDeletionJob, ledger
<1>6. CASE UNCHANGED vars
  BY <1>6 DEF vars, ledger
<1>7. QED
  BY <1>1, <1>2, <1>3, <1>4, <1>5, <1>6 DEF Next

\* The rows after a write, without who wrote them.
LEMMA RowsWritten ==
  ASSUME TypeOK, NEW r \in Requests, ~At(r, "idle"), RowMoves(r)
  PROVE  LET u == req[r].upload
         IN  /\ u \in Uploads
             /\ \A w \in Uploads \ {u} : rows'[w] = rows[w]
             /\ \/ Claimable(rows[u]) /\ rows'[u] = Claimed(rows[u])
                \/ Completable(rows[u]) /\ rows'[u] = Completed(rows[u], Variants)
                \/ rows'[u] \in {Released(rows[u]), Failed(rows[u]), Expired(rows[u]),
                                 Cancelled(rows[u]), Deleted(rows[u]), Cleaned(rows[u]),
                                 SessionEnded(rows[u])}
<1>1. req[r].upload \in Uploads
  BY CallTyped
<1>2. QED
  BY <1>1 DEF RowMoves, Write, Current, TypeOK

-----------------------------------------------------------------------------
(* Accounted claims.  A row says "processing" only from a claim on, and the  *)
(* one that holds the claim leaves it with a write that says otherwise, or   *)
(* is recorded as having forsaken it.                                        *)

\* Only a claim makes a session processing.
LEMMA ProcessingStarts ==
  ASSUME TypeOK, [Next]_vars, NEW u \in Uploads, rows'[u].session = "processing"
  PROVE  \/ rows[u].session = "processing"
         \/ \E r \in Requests : Holds(r)' /\ req'[r].upload = u
<1>1. rows[u] \in Row
  BY DEF TypeOK
<1>2. CASE rows'[u] = rows[u] \/ (rows[u] = NoRow /\ rows'[u] = PendingRow)
  BY <1>2 DEF PendingRow
<1>3. ASSUME NEW r \in Requests, Resume(r), RowMoves(r), req[r].upload = u
      PROVE  \/ rows[u].session = "processing"
             \/ Holds(r)' /\ req'[r].upload = u
  <2>1. CASE At(r, "claim")
    <3>1. At(r, "load")'
      BY <1>3, <2>1 DEF RowMoves, At
    <3>2. req'[r] = Idle \/ CallMoves(r)
      BY <1>3, ResumeCall
    <3>3. req'[r].upload = u
      BY <1>3, <3>1, <3>2 DEF CallMoves, At, Idle
    <3>4. QED
      BY <3>1, <3>3 DEF Holds, At
  <2>2. CASE ~At(r, "claim")
    <3>1. rows'[u] \in {Completed(rows[u], Variants), Released(rows[u]), Failed(rows[u]),
                        Expired(rows[u]), Cancelled(rows[u]), Deleted(rows[u]), Cleaned(rows[u]),
                        SessionEnded(rows[u])}
      BY <1>3, <2>2 DEF RowMoves, Write, Current, TypeOK
    <3>2. QED
      BY <1>1, <3>1 DEF Row, Completed, Released, Failed, Expired, Cancelled, Deleted, Cleaned,
                        SessionEnded, Moved
  <2>3. QED
    BY <2>1, <2>2
<1>4. QED
  BY <1>2, <1>3, RowsMove

\* A holder that stops holding leaves a row that is not processing, or the
\* record of having forsaken it.
LEMMA HolderLeaves ==
  ASSUME TypeOK, [Next]_vars, NEW r \in Requests, Holds(r),
         ~(Holds(r)' /\ req'[r].upload = req[r].upload)
  PROVE  rows'[req[r].upload].session # "processing" \/ req[r].upload \in forsaken'
<1> DEFINE u == req[r].upload
<1>1. /\ ~At(r, "idle") /\ req[r] \in Call /\ u \in Uploads /\ rows[u] \in Row
      /\ req[r].pushed \in SUBSET Variants
  BY CallTyped DEF Holds, At, Current, Call
<1>2. CASE \E q \in Requests : Crash(q)
  <2>1. PICK q \in Requests : Crash(q)
    BY <1>2
  <2>2. q = r
    BY <2>1 DEF Crash, Finish, TypeOK, Holds
  <2>3. QED
    BY <2>1, <2>2 DEF Crash
<1>3. CASE Resume(r)
  <2>1. CASE Commit(r) \/ CommitReplyLost(r)
    <3>1. CommitWrite(r)
      BY <2>1 DEF Commit, CommitReplyLost
    <3>2. rows'[u] = Completed(rows[u], req[r].pushed)
      BY <1>1, <3>1 DEF CommitWrite, Write, Current, TypeOK
    <3>3. QED
      BY <1>1, <3>2 DEF Completed, Row
  <2>2. CASE Release(r)
    BY <1>1, <2>2 DEF Release, Write, Current, Released, Row, TypeOK
  <2>3. CASE Fail(r)
    BY <1>1, <2>3 DEF Fail, Write, Current, Failed, Moved, Row, TypeOK
  <2>4. CASE WriteFails(r) /\ At(r, "settle")
    BY <2>4 DEF WriteFails
  <2>5. CASE \/ LoadSource(r) \/ ProcessingFails(r)
             \/ \E v \in Variants : StoreVariant(r, v) \/ StoreVariantUnrecorded(r, v)
             \/ CommitRefused(r) \/ EnqueueSweep(r) \/ Sweep(r)
    <3>1. \/ req'[r].step \in {"load", "store", "enqueue", "sweep", "settle"}
          \/ req'[r].step = CatchStep(req[r].pushed)
      BY <1>1, <2>5, RequestFields
         DEF LoadSource, ProcessingFails, StoreVariant, StoreVariantUnrecorded, CommitRefused,
             EnqueueSweep, Sweep, At
    <3>2. req'[r].upload = u
      BY <1>1, <2>5, RequestFields
         DEF LoadSource, ProcessingFails, StoreVariant, StoreVariantUnrecorded, CommitRefused,
             EnqueueSweep, Sweep
    <3>3. QED
      BY <3>1, <3>2, ModeAssumption DEF Holds, CatchStep
  <2>6. CASE WriteFails(r) /\ ~At(r, "settle")
    <3>1. At(r, "enqueue") /\ Goto(r, "sweep")
      BY <2>6 DEF WriteFails, Holds, At
    <3>2. QED
      BY <1>1, <3>1, RequestFields DEF Holds
  <2>7. QED
    BY <1>3, <2>1, <2>2, <2>3, <2>4, <2>5, <2>6
       DEF Resume, Holds, At, ReturnTarget, TargetFails, AbandonIntent, LeaveUnclaimed,
           FindExpired, ExpireUpload, GoClaim, Claim, ClaimRefused, Discard, CancelUpload,
           MarkAssetDeleted, Purge, CleanObjects, MarkCleaned, MarkSessionExpired,
           MarkAssetCleaned, PolicyDenies
<1>4. CASE UNCHANGED req[r]
  BY <1>4 DEF Holds
<1>5. CASE \E q \in Requests \ {r} : Resume(q)
  BY <1>4, <1>5, OthersUnmoved
<1>6. CASE \E q \in Requests, w \in Uploads : Start(q, w)
  BY <1>1, <1>4, <1>6, StartCall DEF StartMoves
<1>7. CASE \/ \E w \in Uploads : ClientPut(w) \/ SessionExpires(w)
           \/ \E key \in jobs : RunDeletionJob(key) \/ GiveUpDeletionJob(key)
           \/ UNCHANGED vars
  BY <1>4, <1>7 DEF ClientPut, SessionExpires, RunDeletionJob, GiveUpDeletionJob, vars
<1>8. QED
  BY <1>2, <1>3, <1>5, <1>6, <1>7 DEF Next

LEMMA ForsakenStays == TypeOK /\ [Next]_vars => forsaken \subseteq forsaken'
<1> SUFFICES ASSUME TypeOK, [Next]_vars PROVE forsaken \subseteq forsaken'
  OBVIOUS
<1>1. CASE \E r \in Requests, u \in Uploads : Start(r, u)
  BY <1>1, StartCall DEF ledger
<1>2. CASE \E r \in Requests : Resume(r)
  BY <1>2 DEF ledger, Resume, ReturnTarget, TargetFails, AbandonIntent, LeaveUnclaimed,
       FindExpired, ExpireUpload, GoClaim, Claim, ClaimRefused, LoadSource,
       ProcessingFails, StoreVariant, StoreVariantUnrecorded, Commit,
       CommitRefused, CommitReplyLost, EnqueueSweep, Sweep,
       Release, Fail, Discard, CancelUpload, MarkAssetDeleted, Purge,
       CleanObjects, MarkCleaned, MarkSessionExpired, MarkAssetCleaned, PolicyDenies, WriteFails
<1>3. CASE \/ \E r \in Requests : Crash(r)
           \/ \E w \in Uploads : ClientPut(w) \/ SessionExpires(w)
           \/ \E key \in jobs : RunDeletionJob(key) \/ GiveUpDeletionJob(key)
           \/ UNCHANGED vars
  BY <1>3 DEF Crash, ClientPut, SessionExpires, RunDeletionJob, GiveUpDeletionJob, vars, ledger
<1>4. QED
  BY <1>1, <1>2, <1>3 DEF Next

\* An upload that the database says is being processed is being processed,
\* or lost its holder to a crash or to a failed write: whatever the
\* repository guards, the mode and the other workflows.
THEOREM ClaimsAreAccounted == Spec => []ClaimsAccounted
<1>1. Init => ClaimsAccounted
  BY DEF Init, ClaimsAccounted, NoRow
<1>2. TypeOK /\ ClaimsAccounted /\ [Next]_vars => ClaimsAccounted'
  <2> SUFFICES ASSUME TypeOK, ClaimsAccounted, [Next]_vars,
                      NEW u \in Uploads, rows'[u].session = "processing", u \notin forsaken'
               PROVE  \E r \in Requests : Holds(r)' /\ req'[r].upload = u
    BY DEF ClaimsAccounted
  <2>1. CASE rows[u].session = "processing"
    <3>1. PICK r \in Requests : Holds(r) /\ req[r].upload = u
      BY <2>1, ForsakenStays DEF ClaimsAccounted
    <3>2. Holds(r)' /\ req'[r].upload = u
      BY <3>1, HolderLeaves
    <3>3. QED
      BY <3>2
  <2>2. QED
    BY <2>1, ProcessingStarts
<1>3. QED
  BY <1>1, <1>2, TypeCorrect, PTL DEF Spec

-----------------------------------------------------------------------------
(* Calls belong to uploads that exist, whatever the repository *)

Existing ==
  /\ \A u \in Uploads : rows[u].asset = "none" => rows[u] = NoRow
  /\ \A u \in targets : rows[u].asset # "none"
  /\ \A r \in Requests : ~At(r, "idle") => Current(r).asset # "none"

\* Nothing takes an asset row away.
LEMMA AssetsStay ==
  ASSUME TypeOK, Existing, [Next]_vars, NEW u \in Uploads
  PROVE  /\ rows[u].asset # "none" => rows'[u].asset # "none"
         /\ rows'[u].asset = "none" => rows'[u] = NoRow
<1>1. rows[u] \in Row
  BY DEF TypeOK
<1>2. CASE rows'[u] = rows[u]
  BY <1>2 DEF Existing
<1>3. CASE rows[u] = NoRow /\ rows'[u] = PendingRow
  BY <1>3 DEF NoRow, PendingRow
<1>4. ASSUME NEW r \in Requests, Resume(r), RowMoves(r), req[r].upload = u
      PROVE  rows'[u].asset # "none"
  <2>1. rows[u].asset # "none"
    BY <1>4, InFlight DEF Existing, Current
  <2>2. ASSUME NEW row \in Row, row.asset # "none"
        PROVE  /\ Claimed(row).asset # "none" /\ Completed(row, Variants).asset # "none"
               /\ Released(row).asset # "none" /\ Failed(row).asset # "none"
               /\ Expired(row).asset # "none" /\ Cancelled(row).asset # "none"
               /\ Deleted(row).asset # "none" /\ Cleaned(row).asset # "none"
               /\ SessionEnded(row).asset # "none"
    BY <2>2 DEF Row, Claimed, Completed, Released, Failed, Expired, Cancelled, Deleted,
                Cleaned, SessionEnded, Moved
  <2>3. QED
    BY <1>1, <1>4, <2>1, <2>2, InFlight, RowsWritten
<1>5. QED
  BY <1>2, <1>3, <1>4, RowsMove

\* The targets that are new belong to the intent that returns them.
LEMMA TargetsMove ==
  ASSUME TypeOK, [Next]_vars, NEW u \in targets' \ targets
  PROVE  /\ \E r \in Requests : Resume(r) /\ At(r, "target") /\ req[r].upload = u /\ req'[r] = Idle
         /\ UNCHANGED <<rows, objects, expired, jobs>>
<1>1. CASE \E r \in Requests, w \in Uploads : Start(r, w)
  BY <1>1, StartCall
<1>2. CASE \E r \in Requests : Resume(r)
  <2>1. PICK r \in Requests : Resume(r)
    BY <1>2
  <2>2. ReturnTarget(r)
    BY <2>1 DEF Resume, TargetFails, AbandonIntent, LeaveUnclaimed,
         FindExpired, ExpireUpload, GoClaim, Claim, ClaimRefused, LoadSource,
         ProcessingFails, StoreVariant, StoreVariantUnrecorded, Commit,
         CommitRefused, CommitReplyLost, EnqueueSweep, Sweep,
         Release, Fail, Discard, CancelUpload, MarkAssetDeleted, Purge,
         CleanObjects, MarkCleaned, MarkSessionExpired, MarkAssetCleaned, PolicyDenies, WriteFails
  <2>3. QED
    BY <2>1, <2>2, InFlight, RequestFields DEF ReturnTarget
<1>3. CASE \/ \E r \in Requests : Crash(r)
           \/ \E w \in Uploads : ClientPut(w) \/ SessionExpires(w)
           \/ \E key \in jobs : RunDeletionJob(key) \/ GiveUpDeletionJob(key)
           \/ UNCHANGED vars
  BY <1>3 DEF Crash, ClientPut, SessionExpires, RunDeletionJob, GiveUpDeletionJob, vars
<1>4. QED
  BY <1>1, <1>2, <1>3 DEF Next

LEMMA NextExisting == TypeOK /\ Existing /\ [Next]_vars => Existing'
<1> SUFFICES ASSUME TypeOK, Existing, [Next]_vars PROVE Existing'
  OBVIOUS
<1>1. ASSUME NEW u \in targets' PROVE rows'[u].asset # "none"
  <2>1. CASE u \in targets
    BY <2>1, AssetsStay DEF Existing, TypeOK
  <2>2. CASE u \notin targets
    BY <1>1, <2>2, TargetsMove DEF Existing, Current, At
  <2>3. QED
    BY <2>1, <2>2
<1>2. ASSUME NEW r \in Requests, ~At(r, "idle")' PROVE Current(r)'.asset # "none"
  <2>1. CASE ~At(r, "idle") /\ req'[r].upload = req[r].upload
    <3>1. req[r].upload \in Uploads /\ rows[req[r].upload].asset # "none"
      BY <2>1, CallTyped DEF Existing, Current
    <3>2. QED
      BY <2>1, <3>1, AssetsStay DEF Current
  <2>2. ASSUME NEW u \in Uploads, Start(r, u) PROVE Current(r)'.asset # "none"
    <3>1. /\ req'[r].upload = u
          /\ \/ rows' = [rows EXCEPT ![u] = PendingRow]
             \/ /\ UNCHANGED rows
                /\ u \in targets \/ rows[u].asset # "none" \/ Stale(u)
      BY <2>2, StartCall DEF StartMoves
    <3>2. Stale(u) => rows[u].asset # "none"
      BY DEF Stale, Existing, NoRow
    <3>3. QED
      BY <3>1, <3>2 DEF Current, Existing, TypeOK, PendingRow
  <2>3. CASE req'[r] = req[r]
    BY <1>2, <2>1, <2>3 DEF At
  <2>4. CASE req'[r] = Idle
    BY <1>2, <2>4 DEF At, Idle
  <2>5. CASE Resume(r) /\ CallMoves(r)
    BY <2>1, <2>5, InFlight DEF CallMoves
  <2>6. QED
    BY <2>2, <2>3, <2>4, <2>5, CallsMove
<1>3. QED
  BY <1>1, <1>2, AssetsStay DEF Existing

LEMMA InitExisting == Init => Existing
BY DEF Init, Existing, At, Idle

-----------------------------------------------------------------------------
(* The claim and the asset row.  Over a strict repository, and as long as no *)
(* commit's reply is lost, an upload somebody processes is processing or has *)
(* ended; in particular it is not ready.                                     *)

HeldInWork ==
  \A r \in Requests : Holds(r) => Current(r).asset \in {"processing", "failed", "deleted"}

LEMMA NextHeldInWork ==
  ASSUME StrictRepository, "lost_reply" \notin Faults
  PROVE  ClaimInv /\ HeldInWork /\ [Next]_vars => HeldInWork'
<1> SUFFICES ASSUME ClaimInv, HeldInWork, [Next]_vars, NEW r \in Requests, Holds(r)'
             PROVE  Current(r)'.asset \in {"processing", "failed", "deleted"}
  BY DEF HeldInWork
<1>1. TypeOK
  BY DEF ClaimInv
<1> DEFINE u == req[r].upload
<1>2. CASE Holds(r) /\ req'[r].upload = u
  <2>1. u \in Uploads /\ rows[u] \in Row /\ ~At(r, "idle")
    BY <1>1, <1>2, CallTyped DEF Holds, At, Current
  <2>2. rows[u].asset \in {"processing", "failed", "deleted"} /\ Protected(rows[u])
    BY <1>2 DEF HeldInWork, ClaimInv, HeldProtected, Current
  <2>3. ASSUME NEW q \in Requests, Resume(q), RowMoves(q), req[q].upload = u
        PROVE  rows'[u].asset \in {"processing", "failed", "deleted"}
    <3>1. CASE Claimable(rows[u])
      BY <2>2, <3>1 DEF Protected
    <3>2. CASE At(q, "store") \/ (At(q, "settle") /\ Releases(q))
      <4>1. q = r
        BY <1>2, <2>3, <3>2 DEF ClaimInv, ClaimExclusive, Holds, At
      <4>2. req'[r] = Idle
        BY <2>3, <3>2, <4>1 DEF RowMoves, At
      <4>3. QED
        BY <4>2 DEF Holds, Idle
    <3>3. CASE \/ rows'[u] \in {Failed(rows[u]), Expired(rows[u]), Cancelled(rows[u]),
                                Deleted(rows[u]), Cleaned(rows[u]),
                                 SessionEnded(rows[u])}
      BY <2>1, <2>2, <3>3 DEF Row, Failed, Expired, Cancelled, Deleted, Cleaned, SessionEnded, Moved
    <3>4. QED
      BY <1>1, <2>1, <2>3, <3>1, <3>2, <3>3 DEF RowMoves, Write, Current, TypeOK
  <2>4. rows'[u].asset \in {"processing", "failed", "deleted"}
    BY <1>1, <2>1, <2>2, <2>3, RowsMove DEF NoRow
  <2>5. QED
    BY <1>2, <2>4 DEF Current
<1>3. CASE Resume(r) /\ CallMoves(r) /\ ~Holds(r)
  <2>1. /\ req'[r].upload = u /\ Write(r, Claimed(Current(r)))
    BY <1>1, <1>3 DEF CallMoves, Holds, At
  <2>2. u \in Uploads /\ Current(r) \in Row
    BY <1>1, <1>3, InFlight, CallTyped
  <2>3. rows'[u] = Claimed(Current(r))
    BY <1>1, <2>1, <2>2 DEF Write, TypeOK
  <2>4. QED
    BY <2>1, <2>2, <2>3 DEF Current, Claimed, Row
<1>4. CASE \E w \in Uploads : Start(r, w)
  BY <1>1, <1>4, StartCall DEF StartMoves, Holds, At
<1>5. CASE req'[r] = Idle
  BY <1>5 DEF Holds, Idle
<1>6. CASE req'[r] = req[r]
  BY <1>2, <1>6 DEF Holds
<1>7. CASE Resume(r) /\ CallMoves(r) /\ Holds(r)
  BY <1>2, <1>7 DEF CallMoves
<1>8. QED
  BY <1>1, <1>3, <1>4, <1>5, <1>6, <1>7, CallsMove

LEMMA InitHeldInWork == Init => HeldInWork
BY DEF Init, HeldInWork, Holds, Idle

-----------------------------------------------------------------------------
(* The refinement of UploadContract.  Under ClaimInv the holder of the       *)
(* contract is the one request that holds the claim, so a step of the        *)
(* workflows shows in the contract as at most one change of phase and one    *)
(* of holder, both of the same upload.                                       *)

LEMMA HolderNow ==
  ASSUME ClaimInv, NEW u \in Uploads
  PROVE  /\ \A r \in Requests : Holds(r) /\ req[r].upload = u => HolderOf(u) = r
         /\ (\A r \in Requests : ~(Holds(r) /\ req[r].upload = u)) => HolderOf(u) = NoRequest
BY DEF ClaimInv, ClaimExclusive, HolderOf

LEMMA HolderNext ==
  ASSUME ClaimInv', NEW u \in Uploads
  PROVE  /\ \A r \in Requests : Holds(r)' /\ req'[r].upload = u => HolderOf(u)' = r
         /\ (\A r \in Requests : ~(Holds(r)' /\ req'[r].upload = u)) => HolderOf(u)' = NoRequest
BY DEF ClaimInv, ClaimExclusive, HolderOf, Holds

\* The steps the contract allows to the phase and the holder of one upload.
ContractMove(u) ==
  LET before == PhaseOf(rows[u])
      after == PhaseOf(rows'[u])
      same == HolderOf(u)' = HolderOf(u)
      gone == HolderOf(u) # NoRequest /\ HolderOf(u)' = NoRequest
  IN  \/ after = before /\ same
      \/ before = "absent" /\ after = "open" /\ same
      \/ before = "open" /\ after = "held" /\ HolderOf(u) = NoRequest /\ HolderOf(u)' \in Requests
      \/ before = "held" /\ after \in {"open", "published", "closed"} /\ gone
      \/ after = before /\ gone
      \/ before \in {"open", "held", "published"} /\ after = "closed" /\ same

LEMMA ContractMoveSuffices ==
  ASSUME NEW u \in Uploads, ContractMove(u),
         \A w \in Uploads \ {u} :
           PhaseOf(rows'[w]) = PhaseOf(rows[w]) /\ HolderOf(w)' = HolderOf(w)
  PROVE  [Contract!Next]_Contract!vars
<1> DEFINE phase == [w \in Uploads |-> PhaseOf(rows[w])]
           holder == [w \in Uploads |-> HolderOf(w)]
<1>1. \A w \in Uploads : PhaseOf(rows[w])' = PhaseOf(rows'[w])
  BY DEF PhaseOf
<1>2. /\ \A new : PhaseOf(rows'[u]) = new => phase' = [phase EXCEPT ![u] = new]
      /\ PhaseOf(rows'[u]) = PhaseOf(rows[u]) => phase' = phase
      /\ phase[u] = PhaseOf(rows[u])
  BY <1>1
<1>3. /\ \A new : HolderOf(u)' = new => holder' = [holder EXCEPT ![u] = new]
      /\ HolderOf(u)' = HolderOf(u) => holder' = holder
      /\ holder[u] = HolderOf(u)
  OBVIOUS
<1> HIDE DEF phase, holder
<1>4. \/ UNCHANGED <<phase, holder>>
      \/ /\ phase[u] = "absent"
         /\ phase' = [phase EXCEPT ![u] = "open"]
         /\ UNCHANGED holder
      \/ \E h \in Requests :
           /\ phase[u] = "open" /\ holder[u] = NoRequest
           /\ phase' = [phase EXCEPT ![u] = "held"]
           /\ holder' = [holder EXCEPT ![u] = h]
      \/ /\ phase[u] = "held" /\ holder[u] # NoRequest
         /\ \E outcome \in {"open", "published", "closed"} :
              phase' = [phase EXCEPT ![u] = outcome]
         /\ holder' = [holder EXCEPT ![u] = NoRequest]
      \/ /\ holder[u] # NoRequest
         /\ holder' = [holder EXCEPT ![u] = NoRequest]
         /\ UNCHANGED phase
      \/ /\ phase[u] \in {"open", "held", "published"}
         /\ phase' = [phase EXCEPT ![u] = "closed"]
         /\ UNCHANGED holder
  BY <1>2, <1>3 DEF ContractMove
<1>5. QED
  BY <1>4 DEF phase, holder, Contract!Next, Contract!vars, Contract!Open, Contract!Take,
              Contract!Resolve, Contract!Vanish, Contract!Close

\* What the writes of the workflows do to the phase.
LEMMA ClosingWrites ==
  ASSUME StrictRepository, NEW row \in Row, row.asset # "none",
         NEW new \in {Failed(row), Expired(row), Cancelled(row), Deleted(row), Cleaned(row),
                     SessionEnded(row)}
  PROVE  \/ PhaseOf(new) = PhaseOf(row)
         \/ PhaseOf(row) \in {"open", "held", "published"} /\ PhaseOf(new) = "closed"
<1>1. row.asset \in AssetStatus
  BY DEF Row
<1>2. \/ new.asset = row.asset
      \/ new.asset \in {"failed", "deleted"}
  BY DEF Row, Failed, Expired, Cancelled, Deleted, Cleaned, SessionEnded, Moved
<1>3. QED
  BY <1>1, <1>2 DEF PhaseOf, AssetStatus

LEMMA ResumeImplements ==
  ASSUME StrictRepository, "lost_reply" \notin Faults,
         ClaimInv, ClaimInv', Existing, HeldInWork,
         NEW r \in Requests, Resume(r)
  PROVE  [Contract!Next]_Contract!vars
<1> PICK u : u = req[r].upload
  OBVIOUS
<1>1. TypeOK /\ ~At(r, "idle") /\ u \in Uploads /\ rows[u] \in Row
  BY InFlight, CallTyped DEF ClaimInv, Current
<1>2. \A r2 \in Requests \ {r} : req'[r2] = req[r2]
  BY <1>1, OthersUnmoved
<1>3. req'[r] = Idle \/ CallMoves(r)
  BY <1>1, ResumeCall
<1>4. ~Holds(r)' \/ req'[r].upload = u
  <2>1. CallMoves(r) => req'[r].upload = u
    BY DEF CallMoves
  <2>2. QED
    BY <1>3, <2>1 DEF Holds, Idle
<1>5. ASSUME NEW w \in Uploads \ {u}
      PROVE  PhaseOf(rows'[w]) = PhaseOf(rows[w]) /\ HolderOf(w)' = HolderOf(w)
  <2>1. rows'[w] = rows[w]
    BY <1>1, ResumeRows, RowsWritten
  <2>2. \A q \in Requests : (Holds(q)' /\ req'[q].upload = w) <=> (Holds(q) /\ req[q].upload = w)
    BY <1>2, <1>4 DEF Holds
  <2>3. QED
    BY <2>1, <2>2, HolderNow, HolderNext
<1>6. ASSUME Holds(r)' <=> Holds(r)
      PROVE  HolderOf(u)' = HolderOf(u)
  <2>1. \A q \in Requests : (Holds(q)' /\ req'[q].upload = u) <=> (Holds(q) /\ req[q].upload = u)
    BY <1>2, <1>4, <1>6 DEF Holds
  <2>2. QED
    BY <1>1, <2>1, HolderNow, HolderNext
<1>7. ASSUME Holds(r), ~Holds(r)'
      PROVE  HolderOf(u) # NoRequest /\ HolderOf(u)' = NoRequest
  <2>1. \A q \in Requests : ~(Holds(q)' /\ req'[q].upload = u)
    BY <1>2, <1>7 DEF Holds, ClaimInv, ClaimExclusive
  <2>2. QED
    BY <1>1, <1>7, <2>1, HolderNow, HolderNext, NoRequestAssumption
<1>8. CASE At(r, "claim") /\ At(r, "load")'
  <2>1. /\ Claimable(rows[u]) /\ rows'[u] = Claimed(rows[u])
        /\ req'[r].upload = u
    <3>1. CallMoves(r)
      BY <1>3, <1>8 DEF At, Idle
    <3>2. QED
      BY <1>1, <1>8, <3>1 DEF CallMoves, At, Write, Current, TypeOK
  <2>2. PhaseOf(rows[u]) = "open" /\ PhaseOf(rows'[u]) = "held"
    BY <1>1, <2>1 DEF PhaseOf, Claimable, Claimed, Row
  <2>3. HolderOf(u) = NoRequest
    BY <1>1, <2>1, HolderNow DEF ClaimInv, HeldProtected, Protected, Current
  <2>4. HolderOf(u)' = r
    BY <1>1, <1>8, <2>1, HolderNext DEF Holds, At
  <2>5. ContractMove(u)
    BY <2>2, <2>3, <2>4 DEF ContractMove
  <2>6. QED
    BY <1>1, <1>5, <2>5, ContractMoveSuffices
<1>9. CASE ~(At(r, "claim") /\ At(r, "load")')
  <2>1. Holds(r)' => Holds(r)
    <3>1. CASE req'[r] = Idle
      BY <3>1 DEF Holds, Idle
    <3>2. CASE CallMoves(r)
      BY <1>9, <3>2 DEF CallMoves, Holds, At
    <3>3. QED
      BY <1>3, <3>1, <3>2
  <2>2. \/ HolderOf(u)' = HolderOf(u)
        \/ HolderOf(u) # NoRequest /\ HolderOf(u)' = NoRequest
    BY <1>6, <1>7, <2>1
  <2>3. CASE UNCHANGED rows
    <3>1. ContractMove(u)
      BY <2>2, <2>3 DEF ContractMove
    <3>2. QED
      BY <1>1, <1>5, <3>1, ContractMoveSuffices
  <2>4. CASE Holds(r) /\ RowMoves(r)
    <3>1. ~Holds(r)' /\ HolderOf(u) # NoRequest /\ HolderOf(u)' = NoRequest
      <4>1. At(r, "store") \/ At(r, "settle")
        BY <2>4 DEF RowMoves, Holds, At
      <4>2. ~Holds(r)'
        <5>1. req'[r] = Idle \/ ~Holds(r)'
          BY <2>4, <4>1 DEF RowMoves, At
        <5>2. QED
          BY <5>1 DEF Holds, Idle
      <4>3. QED
        BY <1>7, <2>4, <4>2
    <3>2. rows[u].asset \in {"processing", "failed", "deleted"}
      BY <2>4 DEF HeldInWork, Current
    <3>3. \/ Completable(rows[u]) /\ rows'[u] = Completed(rows[u], Variants)
          \/ rows'[u] = Released(rows[u])
          \/ rows'[u] = Failed(rows[u])
      BY <1>1, <2>4 DEF RowMoves, Holds, At, Write, Current, TypeOK
    <3>4. \/ PhaseOf(rows[u]) = "held" /\ PhaseOf(rows'[u]) \in {"open", "published", "closed"}
          \/ PhaseOf(rows'[u]) = PhaseOf(rows[u])
      <4>1. CASE Completable(rows[u]) /\ rows'[u] = Completed(rows[u], Variants)
        BY <1>1, <4>1 DEF PhaseOf, Completable, Completed, Row
      <4>2. CASE rows'[u] = Released(rows[u])
        BY <1>1, <3>2, <4>2 DEF PhaseOf, Released, Row
      <4>3. CASE rows'[u] = Failed(rows[u])
        BY <1>1, <3>2, <4>3 DEF PhaseOf, Failed, Moved, Row
      <4>4. QED
        BY <3>3, <4>1, <4>2, <4>3
    <3>5. ContractMove(u)
      BY <3>1, <3>4 DEF ContractMove
    <3>6. QED
      BY <1>1, <1>5, <3>5, ContractMoveSuffices
  <2>5. CASE ~Holds(r) /\ RowMoves(r)
    <3>1. HolderOf(u)' = HolderOf(u)
      BY <1>6, <2>1, <2>5
    <3>2. rows'[u] \in {Failed(rows[u]), Expired(rows[u]), Cancelled(rows[u]),
                        Deleted(rows[u]), Cleaned(rows[u]),
                                 SessionEnded(rows[u])}
      BY <1>1, <1>9, <2>5 DEF RowMoves, Holds, At, Write, Current, TypeOK
    <3>3. rows[u].asset # "none"
      BY <1>1 DEF Existing, Current
    <3>4. ContractMove(u)
      BY <1>1, <3>1, <3>2, <3>3, ClosingWrites DEF ContractMove
    <3>5. QED
      BY <1>1, <1>5, <3>4, ContractMoveSuffices
  <2>6. QED
    BY <1>1, <2>3, <2>4, <2>5, ResumeRows
<1>10. QED
  BY <1>8, <1>9

\* A call that starts opens an upload or shows in the contract not at all.
LEMMA StartImplements ==
  ASSUME ClaimInv, ClaimInv', NEW r \in Requests, NEW u \in Uploads, Start(r, u)
  PROVE  [Contract!Next]_Contract!vars
<1>1. TypeOK
  BY DEF ClaimInv
<1>2. StartMoves(r, u) /\ \A r2 \in Requests \ {r} : req'[r2] = req[r2]
  BY <1>1, StartCall
<1>3. \A q \in Requests : /\ Holds(q)' <=> Holds(q)
                          /\ Holds(q) => req'[q].upload = req[q].upload
  BY <1>2 DEF StartMoves, Holds, At
<1>4. \A w \in Uploads : HolderOf(w)' = HolderOf(w)
  BY <1>3, HolderNow, HolderNext
<1>5. \A w \in Uploads \ {u} : rows'[w] = rows[w]
  BY <1>1, <1>2 DEF StartMoves, TypeOK
<1>6. \/ rows'[u] = rows[u]
      \/ rows[u] = NoRow /\ rows'[u] = PendingRow
  BY <1>1, <1>2 DEF StartMoves, TypeOK
<1>7. ContractMove(u)
  <2>1. PhaseOf(NoRow) = "absent" /\ PhaseOf(PendingRow) = "open"
    BY DEF PhaseOf, NoRow, PendingRow
  <2>2. HolderOf(u)' = HolderOf(u)
    BY <1>4
  <2>3. \/ PhaseOf(rows'[u]) = PhaseOf(rows[u])
        \/ PhaseOf(rows[u]) = "absent" /\ PhaseOf(rows'[u]) = "open"
    BY <1>6, <2>1
  <2>4. QED
    BY <2>2, <2>3 DEF ContractMove
<1>8. QED
  BY <1>4, <1>5, <1>7, ContractMoveSuffices

\* A crash makes the holder vanish, if it was one.
LEMMA CrashImplements ==
  ASSUME ClaimInv, ClaimInv', NEW r \in Requests, Crash(r)
  PROVE  [Contract!Next]_Contract!vars
<1> PICK u : u = req[r].upload
  OBVIOUS
<1>1. TypeOK /\ u \in Uploads /\ UNCHANGED rows
  BY CallTyped DEF ClaimInv, Crash
<1>2. ~Holds(r)' /\ \A q \in Requests \ {r} : req'[q] = req[q]
  BY <1>1 DEF Crash, Finish, TypeOK, Holds, Idle
<1>3. ASSUME NEW w \in Uploads, ~(Holds(r) /\ w = u) PROVE HolderOf(w)' = HolderOf(w)
  <2>1. \A q \in Requests : (Holds(q)' /\ req'[q].upload = w) <=> (Holds(q) /\ req[q].upload = w)
    BY <1>2, <1>3 DEF Holds
  <2>2. QED
    BY <2>1, HolderNow, HolderNext
<1>4. Holds(r) => HolderOf(u) # NoRequest /\ HolderOf(u)' = NoRequest
  <2>1. ASSUME Holds(r) PROVE \A q \in Requests : ~(Holds(q)' /\ req'[q].upload = u)
    BY <1>2, <2>1 DEF Holds, ClaimInv, ClaimExclusive
  <2>2. QED
    BY <1>1, <2>1, HolderNow, HolderNext, NoRequestAssumption
<1>5. ContractMove(u)
  BY <1>1, <1>3, <1>4 DEF ContractMove
<1>6. QED
  BY <1>1, <1>3, <1>5, ContractMoveSuffices

LEMMA NextImplements ==
  ASSUME StrictRepository, "lost_reply" \notin Faults
  PROVE  ClaimInv /\ ClaimInv' /\ Existing /\ HeldInWork /\ [Next]_vars =>
           [Contract!Next]_Contract!vars
<1> SUFFICES ASSUME ClaimInv, ClaimInv', Existing, HeldInWork, [Next]_vars
             PROVE  [Contract!Next]_Contract!vars
  OBVIOUS
<1>1. CASE UNCHANGED <<rows, req>>
  BY <1>1 DEF Contract!vars, PhaseOf, HolderOf, Holds
<1>2. CASE \/ \E u \in Uploads : ClientPut(u) \/ SessionExpires(u)
           \/ \E key \in jobs : RunDeletionJob(key) \/ GiveUpDeletionJob(key)
           \/ UNCHANGED vars
  BY <1>1, <1>2 DEF ClientPut, SessionExpires, RunDeletionJob, GiveUpDeletionJob, vars
<1>3. QED
  BY <1>2, StartImplements, ResumeImplements, CrashImplements DEF Next

LEMMA InitImplements == Init => Contract!Init
BY DEF Init, Contract!Init, PhaseOf, NoRow, HolderOf, Holds, Idle

\* Over a repository that guards every transition, and as long as no commit's
\* reply is lost, the workflows implement UploadContract: whatever crashes,
\* fails or interleaves, an upload is opened once, taken by one request at a
\* time, published only by the request that holds it, and final once closed.
THEOREM WorkflowsImplementContract ==
  ASSUME StrictRepository, "lost_reply" \notin Faults
  PROVE  Spec => ImplementsContract
<1>1. Init => ClaimInv
  BY InitTyped DEF Init, ClaimInv, HeldProtected, ClaimExclusive, Holds, Idle
<1>2. ClaimInv => TypeOK
  BY DEF ClaimInv
<1>3. QED
  BY <1>1, <1>2, InitExisting, InitHeldInWork, InitImplements, NextKeepsClaimInv, NextExisting,
     NextHeldInWork, NextImplements, PTL
     DEF Spec, ImplementsContract, Contract!Spec

-----------------------------------------------------------------------------
(* The variants of a ready asset.  Without the outbox, over a strict         *)
(* repository, a variant object is deleted only by the catch block of the    *)
(* request that holds the claim or after the asset is deleted: cleanup only  *)
(* takes uploads that have no variant rows.                                  *)

VariantsWhenCompleted ==
  \A u \in Uploads :
    rows[u].variants # {} =>
      rows[u].session = "completed" /\ rows[u].asset \in {"ready", "deleted"}

\* A cleanup deletes variants only of an asset that was ready when it looked,
\* and has been ready or deleted ever since.
CleanReads ==
  \A r \in Requests :
    At(r, "clean") /\ req[r].seen.variants # {} =>
      /\ req[r].seen.asset = "ready"
      /\ Current(r).session = "completed" /\ Current(r).asset \in {"ready", "deleted"}

Purging == \A r \in Requests : At(r, "purge") => Current(r).asset = "deleted"

NonePushed ==
  \A r \in Requests :
    req[r].step \notin {"store", "enqueue", "sweep", "settle", "discard"} => req[r].pushed = {}

StorePushed ==
  \A r \in Requests :
    At(r, "store") /\ Current(r).asset = "processing" =>
      VariantKeys(req[r].upload, req[r].pushed) \subseteq objects

VariantInv ==
  /\ ClaimInv
  /\ HeldInWork
  /\ jobs = {}
  /\ VariantsWhenCompleted
  /\ CleanReads
  /\ Purging
  /\ NonePushed
  /\ StorePushed
  /\ ReadyVariantsStored

\* What the guarded writes do to the parts of a row these invariants read.
LEMMA StrictWrites ==
  ASSUME StrictRepository, NEW row \in Row, NEW new,
         \/ Claimable(row) /\ new = Claimed(row)
         \/ Completable(row) /\ new = Completed(row, Variants)
         \/ new \in {Released(row), Failed(row), Expired(row),
                     Cancelled(row), Deleted(row), Cleaned(row),
                     SessionEnded(row)}
  PROVE  /\ row.asset = "deleted" => new.asset = "deleted"
         /\ new.asset = "processing" => row.asset = "processing" \/ Claimable(row)
         /\ new.variants = row.variants \/ (new = Completed(row, Variants) /\ Completable(row))
         /\ new.asset = "ready" =>
              row.asset = "ready" \/ (new = Completed(row, Variants) /\ Completable(row))
         /\ row.session = "completed" /\ row.asset \in {"ready", "deleted"} =>
              new.session = "completed" /\ new.asset \in {"ready", "deleted"}
<1>1. CASE Claimable(row) /\ new = Claimed(row)
  BY <1>1 DEF Row, Claimable, Claimed
<1>2. CASE Completable(row) /\ new = Completed(row, Variants)
  BY <1>2 DEF Row, Completable, Completed
<1>3. CASE new = Released(row) \/ new = Deleted(row)
  BY <1>3 DEF Row, Released, Deleted
<1>4. CASE new = Failed(row)
  BY <1>4 DEF Row, Failed, Moved
<1>5. CASE new = Expired(row)
  BY <1>5 DEF Row, Expired, Moved
<1>6. CASE new = Cancelled(row)
  BY <1>6 DEF Row, Cancelled, Moved
<1>7. CASE new = Cleaned(row) \/ new = SessionEnded(row)
  BY <1>7 DEF Row, Cleaned, SessionEnded, Deleted, Moved
<1>8. QED
  BY <1>1, <1>2, <1>3, <1>4, <1>5, <1>6, <1>7

\* The same for one step; a commit is the step of the call that stored every
\* variant.
LEMMA StrictRowStep ==
  ASSUME StrictRepository, TypeOK, [Next]_vars, NEW u \in Uploads
  PROVE  /\ rows[u].asset = "deleted" => rows'[u].asset = "deleted"
         /\ rows'[u].asset = "processing" => rows[u].asset = "processing" \/ Claimable(rows[u])
         /\ rows[u].session = "completed" /\ rows[u].asset \in {"ready", "deleted"} =>
              rows'[u].session = "completed" /\ rows'[u].asset \in {"ready", "deleted"}
         /\ \/ /\ rows'[u].variants = rows[u].variants \/ rows'[u].variants = {}
               /\ rows'[u].asset = "ready" =>
                    rows[u].asset = "ready" /\ rows'[u].variants = rows[u].variants
            \/ \E r \in Requests :
                 /\ Resume(r) /\ At(r, "store") /\ req[r].upload = u
                 /\ req[r].pushed = Variants
                 /\ Completable(rows[u]) /\ rows'[u] = Completed(rows[u], Variants)
<1>1. rows[u] \in Row
  BY DEF TypeOK
<1>2. CASE rows'[u] = rows[u]
  BY <1>2
<1>3. CASE rows[u] = NoRow /\ rows'[u] = PendingRow
  BY <1>3 DEF NoRow, PendingRow
<1>4. ASSUME NEW r \in Requests, Resume(r), RowMoves(r), req[r].upload = u
      PROVE  \/ Claimable(rows[u]) /\ rows'[u] = Claimed(rows[u])
             \/ /\ At(r, "store") /\ req[r].pushed = Variants
                /\ Completable(rows[u]) /\ rows'[u] = Completed(rows[u], Variants)
             \/ rows'[u] \in {Released(rows[u]), Failed(rows[u]), Expired(rows[u]),
                              Cancelled(rows[u]), Deleted(rows[u]), Cleaned(rows[u]),
                                 SessionEnded(rows[u])}
  BY <1>4 DEF RowMoves, Write, Current, TypeOK
<1>5. ASSUME NEW r \in Requests, Resume(r), RowMoves(r), req[r].upload = u,
             At(r, "store"), req[r].pushed = Variants,
             Completable(rows[u]), rows'[u] = Completed(rows[u], Variants)
      PROVE  /\ ~(rows[u].asset = "deleted")
             /\ rows'[u].asset = "ready"
             /\ rows[u].session # "completed"
  BY <1>1, <1>5 DEF Completable, Completed, Row
<1>6. ASSUME NEW r \in Requests, Resume(r), RowMoves(r), req[r].upload = u,
             \/ Claimable(rows[u]) /\ rows'[u] = Claimed(rows[u])
             \/ rows'[u] \in {Released(rows[u]), Failed(rows[u]), Expired(rows[u]),
                              Cancelled(rows[u]), Deleted(rows[u]), Cleaned(rows[u]),
                                 SessionEnded(rows[u])}
      PROVE  rows'[u].variants = rows[u].variants
  BY <1>1, <1>6 DEF Row, Claimed, Released, Failed, Expired, Cancelled, Deleted, Cleaned, SessionEnded
<1>7. CASE \E r \in Requests : Resume(r) /\ RowMoves(r) /\ req[r].upload = u
  <2>1. PICK r \in Requests : Resume(r) /\ RowMoves(r) /\ req[r].upload = u
    BY <1>7
  <2>2. CASE /\ At(r, "store") /\ req[r].pushed = Variants
             /\ Completable(rows[u]) /\ rows'[u] = Completed(rows[u], Variants)
    BY <1>5, <2>1, <2>2
  <2>3. CASE \/ Claimable(rows[u]) /\ rows'[u] = Claimed(rows[u])
             \/ rows'[u] \in {Released(rows[u]), Failed(rows[u]), Expired(rows[u]),
                              Cancelled(rows[u]), Deleted(rows[u]), Cleaned(rows[u]),
                                 SessionEnded(rows[u])}
    <3>1. rows'[u].variants = rows[u].variants
      BY <1>6, <2>1, <2>3
    <3>2. rows'[u].asset = "ready" => rows[u].asset = "ready"
      BY <1>1, <2>3 DEF Row, Claimed, Released, Failed, Expired, Cancelled, Deleted, Cleaned, SessionEnded, Moved
    <3>3. QED
      BY <1>1, <2>3, <3>1, <3>2, StrictWrites
  <2>4. QED
    BY <1>4, <2>1, <2>2, <2>3
<1>8. QED
  BY <1>2, <1>3, <1>7, RowsMove

\* A variant object goes only under the claim of its upload, with its asset,
\* or with an asset taken for an orphan.
LEMMA VariantDeleted ==
  ASSUME VariantInv, [Next]_vars, NEW u \in Uploads, NEW v \in Variants,
         <<u, v>> \in objects, <<u, v>> \notin objects'
  PROVE  \/ \E r \in Requests : Resume(r) /\ At(r, "sweep") /\ req[r].upload = u
         \/ rows[u].asset = "deleted"
         \/ rows[u].asset = "ready" /\ u \in orphaned'
<1>1. TypeOK /\ <<u, v>> \in Key
  BY DEF VariantInv, ClaimInv, Key
<1>2. PICK r \in Requests : Resume(r) /\ <<u, v>> \in Deleting(r) /\ Recorded(r)
  BY <1>1, ObjectsMove DEF VariantInv
<1>3. CASE At(r, "sweep")
  <2>1. Deleting(r) = PushedKeys(r)
    BY <1>3 DEF Deleting, At
  <2>2. req[r].upload = u
    BY <1>2, <2>1 DEF PushedKeys, VariantKeys
  <2>3. QED
    BY <1>2, <1>3, <2>2
<1>4. CASE At(r, "discard")
  BY <1>2, <1>4, OriginalAssumption DEF Deleting, At, OriginalKey
<1>5. CASE At(r, "purge")
  <2>1. req[r].upload = u
    BY <1>2, <1>5 DEF Deleting, At, SeenKeys, OriginalKey, VariantKeys
  <2>2. QED
    BY <1>5, <2>1 DEF VariantInv, Purging, Current
<1>6. CASE At(r, "clean")
  <2>1. <<u, v>> \in SeenKeys(r)
    BY <1>2, <1>6 DEF Deleting, At
  <2>2. req[r].upload = u /\ v \in req[r].seen.variants
    BY <2>1, OriginalAssumption DEF SeenKeys, VariantKeys, OriginalKey
  <2>3. req[r].seen.asset = "ready" /\ rows[u].asset \in {"ready", "deleted"}
    BY <1>6, <2>2 DEF VariantInv, CleanReads, Current
  <2>4. QED
    BY <1>2, <1>6, <2>2, <2>3 DEF Recorded
<1>7. QED
  BY <1>2, <1>3, <1>4, <1>5, <1>6 DEF Deleting, At

LEMMA NextVariantInv ==
  ASSUME StrictRepository, ~OutboxMode, "lost_reply" \notin Faults
  PROVE  VariantInv /\ [Next]_vars => VariantInv'
<1> SUFFICES ASSUME VariantInv, [Next]_vars PROVE VariantInv'
  OBVIOUS
<1>1. TypeOK /\ TypeOK' /\ ClaimInv /\ ClaimInv' /\ HeldInWork /\ HeldInWork'
  BY NextKeepsClaimInv, NextHeldInWork DEF VariantInv, ClaimInv
<1>2. jobs' = {}
  BY <1>1, ObjectsMove DEF VariantInv, TypeOK
<1>3. VariantsWhenCompleted'
  <2> SUFFICES ASSUME NEW u \in Uploads, rows'[u].variants # {}
               PROVE  rows'[u].session = "completed" /\ rows'[u].asset \in {"ready", "deleted"}
    BY DEF VariantsWhenCompleted
  <2>1. CASE rows'[u].variants = rows[u].variants
    <3>1. rows[u].session = "completed" /\ rows[u].asset \in {"ready", "deleted"}
      BY <2>1 DEF VariantInv, VariantsWhenCompleted
    <3>2. QED
      BY <1>1, <3>1, StrictRowStep
  <2>2. CASE Completable(rows[u]) /\ rows'[u] = Completed(rows[u], Variants)
    BY <1>1, <2>2 DEF Completed, Row, TypeOK
  <2>3. QED
    BY <1>1, <2>1, <2>2, StrictRowStep
<1>4. CleanReads'
  <2> SUFFICES ASSUME NEW r \in Requests, At(r, "clean")', req'[r].seen.variants # {}
               PROVE  /\ req'[r].seen.asset = "ready"
                      /\ Current(r)'.session = "completed"
                      /\ Current(r)'.asset \in {"ready", "deleted"}
    BY DEF CleanReads
  <2>1. CASE req'[r] = req[r]
    <3>1. /\ req[r].seen.asset = "ready" /\ req[r].upload \in Uploads
          /\ Current(r).session = "completed" /\ Current(r).asset \in {"ready", "deleted"}
      BY <1>1, <2>1, CallTyped DEF VariantInv, CleanReads, At
    <3>2. QED
      BY <1>1, <2>1, <3>1, StrictRowStep DEF Current
  <2>2. ASSUME NEW u \in Uploads, Start(r, u)
        PROVE  /\ req'[r].seen.asset = "ready"
               /\ Current(r)'.session = "completed"
               /\ Current(r)'.asset \in {"ready", "deleted"}
    <3>1. Stale(u) /\ req'[r].seen = rows[u] /\ req'[r].upload = u /\ rows' = rows
      BY <1>1, <2>2, StartCall DEF StartMoves, At
    <3>2. rows[u].session = "completed" /\ rows[u].asset \in {"ready", "deleted"}
      BY <3>1 DEF VariantInv, VariantsWhenCompleted
    <3>3. rows[u].asset = "ready"
      BY <3>1, <3>2 DEF Stale
    <3>4. QED
      BY <3>1, <3>2, <3>3 DEF Current
  <2>3. ~CallMoves(r)
    BY ModeAssumption DEF CallMoves, At, CatchStep
  <2>4. QED
    BY <1>1, <2>1, <2>2, <2>3, CallsMove DEF At, Idle
<1>5. Purging'
  <2> SUFFICES ASSUME NEW r \in Requests, At(r, "purge")' PROVE Current(r)'.asset = "deleted"
    BY DEF Purging
  <2>1. CASE req'[r] = req[r]
    <3>1. rows[req[r].upload].asset = "deleted" /\ req[r].upload \in Uploads
      BY <1>1, <2>1, CallTyped DEF VariantInv, Purging, At, Current
    <3>2. QED
      BY <1>1, <2>1, <3>1, StrictRowStep DEF Current
  <2>2. CASE Resume(r) /\ CallMoves(r)
    <3>1. req'[r].upload = req[r].upload /\ Write(r, Deleted(Current(r)))
      BY <2>2, ModeAssumption DEF CallMoves, At, CatchStep
    <3>2. req[r].upload \in Uploads /\ Current(r) \in Row
      BY <1>1, <2>2, InFlight, CallTyped
    <3>3. QED
      BY <1>1, <3>1, <3>2 DEF Write, Current, Deleted, Row, TypeOK
  <2>3. QED
    BY <1>1, <2>1, <2>2, CallsMove, StartCall DEF StartMoves, At, Idle
<1>6. NonePushed'
  <2> SUFFICES ASSUME NEW r \in Requests,
                      req'[r].step \notin {"store", "enqueue", "sweep", "settle", "discard"}
               PROVE  req'[r].pushed = {}
    BY DEF NonePushed
  <2>1. CASE CallMoves(r)
    <3>1. /\ req[r].step \notin {"store", "enqueue", "sweep", "settle", "discard"}
          /\ req'[r].pushed = req[r].pushed
      BY <2>1, ModeAssumption DEF CallMoves, At, CatchStep
    <3>2. QED
      BY <3>1 DEF VariantInv, NonePushed
  <2>2. QED
    BY <1>1, <2>1, CallsMove, StartCall DEF StartMoves, Idle, VariantInv, NonePushed
<1>7. StorePushed'
  <2> SUFFICES ASSUME NEW r \in Requests, At(r, "store")', Current(r)'.asset = "processing"
               PROVE  VariantKeys(req[r].upload, req[r].pushed)' \subseteq objects'
    BY DEF StorePushed
  <2>1. PICK u : u = req[r].upload
    OBVIOUS
  <2>2. CASE At(r, "store") /\ req'[r].upload = u
    <3>1. Holds(r) /\ u \in Uploads /\ rows'[u].asset = "processing"
      BY <1>1, <2>1, <2>2, CallTyped DEF Holds, At, Current
    <3>2. rows[u].asset = "processing"
      <4>1. ~Claimable(rows[u])
        BY <2>1, <3>1 DEF VariantInv, ClaimInv, HeldProtected, Protected, Current
      <4>2. QED
        BY <1>1, <3>1, <4>1, StrictRowStep
    <3>3. VariantKeys(u, req[r].pushed) \subseteq objects
      BY <2>1, <2>2, <3>2 DEF VariantInv, StorePushed, Current
    <3>4. req[r].pushed \subseteq Variants
      BY <1>1, <2>2, CallTyped DEF At, Call
    <3>5. ASSUME NEW v \in req[r].pushed PROVE <<u, v>> \in objects'
      <4>1. <<u, v>> \in objects /\ v \in Variants
        BY <3>3, <3>4 DEF VariantKeys
      <4>2. ~\E q \in Requests : Resume(q) /\ At(q, "sweep") /\ req[q].upload = u
        BY <2>1, <2>2 DEF VariantInv, ClaimInv, ClaimExclusive, Holds, At
      <4>3. QED
        BY <3>1, <3>2, <4>1, <4>2, VariantDeleted
    <3>6. CASE req'[r].pushed = req[r].pushed
      BY <2>2, <3>5, <3>6 DEF VariantKeys
    <3>7. CASE \E v \in Variants : /\ req'[r].pushed = req[r].pushed \cup {v}
                                   /\ objects' = objects \cup VariantKeys(u, {v})
      BY <2>2, <3>5, <3>7 DEF VariantKeys
    <3>8. CASE Resume(r) /\ CallMoves(r)
      BY <2>1, <2>2, <3>6, <3>7, <3>8, ModeAssumption DEF CallMoves, At, CatchStep
    <3>9. req'[r] = req[r] => req'[r].pushed = req[r].pushed
      OBVIOUS
    <3>10. QED
      BY <1>1, <2>2, <3>6, <3>8, <3>9, CallsMove, StartCall DEF StartMoves, At, Idle
  <2>3. CASE req'[r].pushed = {}
    BY <2>3 DEF VariantKeys
  <2>4. CASE req'[r] = req[r]
    BY <2>1, <2>2, <2>4 DEF At
  <2>5. CASE Resume(r) /\ CallMoves(r)
    <3>1. At(r, "load") => req[r].pushed = {}
      BY DEF VariantInv, NonePushed, At
    <3>2. req'[r].upload = u
      BY <2>1, <2>5 DEF CallMoves
    <3>3. At(r, "store") \/ (At(r, "load") /\ req'[r].pushed = req[r].pushed)
      BY <2>5, ModeAssumption DEF CallMoves, At, CatchStep
    <3>4. QED
      BY <2>2, <2>3, <3>1, <3>2, <3>3
  <2>6. QED
    BY <1>1, <2>3, <2>4, <2>5, CallsMove, StartCall DEF StartMoves, At, Idle
<1>8. ReadyVariantsStored'
  <2> SUFFICES ASSUME NEW u \in Uploads, u \notin orphaned', rows'[u].asset = "ready",
                      NEW v \in rows'[u].variants
               PROVE  <<u, v>> \in objects'
    BY DEF ReadyVariantsStored, VariantKeys
  <2>0. u \notin orphaned
    BY <1>1, ObjectsMove, OriginalInKey
  <2>1. v \in Variants /\ rows'[u] \in Row
    BY <1>1 DEF TypeOK, Row
  <2>2. CASE rows[u].asset = "ready" /\ rows'[u].variants = rows[u].variants
    <3>1. <<u, v>> \in objects /\ u \notin orphaned
      BY <2>0, <2>2 DEF VariantInv, ReadyVariantsStored, VariantKeys
    <3>2. ~\E q \in Requests : Resume(q) /\ At(q, "sweep") /\ req[q].upload = u
      BY <1>1, <2>2 DEF HeldInWork, Holds, At, Current
    <3>3. QED
      BY <2>1, <2>2, <3>1, <3>2, VariantDeleted
  <2>3. ASSUME NEW r \in Requests, Resume(r), At(r, "store"), req[r].upload = u,
               req[r].pushed = Variants, Completable(rows[u])
        PROVE  <<u, v>> \in objects'
    <3>1. rows[u].asset = "processing"
      BY <2>3 DEF Completable
    <3>2. <<u, v>> \in objects
      BY <2>1, <2>3, <3>1 DEF VariantInv, StorePushed, Current, VariantKeys
    <3>3. ~\E q \in Requests : Resume(q) /\ At(q, "sweep") /\ req[q].upload = u
      BY <2>3 DEF VariantInv, ClaimInv, ClaimExclusive, Holds, At
    <3>4. QED
      BY <2>1, <3>1, <3>2, <3>3, VariantDeleted
  <2>4. QED
    BY <1>1, <2>2, <2>3, StrictRowStep
<1>9. QED
  BY <1>1, <1>2, <1>3, <1>4, <1>5, <1>6, <1>7, <1>8 DEF VariantInv

LEMMA InitVariantInv == Init => VariantInv
<1> SUFFICES ASSUME Init PROVE VariantInv
  OBVIOUS
<1>1. \A r \in Requests : req[r] = Idle /\ req[r].step = "idle" /\ req[r].pushed = {}
  BY DEF Init, Idle
<1>2. \A u \in Uploads : rows[u] = NoRow /\ rows[u].variants = {} /\ rows[u].asset = "none"
  BY DEF Init, NoRow
<1>3. ClaimInv /\ HeldInWork /\ CleanReads /\ Purging /\ NonePushed /\ StorePushed
  BY <1>1, InitTyped
     DEF ClaimInv, HeldProtected, ClaimExclusive, HeldInWork, Holds, At, CleanReads, Purging,
         NonePushed, StorePushed
<1>4. jobs = {} /\ VariantsWhenCompleted /\ ReadyVariantsStored
  BY <1>2 DEF Init, VariantsWhenCompleted, ReadyVariantsStored
<1>5. QED
  BY <1>3, <1>4 DEF VariantInv

\* With immediate deletion over a repository that guards every transition, and
\* as long as no commit's reply is lost, every variant row of a ready asset
\* names an object that exists, whichever attempt stored it and whatever the
\* catch blocks, deletions and cleanups of other calls have deleted.
THEOREM ReadyVariantsAreStored ==
  ASSUME StrictRepository, ~OutboxMode, "lost_reply" \notin Faults
  PROVE  Spec => []ReadyVariantsStored
<1>1. VariantInv => ReadyVariantsStored
  BY DEF VariantInv
<1>2. QED
  BY <1>1, InitVariantInv, NextVariantInv, PTL DEF Spec

-----------------------------------------------------------------------------
(* Originals and the outbox, whatever the repository guards.  An original    *)
(* that exists belongs to an upload whose intent has returned; a row is      *)
(* deleted, or failed for good, together with the job of its original, by a  *)
(* failed intent nobody can have uploaded to, or by a cleanup that has       *)
(* deleted the original and whose upload can no longer receive one.          *)

Intending(r) == req[r].step \in {"target", "abandon"}

Intents ==
  \A r \in Requests :
    Intending(r) =>
      /\ req[r].upload \notin targets
      /\ \A q \in Requests : Intending(q) /\ req[q].upload = req[r].upload => q = r

UploadedToTarget == \A u \in Uploads : OriginalKey(u) \in objects => u \in targets

CaughtError ==
  \A r \in Requests : req[r].step \in {"enqueue", "sweep", "settle"} => req[r].error # "none"

\* The client may no longer upload to u.
Past(u) == u \in expired \/ rows[u].asset \in {"failed", "ready", "deleted"}

CleanPast ==
  \A r \in Requests : req[r].step \in {"clean", "mark", "mark_asset"} => Past(req[r].upload)

MarkGone ==
  \A r \in Requests :
    req[r].step \in {"mark", "mark_asset"} => OriginalKey(req[r].upload) \notin objects

OutboxInv ==
  /\ TypeOK
  /\ Existing
  /\ Intents
  /\ UploadedToTarget
  /\ CaughtError
  /\ CleanPast
  /\ MarkGone
  /\ OriginalQueued

\* Time passes and targets are known for good.
LEMMA KnownForGood ==
  ASSUME TypeOK, [Next]_vars
  PROVE  expired \subseteq expired' /\ targets \subseteq targets'
<1>1. CASE \E r \in Requests, u \in Uploads : Start(r, u)
  BY <1>1, StartCall
<1>2. ASSUME NEW r \in Requests, Resume(r)
      PROVE  expired' = expired /\ targets \subseteq targets'
  <2>1. CASE ReturnTarget(r)
    BY <2>1 DEF ReturnTarget
  <2>2. CASE ~ReturnTarget(r)
    BY <1>2, <2>2 DEF Resume, TargetFails, AbandonIntent, LeaveUnclaimed,
         FindExpired, ExpireUpload, GoClaim, Claim, ClaimRefused, LoadSource,
         ProcessingFails, StoreVariant, StoreVariantUnrecorded, Commit,
         CommitRefused, CommitReplyLost, EnqueueSweep, Sweep,
         Release, Fail, Discard, CancelUpload, MarkAssetDeleted, Purge,
         CleanObjects, MarkCleaned, MarkSessionExpired, MarkAssetCleaned, PolicyDenies, WriteFails
  <2>3. QED
    BY <2>1, <2>2
<1>3. CASE \/ \E r \in Requests : Crash(r)
           \/ \E w \in Uploads : ClientPut(w) \/ SessionExpires(w)
           \/ \E key \in jobs : RunDeletionJob(key) \/ GiveUpDeletionJob(key)
           \/ UNCHANGED vars
  BY <1>3 DEF Crash, ClientPut, SessionExpires, RunDeletionJob, GiveUpDeletionJob, vars
<1>4. QED
  BY <1>1, <1>2, <1>3 DEF Next

\* An upload that is past stays past.
LEMMA PastForGood ==
  ASSUME TypeOK, [Next]_vars, NEW u \in Uploads, Past(u)
  PROVE  Past(u)'
<1>1. rows[u] \in Row /\ (u \in expired => u \in expired')
  BY KnownForGood DEF TypeOK
<1>2. ASSUME rows[u].asset \in {"failed", "ready", "deleted"}
      PROVE  rows'[u].asset \in {"failed", "ready", "deleted"}
  <2>1. ASSUME NEW new,
               \/ Claimable(rows[u]) /\ new = Claimed(rows[u])
               \/ Completable(rows[u]) /\ new = Completed(rows[u], Variants)
               \/ new \in {Released(rows[u]), Failed(rows[u]), Expired(rows[u]),
                           Cancelled(rows[u]), Deleted(rows[u]), Cleaned(rows[u]),
                                 SessionEnded(rows[u])}
        PROVE  new.asset \in {"failed", "ready", "deleted"}
    BY <1>1, <1>2, <2>1
       DEF Row, Claimable, Completed, Released, Failed, Expired, Cancelled, Deleted, Cleaned, SessionEnded, Moved
  <2>2. QED
    BY <1>2, <2>1, RowsMove, RowsWritten, InFlight DEF NoRow
<1>3. QED
  BY <1>1, <1>2 DEF Past

\* An original appears only while its upload is not past.
LEMMA OriginalAppears ==
  ASSUME TypeOK, "late_put" \notin Faults, [Next]_vars, NEW u \in Uploads,
         OriginalKey(u) \notin objects, OriginalKey(u) \in objects'
  PROVE  u \in targets /\ Claimable(rows[u]) /\ u \notin expired /\ UNCHANGED <<rows, req>>
<1>1. OriginalKey(u) \in Key
  BY DEF OriginalKey, Key
<1>2. ASSUME NEW w, NEW v \in Variants PROVE OriginalKey(u) # <<w, v>>
  BY OriginalAssumption DEF OriginalKey
<1>3. PICK w \in targets : ClientPut(w) /\ OriginalKey(u) = OriginalKey(w)
  BY <1>1, <1>2, ObjectsMove
<1>4. w = u
  BY <1>3 DEF OriginalKey
<1>5. QED
  BY <1>3, <1>4 DEF ClientPut

\* How a row comes to be deleted or failed.
LEMMA RowEnds ==
  ASSUME TypeOK, [Next]_vars, NEW u \in Uploads,
         ~(rows[u].asset = "deleted" \/ rows[u].session = "failed"),
         rows'[u].asset = "deleted" \/ rows'[u].session = "failed"
  PROVE  \E r \in Requests :
           /\ Resume(r) /\ req[r].upload = u
           /\ \/ At(r, "abandon")
              \/ /\ At(r, "settle") /\ ~Releases(r)
                 /\ Enqueue(IF req[r].error = "terminal" THEN {OriginalKey(u)} ELSE {})
              \/ At(r, "cancel") /\ Enqueue({OriginalKey(u)})
              \/ At(r, "delete") /\ Enqueue(SeenKeys(r))
              \/ req[r].step \in {"mark", "mark_asset"}
<1>1. rows[u] \in Row
  BY DEF TypeOK
<1>2. ASSUME NEW new \in {Released(rows[u]), Expired(rows[u]), Claimed(rows[u]),
                          Completed(rows[u], Variants)}
      PROVE  ~(new.asset = "deleted" \/ new.session = "failed")
  BY <1>1 DEF Row, Released, Expired, Claimed, Completed, Moved
<1>3. PICK r \in Requests : Resume(r) /\ RowMoves(r) /\ req[r].upload = u
  BY RowsMove DEF NoRow, PendingRow
<1>4. ~(Write(r, Released(rows[u])) \/ Write(r, Expired(rows[u])) \/ Write(r, Claimed(rows[u]))
        \/ Write(r, Completed(rows[u], Variants)))
  BY <1>2, <1>3 DEF Write, TypeOK
<1>5. QED
  BY <1>3, <1>4 DEF RowMoves, Current, At

LEMMA NextOriginalQueued ==
  ASSUME OutboxMode, CanRelease, "late_put" \notin Faults, OutboxInv, [Next]_vars
  PROVE  OriginalQueued'
<1> SUFFICES ASSUME NEW u \in Uploads,
                    rows'[u].asset = "deleted" \/ rows'[u].session = "failed",
                    OriginalKey(u) \in objects', OriginalKey(u) \notin jobs' \cup givenUp'
             PROVE  FALSE
  BY DEF OriginalQueued, OriginalKey
<1>1. TypeOK /\ OriginalKey(u) \in Key
  BY DEF OutboxInv, OriginalKey, Key
<1>2. OriginalKey(u) \in objects
  BY <1>1, OriginalAppears DEF OutboxInv, Claimable
<1>3. OriginalKey(u) \notin jobs \cup givenUp
  BY <1>1, ObjectsMove
<1>4. ~(rows[u].asset = "deleted" \/ rows[u].session = "failed")
  BY <1>2, <1>3 DEF OutboxInv, OriginalQueued
<1>5. PICK r \in Requests :
           /\ Resume(r) /\ req[r].upload = u
           /\ \/ At(r, "abandon")
              \/ /\ At(r, "settle") /\ ~Releases(r)
                 /\ Enqueue(IF req[r].error = "terminal" THEN {OriginalKey(u)} ELSE {})
              \/ At(r, "cancel") /\ Enqueue({OriginalKey(u)})
              \/ At(r, "delete") /\ Enqueue(SeenKeys(r))
              \/ req[r].step \in {"mark", "mark_asset"}
  BY <1>1, <1>4, RowEnds
<1>6. CASE At(r, "abandon")
  BY <1>2, <1>5, <1>6 DEF OutboxInv, Intents, Intending, At, UploadedToTarget
<1>7. CASE At(r, "settle") /\ ~Releases(r)
           /\ Enqueue(IF req[r].error = "terminal" THEN {OriginalKey(u)} ELSE {})
  <2>1. req[r].error \in {"none", "retryable", "terminal"}
    BY <1>1, <1>7, CallTyped DEF At, Call
  <2>2. req[r].error = "terminal"
    BY <1>7, <2>1 DEF Releases, OutboxInv, CaughtError, At
  <2>3. QED
    BY <1>7, <2>2 DEF Enqueue
<1>8. CASE At(r, "cancel") /\ Enqueue({OriginalKey(u)})
  BY <1>8 DEF Enqueue
<1>9. CASE At(r, "delete") /\ Enqueue(SeenKeys(r))
  BY <1>5, <1>9 DEF Enqueue, SeenKeys
<1>10. CASE req[r].step \in {"mark", "mark_asset"}
  BY <1>2, <1>5, <1>10 DEF OutboxInv, MarkGone
<1>11. QED
  BY <1>5, <1>6, <1>7, <1>8, <1>9, <1>10

LEMMA NextIntents ==
  ASSUME TypeOK, Existing, Intents, [Next]_vars
  PROVE  Intents'
<1> SUFFICES ASSUME NEW r \in Requests, Intending(r)'
             PROVE  /\ req'[r].upload \notin targets'
                    /\ \A q \in Requests :
                         Intending(q)' /\ req'[q].upload = req'[r].upload => q = r
  BY DEF Intents
<1>1. ASSUME NEW q \in Requests, Intending(q)'
      PROVE  \/ Intending(q) /\ req'[q].upload = req[q].upload
             \/ \E w \in Uploads : Start(q, w) /\ req'[q].upload = w /\ rows[w] = NoRow
  <2>1. CASE CallMoves(q)
    BY <1>1, <2>1, ModeAssumption DEF CallMoves, At, CatchStep, Intending
  <2>2. ASSUME NEW w \in Uploads, Start(q, w)
        PROVE  req'[q].upload = w /\ rows[w] = NoRow
    BY <1>1, <2>2, StartCall DEF StartMoves, At, Intending
  <2>3. CASE req'[q] = req[q]
    BY <1>1, <2>3 DEF Intending
  <2>4. CASE req'[q] = Idle
    BY <1>1, <2>4 DEF Intending, Idle
  <2>5. QED
    BY <2>1, <2>2, <2>3, <2>4, CallsMove
<1>2. CASE \E q \in Requests : \E w \in Uploads :
             Start(q, w) /\ req'[q].upload = w /\ rows[w] = NoRow
  <2>1. PICK q \in Requests, w \in Uploads :
               Start(q, w) /\ req'[q].upload = w /\ rows[w] = NoRow
    BY <1>2
  <2>2. targets' = targets /\ w \notin targets /\ \A p \in Requests \ {q} : req'[p] = req[p]
    BY <2>1, StartCall DEF Existing, NoRow
  <2>3. \A p \in Requests : Intending(p) => req[p].upload # w
    BY <2>1 DEF Existing, Current, NoRow, Intending, At
  <2>4. \A p \in Requests : Intending(p)' => p = q \/ (Intending(p) /\ req'[p] = req[p])
    BY <2>2 DEF Intending
  <2>5. QED
    BY <2>1, <2>2, <2>3, <2>4 DEF Intents
<1>3. CASE ~\E q \in Requests : \E w \in Uploads :
             Start(q, w) /\ req'[q].upload = w /\ rows[w] = NoRow
  <2>1. \A q \in Requests : Intending(q)' => Intending(q) /\ req'[q].upload = req[q].upload
    BY <1>1, <1>3
  <2>2. req[r].upload \in Uploads /\ req[r].upload \notin targets
    BY <2>1, CallTyped DEF Intents, Intending, At
  <2>3. req[r].upload \notin targets'
    <3>1. SUFFICES ASSUME req[r].upload \in targets' PROVE FALSE
      OBVIOUS
    <3>2. PICK q \in Requests : /\ Resume(q) /\ At(q, "target")
                                /\ req[q].upload = req[r].upload /\ req'[q] = Idle
      BY <2>2, <3>1, TargetsMove
    <3>3. q = r
      BY <2>1, <3>2 DEF Intents, Intending, At
    <3>4. QED
      BY <3>2, <3>3 DEF Intending, Idle
  <2>4. QED
    BY <2>1, <2>3 DEF Intents
<1>4. QED
  BY <1>2, <1>3

LEMMA NextOutboxInv ==
  ASSUME OutboxMode, CanRelease, "late_put" \notin Faults
  PROVE  OutboxInv /\ [Next]_vars => OutboxInv'
<1> SUFFICES ASSUME OutboxInv, [Next]_vars PROVE OutboxInv'
  OBVIOUS
<1>1. TypeOK /\ TypeOK' /\ Existing /\ Existing' /\ Intents'
  BY NextTyped, NextExisting, NextIntents DEF OutboxInv
<1>2. UploadedToTarget'
  <2> SUFFICES ASSUME NEW u \in Uploads, OriginalKey(u) \in objects' PROVE u \in targets'
    BY DEF UploadedToTarget, OriginalKey
  <2>1. u \in targets
    BY <1>1, OriginalAppears DEF OutboxInv, UploadedToTarget
  <2>2. QED
    BY <1>1, <2>1, KnownForGood
<1>3. CaughtError'
  <2> SUFFICES ASSUME NEW r \in Requests, req'[r].step \in {"enqueue", "sweep", "settle"}
               PROVE  req'[r].error # "none"
    BY DEF CaughtError
  <2>1. CASE CallMoves(r)
    <3>1. \/ req'[r].error \in {"retryable", "terminal"}
          \/ /\ req[r].step \in {"enqueue", "sweep"}
             /\ req'[r].error = req[r].error
      BY <2>1 DEF CallMoves, At
    <3>2. QED
      BY <3>1 DEF OutboxInv, CaughtError
  <2>2. QED
    BY <1>1, <2>1, CallsMove, StartCall DEF StartMoves, At, Idle, OutboxInv, CaughtError
<1>4. CleanPast'
  <2> SUFFICES ASSUME NEW r \in Requests, req'[r].step \in {"clean", "mark", "mark_asset"}
               PROVE  Past(req[r].upload)'
    BY DEF CleanPast
  <2>1. ASSUME req[r].step \in {"clean", "mark", "mark_asset"}, req'[r].upload = req[r].upload
        PROVE  Past(req[r].upload)'
    <3>1. PICK u \in Uploads : u = req[r].upload
      BY <1>1, <2>1, CallTyped DEF At
    <3>2. Past(u)'
      BY <1>1, <2>1, <3>1, PastForGood DEF OutboxInv, CleanPast
    <3>3. QED
      BY <2>1, <3>1, <3>2 DEF Past
  <2>2. ASSUME NEW u \in Uploads, Start(r, u) PROVE Past(req[r].upload)'
    <3>1. Stale(u) /\ req'[r].upload = u
      BY <1>1, <2>2, StartCall DEF StartMoves, At
    <3>2. Past(u)
      BY <3>1 DEF Stale, Past
    <3>3. Past(u)'
      BY <1>1, <3>2, PastForGood
    <3>4. QED
      BY <3>1, <3>3 DEF Past
  <2>3. CASE CallMoves(r)
    <3>1. req[r].step \in {"clean", "mark", "mark_asset"} /\ req'[r].upload = req[r].upload
      BY <2>3, ModeAssumption DEF CallMoves, At, CatchStep
    <3>2. QED
      BY <2>1, <3>1
  <2>4. CASE req'[r] = req[r]
    BY <2>1, <2>4
  <2>5. req'[r] # Idle
    BY DEF Idle
  <2>6. QED
    BY <1>1, <2>2, <2>3, <2>4, <2>5, CallsMove
<1>5. MarkGone'
  <2> SUFFICES ASSUME NEW r \in Requests, req'[r].step \in {"mark", "mark_asset"},
                      OriginalKey(req'[r].upload) \in objects'
               PROVE  FALSE
    BY DEF MarkGone, OriginalKey
  <2>1. CASE req[r].step \in {"mark", "mark_asset"} /\ req'[r].upload = req[r].upload
    <3>1. PICK u \in Uploads : u = req[r].upload
      BY <1>1, <2>1, CallTyped DEF At
    <3>2. Past(u) /\ OriginalKey(u) \notin objects
      BY <2>1, <3>1 DEF OutboxInv, MarkGone, CleanPast, At
    <3>3. QED
      BY <1>1, <2>1, <3>1, <3>2, OriginalAppears DEF Past, Claimable
  <2>2. CASE CallMoves(r)
    <3>1. /\ req'[r].upload = req[r].upload
          /\ objects' = objects \ SeenKeys(r) \/ At(r, "mark")
      BY <2>2, ModeAssumption DEF CallMoves, At, CatchStep
    <3>2. QED
      BY <2>1, <3>1 DEF SeenKeys, At
  <2>3. req'[r] # Idle /\ \A w \in Uploads : ~Start(r, w)
    BY <1>1, StartCall DEF StartMoves, At, Idle
  <2>4. CASE req'[r] = req[r]
    BY <2>1, <2>4
  <2>5. QED
    BY <1>1, <2>2, <2>3, <2>4, CallsMove
<1>6. QED
  BY <1>1, <1>2, <1>3, <1>4, <1>5, NextOriginalQueued DEF OutboxInv

LEMMA InitOutboxInv == Init => OutboxInv
<1> SUFFICES ASSUME Init PROVE OutboxInv
  OBVIOUS
<1>1. \A r \in Requests : req[r].step = "idle"
  BY DEF Init, Idle
<1>2. objects = {}
  BY DEF Init
<1>3. Intents /\ CaughtError /\ CleanPast /\ MarkGone
  BY <1>1 DEF Intents, Intending, CaughtError, CleanPast, MarkGone, At
<1>4. UploadedToTarget /\ OriginalQueued
  BY <1>2 DEF UploadedToTarget, OriginalQueued
<1>5. QED
  BY <1>3, <1>4, InitTyped, InitExisting DEF OutboxInv

\* With the outbox, a repository that implements releaseUploadClaim and a
\* client that uploads only while the session is open, no original is
\* forgotten: once its asset is deleted or its upload failed for good, it is
\* gone or has a pending job, whatever crashed, failed or lost its reply, and
\* whatever else the repository guards.
THEOREM OriginalsAreQueued ==
  ASSUME OutboxMode, CanRelease, "late_put" \notin Faults
  PROVE  Spec => []OriginalQueued
<1>1. OutboxInv => OriginalQueued
  BY DEF OutboxInv
<1>2. QED
  BY <1>1, InitOutboxInv, NextOutboxInv, PTL DEF Spec
-----------------------------------------------------------------------------
(* The originals of open uploads.  Whoever deletes an original, now or by a  *)
(* job, first made sure that its upload is retired: closed by a write, or    *)
(* out of reach because nobody holds the claim that is still in its rows; or *)
(* it is a cleanup, and the time of the upload is over.                      *)

Closed(row) ==
  \/ row.asset \in {"failed", "ready", "deleted"}
  \/ row.session \in {"completed", "expired", "cancelled", "failed"}

Retired(u) ==
  \/ Closed(rows[u])
  \/ Protected(rows[u]) /\ \A r \in Requests : Holds(r) => req[r].upload # u

DeletersRetired ==
  /\ \A r \in Requests : req[r].step \in {"discard", "purge"} => Retired(req[r].upload)
  /\ \A r \in Requests :
       At(r, "clean") => req[r].upload \in expired \/ Closed(Current(r))
  /\ \A u \in Uploads : OriginalKey(u) \in jobs => Retired(u)
  /\ \A r \in Requests : At(r, "cancel") => "cancel" \in Calls

KeptInv == ClaimInv /\ Existing /\ DeletersRetired

\* A closed row stays closed, and is not claimable.
LEMMA ClosedForGood ==
  ASSUME TypeOK, [Next]_vars, NEW u \in Uploads, Closed(rows[u])
  PROVE  Closed(rows'[u]) /\ ~Claimable(rows[u])
<1>1. rows[u] \in Row /\ rows[u] # NoRow /\ ~Claimable(rows[u])
  BY DEF TypeOK, Closed, NoRow, Claimable
<1>2. ASSUME NEW new \in {Completed(rows[u], Variants), Released(rows[u]), Failed(rows[u]),
                          Expired(rows[u]), Cancelled(rows[u]), Deleted(rows[u]),
                          Cleaned(rows[u]), SessionEnded(rows[u])}
      PROVE  Closed(new)
  <2>1. CASE rows[u].asset \in {"failed", "ready", "deleted"}
    BY <1>1, <1>2, <2>1 DEF Row, Closed, Completed, Released, Failed, Expired, Cancelled, Deleted,
                            Cleaned, SessionEnded, Moved
  <2>2. CASE rows[u].session \in {"completed", "expired", "cancelled", "failed"}
    BY <1>1, <1>2, <2>2 DEF Row, Closed, Completed, Released, Failed, Expired, Cancelled, Deleted,
                            Cleaned, SessionEnded, Moved
  <2>3. QED
    BY <2>1, <2>2 DEF Closed
<1>3. QED
  BY <1>1, <1>2, RowsMove, RowsWritten, InFlight

\* A retired upload stays retired.
LEMMA RetiredForGood ==
  ASSUME ClaimInv, [Next]_vars, NEW u \in Uploads, Retired(u)
  PROVE  Retired(u)'
<1>1. TypeOK /\ rows[u] \in Row
  BY DEF ClaimInv, TypeOK
<1>2. CASE Closed(rows[u])
  BY <1>1, <1>2, ClosedForGood DEF Retired
<1>3. CASE Protected(rows[u]) /\ \A r \in Requests : Holds(r) => req[r].upload # u
  <2>1. ASSUME NEW r \in Requests, Holds(r)' PROVE req'[r].upload # u
    <3>1. CASE Holds(r) /\ req'[r].upload = req[r].upload
      BY <1>3, <3>1
    <3>2. CASE Resume(r) /\ CallMoves(r) /\ ~Holds(r)
      <4>1. Claimable(Current(r)) /\ req'[r].upload = req[r].upload
        BY <2>1, <3>2 DEF CallMoves, Holds, At
      <4>2. QED
        BY <1>3, <4>1 DEF Protected, Current
    <3>3. ASSUME NEW w \in Uploads, Start(r, w) PROVE FALSE
      BY <1>1, <2>1, <3>3, StartCall DEF StartMoves, Holds, At
    <3>4. CASE req'[r] = req[r]
      BY <2>1, <3>1, <3>4 DEF Holds
    <3>5. req'[r] # Idle
      BY <2>1 DEF Holds, Idle
    <3>6. CallMoves(r) => req'[r].upload = req[r].upload
      BY DEF CallMoves
    <3>7. QED
      BY <1>1, <3>1, <3>2, <3>3, <3>4, <3>5, <3>6, CallsMove
  <2>2. Protected(rows'[u])
    <3>1. CASE rows'[u] = rows[u]
      BY <1>3, <3>1
    <3>2. ASSUME NEW r \in Requests, Resume(r), RowMoves(r), req[r].upload = u
          PROVE  Protected(rows'[u])
      <4>1. ~Claimable(rows[u])
        BY <1>3 DEF Protected
      <4>2. rows'[u] \in {Completed(rows[u], Variants), Failed(rows[u]), Expired(rows[u]),
                          Cancelled(rows[u]), Deleted(rows[u]), Cleaned(rows[u]),
                          SessionEnded(rows[u])}
        BY <1>1, <1>3, <3>2, <4>1 DEF RowMoves, Write, Current, TypeOK, Holds, At
      <4>3. QED
        BY <1>1, <1>3, <4>2, RowOperationsProtect
    <3>3. QED
      BY <1>1, <1>3, <3>1, <3>2, RowsMove DEF Protected, NoRow
  <2>3. QED
    BY <2>1, <2>2 DEF Retired, Holds
<1>4. QED
  BY <1>2, <1>3 DEF Retired

\* What the write that announces a deletion does to the row: a failure or a
\* deletion closes it, and so does a cancellation unless the repository
\* silently refuses it.
LEMMA ClosingWritesClose ==
  ASSUME NEW row \in Row
  PROVE  /\ row.session # "none" => Closed(Failed(row))
         /\ Closed(Deleted(row))
         /\ ~StrictRepository => Closed(Cancelled(row))
BY DEF Row, SessionStatus, AssetStatus, Closed, Failed, Deleted, Cancelled, Moved

\* The rows after the write of a call that will delete an original.
LEMMA AnnouncedDeletion ==
  ASSUME KeptInv, ~StrictRepository \/ "cancel" \notin Calls, NEW r \in Requests,
         Fail(r) \/ CancelUpload(r) \/ MarkAssetDeleted(r)
  PROVE  Closed(rows'[req[r].upload])
<1> DEFINE u == req[r].upload
<1>1. TypeOK /\ ~At(r, "idle")
  BY DEF KeptInv, ClaimInv, Fail, CancelUpload, MarkAssetDeleted, At
<1>2. u \in Uploads /\ rows[u] \in Row
  BY <1>1, CallTyped DEF Current
<1>3. CASE Fail(r)
  <2>1. rows[u].session # "none"
    BY <1>3 DEF KeptInv, ClaimInv, HeldProtected, Protected, Holds, At, Current, Fail
  <2>2. rows'[u] = Failed(rows[u])
    BY <1>1, <1>2, <1>3 DEF Fail, Write, Current, TypeOK
  <2>3. QED
    BY <1>2, <2>1, <2>2, ClosingWritesClose
<1>4. CASE CancelUpload(r)
  <2>1. ~StrictRepository
    BY <1>4 DEF KeptInv, DeletersRetired, CancelUpload
  <2>2. rows'[u] = Cancelled(rows[u])
    BY <1>1, <1>2, <1>4 DEF CancelUpload, Write, Current, TypeOK
  <2>3. QED
    BY <1>2, <2>1, <2>2, ClosingWritesClose
<1>5. CASE MarkAssetDeleted(r)
  <2>1. rows'[u] = Deleted(rows[u])
    BY <1>1, <1>2, <1>5 DEF MarkAssetDeleted, Write, Current, TypeOK
  <2>2. QED
    BY <1>2, <2>1, ClosingWritesClose
<1>6. QED
  BY <1>3, <1>4, <1>5

\* A call that moves on to delete an original has closed its upload, or keeps
\* its claim in the rows without holding it.
LEMMA DeleterRetires ==
  ASSUME KeptInv, ~StrictRepository \/ "cancel" \notin Calls,
         NEW r \in Requests, Resume(r), req'[r].step \in {"discard", "purge"},
         NEW u \in Uploads, u = req[r].upload
  PROVE  Retired(u)'
<1>1. TypeOK /\ ClaimInv /\ ~At(r, "idle")
  BY InFlight DEF KeptInv, ClaimInv
<1>2. CASE Fail(r) \/ CancelUpload(r) \/ MarkAssetDeleted(r)
  BY <1>2, AnnouncedDeletion DEF Retired
<1>3. CASE WriteFails(r)
  <2>1. At(r, "settle")
    BY <1>1, <1>3, RequestFields DEF WriteFails, Idle, Goto, At
  <2>2. Protected(rows[u]) /\ rows' = rows
    BY <1>1, <1>3, <2>1 DEF ClaimInv, HeldProtected, Holds, At, Current, WriteFails
  <2>3. \A q \in Requests \ {r} : Holds(q) => req[q].upload # u
    BY <1>1, <2>1 DEF ClaimInv, ClaimExclusive, Holds, At
  <2>4. \A q \in Requests : Holds(q)' => req'[q].upload # u
    BY <1>1, <2>3, OthersUnmoved DEF Holds
  <2>5. QED
    BY <2>2, <2>4 DEF Retired, Holds
<1>4. CallMoves(r) /\ req[r].step \in {"settle", "cancel", "delete"}
  <2>1. req'[r] # Idle
    BY DEF Idle
  <2>2. CallMoves(r)
    BY <1>1, <2>1, ResumeCall
  <2>3. QED
    BY <2>2, ModeAssumption DEF CallMoves, At, CatchStep
<1>5. Fail(r) \/ CancelUpload(r) \/ MarkAssetDeleted(r) \/ WriteFails(r) \/ Release(r)
      \/ PolicyDenies(r)
  BY <1>4 DEF Resume, At, ReturnTarget, TargetFails, AbandonIntent, LeaveUnclaimed,
              FindExpired, ExpireUpload, GoClaim, Claim, ClaimRefused, LoadSource,
              ProcessingFails, StoreVariant, StoreVariantUnrecorded, Commit, CommitWrite,
              CommitRefused, CommitReplyLost, EnqueueSweep, Sweep, Discard, Purge,
              CleanObjects, MarkCleaned, MarkSessionExpired, MarkAssetCleaned
<1>6. Release(r) \/ PolicyDenies(r) => req'[r] = Idle
  BY <1>1 DEF Release, PolicyDenies, Finish, TypeOK
<1>7. QED
  BY <1>2, <1>3, <1>5, <1>6 DEF Idle

\* The job of an original is written together with the row it follows from.
LEMMA OriginalEnqueued ==
  ASSUME KeptInv, ~StrictRepository \/ "cancel" \notin Calls, [Next]_vars,
         NEW u \in Uploads, OriginalKey(u) \in jobs', OriginalKey(u) \notin jobs
  PROVE  Closed(rows'[u])
<1>1. TypeOK
  BY DEF KeptInv, ClaimInv
<1>2. \E r \in Requests : Resume(r)
  BY <1>1, StartCall DEF Next, Crash, ClientPut, SessionExpires, RunDeletionJob,
                         GiveUpDeletionJob, vars
<1>3. PICK r \in Requests : Resume(r)
  BY <1>2
<1>4. EnqueueSweep(r) \/ Fail(r) \/ CancelUpload(r) \/ MarkAssetDeleted(r)
  BY <1>3 DEF Resume, ReturnTarget, TargetFails, AbandonIntent, LeaveUnclaimed,
         FindExpired, ExpireUpload, GoClaim, Claim, ClaimRefused, LoadSource,
         ProcessingFails, StoreVariant, StoreVariantUnrecorded, Commit,
         CommitRefused, CommitReplyLost, Sweep, Release, Discard, Purge,
         CleanObjects, MarkCleaned, MarkSessionExpired, MarkAssetCleaned, PolicyDenies, WriteFails
<1>5. CASE EnqueueSweep(r)
  <2>1. OriginalKey(u) \in PushedKeys(r)
    BY <1>5 DEF EnqueueSweep, Enqueue
  <2>2. req[r].pushed \subseteq Variants
    BY <1>1, <1>3, InFlight, CallTyped DEF Call
  <2>3. QED
    BY <2>1, <2>2, OriginalAssumption DEF PushedKeys, VariantKeys, OriginalKey
<1>6. CASE Fail(r) \/ CancelUpload(r) \/ MarkAssetDeleted(r)
  <2>1. OriginalKey(u) \in SeenKeys(r) \/ OriginalKey(u) = OriginalKey(req[r].upload)
    BY <1>6 DEF Fail, CancelUpload, MarkAssetDeleted, Enqueue
  <2>2. req[r].upload = u
    BY <2>1 DEF SeenKeys, VariantKeys, OriginalKey
  <2>3. QED
    BY <1>6, <2>2, AnnouncedDeletion
<1>7. QED
  BY <1>4, <1>5, <1>6

LEMMA NextKeptInv ==
  ASSUME ~StrictRepository \/ "cancel" \notin Calls
  PROVE  KeptInv /\ [Next]_vars => KeptInv'
<1> SUFFICES ASSUME KeptInv, [Next]_vars PROVE KeptInv'
  OBVIOUS
<1>1. TypeOK /\ ClaimInv /\ ClaimInv' /\ Existing'
  BY NextKeepsClaimInv, NextExisting DEF KeptInv, ClaimInv
<1>2. ASSUME NEW r \in Requests, req'[r].step \in {"discard", "purge"},
             NEW u \in Uploads, u = req'[r].upload
      PROVE  Retired(u)'
  <2>1. CASE req'[r] = req[r]
    <3>1. Retired(u)
      BY <1>2, <2>1 DEF KeptInv, DeletersRetired, At
    <3>2. QED
      BY <1>1, <3>1, RetiredForGood
  <2>2. CASE Resume(r) /\ CallMoves(r)
    <3>1. u = req[r].upload
      BY <1>2, <2>2 DEF CallMoves
    <3>2. QED
      BY <1>2, <2>2, <3>1, DeleterRetires
  <2>3. req'[r] # Idle /\ \A w \in Uploads : ~Start(r, w)
    BY <1>1, <1>2, StartCall DEF StartMoves, At, Idle
  <2>4. QED
    BY <1>1, <2>1, <2>2, <2>3, CallsMove
<1>3. ASSUME NEW r \in Requests, At(r, "clean")'
      PROVE  req'[r].upload \in expired' \/ Closed(Current(r))'
  <2>1. CASE req'[r] = req[r]
    <3>1. /\ req[r].upload \in Uploads
          /\ req[r].upload \in expired \/ Closed(rows[req[r].upload])
      BY <1>1, <1>3, <2>1, CallTyped DEF KeptInv, DeletersRetired, At, Current
    <3>2. QED
      BY <1>1, <2>1, <3>1, ClosedForGood, KnownForGood DEF Current, Closed
  <2>2. ASSUME NEW w \in Uploads, Start(r, w)
        PROVE  req'[r].upload \in expired' \/ Closed(Current(r))'
    <3>1. Stale(w) /\ req'[r].upload = w /\ rows' = rows /\ expired' = expired
      BY <1>1, <1>3, <2>2, StartCall DEF StartMoves, At
    <3>2. QED
      BY <3>1 DEF Stale, Closed, Current
  <2>3. ~CallMoves(r) /\ req'[r] # Idle
    BY <1>3, ModeAssumption DEF CallMoves, At, CatchStep, Idle
  <2>4. QED
    BY <1>1, <2>1, <2>2, <2>3, CallsMove
<1>4. ASSUME NEW u \in Uploads, OriginalKey(u) \in jobs' PROVE Retired(u)'
  <2>1. CASE OriginalKey(u) \in jobs
    BY <1>1, <2>1, RetiredForGood DEF KeptInv, DeletersRetired
  <2>2. CASE OriginalKey(u) \notin jobs
    BY <1>4, <2>2, OriginalEnqueued DEF Retired
  <2>3. QED
    BY <2>1, <2>2
<1>5. ASSUME NEW r \in Requests, At(r, "cancel")' PROVE "cancel" \in Calls
  <2>1. ASSUME NEW w \in Uploads, Start(r, w) PROVE "cancel" \in Calls
    BY <1>1, <1>5, <2>1, StartCall DEF StartMoves, At
  <2>2. ~CallMoves(r) /\ req'[r] # Idle
    BY <1>5, ModeAssumption DEF CallMoves, At, CatchStep, Idle
  <2>3. QED
    BY <1>1, <1>5, <2>1, <2>2, CallsMove DEF KeptInv, DeletersRetired, At
<1>6. ASSUME NEW r \in Requests, req'[r].step \in {"discard", "purge"}
      PROVE  Retired(req[r].upload)'
  <2>1. req'[r].upload \in Uploads
    BY <1>1, <1>6 DEF ClaimInv, TypeOK, Call, Idle
  <2>2. PICK u \in Uploads : u = req'[r].upload
    BY <2>1
  <2>3. Retired(u)'
    BY <1>2, <1>6, <2>2
  <2>4. QED
    BY <2>2, <2>3 DEF Retired
<1>7. DeletersRetired'
  BY <1>3, <1>4, <1>5, <1>6 DEF DeletersRetired, OriginalKey, Retired, At
<1>8. QED
  BY <1>1, <1>7 DEF KeptInv

LEMMA InitKeptInv == Init => KeptInv
<1> SUFFICES ASSUME Init PROVE KeptInv
  OBVIOUS
<1>1. \A r \in Requests : req[r].step = "idle"
  BY DEF Init, Idle
<1>2. ClaimInv
  BY <1>1, InitTyped DEF ClaimInv, HeldProtected, ClaimExclusive, Holds
<1>3. DeletersRetired
  BY <1>1 DEF DeletersRetired, At, Init
<1>4. QED
  BY <1>2, <1>3, InitExisting DEF KeptInv

\* Over the in-memory repository, or without cancellations, nobody takes away
\* the original of an upload that can still be completed, whatever crashes,
\* fails or interleaves and however late a job runs.  Over a repository that
\* silently refuses to cancel what is being processed this fails: the
\* cancellation deletes the original, and the claim may be released.
THEOREM OpenOriginalsKept ==
  ASSUME ~StrictRepository \/ "cancel" \notin Calls
  PROVE  Spec => OpenOriginalKept
<1>1. KeptInv /\ [Next]_vars =>
        [\A u \in Uploads :
           /\ Claimable(rows[u]) /\ u \notin expired
           /\ OriginalKey(u) \in objects
           => OriginalKey(u) \in objects']_vars
  <2> SUFFICES ASSUME KeptInv, [Next]_vars, NEW u \in Uploads,
                      Claimable(rows[u]), u \notin expired,
                      OriginalKey(u) \in objects, OriginalKey(u) \notin objects'
               PROVE  FALSE
    BY DEF OriginalKey
  <2>1. TypeOK /\ OriginalKey(u) \in Key
    BY OriginalInKey DEF KeptInv, ClaimInv
  <2>2. ~Retired(u) /\ ~Closed(rows[u])
    BY DEF Retired, Protected, Closed, Claimable
  <2>3. OriginalKey(u) \notin jobs
    BY <2>2 DEF KeptInv, DeletersRetired
  <2>4. PICK r \in Requests : Resume(r) /\ OriginalKey(u) \in Deleting(r)
    BY <2>1, <2>3, ObjectsMove
  <2>5. CASE At(r, "sweep")
    <3>1. req[r].pushed \subseteq Variants
      BY <2>1, <2>4, InFlight, CallTyped DEF Call
    <3>2. QED
      BY <2>4, <2>5, <3>1, OriginalAssumption
         DEF Deleting, At, PushedKeys, VariantKeys, OriginalKey
  <2>6. CASE req[r].step \in {"discard", "purge", "clean"}
    <3>1. req[r].upload = u
      BY <2>4, <2>6 DEF Deleting, At, SeenKeys, VariantKeys, OriginalKey
    <3>2. QED
      BY <2>2, <2>6, <3>1 DEF KeptInv, DeletersRetired, At, Current
  <2>7. QED
    BY <2>4, <2>5, <2>6 DEF Deleting, At
<1>2. QED
  BY <1>1, InitKeptInv, NextKeptInv, PTL DEF Spec, OpenOriginalKept
=============================================================================
