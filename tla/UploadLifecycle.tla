--------------------------- MODULE UploadLifecycle ---------------------------
(***************************************************************************)
(* The upload workflows of the media-storage core running concurrently     *)
(* against one database and one object store: createUploadIntent,          *)
(* completeUpload, cancelUpload, deleteAsset and cleanup, with the         *)
(* deletion outbox they write to.                                          *)
(*                                                                         *)
(* A request is one call of a workflow.  Between two awaits a request runs *)
(* alone; at every await any other request, the clock, the client or the   *)
(* outbox worker may run.  An action below is the code between two awaits  *)
(* together with the effect of the await it ends in, and "step" names the  *)
(* await at which a request is suspended.                                  *)
(***************************************************************************)
EXTENDS MediaRepository

CONSTANTS
  Uploads,      \* identities of uploads (session and asset together)
  Requests,     \* slots for requests in flight
  NoUpload,     \* the upload of a free slot
  Original,     \* the part of an upload that is not a variant
  OutboxMode,   \* policies.objectDeletionMode = "outbox"
  CanRelease,   \* the repository implements releaseUploadClaim
  Transactional,  \* the repository implements transaction()
  Calls,        \* the workflows the application exposes
  Faults        \* what may go wrong around the program

ASSUME UploadsAssumption == NoUpload \notin Uploads
ASSUME OriginalAssumption == Original \notin Variants
ASSUME ModeAssumption == OutboxMode \in BOOLEAN /\ CanRelease \in BOOLEAN
ASSUME TransactionAssumption ==
  Transactional \in BOOLEAN /\ (OutboxMode => Transactional)
ASSUME CallsAssumption == Calls \subseteq {"complete", "cancel", "delete", "cleanup"}
ASSUME FaultsAssumption ==
  Faults \subseteq {"crash",        \* the server process of a request dies
                    "database",     \* a write fails and leaves no effect
                    "lost_reply",   \* completeUpload commits, its reply is lost
                    "storage",      \* a deletion fails, a job of one for good
                    "late_put"}     \* the client uploads after the session ended

VARIABLES
  rows,      \* database: the rows of each upload
  expired,   \* uploads whose expiresAt has passed
  targets,   \* uploads whose upload URL and session id the client knows
  objects,   \* object store: the keys that exist
  jobs,      \* deletion outbox: the keys with a pending job
  givenUp,   \* deletion outbox: the keys of jobs that failed for good
  forsaken,  \* history: uploads whose claim was lost with its holder, or
             \*   with the failed write that was to give it up
  orphaned,  \* history: uploads whose objects a cleanup deleted while ready
  req        \* the requests in flight

\* What few steps change.
ledger == <<givenUp, forsaken, orphaned>>

vars == <<rows, expired, targets, objects, jobs, ledger, req>>

Key == Uploads \X (Variants \cup {Original})

\* The awaits at which a request may be suspended.
Steps ==
  {"target", "abandon",                               \* createUploadIntent
   "decide", "expire", "claim", "load", "store",      \* completeUpload
   "enqueue", "sweep", "settle",                      \* its catch block
   "cancel",                                          \* cancelUpload
   "delete", "purge",                                 \* deleteAsset
   "clean", "mark", "mark_asset",                     \* cleanup
   "discard"}                     \* deleteObjectBestEffort of the original

\* A call in flight: the rows it has read, the variants whose keys it has
\* pushed to uploadedVariantKeys, and the error its catch block handles.
Call ==
  [step : Steps, upload : Uploads, seen : Row, pushed : SUBSET Variants,
   error : {"none", "retryable", "terminal"}]

\* A free slot.
Idle == [step |-> "idle", upload |-> NoUpload, seen |-> NoRow,
         pushed |-> {}, error |-> "none"]

TypeOK ==
  /\ rows \in [Uploads -> Row]
  /\ expired \subseteq Uploads
  /\ targets \subseteq Uploads
  /\ objects \subseteq Key
  /\ jobs \subseteq Key
  /\ givenUp \subseteq Key
  /\ forsaken \subseteq Uploads
  /\ orphaned \subseteq Uploads
  /\ req \in [Requests -> Call \cup {Idle}]

Init ==
  /\ rows = [u \in Uploads |-> NoRow]
  /\ expired = {}
  /\ targets = {}
  /\ objects = {}
  /\ jobs = {}
  /\ givenUp = {} /\ forsaken = {} /\ orphaned = {}
  /\ req = [r \in Requests |-> Idle]

-----------------------------------------------------------------------------
At(r, step) == req[r].step = step

OriginalKey(u) == <<u, Original>>

VariantKeys(u, vs) == {u} \X vs

\* A free slot takes a call that has just read these rows.
Begin(r, u, step, seen) ==
  /\ At(r, "idle")
  /\ req' = [req EXCEPT ![r] = [step |-> step, upload |-> u, seen |-> seen,
                                pushed |-> {}, error |-> "none"]]

Goto(r, step) == req' = [req EXCEPT ![r].step = step]

\* The call returns, or throws to its caller.
Finish(r) == req' = [req EXCEPT ![r] = Idle]

\* A repository write of the upload of request r.
Write(r, row) == rows' = [rows EXCEPT ![req[r].upload] = row]

Current(r) == rows[req[r].upload]

\* Request r works under the claim of its upload, from the claim to the
\* write that gives it up.
Holds(r) == req[r].step \in {"load", "store", "enqueue", "sweep", "settle"}

\* enqueueObjectDeletions does nothing unless the mode is "outbox".
Enqueue(keys) == jobs' = IF OutboxMode THEN jobs \cup keys ELSE jobs

\* Best-effort deletion: with storage faults any of the keys may survive.
BestEffortDelete(keys) ==
  \E survivors \in IF "storage" \in Faults THEN SUBSET keys ELSE {{}} :
    objects' = objects \ (keys \ survivors)

-----------------------------------------------------------------------------
(* createUploadIntent *)

CreatePendingUpload(r, u) ==
  /\ rows[u] = NoRow
  /\ rows' = [rows EXCEPT ![u] = PendingRow]
  /\ Begin(r, u, "target", NoRow)
  /\ UNCHANGED <<expired, targets, objects, jobs, ledger>>

ReturnTarget(r) ==
  /\ At(r, "target")
  /\ targets' = targets \cup {req[r].upload}
  /\ Finish(r)
  /\ UNCHANGED <<rows, expired, objects, jobs, ledger>>

TargetFails(r) ==
  /\ At(r, "target")
  /\ Goto(r, "abandon")
  /\ UNCHANGED <<rows, expired, targets, objects, jobs, ledger>>

AbandonIntent(r) ==
  /\ At(r, "abandon")
  /\ Write(r, Failed(Current(r)))
  /\ Finish(r)
  /\ UNCHANGED <<expired, targets, objects, jobs, ledger>>

-----------------------------------------------------------------------------
(* completeUpload, up to the claim.  What is read in StartComplete is used   *)
(* after the policy has been awaited.                                        *)

StartComplete(r, u) ==
  /\ "complete" \in Calls
  /\ u \in targets
  /\ Begin(r, u, "decide", rows[u])
  /\ UNCHANGED <<rows, expired, targets, objects, jobs, ledger>>

SeenCompleted(r) ==
  req[r].seen.session = "completed" \/ req[r].seen.asset = "ready"

\* The actor policy denies, the caller has aborted, a read fails, the status
\* read is not awaiting/pending, or the completed asset is returned as it is.
LeaveUnclaimed(r) ==
  /\ At(r, "decide")
  /\ Finish(r)
  /\ UNCHANGED <<rows, expired, targets, objects, jobs, ledger>>

\* A completed upload whose asset is still ready has been returned before
\* this check; every other status reaches it.
FindExpired(r) ==
  /\ At(r, "decide")
  /\ ~(SeenCompleted(r) /\ Current(r).asset = "ready")
  /\ req[r].seen.session = "expired" \/ req[r].upload \in expired
  /\ Goto(r, "expire")
  /\ UNCHANGED <<rows, expired, targets, objects, jobs, ledger>>

ExpireUpload(r) ==
  /\ At(r, "expire")
  /\ Write(r, Expired(Current(r)))
  /\ Finish(r)
  /\ UNCHANGED <<expired, targets, objects, jobs, ledger>>

GoClaim(r) ==
  /\ At(r, "decide")
  /\ req[r].upload \notin expired
  /\ Claimable(req[r].seen)
  /\ Goto(r, "claim")
  /\ UNCHANGED <<rows, expired, targets, objects, jobs, ledger>>

(* Mutant: the claim trusts the statuses read earlier.                       *)
ClaimTrustingRead(r) ==
  /\ At(r, "claim")
  /\ Claimable(req[r].seen)
  /\ Write(r, Claimed(Current(r)))
  /\ Goto(r, "load")
  /\ UNCHANGED <<expired, targets, objects, jobs, ledger>>

Claim(r) ==
  /\ At(r, "claim")
  /\ Claimable(Current(r))
  /\ Write(r, Claimed(Current(r)))
  /\ Goto(r, "load")
  /\ UNCHANGED <<expired, targets, objects, jobs, ledger>>

ClaimRefused(r) ==
  /\ At(r, "claim")
  /\ ~Claimable(Current(r))
  /\ Finish(r)
  /\ UNCHANGED <<rows, expired, targets, objects, jobs, ledger>>

-----------------------------------------------------------------------------
(* completeUpload, under the claim *)

\* The original is read, inspected, hashed and processed into variants.
LoadSource(r) ==
  /\ At(r, "load")
  /\ OriginalKey(req[r].upload) \in objects
  /\ Goto(r, "store")
  /\ UNCHANGED <<rows, expired, targets, objects, jobs, ledger>>

(* Mutant: the catch block gives up when there are no variants to sweep.     *)
CatchStepVariantsOnly(vs) ==
  CASE vs = {} -> "idle"
    [] vs # {} /\ OutboxMode -> "enqueue"
    [] vs # {} /\ ~OutboxMode -> "sweep"

\* Where the catch block starts for a request that pushed the keys of vs.
CatchStep(vs) ==
  CASE vs = {} -> "settle"
    [] vs # {} /\ OutboxMode -> "enqueue"
    [] vs # {} /\ ~OutboxMode -> "sweep"

Raise(r, error) ==
  req' = [req EXCEPT ![r].step = CatchStep(req[r].pushed), ![r].error = error]

(* Mutant: an error escapes without passing through the catch block.        *)
ProcessingFailsUncaught(r) ==
  /\ At(r, "load") \/ (At(r, "store") /\ req[r].pushed # Variants)
  /\ Finish(r)
  /\ UNCHANGED <<rows, expired, targets, objects, jobs, ledger>>

\* An abort or a storage failure is retryable; rejected content, a checksum
\* mismatch, a missing object or a processor failure is terminal.
ProcessingFails(r) ==
  /\ At(r, "load") \/ (At(r, "store") /\ req[r].pushed # Variants)
  /\ \E error \in {"retryable", "terminal"} : Raise(r, error)
  /\ UNCHANGED <<rows, expired, targets, objects, jobs, ledger>>

StoreVariant(r, v) ==
  /\ At(r, "store")
  /\ v \notin req[r].pushed
  /\ objects' = objects \cup VariantKeys(req[r].upload, {v})
  /\ req' = [req EXCEPT ![r].pushed = @ \cup {v}]
  /\ UNCHANGED <<rows, expired, targets, jobs, ledger>>

\* The object is written but the call is aborted, or its reply lost, before
\* the key is pushed to uploadedVariantKeys: the catch block will miss it.
StoreVariantUnrecorded(r, v) ==
  /\ At(r, "store")
  /\ v \notin req[r].pushed
  /\ objects' = objects \cup VariantKeys(req[r].upload, {v})
  /\ \E error \in {"retryable", "terminal"} : Raise(r, error)
  /\ UNCHANGED <<rows, expired, targets, jobs, ledger>>

CommitWrite(r) ==
  /\ At(r, "store")
  /\ req[r].pushed = Variants
  /\ Completable(Current(r))
  /\ Write(r, Completed(Current(r), req[r].pushed))

Commit(r) ==
  /\ CommitWrite(r)
  /\ Finish(r)
  /\ UNCHANGED <<expired, targets, objects, jobs, ledger>>

\* The repository throws; its error is no MediaStorageError, hence terminal.
CommitRefused(r) ==
  /\ At(r, "store")
  /\ req[r].pushed = Variants
  /\ ~Completable(Current(r)) \/ "database" \in Faults
  /\ Raise(r, "terminal")
  /\ UNCHANGED <<rows, expired, targets, objects, jobs, ledger>>

CommitReplyLost(r) ==
  /\ "lost_reply" \in Faults
  /\ CommitWrite(r)
  /\ Raise(r, "terminal")
  /\ UNCHANGED <<expired, targets, objects, jobs, ledger>>

-----------------------------------------------------------------------------
(* The catch block of completeUpload: first the variants, then the rows,     *)
(* last the original.                                                        *)

PushedKeys(r) == VariantKeys(req[r].upload, req[r].pushed)

\* Outside any transaction; a failure is logged and forgotten.
EnqueueSweep(r) ==
  /\ At(r, "enqueue")
  /\ Enqueue(PushedKeys(r))
  /\ Goto(r, "sweep")
  /\ UNCHANGED <<rows, expired, targets, objects, ledger>>

Sweep(r) ==
  /\ At(r, "sweep")
  /\ BestEffortDelete(PushedKeys(r))
  /\ Goto(r, "settle")
  /\ UNCHANGED <<rows, expired, targets, jobs, ledger>>

Releases(r) == req[r].error = "retryable" /\ CanRelease

(* Mutant: the original is discarded after every error, not only a terminal. *)
ReleaseDiscards(r) ==
  /\ At(r, "settle")
  /\ Releases(r)
  /\ Write(r, Released(Current(r)))
  /\ Goto(r, "discard")
  /\ UNCHANGED <<expired, targets, objects, jobs, ledger>>

Release(r) ==
  /\ At(r, "settle")
  /\ Releases(r)
  /\ Write(r, Released(Current(r)))
  /\ Finish(r)
  /\ UNCHANGED <<expired, targets, objects, jobs, ledger>>

\* What follows a failure write, successful or not.
AfterFailure(r) == IF req[r].error = "terminal" THEN Goto(r, "discard") ELSE Finish(r)

\* failUpload, with the deletion job of the original in the same transaction.
Fail(r) ==
  /\ At(r, "settle")
  /\ ~Releases(r)
  /\ Write(r, Failed(Current(r)))
  /\ Enqueue(IF req[r].error = "terminal" THEN {OriginalKey(req[r].upload)} ELSE {})
  /\ AfterFailure(r)
  /\ UNCHANGED <<expired, targets, objects, ledger>>

\* The last await of a terminal failure and of a cancellation.
Discard(r) ==
  /\ At(r, "discard")
  /\ BestEffortDelete({OriginalKey(req[r].upload)})
  /\ Finish(r)
  /\ UNCHANGED <<rows, expired, targets, jobs, ledger>>

-----------------------------------------------------------------------------
(* cancelUpload *)

StartCancel(r, u) ==
  /\ "cancel" \in Calls
  /\ u \in targets
  /\ Claimable(rows[u])
  /\ Begin(r, u, "cancel", rows[u])
  /\ UNCHANGED <<rows, expired, targets, objects, jobs, ledger>>

CancelUpload(r) ==
  /\ At(r, "cancel")
  /\ Write(r, Cancelled(Current(r)))
  /\ Enqueue({OriginalKey(req[r].upload)})
  /\ Goto(r, "discard")
  /\ UNCHANGED <<expired, targets, objects, ledger>>

-----------------------------------------------------------------------------
(* deleteAsset *)

StartDelete(r, u) ==
  /\ "delete" \in Calls
  /\ rows[u].asset \notin {"none", "deleted"}
  /\ Begin(r, u, "delete", rows[u])
  /\ UNCHANGED <<rows, expired, targets, objects, jobs, ledger>>

\* The keys are those of the rows read before the policies were awaited.
SeenKeys(r) ==
  {OriginalKey(req[r].upload)} \cup VariantKeys(req[r].upload, req[r].seen.variants)

(* Mutant: the job is left to be written after the transaction.              *)
MarkAssetDeletedWithoutJob(r) ==
  /\ At(r, "delete")
  /\ Write(r, Deleted(Current(r)))
  /\ Goto(r, "purge")
  /\ UNCHANGED <<expired, targets, objects, jobs, ledger>>

MarkAssetDeleted(r) ==
  /\ At(r, "delete")
  /\ Write(r, Deleted(Current(r)))
  /\ Enqueue(SeenKeys(r))
  /\ Goto(r, "purge")
  /\ UNCHANGED <<expired, targets, objects, ledger>>

Purge(r) ==
  /\ At(r, "purge")
  /\ BestEffortDelete(SeenKeys(r))
  /\ Finish(r)
  /\ UNCHANGED <<rows, expired, targets, jobs, ledger>>

-----------------------------------------------------------------------------
(* cleanup: one item of a plan.  The objects go first, the rows last, and    *)
(* neither write looks at the rows again.                                    *)

\* What findCleanupCandidates may offer: failed uploads (stale_asset), ready
\* assets nothing uses (orphan_asset, temporary_asset), and sessions that are
\* still open past their time (expired_session).
Stale(u) ==
  \/ rows[u].asset \in {"failed", "ready"}
  \/ u \in expired /\ rows[u].session \in {"awaiting", "processing"}

PlanCleanup(r, u) ==
  /\ "cleanup" \in Calls
  /\ Stale(u)
  /\ Begin(r, u, "clean", rows[u])
  /\ UNCHANGED <<rows, expired, targets, objects, jobs, ledger>>

(* Mutant: the item is marked although some of its objects were not deleted. *)
CleanObjectsAnyway(r) ==
  /\ At(r, "clean")
  /\ BestEffortDelete(SeenKeys(r))
  /\ Goto(r, "mark")
  /\ UNCHANGED <<rows, expired, targets, jobs, ledger>>

\* An item with a failed key is left out of the marking.
CleanObjects(r) ==
  /\ At(r, "clean")
  /\ \E failedKeys \in IF "storage" \in Faults THEN SUBSET SeenKeys(r) ELSE {{}} :
       /\ objects' = objects \ (SeenKeys(r) \ failedKeys)
       /\ IF failedKeys = {} THEN Goto(r, "mark") ELSE Finish(r)
  /\ orphaned' = orphaned \cup {u \in {req[r].upload} : req[r].seen.asset = "ready"}
  /\ UNCHANGED <<rows, expired, targets, jobs, givenUp, forsaken>>

\* A candidate may come without the id of its session.
CleanedRows(row) == {SessionEnded(row), row}

\* Both rows in one transaction.
MarkCleaned(r) ==
  /\ Transactional
  /\ At(r, "mark")
  /\ \E row \in CleanedRows(Current(r)) : Write(r, Deleted(row))
  /\ Finish(r)
  /\ UNCHANGED <<expired, targets, objects, jobs, ledger>>

\* The same two writes without transaction(), one await each.
MarkSessionExpired(r) ==
  /\ ~Transactional
  /\ At(r, "mark")
  /\ \E row \in CleanedRows(Current(r)) : Write(r, row)
  /\ Goto(r, "mark_asset")
  /\ UNCHANGED <<expired, targets, objects, jobs, ledger>>

MarkAssetCleaned(r) ==
  /\ At(r, "mark_asset")
  /\ Write(r, Deleted(Current(r)))
  /\ Finish(r)
  /\ UNCHANGED <<expired, targets, objects, jobs, ledger>>

-----------------------------------------------------------------------------
(* Failures and the environment *)

\* The policy of a cancellation or deletion denies, or the asset of a cleanup
\* candidate is in use: nothing is written.
PolicyDenies(r) ==
  /\ At(r, "cancel") \/ At(r, "delete") \/ At(r, "clean")
  /\ Finish(r)
  /\ UNCHANGED <<rows, expired, targets, objects, jobs, ledger>>

\* A repository write throws and has no effect.  The catch blocks log it and
\* go on; elsewhere it ends the call.  (A failed commit is CommitRefused.)
WriteFails(r) ==
  /\ "database" \in Faults
  /\ \/ /\ req[r].step \in {"abandon", "expire", "claim", "cancel", "delete",
                           "mark", "mark_asset"}
        /\ Finish(r)
     \/ At(r, "enqueue") /\ Goto(r, "sweep")
     \/ At(r, "settle") /\ Releases(r) /\ Finish(r)
     \/ At(r, "settle") /\ ~Releases(r) /\ AfterFailure(r)
  /\ forsaken' = forsaken \cup {u \in {req[r].upload} : At(r, "settle")}
  /\ UNCHANGED <<rows, expired, targets, objects, jobs, givenUp, orphaned>>

Crash(r) ==
  /\ "crash" \in Faults
  /\ ~At(r, "idle")
  /\ Finish(r)
  /\ forsaken' = forsaken \cup {u \in {req[r].upload} : Holds(r)}
  /\ UNCHANGED <<rows, expired, targets, objects, jobs, givenUp, orphaned>>

\* The client uploads with the URL it was given, which by default is signed
\* for as long as the session lasts.  Nobody revokes it when the session ends
\* earlier, and an upload in progress may land after it lapsed.
ClientPut(u) ==
  /\ u \in targets
  /\ "late_put" \in Faults \/ (Claimable(rows[u]) /\ u \notin expired)
  /\ objects' = objects \cup {OriginalKey(u)}
  /\ UNCHANGED <<rows, expired, targets, jobs, ledger, req>>

SessionExpires(u) ==
  /\ rows[u] # NoRow
  /\ u \notin expired
  /\ expired' = expired \cup {u}
  /\ UNCHANGED <<rows, targets, objects, jobs, ledger, req>>

\* One pass of the outbox worker over one job, to its success.
RunDeletionJob(key) ==
  /\ key \in jobs
  /\ objects' = objects \ {key}
  /\ jobs' = jobs \ {key}
  /\ UNCHANGED <<rows, expired, targets, ledger, req>>

\* The last attempt of a job fails and the worker marks it failed: nobody
\* deletes the object any more.
GiveUpDeletionJob(key) ==
  /\ "storage" \in Faults
  /\ key \in jobs
  /\ jobs' = jobs \ {key}
  /\ givenUp' = givenUp \cup {key}
  /\ UNCHANGED <<rows, expired, targets, objects, forsaken, orphaned, req>>

-----------------------------------------------------------------------------
Start(r, u) ==
  \/ CreatePendingUpload(r, u)
  \/ StartComplete(r, u)
  \/ StartCancel(r, u)
  \/ StartDelete(r, u)
  \/ PlanCleanup(r, u)

\* Every step the runtime takes for a request once it has been called.
Resume(r) ==
  \/ ReturnTarget(r) \/ TargetFails(r) \/ AbandonIntent(r)
  \/ LeaveUnclaimed(r) \/ FindExpired(r) \/ ExpireUpload(r)
  \/ GoClaim(r) \/ Claim(r) \/ ClaimRefused(r)
  \/ LoadSource(r) \/ ProcessingFails(r)
  \/ \E v \in Variants : StoreVariant(r, v) \/ StoreVariantUnrecorded(r, v)
  \/ Commit(r) \/ CommitRefused(r) \/ CommitReplyLost(r)
  \/ EnqueueSweep(r) \/ Sweep(r) \/ Release(r) \/ Fail(r) \/ Discard(r)
  \/ CancelUpload(r) \/ MarkAssetDeleted(r) \/ Purge(r)
  \/ CleanObjects(r) \/ MarkCleaned(r) \/ MarkSessionExpired(r) \/ MarkAssetCleaned(r)
  \/ PolicyDenies(r) \/ WriteFails(r)

Next ==
  \/ \E r \in Requests, u \in Uploads : Start(r, u)
  \/ \E r \in Requests : Resume(r) \/ Crash(r)
  \/ \E u \in Uploads : ClientPut(u) \/ SessionExpires(u)
  \/ \E key \in jobs : RunDeletionJob(key) \/ GiveUpDeletionJob(key)

Spec == Init /\ [][Next]_vars

\* The event loop resumes every request whose await settles, and the worker is
\* polled for as long as jobs remain, so that each is carried out or, after
\* its last attempt, given up.  Callers, the client and the clock owe nothing.
Fairness ==
  /\ \A r \in Requests : WF_vars(Resume(r))
  /\ \A key \in Key : WF_vars(RunDeletionJob(key) \/ GiveUpDeletionJob(key))

FairSpec == Spec /\ Fairness

-----------------------------------------------------------------------------
(* Safety *)

\* No two live calls of completeUpload ever process the same upload, however
\* claims, releases, expiries, cancellations, deletions and crashes fall:
\* claimUploadForProcessing is the only guard the workflow has.
ClaimExclusive ==
  \A r1, r2 \in Requests :
    Holds(r1) /\ Holds(r2) /\ req[r1].upload = req[r2].upload => r1 = r2

\* A claim in the database is somebody's: an upload whose session says
\* "processing" is being processed by a live call, unless the process of that
\* call died or the write that was to give the claim up failed.  Every other
\* way out of completeUpload, lost replies and errors at any await included,
\* leaves a row that says so.
ClaimsAccounted ==
  \A u \in Uploads :
    rows[u].session = "processing" =>
      u \in forsaken \/ \E r \in Requests : Holds(r) /\ req[r].upload = u

\* Every variant row of a ready asset names an object that exists, although
\* the catch block of an earlier attempt deletes the same keys; except while
\* a cleanup that took the ready asset for an orphan deletes its objects, or
\* after it died in between.
ReadyVariantsStored ==
  \A u \in Uploads \ orphaned :
    rows[u].asset = "ready" => VariantKeys(u, rows[u].variants) \subseteq objects

\* A ready asset's original exists, although cancelUpload, deleteAsset and
\* every terminal failure delete it.
ReadyOriginalStored ==
  \A u \in Uploads : rows[u].asset = "ready" => OriginalKey(u) \in objects

\* The outbox never forgets an original: once the asset is deleted, or its
\* upload failed for good, a surviving original has a job that is pending or
\* on record as failed, whatever crashed or failed since.
OriginalQueued ==
  \A u \in Uploads :
    /\ rows[u].asset = "deleted" \/ rows[u].session = "failed"
    /\ OriginalKey(u) \in objects
    => OriginalKey(u) \in jobs \cup givenUp

\* The recovery check of OPERATIONS.md, where no call is at work on the
\* upload any more: a deleted asset has no object left, variants included, or
\* a pending job for it.
DeletedAssetsQueued ==
  \A u \in Uploads :
    /\ rows[u].asset = "deleted"
    /\ \A r \in Requests : req[r].upload # u
    => objects \cap ({u} \X (Variants \cup {Original})) \subseteq jobs \cup givenUp

\* Nobody takes away the original of an upload that can still be completed:
\* whatever deletes it (a terminal failure, a cancellation, a deletion, a
\* cleanup, a job that runs long after it was written) was decided by a call
\* whose write has closed the upload for good, or after its time was over.
OpenOriginalKept ==
  [][\A u \in Uploads :
       /\ Claimable(rows[u]) /\ u \notin expired
       /\ OriginalKey(u) \in objects
       => OriginalKey(u) \in objects']_vars

-----------------------------------------------------------------------------
(* Liveness *)

\* A claim is always given up (committed, released or failed), unless the
\* process of its holder dies or the write that gives it up fails.
ClaimResolved ==
  \A u \in Uploads :
    rows[u].session = "processing" ~>
      rows[u].session # "processing" \/ u \in forsaken

\* With the outbox, the original of a deleted asset is eventually gone, even
\* if every immediate deletion failed or the process died before it, or a job
\* of it is on record as failed for good.
DeletedOriginalGone ==
  \A u \in Uploads :
    rows[u].asset = "deleted" ~>
      OriginalKey(u) \notin objects \/ OriginalKey(u) \in givenUp
=============================================================================
