--------------------------- MODULE MediaRepository ---------------------------
(***************************************************************************)
(* The rows of the media database and what each repository operation does  *)
(* to them.  One upload is one asset row, one upload-session row and the   *)
(* variant rows of the asset: createPendingUpload makes the first two      *)
(* together and nothing ever joins them differently, so a Row holds all    *)
(* three.                                                                  *)
(*                                                                         *)
(* The application supplies the repository.  The library only ships the    *)
(* port and an in-memory implementation in its contract test; that         *)
(* implementation is the one modelled when StrictRepository is FALSE.  It  *)
(* checks the current status in claimUploadForProcessing and in            *)
(* releaseUploadClaim and nowhere else.  With StrictRepository every       *)
(* status transition is conditional on the status it starts from, the way  *)
(* recipes/repositories.md writes its SQL: the most careful repository an  *)
(* application could supply.                                               *)
(***************************************************************************)
CONSTANTS
  Variants,          \* the variant types of the policy; {} for a non-image
  StrictRepository   \* TRUE: every status transition is guarded

ASSUME StrictRepositoryAssumption == StrictRepository \in BOOLEAN

AssetStatus ==
  {"none", "pending_upload", "processing", "ready", "failed", "deleted"}

SessionStatus ==
  {"none", "awaiting", "processing", "completed", "expired", "cancelled", "failed"}

Row == [session : SessionStatus, asset : AssetStatus, variants : SUBSET Variants]

\* No asset and no session with this identity exist yet.
NoRow == [session |-> "none", asset |-> "none", variants |-> {}]

\* What createPendingUpload inserts.
PendingRow == [session |-> "awaiting", asset |-> "pending_upload", variants |-> {}]

-----------------------------------------------------------------------------
(* The status after an update WHERE status IN from; the in-memory            *)
(* repository has no WHERE clause.                                           *)
Moved(status, from, to) ==
  IF StrictRepository /\ status \notin from THEN status ELSE to

\* claimUploadForProcessing succeeds only on an untouched upload ...
Claimable(row) == row.session = "awaiting" /\ row.asset = "pending_upload"

\* ... and takes both rows to processing at once.
Claimed(row) == [row EXCEPT !.session = "processing", !.asset = "processing"]

\* A guarded completeUpload refuses (throws) unless both rows are processing.
Completable(row) ==
  StrictRepository => row.session = "processing" /\ row.asset = "processing"

Completed(row, stored) ==
  [row EXCEPT !.session = "completed", !.asset = "ready", !.variants = stored]

Failed(row) ==
  [row EXCEPT !.session = Moved(@, {"awaiting", "processing"}, "failed"),
              !.asset = Moved(@, {"pending_upload", "processing"}, "failed")]

(* Mutant: release resets the rows whatever their status.                    *)
ReleasedAlways(row) ==
  [row EXCEPT !.session = "awaiting", !.asset = "pending_upload"]

\* releaseUploadClaim touches each row only if that row is processing.
Released(row) ==
  [row EXCEPT !.session = IF @ = "processing" THEN "awaiting" ELSE @,
              !.asset = IF @ = "processing" THEN "pending_upload" ELSE @]

Expired(row) ==
  [row EXCEPT !.session = Moved(@, {"awaiting"}, "expired"),
              !.asset = Moved(@, {"pending_upload"}, "failed")]

Cancelled(row) ==
  [row EXCEPT !.session = Moved(@, {"awaiting"}, "cancelled"),
              !.asset = Moved(@, {"pending_upload"}, "deleted")]

\* markAssetDeleted leaves the session and the variant rows alone.
Deleted(row) == [row EXCEPT !.asset = "deleted"]

\* markUploadSessionsExpired of a cleanup.
SessionEnded(row) ==
  [row EXCEPT !.session = Moved(@, {"awaiting", "processing"}, "expired")]
=============================================================================
