--------------------------- MODULE UploadRefinement ---------------------------
(***************************************************************************)
(* UploadLifecycle over a strict repository implements UploadContract: the *)
(* phase is read off the asset row and the holder is the live request that *)
(* works under the claim.                                                  *)
(***************************************************************************)
EXTENDS UploadLifecycle

CONSTANT NoRequest   \* no live request holds the claim

ASSUME NoRequestAssumption == NoRequest \notin Requests

PhaseOf(row) ==
  CASE row.asset = "none" -> "absent"
    [] row.asset = "pending_upload" -> "open"
    [] row.asset = "processing" -> "held"
    [] row.asset = "ready" -> "published"
    [] row.asset \in {"failed", "deleted"} -> "closed"

HolderOf(u) ==
  IF \E r \in Requests : Holds(r) /\ req[r].upload = u
  THEN CHOOSE r \in Requests : Holds(r) /\ req[r].upload = u
  ELSE NoRequest

Contract == INSTANCE UploadContract WITH
  Holders <- Requests,
  NoHolder <- NoRequest,
  phase <- [u \in Uploads |-> PhaseOf(rows[u])],
  holder <- [u \in Uploads |-> HolderOf(u)]

\* Every behaviour of the workflows is one the contract allows: an upload is
\* opened once, processed by one request at a time, published only by the
\* request that holds it, and final once it is closed.
ImplementsContract == Contract!Spec
=============================================================================
