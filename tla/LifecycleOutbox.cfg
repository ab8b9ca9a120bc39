SPECIFICATION FairSpec

CONSTANTS
  Uploads = {u1}
  Requests = {r1, r2}
  NoUpload = NoUpload
  Variants = {v1}
  Original = Original
  StrictRepository = FALSE
  OutboxMode = TRUE
  CanRelease = TRUE
  Transactional = TRUE
  Calls = {"complete", "cancel", "delete", "cleanup"}
  Faults = {"crash", "lost_reply", "storage"}

INVARIANTS
  TypeOK
  ClaimExclusive
  OriginalQueued

PROPERTIES
  OpenOriginalKept
  
  DeletedOriginalGone

CHECK_DEADLOCK FALSE
