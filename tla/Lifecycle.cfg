SPECIFICATION Spec
CONSTANTS
  Uploads = {u1}
  Requests = {r1, r2, r3}
  NoRequest = NoRequest
  NoUpload = NoUpload
  Variants = {v1, v2}
  Original = Original
  StrictRepository = TRUE
  OutboxMode = FALSE
  CanRelease = TRUE
  Transactional = FALSE
  Calls = {"complete", "cancel", "delete", "cleanup"}
  Faults = {"crash", "database", "late_put"}
INVARIANTS
  ClaimExclusive
  
  ReadyVariantsStored
PROPERTIES
  ImplementsContract
CHECK_DEADLOCK FALSE
