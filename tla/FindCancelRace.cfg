SPECIFICATION Spec
CONSTANTS
  Uploads = {u1}
  Requests = {r1, r2}
  NoUpload = NoUpload
  Variants = {v1}
  Original = Original
  StrictRepository = TRUE
  OutboxMode = FALSE
  CanRelease = TRUE
  Transactional = FALSE
  Calls = {"complete", "cancel"}
  Faults = {}
SYMMETRY Symmetry
INVARIANTS
  ReadyOriginalStored
CHECK_DEADLOCK FALSE
