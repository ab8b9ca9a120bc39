SPECIFICATION Spec
CONSTANTS
  Uploads = {u1}
  Requests = {r1, r2}
  NoUpload = NoUpload
  Variants = {v1, v2}
  Original = Original
  StrictRepository = TRUE
  OutboxMode = TRUE
  CanRelease = TRUE
  Transactional = TRUE
  Calls = {"complete"}
  Faults = {}
SYMMETRY Symmetry
INVARIANTS
  ReadyVariantsStored
CHECK_DEADLOCK FALSE
