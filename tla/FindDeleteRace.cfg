SPECIFICATION Spec
CONSTANTS
  Uploads = {u1}
  Requests = {r1, r2}
  NoUpload = NoUpload
  Variants = {v1}
  Original = Original
  StrictRepository = TRUE
  OutboxMode = TRUE
  CanRelease = TRUE
  Transactional = TRUE
  Calls = {"complete", "delete"}
  Faults = {}
SYMMETRY Symmetry
INVARIANTS
  DeletedAssetsQueued
CHECK_DEADLOCK FALSE
