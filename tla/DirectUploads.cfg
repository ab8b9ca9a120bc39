SPECIFICATION Spec
CONSTANTS
  None = None
  Torn = Torn
  Uploads = {"u1", "u2"}
  Actors = {"editor", "anonymous"}
  Calls = {c1, c2, c3}
  VariantNames <- MCVariantNames
  ExtensionOf <- MCExtensionOf
  BasePrefix <- MCBasePrefix
  AllowedMimeTypes <- MCAllowedMimeTypes
  MaxSize <- MCMaxSize
  AllowedPrefixes <- MCAllowedPrefixes
  RefusedPrefixes <- MCRefusedPrefixes
  AllowedKeys = {"tags"}
  MaxKeys = 2
  MaxDepth = 3
  MaxBytes = 2
  SessionTtl = 1600
  PresignedTtl = 1600
  Adapters <- MCAdapters
  Permitted <- MCPermitted
  Requests <- MCRequests
  MimeTexts <- MCMimeTexts
  Lengths = {1, 2, 3}
  Ticks = {500, 2000}
  Horizon = 2000
SYMMETRY Symmetry
CONSTRAINT Focus
CHECK_DEADLOCK FALSE
INVARIANTS TypeOK OpenSessionsUploadable StoredWithinPolicy AcceptedWasSent KeysDisjoint
