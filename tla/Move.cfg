SPECIFICATION Spec
CONSTANTS
  a1 = a1
  part1 = part1
  part2 = part2
  Assets <- MCOneAsset
  Parts <- MCParts
  AssetOf <- MCAssetOfOne
  Prefixes = {x, y, z}
  Requests = {r1, r2}
  OutboxMode = TRUE
  CallersCoordinate = TRUE
  MaxClaims = 1
  MaxRevisited = 2
  Faults = {"crash", "database", "storage"}
SYMMETRY Symmetry
INVARIANTS
  TypeOK
  OnwardMovesKeepObjects
