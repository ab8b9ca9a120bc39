SPECIFICATION Spec
CONSTANTS
  a1 = a1
  part1 = part1
  part2 = part2
  Assets <- MCOneAsset
  Parts <- MCParts
  AssetOf <- MCAssetOfOne
  Prefixes = {x, y}
  Requests = {r1}
  OutboxMode = TRUE
  CallersCoordinate = FALSE
  MaxClaims = 1
  MaxRevisited = 2
  Faults = {}
SYMMETRY Symmetry
INVARIANTS
  LiveObjectsStored
