CONSTANTS
  ChainCounts = {0, 1, 4, 5}
  WorkgroupCounts = {1, 2, 3}
  Offsets = {0, 2}
  Placements <- MCPlacements
  Numbers = {1, 2}
  Seeds = {1, 2}
  FileParts = 2
  MaxRuns = 2
SPECIFICATION StartupSpec
INVARIANTS
  FormsWorkgroups
  FailsOnlyOnRemains
  SeedsAreRepeatable
  OneHeadPerChain
