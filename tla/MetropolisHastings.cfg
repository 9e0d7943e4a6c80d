CONSTANTS
  Chains = {c1, c2}
  TargetLength = 3
  ValuesPerIteration = 1
  MaxIterations = 2
  ValuesRequired = 1
  MaxMoves = 1
  MaxNotFinite = 0
SPECIFICATION Spec
INVARIANTS
  FilesMatchStates
  NothingStray
  EvidenceIsOwn
  OldStateIsAhead
PROPERTIES
  ImplementsMarkovChains
