CONSTANTS
  NumHeads = 2
  NumChains = 4
  TargetLength = 3
  Switch = {TRUE, FALSE}
  SizeModulus = 16
  SlowChains = {0}
SPECIFICATION Spec
INVARIANTS
  QueueIsExact
  RunsOnce
  NoChainComesLate
  AnnouncedIsExact
  LeavesFinished
PROPERTIES
  MovesEvenTheLoad
