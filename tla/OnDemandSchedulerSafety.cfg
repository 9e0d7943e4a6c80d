CONSTANTS
  Size = 2
  WorkloadCapacity = 2
  Chains = {c1, c2}
  Rounds = 1
  BatchSize = 2
  Notices = 3
  EagerSends = TRUE
  Alone = {TRUE, FALSE}
SPECIFICATION Spec
INVARIANTS
  LoadIsExact
  IdsMatchCalls
  NoIdleWorker
  LeaveClean
