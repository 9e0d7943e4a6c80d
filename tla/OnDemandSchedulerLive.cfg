CONSTANTS
  Size = 2
  WorkloadCapacity = 1
  Chains = {c1, c2}
  Rounds = 1
  BatchSize = 1
  Notices = 1
  EagerSends = FALSE
  Alone = {TRUE, FALSE}
SPECIFICATION Spec
PROPERTIES
  ImplementsTaskPool
  Termination
