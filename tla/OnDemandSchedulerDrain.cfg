CONSTANTS
  Size = 2
  WorkloadCapacity = 2
  Chains = {c1}
  Rounds = 1
  BatchSize = 3
  Notices = 0
  EagerSends = FALSE
  Alone = {FALSE}
SPECIFICATION Spec
PROPERTIES
  CompletionIsSeen
