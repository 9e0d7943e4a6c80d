CONSTANTS
  Nodes = {1, 2}
  CallsToOther = 2
  AnsweredCalls = 1
  CallsToSelf = 1
  LocalAnswers = TRUE
  EagerSends = FALSE
  SizeModulus = 256
SPECIFICATION Spec
INVARIANTS
  PendingIsExact
  QuietMeansDone
  CallsInOrder
PROPERTIES
  ComesToRest
  ImplementsTaskPool
