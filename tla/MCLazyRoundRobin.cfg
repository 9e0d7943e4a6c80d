CONSTANTS
  Size = 4
  WorkloadCapacity = 2
SPECIFICATION MCSpec
INVARIANTS
  LookupConsistent
PROPERTIES
  LeastLoadedFirst
  RoundRobinAmongEquals
