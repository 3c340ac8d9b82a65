SPECIFICATION Spec
CONSTANTS
  Nodes = {a, b}
  First = a
  Replicas <- OnlyFirst
  Ahead = 1
  MaxSkips = 0
  LateOpen = FALSE
  MaxTerm = 2
  MaxEpoch = 2
  MaxId = 2
  MaxCrashes = 1
INVARIANTS
  ListedBeforeCounted
  LeaderHasAcked
PROPERTIES
  ImplementsDurableLog
CHECK_DEADLOCK FALSE
