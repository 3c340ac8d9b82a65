SPECIFICATION FairSpec
CONSTANTS
  Nodes = {a, b}
  First = a
  Replicas <- Two
  Ahead = 1
  MaxSkips = 1
  LateOpen = FALSE
  MaxTerm = 2
  MaxEpoch = 2
  MaxId = 3
  MaxCrashes = 0
INVARIANTS
  AheadIsBounded
PROPERTIES
  WritesCommit
  RoundsEnd
  RecoveryEnds
CHECK_DEADLOCK FALSE
