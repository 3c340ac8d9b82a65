SPECIFICATION WorkingSpec
CONSTANTS
  Nodes = {a, b, c}
  First = a
  Replicas <- Three
  Ahead = 1
  MaxSkips = 1
  LateOpen = FALSE
  MaxTerm = 2
  MaxEpoch = 3
  MaxId = 2
  MaxCrashes = 0
SYMMETRY SymmetryOfRest
INVARIANTS
  TypeOK
  AckedInBucket
  OlderIsFenced
  
  RecoverFindsAcked
  AckedIsKept
CHECK_DEADLOCK FALSE
