SPECIFICATION GroupSpec
CONSTANTS
  Nodes = {a, b, c}
  OneOffs = {w}
  Far = {b, c}
  Groups = {{a, b, w}, {a, c, w}}
  Machine <- Machines
  Apart = {c}
  Replicating = {b}
  Keep = 1
  PruneWhole = TRUE
  MaxTerm = 3
  MaxFaults = 1
  None = none
INVARIANTS
  TypeOK
  OneOwner
  LeaderLooksAlive
  NewerIsSeen
PROPERTIES
  NewestStays
CHECK_DEADLOCK FALSE
