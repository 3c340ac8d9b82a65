SPECIFICATION FairSpec
CONSTANTS
  Nodes = {a, b, c}
  OneOffs = {w}
  Far = {b, c}
  Groups = {{a, b}, {a, c}, {b, w}}
  Machine <- Machines
  Apart = {c}
  Replicating = {b}
  Keep = 1
  PruneWhole = TRUE
  MaxTerm = 3
  MaxFaults = 1
  None = none
PROPERTIES
  LedAgain
CHECK_DEADLOCK FALSE
