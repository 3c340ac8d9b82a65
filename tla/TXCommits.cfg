SPECIFICATION Spec
CONSTANTS
  Keys = {k}
  Sessions = {s}
  Autos = {a}
  Follower = {s}
  Kinds = {"update", "lock"}
  Savepoints = TRUE
  Serial = TRUE
  Overlap = 1
  Retained = TRUE
  MaxTxns = 1
  MaxN = 2
  MaxLosses = 1
  Nobody = nobody
INVARIANTS
  TypeOK
  NoLostUpdate
  AutoKeeps
  LockedCommits
CHECK_DEADLOCK FALSE
