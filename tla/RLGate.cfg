SPECIFICATION Spec
CONSTANTS
  Owners = {a, b}
  Autos = {b}
  Remote = {a}
  Tables = {x}
  Table1 = x
  TableOf <- OneTable
  Keys = {1}
  Lease = 2
  Stalls = TRUE
  Tries = 2
  Nobody = nobody
INVARIANTS
  NeverBetween
  Agrees
  HeldAsTold
