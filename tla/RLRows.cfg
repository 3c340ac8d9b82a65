SPECIFICATION EitherSpec
CONSTANTS
  Owners = {a, b, c}
  Autos = {}
  Remote = {}
  Tables = {}
  Table1 = x
  TableOf <- OneTable
  Keys = {1, 2, 3}
  Lease = 1
  Stalls = FALSE
  Tries = 1
  Nobody = nobody
SYMMETRY Symmetry
INVARIANTS
  TypeOK
  NoLoop
PROPERTIES
  Fifo
