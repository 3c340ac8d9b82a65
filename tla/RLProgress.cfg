SPECIFICATION FairSpec
CONSTANTS
  Owners = {a, b}
  Autos = {}
  Remote = {a}
  Tables = {}
  Table1 = x
  TableOf <- OneTable
  Keys = {1}
  Lease = 2
  Stalls = FALSE
  Tries = 1
  Nobody = nobody
PROPERTIES
  WaitsEnd
