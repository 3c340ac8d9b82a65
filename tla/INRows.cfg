SPECIFICATION Spec
CONSTANTS
  Producers = {p}
  Chained = {p}
  MaxSeq = 2
  Flights = {f, g}
  InFlight = 2
  Kinds = {"inline"}
  Twins = FALSE
  Statements = {"view", "move"}
  MaxTakeovers = 1
  MaxN = 4
SYMMETRY Symmetry
INVARIANTS
  OnceOnly
  AckedIsThere
  NoGaps
  ViewHolds
  MovedWhole
  
  TypeOK
CHECK_DEADLOCK FALSE
