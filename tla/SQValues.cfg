SPECIFICATION MadeSpec
CONSTANTS
  Calls = {c, d}
  Nodes = {a, b}
  Settings <- ToOne
  Names = {s, t}
  Shapes <- TwoShapes
  Sizes = {2}
  Most = 1
  Nothing = Nothing
  Unknown = Unknown
  MaxN = 5
  MaxTakeovers = 1
SYMMETRY Symmetry
INVARIANTS
  TypeOK
  NeverTwice
  SetIsSeen
CHECK_DEADLOCK FALSE
