SPECIFICATION Spec
CONSTANTS
  a = a  b = b  x = x  y = y
  Clients = {a, b}
  IDs = {x, y}
  Compactors = {a}
  AutoCompactionThreshold = 2
  Orders = {1, 2}
  DeletesFail = FALSE
  MaxChanges = 4
  MaxTime = 1
  MaxFaults = 1
INVARIANT TypeOK
PROPERTY ImplementsManifestStore
SYMMETRY SymIDs
CHECK_DEADLOCK FALSE
