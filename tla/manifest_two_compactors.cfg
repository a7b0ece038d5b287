SPECIFICATION Spec
CONSTANTS
  a = a  b = b  x = x  y = y
  Clients = {a, b}
  IDs = {x, y}
  Compactors = {a, b}
  AutoCompactionThreshold = 2
  Orders = {1}
  DeletesFail = FALSE
  MaxChanges = 4
  MaxTime = 1
  MaxFaults = 0
INVARIANT PublishedFound
SYMMETRY SymIDs
CHECK_DEADLOCK FALSE
