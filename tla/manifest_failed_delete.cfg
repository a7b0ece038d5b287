SPECIFICATION Spec
CONSTANTS
  a = a  b = b  x = x  y = y
  Clients = {a}
  IDs = {x, y}
  Compactors = {a}
  AutoCompactionThreshold = 2
  Orders = {1}
  DeletesFail = TRUE
  MaxChanges = 4
  MaxTime = 1
  MaxFaults = 1
INVARIANT DeletedStayDeleted
SYMMETRY SymIDs
CHECK_DEADLOCK FALSE
