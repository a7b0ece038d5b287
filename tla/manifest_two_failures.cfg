SPECIFICATION Spec
CONSTANTS
  a = a  b = b  x = x  y = y
  Clients = {a}
  IDs = {x, y}
  Compactors = {a}
  AutoCompactionThreshold = 2
  Orders = {1, 2}
  DeletesFail = FALSE
  MaxChanges = 4
  MaxTime = 0
  MaxFaults = 2
INVARIANT DeletedStayDeleted
SYMMETRY SymIDs
CHECK_DEADLOCK FALSE
