SPECIFICATION Spec
CONSTANTS
  g1 = g1  g2 = g2  g3 = g3  c1 = c1  c2 = c2  c3 = c3  Nil = Nil
  Goroutines = {g1, g2}
  Contents = {c1, c2}
  Prefixes = {"p"}
  packPrefixForContentID <- OnePrefix
  PackCapacity = 1
  Calls = {"write", "delete", "undelete", "rewrite"}
  AutoFlush = FALSE
  Fallible = {}
  Tombstones = {c1}
  MaxTime = 4
  MaxCalls = 5
  MaxFaults = 0
SYMMETRY SymGoroutines
PROPERTY RewritePreservesStatus
CHECK_DEADLOCK FALSE
