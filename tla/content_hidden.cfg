SPECIFICATION Spec
CONSTANTS
  g1 = g1  g2 = g2  g3 = g3  c1 = c1  c2 = c2  c3 = c3 Nil = Nil
  Goroutines = {g1, g2}
  Contents = {c1, c2, c3, c4}
  Prefixes = {"p"}
  packPrefixForContentID <- OnePrefix
  PackCapacity = 2
  Calls = {"write", "delete"}
  AutoFlush = FALSE
  Fallible = {}
  Tombstones = {}
  MaxTime = 1
  MaxCalls = 6
  MaxFaults = 0
SYMMETRY SymContents
INVARIANT WrittenExists
CHECK_DEADLOCK FALSE
