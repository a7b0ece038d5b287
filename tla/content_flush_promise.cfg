SPECIFICATION Spec
CONSTANTS
  g1 = g1  g2 = g2  g3 = g3  c1 = c1  c2 = c2  c3 = c3  Nil = Nil
  Goroutines = {g1, g2}
  Contents = {c1, c2}
  Prefixes = {"p"}
  packPrefixForContentID <- OnePrefix
  PackCapacity = 2
  Calls = {"write", "flush"}
  AutoFlush = FALSE
  Fallible = {"pack"}
  Tombstones = {}
  MaxTime = 1
  MaxCalls = 4
  MaxFaults = 1
SYMMETRY SymContents
INVARIANT FlushCommits
CHECK_DEADLOCK FALSE
