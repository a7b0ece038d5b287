SPECIFICATION Spec
CONSTANTS
  g1 = g1  g2 = g2  g3 = g3  c1 = c1  c2 = c2  c3 = c3  Nil = Nil
  Goroutines = {g1, g2, g3}
  Contents = {c1, c2}
  Prefixes = {"p"}
  packPrefixForContentID <- OnePrefix
  PackCapacity = 2
  Calls = {"write", "rewrite", "flush"}
  AutoFlush = FALSE
  Fallible = {"pack", "index", "marker", "commit", "cache"}
  Tombstones = {}
  MaxTime = 1
  MaxCalls = 5
  MaxFaults = 2
SYMMETRY SymContents
INVARIANTS PackBeforeIndex AcceptedNeverForgotten FlushCommitsUnlessFailed
CHECK_DEADLOCK FALSE
