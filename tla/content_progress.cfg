SPECIFICATION FairSpec
CONSTANTS
  g1 = g1  g2 = g2  g3 = g3  c1 = c1  c2 = c2  c3 = c3  Nil = Nil
  Goroutines = {g1, g2, g3}
  Contents = {c1, c2}
  Prefixes = {"p", "q"}
  packPrefixForContentID <- TwoPrefixes
  PackCapacity = 1
  Calls = {"write", "delete", "flush"}
  AutoFlush = FALSE
  Fallible = {"pack", "marker"}
  Tombstones = {}
  MaxTime = 1
  MaxCalls = 4
  MaxFaults = 1
PROPERTY CallsReturn
CHECK_DEADLOCK FALSE
