SPECIFICATION Spec
CONSTANTS
  m1 = m1  m2 = m2  w1 = w1  w2 = w2  r1 = r1  g = g
  i0 = i0  i1 = i1  i2 = i2  i3 = i3
  NoProc = NoProc  Maintainer = g  Managers = {m1, m2}
  EpochRefreshFrequency = 1
  MinEpochDuration = 3
  CleanupSafetyMargin = 3
  EpochAdvanceOnCountThreshold = 2
  Writers = {}
  Readers = {r1}
  ManagerOf <- RangeManagers
  Shards = {1}
  FullCheckpointFrequency = 1
  MaintenanceOps = {"compactSingle", "cleanupIndexes"}
  Crashable = {}
  Faulty = {g}
  Interleaved = {}
  StartTimes <- NoStart
  InFlight = {}
  InFlightEpoch = 0
  InFlightShards = {}
  Retrying = {}
  RetryingFor = 1
  InitWrites = {i0, i1, i2, i3}
  InitEpoch <- GapEpoch
  InitTime <- GapTime
  InitMarkers = {3, 4}
  InitSingles = {0, 2}
  InitRange = 1
  Times = {5}
  InitNow = 5
  MaxEpoch = 4
  MaxSets = 1
INVARIANT ReadComplete
