SPECIFICATION Spec
CONSTANTS
  m1 = m1  m2 = m2  w1 = w1  w2 = w2  r1 = r1  g = g
  i0 = i0  i1 = i1  i2 = i2  i3 = i3
  NoProc = NoProc  Maintainer = g  Managers = {m1, m2}
  EpochRefreshFrequency = 1
  MinEpochDuration = 3
  CleanupSafetyMargin = 3
  EpochAdvanceOnCountThreshold = 2
  Writers = {}
  Readers = {r1}
  ManagerOf <- RangeManagers
  Shards = {1, 2}
  FullCheckpointFrequency = 1
  MaintenanceOps = {"compactSingle", "range"}
  Crashable = {}
  Faulty = {g, r1}
  Interleaved = {}
  StartTimes <- NoStart
  InFlight = {}
  InFlightEpoch = 0
  InFlightShards = {}
  Retrying = {r1}
  RetryingFor = 2
  InitWrites = {i0, i1, i2, i3}
  InitEpoch <- SettledEpoch
  InitTime <- SettledTime
  InitMarkers = {2, 3}
  InitSingles = {}
  InitRange <- NoRange
  Times = {3, 5}
  InitNow = 3
  MaxEpoch = 3
  MaxSets = 2
INVARIANTS RangesCoverAcked ReadComplete
