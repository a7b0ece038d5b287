SPECIFICATION Spec
CONSTANTS
  m1 = m1  m2 = m2  w1 = w1  w2 = w2  r1 = r1  g = g
  i0 = i0  i1 = i1  i2 = i2  i3 = i3
  NoProc = NoProc  Maintainer = g  Managers = {m1, m2}
  EpochRefreshFrequency = 1
  MinEpochDuration = 3
  CleanupSafetyMargin = 3
  EpochAdvanceOnCountThreshold = 2
  Writers = {w1}
  Readers = {}
  ManagerOf <- W1Maint
  Shards = {1, 2}
  FullCheckpointFrequency = 1
  MaintenanceOps = {"advance", "compactSingle"}
  Crashable = {m1, m2}
  Faulty = {w1}
  Interleaved = {m1}
  StartTimes <- W1Start
  InFlight = {w1}
  InFlightEpoch = 0
  InFlightShards = {1}
  Retrying = {}
  RetryingFor = 1
  InitWrites = {i0, i1, i2}
  InitEpoch <- ReadyEpoch
  InitTime <- ReadyTime
  InitMarkers = {1}
  InitSingles = {}
  InitRange <- NoRange
  Times = {3, 5}
  InitNow = 3
  MaxEpoch = 2
  MaxSets = 2
INVARIANT SinglesCoverAcked
