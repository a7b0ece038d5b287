SPECIFICATION Spec
CONSTANTS
  m1 = m1  m2 = m2  w1 = w1  w2 = w2  r1 = r1  g = g
  i0 = i0  i1 = i1  i2 = i2  i3 = i3
  NoProc = NoProc  Maintainer = g  Managers = {m1, m2}
  EpochRefreshFrequency = 1
  MinEpochDuration = 3
  CleanupSafetyMargin = 3
  EpochAdvanceOnCountThreshold = 2
  Writers = {w2}
  Readers = {r1}
  ManagerOf <- CleanupManagers
  Shards = {1}
  FullCheckpointFrequency = 1
  MaintenanceOps = {"compactSingle", "cleanupIndexes"}
  Crashable = {}
  Faulty = {}
  Interleaved = {}
  StartTimes <- CleanupStart
  InFlight = {}
  InFlightEpoch = 0
  InFlightShards = {}
  Retrying = {}
  RetryingFor = 1
  InitWrites = {i0, i1, i2}
  InitEpoch <- CleanupEpoch
  InitTime <- CleanupTime
  InitMarkers = {1, 2}
  InitSingles = {}
  InitRange <- NoRange
  Times = {3, 7, 8}
  InitNow = 3
  MaxEpoch = 2
  MaxSets = 1
INVARIANTS ReadComplete AckedNeverLost
