SPECIFICATION Spec
CONSTANTS
  u1 = u1  c1 = c1  Maintainer = Maintainer  Nil = Nil
  Clients = {u1}
  Contents = {c1}
  Initial = {c1}
  RewriteMinAge = 9
  MinContentAgeSubjectToGC = 1
  MarginBetweenSnapshotGC = 1
  DropContentFromIndexExtraMargin = 0
  BlobDeleteMinAge = 2
  SessionExpirationAge = 3
  MinRewriteToOrphanDeletionDelay = 1
  IndexRefreshFrequency = 0
  CheckpointInterval = 1
  UploadDuration = 1
  FullCycleInterval = 0
  ForceHash = FALSE
  MaxTime = 4
  MaxFaults = 0
  MaxUploads = 3
  MaxRuns = 2
  MaxRunDuration = 0
INVARIANT SnapshotReadable
CHECK_DEADLOCK FALSE
