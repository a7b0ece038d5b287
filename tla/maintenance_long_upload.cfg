SPECIFICATION Spec
CONSTANTS
  u1 = u1  c1 = c1  Maintainer = Maintainer  Nil = Nil
  Clients = {u1}
  Contents = {c1}
  Initial = {c1}
  RewriteMinAge = 1
  MinContentAgeSubjectToGC = 1
  MarginBetweenSnapshotGC = 1
  DropContentFromIndexExtraMargin = 1
  BlobDeleteMinAge = 2
  SessionExpirationAge = 3
  MinRewriteToOrphanDeletionDelay = 1
  IndexRefreshFrequency = 0
  CheckpointInterval = 1
  UploadDuration = 5
  FullCycleInterval = 2
  ForceHash = FALSE
  MaxTime = 5
  MaxFaults = 0
  MaxUploads = 1
  MaxRuns = 3
  MaxRunDuration = 0
INVARIANT SnapshotReadable
CHECK_DEADLOCK FALSE
