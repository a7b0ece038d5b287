SPECIFICATION Spec
CONSTANTS
  c1 = c1  Nil = Nil
  Contents = {c1}
  MaxEventualConsistencySettleTime = 2
  StorageSettleTime = 1
  OwnWritesCacheDuration = 1
  CompactionDuration = 0
  LoadDuration = 1
  DropDeletedAge = 1
  CompactionInterval = 2
  MaxTime = 4
  MaxWrites = 2
  MaxWriteTime = 4
  MaxCompactions = 1
  MaxFaults = 0
INVARIANT DeletedNotFound
CHECK_DEADLOCK FALSE
