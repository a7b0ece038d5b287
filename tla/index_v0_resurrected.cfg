SPECIFICATION Spec
CONSTANTS
  c1 = c1  Nil = Nil
  Contents = {c1}
  MaxEventualConsistencySettleTime = 1
  StorageSettleTime = 1
  OwnWritesCacheDuration = 1
  CompactionDuration = 0
  LoadDuration = 0
  DropDeletedAge = 1
  CompactionInterval = 0
  MaxTime = 3
  MaxWrites = 2
  MaxWriteTime = 3
  MaxCompactions = 3
  MaxFaults = 0
INVARIANT DeletedNotFoundUnlessLapse
CHECK_DEADLOCK FALSE
