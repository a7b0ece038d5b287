SPECIFICATION Spec
CONSTANTS
  c1 = c1  Nil = Nil
  Contents = {c1}
  MaxEventualConsistencySettleTime = 2
  StorageSettleTime = 1
  OwnWritesCacheDuration = 1
  CompactionDuration = 1
  LoadDuration = 0
  DropDeletedAge = 1
  CompactionInterval = 2
  MaxTime = 7
  MaxWrites = 2
  MaxWriteTime = 7
  MaxCompactions = 3
  MaxFaults = 0
INVARIANT DeletedNotFoundUnlessPartial
CHECK_DEADLOCK FALSE
