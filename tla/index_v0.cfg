SPECIFICATION Spec
CONSTANTS
  c1 = c1  Nil = Nil
  Contents = {c1}
  MaxEventualConsistencySettleTime = 2
  StorageSettleTime = 1
  OwnWritesCacheDuration = 1
  CompactionDuration = 0
  LoadDuration = 1
  DropDeletedAge = 1
  CompactionInterval = 2
  MaxTime = 5
  MaxWrites = 2
  MaxWriteTime = 2
  MaxCompactions = 3
  MaxFaults = 1
INVARIANTS TypeOK LiveContentsFound DeletedNotFoundUnlessLapse OutputsLast ReplacedStaysMarked
CHECK_DEADLOCK FALSE
