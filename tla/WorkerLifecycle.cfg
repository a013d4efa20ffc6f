CONSTANTS
  Configs = {c1}
  NoConfig = NoConfig
  MaxEpoch = 3
  MaxGeneration = 2
  MaxRevision = 1
  MaxRequests = 4
  CrashLimit = 3
  CrashesAge = TRUE
  SnapshotLag = 0
  GenerationLag = 1
SPECIFICATION Spec
INVARIANTS TypeOK AtMostOneWorker NoOrphan StaysStopped
PROPERTY ImplementsSlot
CHECK_DEADLOCK FALSE
