CONSTANTS
  Configs = {c1}
  NoConfig = NoConfig
  MaxEpoch = 2
  MaxGeneration = 1
  MaxRevision = 1
  MaxRequests = 3
  CrashLimit = 2
  CrashesAge = FALSE
  SnapshotLag = 0
  GenerationLag = 0
SPECIFICATION FairSpec
PROPERTY NothingHangs
CHECK_DEADLOCK FALSE
