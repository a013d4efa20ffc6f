CONSTANTS
  Configs = {c1, c2}
  NoConfig = NoConfig
  MaxEpoch = 1
  MaxGeneration = 3
  MaxRevision = 2
  MaxRequests = 3
  CrashLimit = 2
  CrashesAge = TRUE
  SnapshotLag = 1
  GenerationLag = 0
SPECIFICATION Spec
INVARIANT ConfirmedIsServed
PROPERTY AccountStateInOrder
SYMMETRY ConfigSymmetry
CHECK_DEADLOCK FALSE
