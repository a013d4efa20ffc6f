CONSTANTS
  Providers = {p1}
  NoProvider = NoProvider
  NoConfig = NoConfig
  Operations = {"secret"}
  InitialActive = p1
  Recording = FALSE
  AccountUpdates = FALSE
  MaxGeneration = 5
  MaxFaults = 1
SPECIFICATION Spec
PROPERTY CommittedIsApplied
CHECK_DEADLOCK FALSE
