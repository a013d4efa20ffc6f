CONSTANTS
  Providers = {p1, p2}
  NoProvider = NoProvider
  NoConfig = NoConfig
  Operations = {"activate", "rules", "capture", "details", "group", "start"}
  InitialActive = p1
  Recording = FALSE
  AccountUpdates = TRUE
  MaxGeneration = 5
  MaxFaults = 1
SPECIFICATION Spec
INVARIANT Agreement
CHECK_DEADLOCK FALSE
