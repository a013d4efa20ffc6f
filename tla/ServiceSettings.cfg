CONSTANTS
  Providers = {p1}
  NoProvider = NoProvider
  NoConfig = NoConfig
  Operations = {"weight", "mode", "capture", "restart", "stop", "host"}
  InitialActive = p1
  Recording = TRUE
  AccountUpdates = FALSE
  MaxGeneration = 5
  MaxFaults = 1
SPECIFICATION FairSpec
INVARIANT Agreement
PROPERTIES OneFaultIsUndone CommittedIsApplied TransactionEnds
CHECK_DEADLOCK FALSE
