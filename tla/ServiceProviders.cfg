CONSTANTS
  Providers = {p1, p2}
  NoProvider = NoProvider
  NoConfig = NoConfig
  Operations = {"secret", "rules", "delete", "create", "test", "start", "stop"}
  InitialActive = NoProvider
  Recording = TRUE
  AccountUpdates = FALSE
  MaxGeneration = 5
  MaxFaults = 1
SPECIFICATION Spec
INVARIANT ProvidersHaveCredentials
PROPERTY FailedChangesNothing
SYMMETRY ProviderSymmetry
CHECK_DEADLOCK FALSE
