CONSTANTS
  Clients = {c1, c2}
  Rollouts = {rollout}
  Databases = {database}
  MaxRuns = 2
  MaxWrites = 1
  BootstrapFaults = 1
  MaxChecks = 1
  Slots = {s1, s2}
  Sources = {saved, runtime}
  MaxStarts = 3
  MigrationFaults = 1
  MaxDeaths = 1
SYMMETRY RecoverySymmetry
SPECIFICATION Spec
INVARIANTS LeftLockRecoverable QuarantineResumes UnlockedIsWhole
PROPERTY RepairIsSafe
CHECK_DEADLOCK FALSE
