CONSTANTS
  Clients = {c1, c2}
  MaxSupervisors = 3
  MaxCommands = 2
  LifecycleFaults = 1
  MaxCrashes = 1
  MaxChildren = 2
  MaxAccounts = 2
  MaxRefreshes = 2
  MaxNotices = 1
  MonitorFaults = 2
  Tabs = {t1, t2}
  Lifetime = 1
  MaxTime = 1
  MaxSessions = 3
  MaxChanges = 1
  MaxReads = 1
  ConsoleFaults = 1
SYMMETRY ControlSymmetry
SPECIFICATION Spec
INVARIANTS RunningIsNamed UpdateKeepsItsWord QuietIsTrue ForgottenIsEnded
           ReadsOwnChanges
CHECK_DEADLOCK FALSE
