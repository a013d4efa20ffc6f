CONSTANTS
  Tabs = {t1}
  Lifetime = 1
  MaxTime = 1
  MaxSessions = 2
  MaxChanges = 1
  MaxReads = 1
  MaxFaults = 0
SPECIFICATION Spec
INVARIANT TerminalStays
CHECK_DEADLOCK FALSE
