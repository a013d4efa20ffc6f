CONSTANTS
  Processes = {supervisor, cli}
  Keys = {k1, k2, k3}
  MaxEntries = 2
  MaxChanges = 3
  MaxCrashes = 1
  KeyIds = {key}
  MaxRequests = 4
  MaxEdits = 3
  MaxTime = 1
  MaxLimit = 2
  Paths = {A, B}
  Records = {r1, r2}
  MaxApplies = 4
  UnknownModel = 0
  MaxRows = 1
  MaxCounter = 2
  HourRetention = 2
  DayRetention = 2
  HoursPerDay = 2
  MaxHour = 2
  MaxObservations = 3
  MaxFaults = 2
  Nil = Nil
  MaxCalls = 2
  MaxOutside = 2
SYMMETRY StorageSymmetry
SPECIFICATION Spec
INVARIANTS LeftLockIsKnown GrantsCounted RecordsGoHome CaptureSettles HeatmapCoversHours EditsStayValid
PROPERTIES NoLostWrite StartupItemIsTrue
CHECK_DEADLOCK FALSE
