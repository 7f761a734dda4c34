SPECIFICATION FairSpec
CONSTANTS
  None = None
  c1 = c1
  c2 = c2
  a = a
  b = b
  id = id
  MaxTasks = 2
  MaxFiles = 1
  IndexNames <- OneIndex
  PrimaryKeys <- OneKey
  Clients <- OneClient
  Requests <- ProgressRequests
  AutobatchingEnabled = TRUE
  MaxNumberOfTasks = 100
  CleanupSize = 100
  HalfFull = 100
  MaxCrashes = 1
  MaxFaults = 1
  MaxResizes = 1
INVARIANTS
  UpdateNeverPanics
PROPERTIES
  EveryTaskFinishes
CHECK_DEADLOCK FALSE
