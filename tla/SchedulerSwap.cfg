SPECIFICATION Spec
CONSTANTS
  None = None
  c1 = c1
  c2 = c2
  a = a
  b = b
  id = id
  MaxTasks = 4
  MaxFiles = 2
  IndexNames <- TwoIndexes
  PrimaryKeys <- OneKey
  Clients <- OneClient
  Requests <- SwapRequests
  AutobatchingEnabled = TRUE
  MaxNumberOfTasks = 3
  CleanupSize = 100
  HalfFull = 3
  MaxCrashes = 1
  MaxFaults = 0
  MaxResizes = 0
INVARIANTS
  SwapsKeepDocuments
PROPERTIES
  ImplementsTaskQueue
CHECK_DEADLOCK FALSE
