SPECIFICATION Spec
CONSTANTS
  None = None
  c1 = c1
  c2 = c2
  a = a
  b = b
  id = id
  MaxTasks = 3
  MaxFiles = 2
  IndexNames <- OneIndex
  PrimaryKeys <- OneKey
  Clients <- TwoClients
  Requests <- CancelRequests
  AutobatchingEnabled = TRUE
  MaxNumberOfTasks = 100
  CleanupSize = 100
  HalfFull = 100
  MaxCrashes = 0
  MaxFaults = 0
  MaxResizes = 0
INVARIANTS
  TypeOK
  QueueConsistent
  BatchUpToDate
  FilesMatchTasks
  CanceledLeavesNoDocument
  NoLostWakeUp
CHECK_DEADLOCK FALSE
SYMMETRY ClientSymmetry
