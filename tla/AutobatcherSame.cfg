SPECIFICATION Spec
CONSTANTS
  None = None
  a = a
  id = id
  other = other
  MaxTasks = 4
  MaxFiles = 1
  IndexNames <- OneIndex
  PrimaryKeys <- TwoKeys
  TaskKinds <- AllKinds
  StartIndexes <- AllStarts
  Inferred = other
INVARIANTS
  SameAsOneByOne
CHECK_DEADLOCK FALSE
