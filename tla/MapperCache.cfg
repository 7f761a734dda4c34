SPECIFICATION Spec
CONSTANTS
  None = None
  Scheduler = Scheduler
  Names = {a, b}
  Readers = {r1, r2}
  MaxUuids = 2
  MaxGenerations = 2
  Cap = 1
  MaxFaults = 1
  MaxTries = 2
INVARIANTS
  TypeOK
  MapSound
PROPERTIES
  SizeKept
CHECK_DEADLOCK FALSE
