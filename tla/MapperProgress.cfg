SPECIFICATION FairSpec
CONSTANTS
  None = None
  Scheduler = Scheduler
  Names = {a}
  Readers = {r1, r2}
  MaxUuids = 2
  MaxGenerations = 2
  Cap = 2
  MaxFaults = 0
  MaxTries = 100
PROPERTIES
  EveryLookupEnds
  DeletionEnds
CHECK_DEADLOCK FALSE
