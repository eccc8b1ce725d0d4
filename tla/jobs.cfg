SPECIFICATION FairSpec
CONSTANTS
  clone = clone
  index = index
  Jobs = {clone, index}
  Concurrency = 1
  Retries = 2
  MaxCrashes = 1
  DbFaults = TRUE
CHECK_DEADLOCK FALSE
INVARIANTS
  DoneWasHandled
PROPERTIES
  RecordedIsFinal
  JobEnds
