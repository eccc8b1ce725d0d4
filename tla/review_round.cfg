SPECIFICATION Spec
CONSTANTS
  a = a
  b = b
  g1 = g1
  g2 = g2
  Runs = {a, b}
  Rounds = {g1}
  JobsOf <- OneRoundTwoAgents
  MaxChunks = 2
  MaxHead = 1
  MaxCrashes = 1
  Touched = {b}
  DbFaults = TRUE
CHECK_DEADLOCK FALSE
INVARIANTS
  NoOrphanedRunning
  StreamEndMeansSettled
PROPERTIES
  RunSettles
  ExecutedStreamEnds
