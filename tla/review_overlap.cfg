SPECIFICATION Spec
CONSTANTS
  a = a
  b = b
  g1 = g1
  g2 = g2
  Runs = {a, b}
  Rounds = {g1, g2}
  JobsOf <- TwoRounds
  MaxChunks = 2
  MaxHead = 2
  MaxCrashes = 1
  Touched = {a}
  DbFaults = FALSE
CHECK_DEADLOCK FALSE
INVARIANTS
  LastReviewedWasReviewed
PROPERTIES
  OutcomeIsFinal
  ImplementsRegistry
