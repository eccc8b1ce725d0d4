SPECIFICATION EngineSpec
CHECK_DEADLOCK FALSE
CONSTANTS
  Diffs <- SomeDiffs
  Paths = {"a", "b", "c"}
  Cited <- SomeFindings
  MaxLine = 3
  Threshold = 2
  MaxRetries = 1
  MaxFindings = 2
  MaxPrice = 1
  None = None
INVARIANTS
  ScoreAgreesWithEvent
  CommentsAnchor
  CostCoversCalls
  CancelBoundsCalls
