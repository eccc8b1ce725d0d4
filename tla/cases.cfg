SPECIFICATION FairSpec
CONSTANTS
  c1 = c1
  c2 = c2
  v1 = v1
  v2 = v2
  x1 = x1
  q1 = q1
  q2 = q2
  q3 = q3
  none = none
  Cases = {c1, c2}
  MaxName = 3
  Contents = {v1, v2}
  Findings = {x1}
  None = none
  Requests = {q1, q2, q3}
  MaxAttempts = 2
  MaxCrashes = 1
  DbFaults = TRUE
CHECK_DEADLOCK FALSE
INVARIANTS
  CheckIsOfItsReview
  GivesUpAfterContention
PROPERTIES
  CheckCloses
