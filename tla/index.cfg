SPECIFICATION Spec
CONSTANTS
  f1 = f1
  f2 = f2
  j1 = j1
  j2 = j2
  j3 = j3
  j4 = j4
  Files = {f1, f2}
  MaxHead = 2
  ChangedBy <- OneThenNone
  Jobs = {j1, j2, j3, j4}
  KindOf <- ImportThenRequests
  Concurrency = 2
  MaxCrashes = 1
  Degrading = {j2}
CHECK_DEADLOCK FALSE
INVARIANTS
  FullIsExact
PROPERTIES
  IndexedCommitGrows
