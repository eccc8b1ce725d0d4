SPECIFICATION Spec
CHECK_DEADLOCK FALSE
SYMMETRY Symmetry
CONSTANTS
  r1 = r1
  r2 = r2
  r3 = r3
  r4 = r4
  Requests = {r1, r2, r3, r4}
  MaxHead = 2
  None = None
  MaxFaults = 1
INVARIANTS
  RefreshRepairs
  DiffIsOfTheHead
  IntentIsOfTheHead
  NewestStands
