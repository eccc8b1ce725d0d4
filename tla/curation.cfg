SPECIFICATION CurationSpec
CHECK_DEADLOCK FALSE
SYMMETRY Symmetry
CONSTANTS
  q1 = q1
  q2 = q2
  q3 = q3
  q4 = q4
  r1 = r1
  r2 = r2
  p1 = p1
  p2 = p2
  Requests = {q1, q2, q3, q4}
  Rules = {r1, r2}
  MaxFound = 1
  Paths = {p1, p2}
INVARIANTS
  SettledIsNotOffered
  ListIsWhole
PROPERTIES
  DecisionsStand
