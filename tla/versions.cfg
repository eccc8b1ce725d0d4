SPECIFICATION Spec
CONSTANTS
  s1 = s1
  v1 = v1
  v2 = v2
  q1 = q1
  q2 = q2
  q3 = q3
  q4 = q4
  seed = seed
  Skills = {s1}
  Values = {v1, v2}
  Requests = {q1, q2, q3, q4}
  Seed = seed
  Deletable = {s1}
  MayDelete = TRUE
CHECK_DEADLOCK FALSE
SYMMETRY Sym
INVARIANTS
  VersionIsNewest
  SnapshotIsConfig
PROPERTIES
  PromotionRestoresRun
  ImplementsLog
