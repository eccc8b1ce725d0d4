SPECIFICATION FairSpec
CONSTANTS
  c1 = c1
  c2 = c2
  c3 = c3
  agent = agent
  r1 = r1
  r2 = r2
  Owners = {agent}
  Cases = {c1, c2, c3}
  CasesOf <- OneSet
  Runs = {r1, r2}
  OwnerOf <- SameOwner
  Width = 2
  MaxCrashes = 1
  DeletableCases = {c1}
  DeletableOwners = {agent}
  DbFaults = TRUE
CHECK_DEADLOCK FALSE
INVARIANTS
  MetricsMatchResults
  OwnerWidth
  CompletedCoversAll
PROPERTIES
  ImplementsBoard
  RunCloses
