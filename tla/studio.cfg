SPECIFICATION TabSpec
CONSTANTS
  r1 = r1
  r2 = r2
  Runs <- MCRuns
  Cancellable = {r1}
  MaxEvents <- MCEvents
  MaxRestarts = 1
INVARIANT StreamShowsLog
PROPERTY PageCatchesUp
