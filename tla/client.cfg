SPECIFICATION Spec
CONSTANTS
  Runs = {r1, r2}
  Calls = {c1, c2}
  NoRun = NoRun
  Deadline = 1
  StaleAfter = 2
INVARIANT BudgetIsSpentOnce
INVARIANT AnswersStand
PROPERTY CallsEnd
