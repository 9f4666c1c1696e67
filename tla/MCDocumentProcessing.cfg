\* Concurrent calls around two jobs in sequence; a legacy document.
CONSTANTS
  j1 = j1  j2 = j2  c1 = c1  c2 = c2  c3 = c3
  NoRun = NoRun  NoJob = NoJob  NoDoc = NoDoc  NoEvent = NoEvent
  Jobs = {j1, j2}
  Calls = {c1, c2}
  Budgets = {1, 2}
  Asks <- TwoJobs
  Legacy = TRUE
SPECIFICATION Spec
SYMMETRY CallSymmetry
INVARIANT IInv
PROPERTIES RowsAreAtomic ClosingOutcomeSettles
CHECK_DEADLOCK FALSE
