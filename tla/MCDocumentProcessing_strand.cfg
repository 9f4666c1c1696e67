\* A job that closes while its request is still under way.
CONSTANTS
  j1 = j1  j2 = j2  c1 = c1  c2 = c2  c3 = c3
  NoRun = NoRun  NoJob = NoJob  NoDoc = NoDoc  NoEvent = NoEvent
  Jobs = {j1}
  Calls = {c1, c2}
  Budgets = {1}
  Asks <- OneJob
  Legacy = FALSE
SPECIFICATION Spec
INVARIANT ProcessingWaitsOnOpenJob
CHECK_DEADLOCK FALSE
