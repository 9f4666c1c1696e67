\* Three calls compete for two connections while the pool is closed; servers
\* and callbacks may hang.
CONSTANTS
  c1 = c1  c2 = c2  c3 = c3
  Calls = {c1, c2, c3}
  MaxConnections = 2
SPECIFICATION FairSpec
INVARIANTS IInv VerdictIsTrue
PROPERTIES CallReturns CloseEnds
CHECK_DEADLOCK FALSE
