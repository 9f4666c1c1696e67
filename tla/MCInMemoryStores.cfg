\* Three calls race over the rows of every in-memory store; one fault.
CONSTANTS
  c1 = c1  c2 = c2  c3 = c3
  Seed = Seed  Absent = Absent
  Calls = {c1, c2, c3}
  MaxActive = 2
  MaxFaults = 1
SPECIFICATION StoresSpec
SYMMETRY CallSymmetry
INVARIANTS StoresInv UniqueUnlessUndone ResetSignsOut
 
CHECK_DEADLOCK FALSE
