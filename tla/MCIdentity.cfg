\* Two links, two sessions under a limit of one, two calls, clocks that may
\* disagree.
CONSTANTS
  c1 = c1  c2 = c2  l1 = l1  l2 = l2  s1 = s1  s2 = s2
  None = None
  Calls = {c1, c2}
  Links = {l1, l2}
  Sessions = {s1, s2}
  MaxActive = 1
  MaxTime = 2
SPECIFICATION Spec
SYMMETRY Symmetry
INVARIANTS OldPasswordSignedOut IInv
PROPERTIES SessionEndIsFinal SessionLimit
CHECK_DEADLOCK FALSE
