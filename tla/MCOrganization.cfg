\* Two organizations, two identities, two concurrent calls.
CONSTANTS
  o1 = o1  o2 = o2  x1 = x1  x2 = x2  m1 = m1  m2 = m2  m3 = m3  v1 = v1
  c1 = c1  c2 = c2  None = None
  Orgs = {o1, o2}
  Identities = {x1, x2}
  Memberships = {m1, m2, m3}
  Invitations = {v1}
  Calls = {c1, c2}
SPECIFICATION Spec
SYMMETRY Symmetry
INVARIANTS AuthorityNeverStale IInv
PROPERTIES RevokedStaysOut OwnersAreLocked
CHECK_DEADLOCK FALSE
