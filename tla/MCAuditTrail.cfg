\* Three requests, two delivering processes, both modes.
CONSTANTS
  r1 = r1  r2 = r2  r3 = r3  t1 = t1  t2 = t2  a1 = a1  k1 = k1
  None = None
  IDs = {r1, r2, r3}
  Names = {t1, t2}
  MaxCount = 2
  Requests = {r1, r2, r3}
  PoliciesOf <- RoutePolicies
  KeyOf <- RequestKeys
  LimitOf <- RouteLimits
  TenantOf <- RequestTenants
  LagOf <- ClockLags
  WindowLength = 1
  MaxTime = 1
  MaxLag = 1
  Modes = {"memory", "postgres"}
  Processes = {1, 2}
  MaxCounter = 1
  MaxAttempts = 2
  RetryDelay = 0
  MaxRequeues = 1
  PageSize = 1
SPECIFICATION Spec
INVARIANTS AuditInv  AdmittedWithinLimit LineageKept
PROPERTIES EntryIsFinal 
CHECK_DEADLOCK FALSE
