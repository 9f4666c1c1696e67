\* Two processes serve one consumer and come and go around one event.
CONSTANTS
  e1 = e1  d1 = d1  d2 = d2  l1 = l1  l2 = l2  p1 = p1  p2 = p2
  audit = audit  documents = documents  None = None
  Events = {e1}
  Dispatchers = {d1, d2}
  OutboxMaxAttempts = 1
  Undecodable = {}
  MaxRequeues = 0
  Consumers <- OneConsumer
  Loops = {l1, l2}
  ConsumerOf <- BothServeAudit
  MailboxMaxAttempts = 2
  MailUndecodable = {}
  MaxRedeliveries = 0
  Processes = {p1, p2}
  DispatcherOf <- TwoWorkers
  ProcessOf <- OneLoopPerProcess
  MaxStarts = 1
SPECIFICATION LifecycleFairSpec
INVARIANT ProcessInv
PROPERTIES LossOnlyWhileDestroying CloseReturns
CHECK_DEADLOCK FALSE
