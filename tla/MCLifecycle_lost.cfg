\* One process that serves two consumers is closed while it publishes.
CONSTANTS
  e1 = e1  d1 = d1  d2 = d2  l1 = l1  l2 = l2  p1 = p1  p2 = p2
  audit = audit  documents = documents  None = None
  Events = {e1}
  Dispatchers = {d1}
  OutboxMaxAttempts = 1
  Undecodable = {}
  MaxRequeues = 0
  Consumers <- TwoConsumers
  Loops = {l1, l2}
  ConsumerOf <- OneLoopEach
  MailboxMaxAttempts = 1
  MailUndecodable = {}
  MaxRedeliveries = 0
  Processes = {p1}
  DispatcherOf <- OneWorker
  ProcessOf <- BothInOneProcess
  MaxStarts = 1
SPECIFICATION LifecycleSpec
INVARIANTS NothingLost
CHECK_DEADLOCK FALSE
