\* Two polling loops move one event, in every world.
CONSTANTS
  e1 = e1  d1 = d1  l1 = l1  t1 = t1  t2 = t2  audit = audit  None = None
  Events = {e1}
  Dispatchers = {d1}
  OutboxMaxAttempts = 1
  Undecodable = {}
  MaxRequeues = 1
  Consumers <- OneConsumer
  Loops = {l1}
  ConsumerOf <- OneLoop
  MailboxMaxAttempts = 1
  MailUndecodable = {}
  MaxRedeliveries = 1
  Transfers = {t1, t2}
  MaxCopies = 1
  Worlds <- AnyWorld
  MaxClaims = 1
SPECIFICATION FairSpec
INVARIANT CustodyInv
PROPERTIES ReceiptMeansHeld DeliversAtLeastOnce StreamDrains
CHECK_DEADLOCK FALSE
