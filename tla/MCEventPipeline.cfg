\* Two dispatchers and two delivery loops race for one event of one consumer;
\* failures and crashes at will, an operator who requeues what has died.
CONSTANTS
  e1 = e1  d1 = d1  d2 = d2  l1 = l1  l2 = l2  audit = audit  None = None
  Events = {e1}
  Dispatchers = {d1, d2}
  OutboxMaxAttempts = 2
  Undecodable = {}
  MaxRequeues = 1
  Consumers <- OneConsumer
  Loops = {l1, l2}
  ConsumerOf <- BothServeAudit
  MailboxMaxAttempts = 1
  MailUndecodable = {}
  MaxRedeliveries = 1
SPECIFICATION FairSpec
INVARIANTS NothingLost IInv
PROPERTIES LatestClaimDecides DeliversAtLeastOnce EventuallySettled
CHECK_DEADLOCK FALSE
