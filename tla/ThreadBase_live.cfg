CONSTANTS
  main = main
  a1 = a1
  Callers = {main, a1}
  SyncCallers = {main}
  Worker = worker
  Owner = owner
  Signals = {0}
  NullMsg = null
  MaxSends = 6
  CreateCanFail = FALSE
  SpuriousWakeups = FALSE
SPECIFICATION FairSpec
PROPERTIES
  SyncCallReturns
  EveryMessageHandled
  DestructorReturns
  MailboxSpec
  MailboxFairSpec
