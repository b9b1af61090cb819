CONSTANTS
  main = main
  Callers = {main}
  SyncCallers = {main}
  Worker = worker
  Owner = owner
  Signals = {0}
  NullMsg = null
  MaxSends = 2
  CreateCanFail = TRUE
  SpuriousWakeups = FALSE
SPECIFICATION FairSpec
PROPERTY SyncCallReturns
CHECK_DEADLOCK FALSE
