CONSTANTS
  m1 = m1
  m2 = m2
  Callers = {m1, m2}
  SyncCallers = {m1, m2}
  Worker = worker
  Owner = owner
  Signals = {0}
  NullMsg = null
  MaxSends = 3
  CreateCanFail = FALSE
  SpuriousWakeups = FALSE
SPECIFICATION Spec
INVARIANT SyncReturnsAfterSlot
