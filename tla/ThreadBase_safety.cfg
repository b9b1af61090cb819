CONSTANTS
  main = main
  a1 = a1
  a2 = a2
  Callers = {main, a1, a2}
  SyncCallers = {main}
  Worker = worker
  Owner = owner
  Signals = {0}
  NullMsg = null
  MaxSends = 6
  CreateCanFail = TRUE
  SpuriousWakeups = TRUE
SPECIFICATION Spec
SYMMETRY AsyncSymmetry
INVARIANTS
  TypeOK
  SyncReturnsAfterSlot
  NoLostWorkerWakeup
  NoLostCallerWakeup
  FIFO
  NothingLeftBehind
