CONSTANTS
  ann = ann
  hi = hi
  Nothing = Nothing
  Humans = {ann}
  Timed = {ann}
  Words = {hi}
  MaxCalls = 3
  MaxTicks = 4
SPECIFICATION Spec
INVARIANT
  NoAbortAfterDestroyTimer
