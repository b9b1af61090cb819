CONSTANTS
  t1 = t1
  t2 = t2
  Threads = {t1, t2}
  s1 = s1
  s2 = s2
  Sinks = {s1, s2}
  first = first
  Attached = first
  Dynamic = Dynamic
  console = console
  screen = screen
  Outputs = {console, screen}
  Output <- MCOutput
  Coloured = {first, s1}
  Levels = {1, 4}
  Free = Free
  MaxRecords = 2
  MaxAppenders = 2
SPECIFICATION FairSpec
INVARIANTS
  TypeOK
  NoUseOfDestroyed
  SameHistory
  PrintedOnce
  OwnColour
PROPERTIES
  LogCallsReturn
