CONSTANTS
  ann = ann
  bob = bob
  hi = hi
  ho = ho
  Nothing = Nothing
  Humans = {ann, bob}
  Timed = {ann}
  Words = {hi, ho}
  MaxCalls = 3
  MaxTicks = 1
SPECIFICATION FairSpec
INVARIANTS
  TypeOK
  NoDataRace
  CallsVisible
  NoAbort
  CountMatchesMessages
PROPERTIES
  QuietWithoutTimer
  CallsReturn
  TimerTicks
