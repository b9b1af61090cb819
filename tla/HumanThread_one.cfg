CONSTANTS
  Self = Self
  Main = Main
  Timer = Timer
  Owner = Owner
  Worker = Worker
  Nothing = Nothing
  hi = hi
  ho = ho
  Words = {hi, ho}
  MaxCalls = 3
  MaxTicks = 2
SPECIFICATION FairSpec
PROPERTY ImplementsHuman
