CONSTANTS
  Main = Main
  Owner = Owner
  WorkerA = WorkerA
  WorkerB = WorkerB
  Signals = {0}
  NullMsg = NullMsg
  MaxSendsA = 5
  MaxSendsB = 4
  MainSyncs = TRUE
  ASyncs = TRUE
SPECIFICATION FairSpec
INVARIANT
  NestedSendsDone
PROPERTIES
  PeerCallsReturn
  PeersServed
