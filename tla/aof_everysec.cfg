SPECIFICATION FairSpec
CONSTANTS
  Clients = {c1, c2}
  Policy = "everysec"
  Faults <- OpenFails
  Torn = Torn
  MaxCmds = 2
  MaxRewrites = 0
  MaxLives = 2
INVARIANT NothingLost
INVARIANT ShutdownComplete
PROPERTY ImplementsLog
PROPERTY EverySecSyncs
CHECK_DEADLOCK FALSE
