SPECIFICATION FairSpec
CONSTANTS
  Clients = {c1, c2}
  Policy = "everysec"
  Faults <- RewriteFails
  Torn = Torn
  MaxCmds = 1
  MaxRewrites = 2
  MaxLives = 2
INVARIANT RewriteExclusive
PROPERTY LoggedStays
PROPERTY StopTerminates
PROPERTY RewriteTerminates
CHECK_DEADLOCK FALSE
