SPECIFICATION Spec
CONSTANTS
  Clients = {c1, c2}
  Policy = "always"
  Faults <- PowerLoss
  Torn = Torn
  MaxCmds = 2
  MaxRewrites = 0
  MaxLives = 2
SYMMETRY ClientSymmetry
INVARIANT NothingLost
INVARIANT NoDuplicate
INVARIANT AlwaysDurable
INVARIANT ReplayPerWorker
CHECK_DEADLOCK FALSE
