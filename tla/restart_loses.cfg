SPECIFICATION ExactSpec
CONSTANTS
  Key = {k}
  Elem = {x}
  None = None
  MaxTime = 2
  MaxTtl = 1
  MaxLog = 3
  MaxSaves = 1
  MaxRewrites = 1
  MaxStarts = 1
INVARIANT RestartExact
CHECK_DEADLOCK FALSE
