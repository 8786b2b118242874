SPECIFICATION FairSpec
CONSTANTS
  Clients = {c1, c2}
  AutoSave = TRUE
  SaveChanges = 1
  Faults <- AllFaults
  MaxWrites = 2
  MaxSnapshots = 2
  MaxLives = 2
INVARIANT OneSaver
INVARIANT SavedStays
INVARIANT FileIntact
INVARIANT StopSavesCounted
PROPERTY SaveEnds
PROPERTY StopTerminates
CHECK_DEADLOCK FALSE
