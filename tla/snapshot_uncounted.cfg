SPECIFICATION SnapshotSpec
CONSTANTS
  Clients = {c1}
  AutoSave = TRUE
  SaveChanges = 1
  Faults <- NoFaults
  MaxWrites = 2
  MaxSnapshots = 1
  MaxLives = 1
INVARIANT ShutdownSaves
CHECK_DEADLOCK FALSE
