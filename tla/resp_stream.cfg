SPECIFICATION Spec
CONSTANTS
  Reserve = 2
  Garbage = Garbage
  Argument <- Tricky
  MaxArgs = 2
  MaxRequests = 2
INVARIANTS RequestsInOrder NothingWaits
CHECK_DEADLOCK FALSE
