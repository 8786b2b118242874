SPECIFICATION FairSpec
CONSTANTS
  Clients <- MCClients
  Workers <- MCWorkers
  Home <- TwoWorkers
  Keys = {"k1", "k2"}
  Workload <- QueueOfWork
  MayLeave = {"consumer"}
  Pipelining = TRUE
  MaxQueued = 1
INVARIANTS PlainInOrder EachValueOnce BlockedIsAwaited WaitersAreLive
PROPERTY TimedPopEnds
CHECK_DEADLOCK FALSE
