SPECIFICATION FairSpec
CONSTANTS
  Client = {c1, c2}
  Loops = 2
  Unreliable = {2}
  Channel = {ch}
  Pattern = {pat}
  Matches <- AllMatch
  Arguments <- Lists
  Subscribers = {c1}
  Publishers = {c1, c2}
  None = None
  MaxCommands = 2
INVARIANTS EachMessageOnce PublisherOrder AckFirst StopClosesAll
CHECK_DEADLOCK FALSE
PROPERTIES MailArrives AcceptedIsServed StopEnds
