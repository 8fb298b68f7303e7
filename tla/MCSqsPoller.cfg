SPECIFICATION FairSpec
CONSTANTS
  BatchSize = 3
  MaxHandlers = 3
  RunOnce = FALSE
  MaxLive = 6
  MaxLost = 3
INVARIANTS
  PollerTypeOK
  MaxMsgsInRange
  CapacityUpToLostUpdates
PROPERTIES
  PollsAgain
  PollReturns
CHECK_DEADLOCK FALSE
