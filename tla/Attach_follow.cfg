SPECIFICATION FairSpec
CONSTANTS
  MaxTurns = 2
  MaxRows = 1
  PostCap = 1
  PageLimit = 2
  Attempts = 2
  Hop = 1
  Stale = 3
  Cap = 4
  Faults = {"cut", "gone", "slow", "refused", "close", "reset"}
  MaxFaults = 1
PROPERTIES
  FollowsFeed
  HealthyTurnIsNotStale
  
  ClientSettles
CHECK_DEADLOCK FALSE
