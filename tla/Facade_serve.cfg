SPECIFICATION Spec
CONSTANTS
  Requests = {"r1", "r2"}
  Starts <- Beginnings
  Flips <- HumanFlips
  Caps = {0}
  Called <- ModelCalls
  Offers <- ServerOffers
  Namespaced <- ToolName
  Costs = {2}
  MaxHops = 2
  QueueSize = 1
  MaxDeltas = 1
  MaxCalls = 1
  MaxFlips = 1
  MaxFaults = 1
INVARIANTS
  StopMeansJournaled
  DurableNeedsConsent
  AdvertisedIsCalled
  OverrunIsOneHop
CHECK_DEADLOCK FALSE
