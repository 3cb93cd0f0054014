SPECIFICATION FairSpec
CONSTANTS
  MaxDrivers = 3
  MaxTurns = 1
  MaxHops = 2
  CallsPerHop = 1
  TextPerHop = 1
  Cap = 5
  HopCost = 2
  Patient = TRUE
  Faults = {"model", "handler", "die", "cut", "lost", "refused"}
  MaxFaults = 1
INVARIANTS
  JournalVerifies
  ContinuationKnowsItsCall
  CallAnsweredOnce
  TextJournaledOnce
PROPERTIES
  OpenTurnSettles
CHECK_DEADLOCK FALSE
