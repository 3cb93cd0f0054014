SPECIFICATION Spec
CONSTANTS
  MaxDrivers = 2
  MaxTurns = 1
  MaxHops = 2
  CallsPerHop = 1
  TextPerHop = 0
  Cap = 5
  HopCost = 2
  Patient = FALSE
  Faults = {}
  MaxFaults = 0
INVARIANTS
  ContinuationKnowsItsCall
CHECK_DEADLOCK FALSE
