SPECIFICATION FairSpec
CONSTANTS
  t1 = t1
  u = u
  f1 = f1
  f2 = f2
  Clients = {t1, u}
  May <- MayAllBeside
  Files = {f1}
  Faults <- FaultKinds
  MaxOps = 3
  MaxFaults = 2
PROPERTIES
  CallsReturn
CHECK_DEADLOCK FALSE
