SPECIFICATION FairSpec
CONSTANTS
  w1 = w1
  w2 = w2
  k1 = k1
  Reaper = reaper
  Writers = {w1, w2}
  Closers = {k1}
  Faults = {"registry", "archive", "evict"}
  MaxFaults = 1

  
PROPERTIES
  GhostsGo
  
CHECK_DEADLOCK FALSE
