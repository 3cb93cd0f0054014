SPECIFICATION FairSpec
CONSTANTS
  c1 = c1
  c2 = c2
  al = al
  MaxJobs = 2
  JobSpecs <- ChainSpecs
  Callers = {c1, c2}
  Alarm = al
  Ttl = 2
  MaxTime = 3
  MaxOps = 4
  Requests = {"create","runNow","evict"}
INVARIANTS
  OneRunPerJob
  OncePerTick
  RunNowAnswersOwnRun
PROPERTIES
  DueJobIsHandled
CHECK_DEADLOCK FALSE
