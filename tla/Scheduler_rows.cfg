SPECIFICATION Spec
CONSTANTS
  c1 = c1
  c2 = c2
  al = al
  MaxJobs = 2
  JobSpecs <- MixedSpecs
  Callers = {c1}
  Alarm = al
  Ttl = 2
  MaxTime = 4
  MaxOps = 4
  Requests <- NoEvict
INVARIANTS
  AlarmNeverLost
  PendingRetryHasDeadline
  LiveJobHasSnapshot
  RunsInItsWorkspace
  AlarmNotLate
CHECK_DEADLOCK FALSE
