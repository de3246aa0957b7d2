SPECIFICATION FairSpec
CONSTANTS
  Task = {t1}
  Run = {r1, r2}
  Job = {j1, j2}
  NoTask = NoTask
  NoRun = NoRun
  NoJob = NoJob
  RetryLimit = 1
  MaxBounces = 0
  Pollers = 2
  PatchTo = {}
  MaxFaults = 1
  MaxRequests = 0
CHECK_DEADLOCK FALSE
PROPERTIES PendingEventuallyDispatched LockEventuallyReleased
