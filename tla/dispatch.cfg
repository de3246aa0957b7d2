SPECIFICATION Spec
CONSTANTS
  Task = {t1}
  Run = {r1, r2}
  Job = {j1, j2}
  NoTask = NoTask
  NoRun = NoRun
  NoJob = NoJob
  RetryLimit = 1
  MaxBounces = 1
  Pollers = 2
  PatchTo = {"todo", "review", "done"}
  MaxFaults = 1
  MaxRequests = 1
CHECK_DEADLOCK FALSE
INVARIANTS TypeOK InProgressHasRun RunningTraceHasOwner PlainClaimsExclusive
 
