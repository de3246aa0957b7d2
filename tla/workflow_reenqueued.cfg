CONSTANTS
  LastStep = 3
  Gates <- MCGates
  Tools <- MCTools
  Skippable <- MCSkippable
  Fatal <- MCFatal
  Draft = 1
  MaxRevisions = 1
  MaxStepRetries = 0
  RetryLimit = 1
  MaxTasks = 5
  Call = {1, 2}
  MaxFaults = 0
  MaxRequests = 0
SPECIFICATION Spec
INVARIANT LiveStepAtCursor
CHECK_DEADLOCK FALSE
