CONSTANTS
  LastStep = 3
  Gates <- MCGates
  Tools <- MCTools
  Skippable <- MCSkippable
  Fatal <- MCFatal
  Draft = 1
  MaxRevisions = 1
  MaxStepRetries = 0
  RetryLimit = 1
  MaxTasks = 5
  Call = {1, 2}
  MaxFaults = 1
  MaxRequests = 1
SPECIFICATION LiveSpec
INVARIANTS TypeOK GatePassedOnGo ToolOncePerPass  
PROPERTIES  RefinesPipeline
CHECK_DEADLOCK FALSE
