CONSTANTS
  MaxFires = 1
  MaxRetries = 1
  MaxContinuation = 1
  MaxTroubles = 4
  MaxFaults = 2
  MaxRequests = 2
SPECIFICATION LiveSpec
INVARIANTS TypeOK OneWrapperPerSlot InProgressHasCause  ParkedIsQuiet RetriesEnd
 
CHECK_DEADLOCK FALSE
