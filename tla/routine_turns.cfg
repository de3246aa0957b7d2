CONSTANTS
  MaxFires = 1
  MaxRetries = 1
  MaxContinuation = 1
  MaxTroubles = 4
  MaxFaults = 0
  MaxRequests = 0
SPECIFICATION Spec
INVARIANTS TurnsBounded
CHECK_DEADLOCK FALSE
