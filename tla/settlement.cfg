CONSTANTS
  t1 = t1
  t2 = t2
  a = a
  b = b
  Task = {t1, t2}
  Line = {a, b}
  LineOf <- MCLineOf
  Unset = {}
  Run = {1, 2}
  MaxTx = 2
  MaxCalls = 2
  MaxFaults = 1
  MaxRequests = 1
SPECIFICATION Spec
INVARIANTS TypeOK PaidOnce SignatureOfRunLanded PaidIsMarked 
CHECK_DEADLOCK FALSE
