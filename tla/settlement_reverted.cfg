CONSTANTS
  t1 = t1
  t2 = t2
  a = a
  b = b
  Task = {t1, t2}
  Line = {a, b}
  LineOf <- MCLineOf
  Unset = {}
  Run = {1}
  MaxTx = 2
  MaxCalls = 2
  MaxFaults = 0
  MaxRequests = 0
SPECIFICATION Spec
INVARIANTS PaidMeansTransferred
CHECK_DEADLOCK FALSE
