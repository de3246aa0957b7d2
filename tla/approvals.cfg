SPECIFICATION Spec
CONSTANTS
  Approval = {a1, a2}
  Call = {c1, c2}
  MaxRequests = 4
  MaxFaults = 1
INVARIANTS TypeOK DeniedHasNoEffect AppliedOnce RowTellsTheStory ChildAsRecorded
CHECK_DEADLOCK FALSE
