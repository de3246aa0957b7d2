SPECIFICATION FairSpec
CONSTANTS
  Review = {v1, v2}
  Height = 2
  MaxRounds = 1
  RetryLimit = 1
  MaxVersions = 4
  MaxFaults = 2
  MaxRequests = 1
CHECK_DEADLOCK FALSE
INVARIANTS TypeOK OneReviewWhenFaultless ReworksBounded
PROPERTIES RejectedStaysUnpublished KeyEventuallyFree
