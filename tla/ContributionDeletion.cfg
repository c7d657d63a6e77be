CONSTANTS
  Sessions = {s1}
  Nobody = Nobody
  MaxGrants = 1
  MaxAttempts = 1
  DailyCap = 1
  Exclusive = TRUE
  MaxCrashes = 0
  MaxEvents = 2
SPECIFICATION FairSpec
PROPERTIES
  DeletionRetried
CHECK_DEADLOCK FALSE
