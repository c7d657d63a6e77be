CONSTANTS
  Sessions = {s1}
  Nobody = Nobody
  MaxGrants = 1
  MaxAttempts = 1
  DailyCap = 1
  Exclusive = TRUE
  MaxCrashes = 0
  MaxEvents = 3
SPECIFICATION Spec
PROPERTIES
  OptOutHonoured
CHECK_DEADLOCK FALSE
