CONSTANTS
  Sessions = {s1, s2}
  Nobody = Nobody
  MaxGrants = 1
  MaxAttempts = 1
  DailyCap = 1
  Exclusive = TRUE
  MaxCrashes = 0
  MaxEvents = 2
SPECIFICATION Spec
SYMMETRY SessionSymmetry
PROPERTIES
  PreemptionKeepsJob
CHECK_DEADLOCK FALSE
