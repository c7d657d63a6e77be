CONSTANTS
  Sessions = {s1, s2}
  Nobody = Nobody
  MaxGrants = 1
  MaxAttempts = 2
  DailyCap = 1
  Exclusive = FALSE
  MaxCrashes = 0
  MaxEvents = 3
SPECIFICATION Spec
SYMMETRY SessionSymmetry
INVARIANTS
  
  NothingLeftBehind
  WorkInHand
PROPERTIES
  CancelledForGood
CHECK_DEADLOCK FALSE
