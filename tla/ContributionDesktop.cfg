CONSTANTS
  Sessions = {s1, s2}
  Nobody = Nobody
  MaxGrants = 2
  MaxAttempts = 2
  DailyCap = 1
  Exclusive = TRUE
  MaxCrashes = 1
  MaxEvents = 3
SPECIFICATION Spec
SYMMETRY SessionSymmetry
INVARIANTS
  TypeOK
  WithdrawnErased
  EligibleHasPackage
  CapRespected
PROPERTIES
  SentUnderConsent
CHECK_DEADLOCK FALSE
