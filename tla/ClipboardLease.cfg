CONSTANTS
  Dictations = {"d1", "d2"}
  Copied <- MCCopied
  Targets <- MCTargets
  Excluded = {"bank"}
  MaxMoves = 2
  MaxCopies = 1
SPECIFICATION DeliverySpec
INVARIANTS
  DictationTakenBack
CHECK_DEADLOCK FALSE
