CONSTANTS
  Sessions = {s1, s2}
  Keys = {"Hold", "Lock"}
  NoSession = NoSession
  NoActive = NoActive
  NoText = NoText
SPECIFICATION Spec
SYMMETRY SessionSymmetry
INVARIANTS
  OwnSpeechOnly
  RestIsClean
  HeldNeedsKey
  ReleaseEndsItsOwnSession
PROPERTY
  Refines
CHECK_DEADLOCK FALSE
