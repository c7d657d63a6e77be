SPECIFICATION Spec
CONSTANTS
  Sessions = {s1, s2}
  MaxGrants = 1
  MaxJobs = 1
  MaxSamples = 2
  MinExamples = 1
  MaxEvents = 6
INVARIANTS ModelsFollowDeletions FilesMatchRows NoPlaintextLeft
PROPERTIES ImplementsLedger
SYMMETRY Symmetry
CHECK_DEADLOCK FALSE
