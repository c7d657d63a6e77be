SPECIFICATION Spec
CONSTANTS
  Sessions = {s1, s2}
  MaxGrants = 1
  MaxJobs = 1
  MaxSamples = 2
  MinExamples = 1
  MaxEvents = 4
PROPERTIES LastLookSeesDeletions
CHECK_DEADLOCK FALSE
