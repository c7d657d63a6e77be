CONSTANTS
  WindowWords = 3
  OverlapWords = 1
  WordLevelCuts = FALSE
  PauseSamples = 2
  MaxSpans = 2
  MinDigitRun = 2
  TriggerWindow = 1
  Rate = 600
  PaddingMs = 1
  ExpandAll = TRUE
  MinClipMs = 2
  MaxClipMs = 25
  MinClipWords = 1
  MinTotalMs = 2
  MaxTotalMs = 40
  MaxClips = 2
  MaxClipBytes = 18
  MaxPayloadBytes = 20
  Transcripts <- MCTranscripts
  Answers <- MCAnswers
SPECIFICATION CopySpec
INVARIANT
  UnreliableDiscarded
CHECK_DEADLOCK FALSE
