CONSTANTS
  MaxPending = 2
  MaxRecent = 2
  Window = 1
  Lifetime = 2
  MaxPairings = 5
  MaxTokens = 2
  Kinds = {"live", "final"}
  Permitted = {"live"}
  Capacity = 2
  MaxPublished = 4
  MaxRevocations = 2
  Customs = {c1, c2}
  Pin = Pin
  Threads = {t1, t2}
  Versions = {"v1", "v2"}
  Bases = {"b1", "b2", "custom"}
  Custom = "custom"
  BaseOf <- MCBaseOf
  MaxQueue = 3
  MaxChanges = 6
  Buffer = 4
  MaxRequests = 4
  WindowWords = 3
  OverlapWords = 1
  WordLevelCuts = FALSE
  PauseSamples = 2
  MaxSpans = 2
  MinDigitRun = 2
  TriggerWindow = 1
  Rate = 600
  PaddingMs = 1
  ExpandAll = TRUE
  MinClipMs = 2
  MaxClipMs = 25
  MinClipWords = 1
  MinTotalMs = 2
  MaxTotalMs = 40
  MaxClips = 2
  MaxClipBytes = 18
  MaxPayloadBytes = 26
  Transcripts <- MCTranscripts
  Answers <- MCAnswers
  Texts <- MCTexts
  StabilityMargin = 1
  MaxTail = 2
  Lag = 1
  MaxAudio = 3
  MaxSegments = 3
  Sessions = {s1, s2}
  NoSession = NoSession
  SourceRate = 3
  TargetRate = 2
  MaximumSamples = 5
  MaxPacket = 3
  MaxPackets = 4
  Dictations = {"d1", "d2"}
  Copied <- MCCopied
  Targets <- MCTargets
  Excluded = {"bank"}
  MaxMoves = 2
  MaxCopies = 1
  MaxEpoch = 3
SPECIFICATION Spec
INVARIANTS
  CaptureTracksState
  IdleMeansReleased
  RepeatIsSilent
  TokenReleasedOnce
  TableBounded
  NothingMissed
  RevokedHearsNothing
  InstalledVerified
  EngineCurrent
  PipeDrained
  CaptionsAgree
  EverySentenceShown
  RemovedStaysOut
  TimelineExact
  EligibleCanBePacked
  
  RecordingComplete
  
  EpochsNeverMix
PROPERTIES
  DeliverOnceUndiscarded
  EarlyStopHonoured
CHECK_DEADLOCK FALSE
