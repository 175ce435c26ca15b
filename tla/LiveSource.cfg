SPECIFICATION FairSpec
CONSTANTS
  CONST_MAX_JITTER_MS = 2
  DEFAULT_FRAME_TIME_MS = 1
  SRS_PURE_AUDIO_GUESS_COUNT = 2
  Publishers = {a, b}
  Players = {x}
  NoThread = NoThread
  SentKinds <- MCSentKinds
  GopCacheOn = TRUE
  GopCacheMaxFrames = 5
  QueueLength = 30
  MwMsgs = 2
  MwSleep = 0
  MaxMsgs = 3
  MaxSessions = 2
INVARIANTS SinglePublisher NoDanglingConsumer NoStaleSession GapFree GopJoinsLive
PROPERTY Drained
CHECK_DEADLOCK FALSE
