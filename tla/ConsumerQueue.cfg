SPECIFICATION Spec
CONSTANTS
  CONST_MAX_JITTER_MS = 2
  DEFAULT_FRAME_TIME_MS = 1
  SentKinds = {"meta", "ash", "vsh", "key"}
  Stamps = {0, 1, 2, 4, 6, 9}
  QueueLength = 2
  MwMsgs = 2
  MaxMsgs = 5
INVARIANTS HeadersSurvive
PROPERTIES TimelineBounded BacklogRecent
CHECK_DEADLOCK FALSE
