SPECIFICATION Spec
CONSTANTS
  CONST_MAX_JITTER_MS = 2
  DEFAULT_FRAME_TIME_MS = 1
  SentKinds = {"meta", "ash", "vsh", "key"}
  Stamps = {0, 1, 2, 4, 9}
  QueueLength = 3
  MwMsgs = 2
  MaxMsgs = 4

PROPERTY DropsOnlyOnOverflow
CHECK_DEADLOCK FALSE
