SPECIFICATION GopSpec
CONSTANTS
  SRS_PURE_AUDIO_GUESS_COUNT = 2
  GopCacheMaxFrames = 4
  MaxPublished = 7
INVARIANTS GopIsRecent GopBounded
CHECK_DEADLOCK FALSE
