SPECIFICATION MuxSpec
CONSTANTS
  MaxSegments = 2
  SRS_LLHLS_PART_SEGMENTS = 1
  Durations <- MCDurations
  Configs <- MCConfigs
  MaxParts = 3
  PartTarget = 7
  SegmentTarget = 8
  VideoConfigs = {1}
  AudioConfigs = {1, 2}
  Steps <- MCSteps
  MaxDts = 10
  MaxSessions = 2
INVARIANTS  SegmentDurationAgrees PartsLongEnough
PROPERTY ImplementsWindow
CHECK_DEADLOCK FALSE
