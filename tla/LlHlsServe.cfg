SPECIFICATION FairSpec
CONSTANTS
  MaxSegments = 2
  SRS_LLHLS_PART_SEGMENTS = 1
  Durations = {1}
  Configs = {1}
  MaxParts = 5
  Clients = {c}
  SRS_HTTP_MSN_AHEAD_MAX = 1
  HoldSlices = 2
  AskedMsn = {0, 1, 2}
  AskedPsn = {0, 1}
INVARIANTS WindowConsistent PlaylistServes PartsForever FreshReload HintServed RightPart
PROPERTIES SegmentsForever HintKept Answered
CHECK_DEADLOCK FALSE
