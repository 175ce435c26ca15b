CONSTANTS
  NULL = NULL
  MinDuration = 1
  Fragment = 2
  Window = 2
  Configs = {1}
  Pictures <- MCPictures
  Steps <- MCSteps
  MaxFrames = 4
  MaxHeaders = 2
  MaxSessions = 2
  MaxFaults = 2
SPECIFICATION Spec
INVARIANTS SegmentOpen FramesOnce PlaylistServed Playable Contiguous
CHECK_DEADLOCK FALSE
