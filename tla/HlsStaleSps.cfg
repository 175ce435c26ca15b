CONSTANTS
  NULL = NULL
  MinDuration = 1
  Fragment = 2
  Window = 2
  Configs = {1, 2}
  Pictures <- MCPictures
  Steps <- MCSteps
  MaxFrames = 2
  MaxHeaders = 3
  MaxSessions = 2
  MaxFaults = 0
SPECIFICATION Spec
PROPERTY LatestSps
CHECK_DEADLOCK FALSE
