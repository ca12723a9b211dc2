SPECIFICATION Spec
CONSTANTS
  None = None
  Position <- MCPosition
  Day = 8
  Circle = 1000
  Expected = 0
  Settings <- MCSettings
  N = 1
  Analysis = FALSE
  Reference <- MCNoReference
  Baseline <- MCBaseline
  Capacity = 4
  Lines <- MCGoodLines
  MaxLines = 1
  MaxTime = 1
CHECK_DEADLOCK FALSE
INVARIANTS DisconnectedShowsNoPosition
