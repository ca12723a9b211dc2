SPECIFICATION Spec
CONSTANTS
  None = None
  Position <- MCPosition
  Day = 8
  Circle = 1000
  Expected = 0
  Settings <- MCSettings
  N = 1
  Analysis = TRUE
  Reference <- MCNoReference
  Baseline <- MCBaseline
  Capacity = 2
  Lines <- MCGoodLines
  MaxLines = 2
  MaxTime = 4
CHECK_DEADLOCK FALSE
PROPERTIES NoGapMisfire
