SPECIFICATION Spec
CONSTANTS
  None = None
  Position <- MCPosition
  Day = 8
  Circle = 1000
  Expected = 0
  Settings <- MCSettings
  N = 2
  Analysis = TRUE
  Reference <- MCNoReference
  Baseline <- MCBaseline
  Capacity = 1
  Lines <- MCMovingLines
  MaxLines = 1
  MaxTime = 2
CHECK_DEADLOCK FALSE
INVARIANTS CentroidIsFresh
