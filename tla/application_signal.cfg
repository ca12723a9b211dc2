SPECIFICATION Spec
CONSTANTS
  None = None
  Missing = Missing
  MaxSignals = 2
  Replays = 1
  MaxLength = 2
  MaxBatch = 2
  Workers = 1
  JoinTimeout = 2
  LoggerTimeout = 2
  FrameTime = 1
  Grace = 10
CHECK_DEADLOCK FALSE
INVARIANTS HandlerNeverBlocks
