SPECIFICATION FairSpec
CONSTANTS
  None = None
  Missing = Missing
  MaxSignals = 2
  Replays = 2
  MaxLength = 3
  MaxBatch = 2
  Workers = 5
  JoinTimeout = 2
  LoggerTimeout = 2
  FrameTime = 1
  Grace = 10
CHECK_DEADLOCK FALSE
INVARIANTS CleanExitTornDown GraceToleratesThreeStalls ReplayIsComplete
PROPERTIES StopEnds ReplayEnds
