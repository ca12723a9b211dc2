SPECIFICATION FairSpec
CONSTANTS
  Receivers = {r1}
  Main = Main
  None = None
  STOP = STOP
  MaxQueue = 2
  Interval = 1
  MaxLines = 2
  MaxTime = 1
CHECK_DEADLOCK FALSE
INVARIANTS TypeOK WrittenInOrder NothingVanishes SnapshotsSpaced CleanCloseFlushes
PROPERTIES ArchiveSpec CloseEnds EveryRecordLeaves
