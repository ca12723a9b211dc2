SPECIFICATION StalledDiskSpec
CONSTANTS
  Receivers = {r1}
  Main = Main
  None = None
  STOP = STOP
  MaxQueue = 1
  Interval = 1
  MaxLines = 3
  MaxTime = 0
CHECK_DEADLOCK FALSE
INVARIANTS ClosedStaysClosed
