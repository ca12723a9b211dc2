SPECIFICATION Spec
CONSTANTS
  None = None
  Position <- MCPosition
  PollBatch = 2
  Lines <- MCLines
  MaxLines = 3
  FileLines <- MCFileLines
INVARIANTS PortClosedAfterStop
