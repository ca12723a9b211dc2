SPECIFICATION FairSpec
CONSTANTS
  None = None
  Position <- MCPosition
  PollBatch = 2
  Lines <- MCLines
  MaxLines = 3
  FileLines <- MCFileLines
INVARIANTS TypeOK ConnectedIsOpen SnapshotCoherent StopIsPrompt JoinedStaysClosed ExhaustedIsComplete
PROPERTIES FeedSpec StopEndsWorker Reconnects NoticesUnplug
