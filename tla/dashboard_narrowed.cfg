SPECIFICATION Spec
CONSTANTS
  None = None
  Sizes <- MCSizes
  Models <- MCModels
  HeaderChunks <- MCHeaderChunks
  StatusChunks <- MCStatusChunks
  Headings <- MCHeadings
  Escape = 9
  MaxFrames = 3
  MaxResizes = 3
CHECK_DEADLOCK FALSE
INVARIANTS NothingStaleAtAnyWidth
