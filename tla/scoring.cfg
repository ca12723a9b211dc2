SPECIFICATION Spec
CONSTANTS
  None = None
  Position <- MCPosition
  Day = 8
  Circle = 12
  Expected = 0
  Settings <- MCSettings
  neo6m = neo6m
  neo7m = neo7m
  neo8m = neo8m
  lc29h = lc29h
  Ids <- MCIds
  References <- MCReferences
  Samples <- MCSamples
INVARIANTS JumpIsShortWay ReferencesNeutral AgreementIsQuiet WorseNeverScoresLess
SYMMETRY MCSymmetry
