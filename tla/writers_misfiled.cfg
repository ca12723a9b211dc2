SPECIFICATION Spec
CONSTANTS
  None = None
  Writers = {raw, csv}
  Csv = {csv}
  Days = {1, 2}
  MaxRecords = 3
  MaxFailures = 2
  MaxCrashes = 1
CHECK_DEADLOCK FALSE
INVARIANTS EveryRowFiledByDay
