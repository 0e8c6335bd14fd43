SPECIFICATION Spec
CONSTANTS
  Faults = {"die"}
  MaxMessages = 0
  MaxRecords = 2
  MaxFindingsPerEvent = 2
  ReconLimit = 1
  MaxLines = 1
INVARIANT
  CompletedMeansReport
CHECK_DEADLOCK FALSE
