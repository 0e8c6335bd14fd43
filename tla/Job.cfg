SPECIFICATION FairSpec
CONSTANTS
  Faults = {"redis", "shutdown", "garbled", "start", "die", "overflow", "helper", "late"}
  MaxMessages = 2
  MaxRecords = 3
  MaxFindingsPerEvent = 2
  ReconLimit = 2
  MaxLines = 2
INVARIANTS
  ReturnTells
  SequenceWhole
  CanceledAsked
  LeavesNothing
  CompletedMeansWhole
  SurfaceFirst
PROPERTY
  ProcessReturns
CHECK_DEADLOCK FALSE
