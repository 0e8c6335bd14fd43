SPECIFICATION FairSpec
CONSTANTS
  Troubles = {"create", "start", "inspect", "remove", "exit", "http", "hang", "fetch", "stall", "cancel"}
  MaxAttempts = 2
  MaxAuthCalls = 2
  MaxRecords = 2
INVARIANTS
  NothingLeftBehind
  FindingsComplete
  DeathNoticed
PROPERTY
  RunEnds
CHECK_DEADLOCK FALSE
