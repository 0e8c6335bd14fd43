SPECIFICATION Spec
CONSTANTS
  Workers = {a, b, c, d}
  Stable = {}
  Jobs = {j1}
  Malformed = {}
  NoJob = NoJob
  NumPriorities = 1
  PriorityOf <- OnePriority
  MaxDispatch = 1
  MaxResends = 1
  Faults = {"crash", "redis", "reply", "cancel"}
  Slots = {s1}
  Recon = {}
  Unregistered = {}
  MaxParts = 2
  MaxReclaims = 1
SYMMETRY WorkerSymmetry
INVARIANTS
  TypeOK
  ReportedOnce
  LiveListsUntouched
  InFlightListed
  NoSilentLoss
PROPERTIES
  ImplementsLife
CHECK_DEADLOCK FALSE
