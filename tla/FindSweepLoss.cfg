SPECIFICATION Spec
CONSTANTS
  Workers = {a, b}
  Stable = {}
  Jobs = {j1}
  Malformed = {}
  NoJob = NoJob
  NumPriorities = 1
  PriorityOf <- OnePriority
  MaxDispatch = 1
  MaxResends = 0
  Faults = {"shutdown"}
  Slots = {s1}
  Recon = {}
  Unregistered = {}
  MaxParts = 1
  MaxReclaims = 1
SYMMETRY WorkerSymmetry
INVARIANTS
  SweepLosesNothing
CHECK_DEADLOCK FALSE
