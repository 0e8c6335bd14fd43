SPECIFICATION Spec
CONSTANTS
  Workers = {a}
  Stable = {}
  Jobs = {j1}
  Malformed = {}
  NoJob = NoJob
  NumPriorities = 1
  PriorityOf <- OnePriority
  MaxDispatch = 1
  MaxResends = 3
  Faults = {"reply"}
  Slots = {s1}
  Recon = {}
  Unregistered = {}
  MaxParts = 1
  MaxReclaims = 1
SYMMETRY WorkerSymmetry
INVARIANTS
  DroppedRepresented
CHECK_DEADLOCK FALSE
