SPECIFICATION Spec
CONSTANTS
  Workers = {a, b}
  Stable = {}
  Jobs = {j1}
  Malformed = {}
  NoJob = NoJob
  NumPriorities = 1
  PriorityOf <- OnePriority
  MaxDispatch = 2
  MaxResends = 1
  Faults = {"lapse", "join", "dup", "marker", "reply", "twice"}
  Slots = {s1}
  Recon = {}
  Unregistered = {}
  MaxParts = 1
  MaxReclaims = 1
SYMMETRY WorkerSymmetry
VIEW RunsView
INVARIANTS
  BoundedRuns
CHECK_DEADLOCK FALSE
