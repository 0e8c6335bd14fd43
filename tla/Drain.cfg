SPECIFICATION FairSpec
CONSTANTS
  Workers = {a, b}
  Stable = {a}
  Jobs = {bad, rec, unk}
  Malformed = {bad}
  NoJob = NoJob
  NumPriorities = 2
  PriorityOf <- MixedPriority
  MaxDispatch = 1
  MaxResends = 0
  Faults = {"crash", "shutdown", "cancel"}
  Slots = {s1}
  Recon = {rec}
  Unregistered = {unk}
  MaxParts = 1
  MaxReclaims = 1
INVARIANTS
  PriorityKept
PROPERTIES
  CompletedStands
  Settled
CHECK_DEADLOCK FALSE
