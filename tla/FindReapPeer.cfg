SPECIFICATION Spec
CONSTANTS
  Procs = {a, b}
  Containers = {c1}
  Scans = {s1}
  Faults = {}
PROPERTIES
  LivePeerUntouched
CHECK_DEADLOCK FALSE
