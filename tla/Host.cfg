SPECIFICATION FairSpec
CONSTANTS
  Procs = {a, b}
  Containers = {c1, c2}
  Scans = {s1}
  Faults = {"config", "redis", "docker", "git", "disk", "cancel", "kill"}
INVARIANTS
  SweepThorough
  SeesOwnTree
  NoTreeForgotten
  ExitHonest
PROPERTIES
  PeersSafe
  ShutdownEnds
CHECK_DEADLOCK FALSE
