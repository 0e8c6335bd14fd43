SPECIFICATION FairSpec
CONSTANTS
  Runs = {r1, r2, r3}
  Containers = {c1, c2, c3}
  NoContainer = NoContainer
  MaxSize = 2
  Troubles = {"create", "start", "sick", "dirty", "hang", "cancel"}
INVARIANTS
  Accounting
  ReturnFindsRoom
  OneOwner
  CleanHandover
PROPERTIES
  RunsEnd
  ShutdownEmpties
CHECK_DEADLOCK FALSE
