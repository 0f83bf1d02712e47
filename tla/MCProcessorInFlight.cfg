SPECIFICATION ProcSpec
CONSTANTS
  q1 = q1
  q2 = q2
  Partitions <- OnePartition
  Slots <- OneSlot
  EnterLag = 2
  ExitLag = 1
  MaxBroken = 1
  InitialBacklog = 2
  ProcBudget <- Stop
CHECK_DEADLOCK FALSE
INVARIANTS
  InFlightTracked
