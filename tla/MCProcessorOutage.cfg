SPECIFICATION ProcSpec
CONSTANTS
  q1 = q1
  q2 = q2
  Partitions <- OnePartition
  Slots <- OneSlot
  EnterLag = 2
  ExitLag = 1
  MaxBroken = 1
  InitialBacklog = 5
  ProcBudget <- Outage
CHECK_DEADLOCK FALSE
PROPERTIES
  ResumesWhenDrained
