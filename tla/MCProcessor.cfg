SPECIFICATION ProcFairSpec
CONSTANTS
  q1 = q1
  q2 = q2
  Partitions <- TwoPartitions
  Slots <- OneSlot
  EnterLag = 1
  ExitLag = 1
  MaxBroken = 1
  InitialBacklog = 2
  ProcBudget <- Anything
CHECK_DEADLOCK FALSE
INVARIANTS
  NoAddAfterWait
PROPERTIES
  ShutdownCompletes
  StormDoesNotStall
  CatchUpEnds
