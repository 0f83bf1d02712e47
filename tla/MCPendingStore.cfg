SPECIFICATION PendingSpec
CONSTANTS
  p1 = p1
  p2 = p2
  w1 = w1
  w2 = w2
  Gone = Gone
  Idle = Idle
  Window = 3
  Slack = 1
  IndexTTL = 5
  SweepEvery = 1
  SweepBatch = 2
  Punctual = FALSE
  MaxTime = 6
  Ids <- TwoIds
  Sweepers <- TwoSweepers
  Events <- OneEvent
  Baseline <- MCBaseline
  Direction <- MCDirection
  EvalBudget <- Races
CHECK_DEADLOCK FALSE
INVARIANTS
  SingleOwner
PROPERTIES
  FinalizedOnce
  NoResurrection
  ImplementsLifecycle
SYMMETRY SweeperSymmetry
