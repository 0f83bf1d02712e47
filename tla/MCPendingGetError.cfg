SPECIFICATION PendingSpec
CONSTANTS
  p1 = p1
  p2 = p2
  w1 = w1
  w2 = w2
  Gone = Gone
  Idle = Idle
  Window = 3
  Slack = 1
  IndexTTL = 5
  SweepEvery = 1
  SweepBatch = 2
  Punctual = FALSE
  MaxTime = 6
  Ids <- TwoIds
  Sweepers <- OneSweeper
  Events <- MCEvents
  Baseline <- MCBaseline
  Direction <- MCDirection
  EvalBudget <- GetErrors
CHECK_DEADLOCK FALSE
PROPERTIES
  AbandonedOnlyIfEvicted
