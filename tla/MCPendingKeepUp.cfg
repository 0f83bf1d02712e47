SPECIFICATION PendingFairSpec
CONSTANTS
  p1 = p1
  p2 = p2
  w1 = w1
  w2 = w2
  Gone = Gone
  Idle = Idle
  Window = 6
  Slack = 2
  IndexTTL = 10
  SweepEvery = 1
  SweepBatch = 1
  Punctual = TRUE
  MaxTime = 13
  Ids <- TwoIds
  Sweepers <- OneSweeper
  Events <- MCEvents
  Baseline <- MCBaseline
  Direction <- MCDirection
  EvalBudget <- Matches
CHECK_DEADLOCK FALSE
INVARIANTS
  NoneEvictedUnswept
  ObservationsKept
  ActiveFindable
PROPERTIES
  EveryPredictionJudged
