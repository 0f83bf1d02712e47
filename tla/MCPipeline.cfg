SPECIFICATION PipelineFairSpec
CONSTANTS
  t1 = t1
  s1 = s1
  TripWide = TripWide
  Cancelled = Cancelled
  Missing = Missing
  NoTimes = NoTimes
  NoDelay = NoDelay
  Unseen = Unseen
  NoState = NoState
  DelayThreshold = 15
  PredictedThreshold = 15
  Staleness = 1
  SmoothingThreshold = 120
  SmoothingMaxUpdates = 3
  CloseDelta = 30
  RetryAttempts = 2
  Trips <- MCTrips
  Stops <- MCStops
  Day = 86400
  Timetable <- MCTimetable
  Updates <- Calm
  FeedBudget <- FeedFaults
  Budget <- ConsumerFaults
INVARIANTS
  RedisHoldsLastSent
PROPERTIES
  ConvergesUnlessCancelled
  ClearedUnlessRevived
