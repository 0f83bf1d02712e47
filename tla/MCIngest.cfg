SPECIFICATION IngestFairSpec
CONSTANTS
  t1 = t1
  s1 = s1
  s2 = s2
  TripWide = TripWide
  Cancelled = Cancelled
  Missing = Missing
  NoTimes = NoTimes
  NoDelay = NoDelay
  Unseen = Unseen
  DelayThreshold = 15
  PredictedThreshold = 15
  Staleness = 0
  Trips <- MCTrips
  Stops <- MCStops
  Updates <- MCUpdates
  FeedBudget <- MCFeedBudget
INVARIANTS
  PrevIsLastPublished
PROPERTIES
  LiveKeysSurvive
  FeedReachesTopic
