SPECIFICATION Spec
CONSTANTS
  t1 = t1
  s1 = s1
  s2 = s2
  TripWide = TripWide
  NoState = NoState
  SmoothingThreshold = 120
  SmoothingMaxUpdates = 3
  CloseDelta = 30
  Trips <- MCTrips
  Stops <- MCStops
  Day = 86400
  Timetable <- MCTimetable
  Messages <- MCMessages
  Budget <- InOrder
  StartCommitted = TRUE
  RetryAttempts = 3
CHECK_DEADLOCK FALSE
PROPERTIES
  StaleEventDiscarded
