SPECIFICATION PredictionsSpec
CONSTANTS
  L = L
  M = M
  N = N
  x = x
  x1 = x1
  a = a
  b = b
  c = c
  d = d
  e = e
  f = f
  g = g
  l1 = l1
  l2 = l2
  l3 = l3
  l4 = l4
  m1 = m1
  m2 = m2
  m3 = m3
  n1 = n1
  n2 = n2
  n3 = n3
  nt = nt
  daily = daily
  NoRoute = NoRoute
  NoConfig = NoConfig
  NoStop = NoStop
  NoTrip = NoTrip
  NoId = NoId
  NoState = NoState
  NoRequest = NoRequest
  NoImpact = NoImpact
  NoHeadway = NoHeadway
  Everything = Everything
  Ambiguous = Ambiguous
  Malformed = Malformed
  RtTail <- MCTail
  Day = 86400
  Hour = 3600
  Overnight = 14400
  MaxGap = 10800
  MaxHeadwayHour = 27
  LoadedGraph <- MCGraph
  GivenConfig <- MCConfig
  MinTrack = 3
  Shrinkage = 10
  MaxConnAdd = 900
  DefaultMin = 120
  ExponentCap = 8
  Retention = 2
  DelayKeys <- MCKeys
  Delays <- MCDelays
  Active = 60
  Clock <- MCClock
  ObservedMax = {0, 900}
  MaxTracked = 2
  MaxBaseline = 2
  Scenarios <- AllScenarios
CHECK_DEADLOCK FALSE
INVARIANTS
  ScanFaithful
  CausedByEarlier
  EvidenceIsOutcomes
  EstimateWithinEvidence
  FiledOnce
  PrimaryIsInitial
  LargestCauseKept
