SPECIFICATION TransferSpec
CONSTANTS
  A = A
  B = B
  C = C
  S = S
  s1 = s1
  D = D
  d1 = d1
  d2 = d2
  a1 = a1
  b1 = b1
  b2 = b2
  b3 = b3
  b4 = b4
  q1 = q1
  k = k
  kc = kc
  daily = daily
  special = special
  off = off
  NoTrip = NoTrip
  NoStop = NoStop
  NoId = NoId
  NoTime = NoTime
  NoState = NoState
  NoRoute = NoRoute
  NoDirection = NoDirection
  NoHeadway = NoHeadway
  Ambiguous = Ambiguous
  Malformed = Malformed
  RtTail <- MCTail
  Day = 16
  Hour = 4
  Overnight = 4
  MaxGap = 6
  MaxHeadwayHour = 4
  Feeds <- TimedOnly
  Date <- Today
  DefaultMin = 4
  AtRiskBuffer = 2
  Window = 8
  Lookahead = 2
  Arrivals <- Night
  TrainDelays <- EarlyLate
  RtIds <- StaticIds
CHECK_DEADLOCK FALSE
INVARIANTS
  NextViableIsAnother
  \* ConnectionIsFirstViable
