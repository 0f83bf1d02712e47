SPECIFICATION AlertFairSpec
CONSTANTS
  a1 = a1
  a2 = a2
  c1 = c1
  c2 = c2
  p1 = p1
  p2 = p2
  red = red
  blue = blue
  garbled = garbled
  Unreadable = garbled
  Hashed <- MCHashed
  OnePart = a1
  NoTag = NoTag
  Publishers <- OnePublisher
  Parts <- TwoParts
  Clients <- OneClient
  Tags <- MCTags
  Wanted <- MCWanted
  BufSize = 1
  AlertBudget <- Anything
CHECK_DEADLOCK FALSE
PROPERTIES
  PublisherNeverStalls
  GoneUnsubscribed
  ShutsDownWhenClientsLeave
