SPECIFICATION FairSpec
CONSTANTS
  m1 = m1  m2 = m2
  Sockets = {"clob", "rtds"}
  MaxMissed = 2
  MayRefuse = TRUE
  ExponentLimit = 1
  MaxFaults = 1
  Markets <- TwoMarkets
  Upcoming <- Second
  MayEnd <- First
INVARIANT SettledSubscription
PROPERTIES
  FeedRecovers
  StopEnds
CHECK_DEADLOCK FALSE
