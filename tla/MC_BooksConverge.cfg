SPECIFICATION RecoveryFairSpec
CONSTANTS
  u1 = u1  u2 = u2  a = a  b = b
  ActiveMarkets <- OneToken
  Levels <- TwoLevels
  QueueCapacity = 2
  EndingMarkets <- FirstMarket
  MaxChanges = 2
  MaxConnections = 1
  MaxFailures = 1
PROPERTY BooksConverge
