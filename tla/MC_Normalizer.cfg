SPECIFICATION NormalizerSpec
CONSTANTS
  Tokens = {"up", "down"}
  Conditions = {"c1"}
  TokensOf <- MCTokensOf
  BaseTick <- MCBaseTick
  EnvelopeIds <- MCEnvelopeIds
  TradeIds = {"t1"}
  Procs = {"timer"}
  Files <- MCFiles
  FileOf <- MCFileOf
  Options <- MCOptions
  TimerOptions <- MCTimer
  Legacy = {"old", "gam", "rtds"}
  BucketLength = 10
  HourLength = 5
  MaxDeaths = 1
INVARIANTS ProcessedIsAccountedFor TicksAreComplete PublishedOnce ChartIsLatest
PROPERTY EveryFileIsNormalized
