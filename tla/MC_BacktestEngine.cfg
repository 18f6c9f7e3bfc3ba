SPECIFICATION Spec
CONSTANTS
  up = up
  down = down
  c1 = c1
  c2 = c2
  none = none
  PriceScale = 4
  Conditions <- MCConditions
  NoCondition = none
  Tokens <- MCTokens
  MarketOf <- MCMarketOf
  StartingCash = 5
  FeeRate = 7
  FeeRateUnit = 100
  MinimumFee = 1
  Snapshots <- MCSnapshots
  Changes <- MCChanges
  TickChanges <- MCTickChanges
  DefaultTick = 1
  Intents <- MCIntents
  Latencies = {0, 1}
  Gaps <- MCGaps
  RejectOnGap = TRUE
  ExchangeClock = FALSE
  MaxTime = 4
  MaxEvents = 3
  MaxIntents = 2
INVARIANTS
  ResolvedIsFlat
  FillsAreCovered
  SweepIsWithinRequest
  EveryIntentAnswered
  AccountsBalance
PROPERTIES
  ExecutedAgainstItsPast
  BooksFollowReconstructor
