SPECIFICATION Spec
CONSTANTS
  PriceScale = 10
  Conditions = {c1}
  NoCondition = NoCondition
  TapeTokens = {"up", "down"}
  DefaultTick = 1
  TapeEnd = 20
  PPM = 4
  FeeRate = 1
  FeeRateUnit = 4
  MinimumFee = 1
  Realism <- MCRealism
  MinimumInterval = 2
  DepthShare = 2
  FeeReserve = 1
  Tolerance = 1
  FloorShare = 2
  MinimumMultiplier = 1
  Recordings <- MCRecordings
  Trades <- MCTrades
  ParamSets <- MCParamSets
  Wallets <- MCWallets
  EntryFrom = 0
  EntryTo = 5
  EpisodeEnd = 10
  TakerDelay = 0
  MinimumOrder = 1
  WinnerToken = "up"
  Interval = 2
  Unbounded = 1000
INVARIANTS
  LevelsAreNotOversold
  FillsMeetTheBook
  SessionNeverRaises
  EntriesAreFunded
  NothingSoldBeforeItArrived
