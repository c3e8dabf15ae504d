SPECIFICATION Spec
CONSTANTS
  NoCycle = NoCycle
  NoPrice = NoPrice
  DAY = 1
  REPAY_ALL = 100
  Terms <- MCTerms
  PAGE = 1
  MAX_PAGES = 3
  MAX_AGE_SECS = 6
  MAX_BINANCE_GAP_SECS = 1
  PRICE_CACHE_SECS = 2
  Protocols = {"kamino", "save", "marginfi", "loopscale", "jupiter_lend"}
  Amounts = {1, 2}
  Indexes = {0, 7}
  Steps = {1, 5}
  INTEREST_SECS = 5
  MaxTxs = 4
  Markets <- MCMarkets
  Null = Null
INVARIANTS
  LoansAreCycles
  RecentCyclesRead
  DebtCountedOnce
  LiquidationSeen
  NearestPrice
CHECK_DEADLOCK FALSE
