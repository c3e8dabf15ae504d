SPECIFICATION MCSpec
SYMMETRY TabSymmetry
CONSTANTS
  DAY = 1
  USDC_UNIT = 1
  WAD = 100
  PRICE_MUL = 1
  PRICE_DIV = 1
  MAX_U64 = 100000
  me = me
  other = other
  SOL = SOL
  ALL = ALL
  tUSDC = tUSDC
  Null = Null
  Lenders = {me, other}
  Borrowers = {me, other}
  Wallets = {me}
  Tabs = {t1, t2}
  Mints = {SOL, tUSDC}
  NoConfig = NoConfig
  DepositAmounts = {500}
  LoanAmounts = {200}
  Standings = {0, 2}
  ShareAmounts = {900}
  CollateralAmounts = {35}
  PriceUpdates <- MCUpdates
  RiskParams <- MCRisks
  Times = {1, 300}
  MaxLoans = 2
  Typed <- MCTyped
  Wrapped = {5}
  COLLATERAL_BUFFER_BPS = 500
  SOL_FEE_RESERVE = 2
  REPAY_MARGIN = 2
  MaxRequests = 2
  MaxEvents = 1
CONSTRAINT OnePage
INVARIANT
  AnswerIsProgram
PROPERTIES
  QuoteHolds
  OneLoanPerAddress
CHECK_DEADLOCK FALSE
