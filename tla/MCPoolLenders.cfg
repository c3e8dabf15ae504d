SPECIFICATION MCSpec
CONSTANTS
  DAY = 1
  USDC_UNIT = 1
  WAD = 100
  PRICE_MUL = 1
  PRICE_DIV = 1
  MAX_U64 = 800
  Lenders = {alice, bob}
  Borrowers = {carol}
  Mints = {SOL}
  NoConfig = NoConfig
  DepositAmounts = {300}
  LoanAmounts = {200}
  Standings = {0}
  ShareAmounts = {150, 300}
  CollateralAmounts = {35}
  PriceUpdates <- MCUpdates
  RiskParams <- MCRisk
  Times = {1, 300, 700}
  MaxLoans = 2
  MaxLenderSteps = 6
INVARIANT
  Solvent
PROPERTY
  SharePriceFallsOnlyByLoss
CHECK_DEADLOCK FALSE
