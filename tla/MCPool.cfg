SPECIFICATION Spec
CONSTANTS
  DAY = 1
  USDC_UNIT = 1
  WAD = 100
  PRICE_MUL = 1
  PRICE_DIV = 1
  MAX_U64 = 1900
  Lenders = {alice}
  Borrowers = {carol}
  Mints = {SOL}
  NoConfig = NoConfig
  Null = Null
  DepositAmounts = {1000}
  LoanAmounts = {200, 400}
  Standings = {0, 2}
  ShareAmounts = {1000}
  CollateralAmounts = {35, 53}
  PriceUpdates <- MCUpdates
  RiskParams <- MCRisk
  Times = {1, 26, 33, 300}
  MaxLoans = 2
INVARIANTS
  TypeOK
  ClaimsBacked
  UnitsAreOpenLoans
  CollateralHeld
  ViewIsBooks
  ViewIsProgram
PROPERTIES
  LiquidatorReward
  OpensHealthy
CHECK_DEADLOCK FALSE
