SPECIFICATION Spec
CONSTANTS
  DAY = 1
  USDC_UNIT = 1
  WAD = 100
  PRICE_MUL = 1
  PRICE_DIV = 1
  MAX_U64 = 1500
  Lenders = {alice}
  Borrowers = {carol}
  Mints = {SOL}
  NoConfig = NoConfig
  NoAccount = NoAccount
  DepositAmounts = {1000}
  LoanAmounts = {200, 400}
  ShareAmounts = {}
  CollateralAmounts = {60}
  PriceUpdates <- MCUpdates
  RiskParams <- MCRisk
  Imports <- MCImports
  Exposures = {0}
  Times = {1, 20, 33, 125}
  MaxLoans = 2
  PoolWriter = poolPda
  ImportWriter = backend
  MAX_WRITERS = 2
  EXPOSURE_FIX_DEADLINE = 1
  MAX_U16 = 65535
  MAX_SUM = 1000000
ACTION_CONSTRAINT
  WritersStay
INVARIANTS
  OneRecordPerClosedLoan
  LimitIsAttested
PROPERTIES
  ImplementsLedger
CHECK_DEADLOCK FALSE
