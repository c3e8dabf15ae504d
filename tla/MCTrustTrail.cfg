SPECIFICATION Spec
CONSTANTS
  Wallets = {w}
  Writers = {pool}
  NoAccount = NoAccount
  Null = Null
  Foreign <- MCForeign
  LoanKeys = {l1, l2}
  Principals = {90, 740}
  OpenDates = {99}
  DueDates = {0, 99}
  Imports <- MCImports
  Exposures = {0, 5000}
  Times = {100, 130, 230, 400}
  MAX_WRITERS = 1
  EXPOSURE_FIX_DEADLINE = 130
  MAX_U16 = 9
  MAX_U64 = 90000
  DAY = 2
  USDC_UNIT = 1
SYMMETRY LoanKeySymmetry
INVARIANTS ViewIsStanding CacheIsFloor CooldownHolds
CHECK_DEADLOCK FALSE
