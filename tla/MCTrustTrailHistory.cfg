SPECIFICATION Spec
CONSTANTS
  Wallets = {w}
  Writers = {pool}
  NoAccount = NoAccount
  Null = Null
  Foreign = {}
  LoanKeys = {0, 1, 2, 3, 4}
  Principals = {74000}
  OpenDates = {99}
  DueDates = {200}
  Imports <- MCImports
  Exposures = {}
  Times = {100, 200, 390}
  MAX_WRITERS = 1
  EXPOSURE_FIX_DEADLINE = 0
  MAX_U16 = 4
  MAX_U64 = 300000
  DAY = 2
  USDC_UNIT = 100
ACTION_CONSTRAINT InOrder
INVARIANTS PenaltyPathIndependent SummaryMatchesNative HistoryAttested
PROPERTIES OnTimeHelps BadOutcomeHurts
CHECK_DEADLOCK FALSE
