SPECIFICATION Spec
CONSTANTS
  DAY = 2
  USDC_UNIT = 1
  Wallets = {w}
  Calls = {c1, c2, c3}
  NoClaim = NoClaim
  Times = {1, 2, 3, 4}
  TX_LIFETIME = 1
  MAX_CALL = 1
INVARIANT
  OnceADay
CHECK_DEADLOCK FALSE
