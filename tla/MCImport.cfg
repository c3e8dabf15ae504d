SPECIFICATION Spec
CONSTANTS
  DAY = 2
  USDC_UNIT = 1
  Wallets = {w}
  Calls = {c1, c2}
  NoAccount = NoAccount
  NoMessage = NoMessage
  Loans = {l1}
  Owner <- MCOwner
  Protocol <- MCProtocol
  Times = {1, 2, 32}
  TX_LIFETIME = 1
  MAX_CALL = 1
  MAX_IMPORTS = 3
SYMMETRY CallSymmetry
INVARIANTS
  CountedOnce
  ConfirmedIsOnChain
PROPERTY
  ConfirmedStays
CHECK_DEADLOCK FALSE
