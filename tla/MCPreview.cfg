SPECIFICATION FairSpec
CONSTANTS
  Wallets = {w}
  Ips = {i1, i2}
  CALLS = 3
  NoRow = NoRow
  HOUR = 2
  DAY = 3
  CACHE_HOURS = 1
  PER_IP_PER_HOUR = 1
  PER_DAY = 2
  Times = {1, 2, 3, 4}
  MAX_CALL = 1
INVARIANTS
  OneReadAtATime
  WithinLimits
  AnsweredIsCached
PROPERTIES
  RetryAtIsEnough
  EveryCallAnswered
CHECK_DEADLOCK FALSE
