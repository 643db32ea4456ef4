SPECIFICATION FairSpec
CONSTANTS
  Tickers = {m1, m2}
  BackoffMax = 2
  Refusals = TRUE
  MaxRolls = 2
  MaxTries = 2
INVARIANTS
  TypeOK
  SidsGenuine
  OrderbookServed
  PendingAwaited
  BackoffBounded
PROPERTIES
  OpenMarketsFollowed
CHECK_DEADLOCK FALSE
