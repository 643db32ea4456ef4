SPECIFICATION FairSpec
CONSTANTS
  Levels = {yes47}
  Tickers = {A}
  NoBook = NoBook
  Clients = {c1}
  Capacity = 2
  MaxSize = 1
  MaxSubs = 1
  MaxSeq = 2
  MaxFrames = 4
  MaxReconnects = 1
  Garbles = FALSE
INVARIANTS
  TypeOK
  ReplayMatchesCache
PROPERTIES
  StopReleasesClients
CHECK_DEADLOCK FALSE
