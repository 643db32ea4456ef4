SPECIFICATION FeedSpec
CONSTANTS
  Levels = {yes47}
  Tickers = {A}
  NoBook = NoBook
  MaxSize = 1
  MaxSubs = 2
  MaxSeq = 4
  MaxReconnects = 1
  Garbles = TRUE
INVARIANTS
  CacheTracksExchange
CHECK_DEADLOCK FALSE
