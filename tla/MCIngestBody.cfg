SPECIFICATION IngestSpec
CONSTANTS
  RequestTimeout = 30
  RateLimitBackoff = 5
  BackoffMin = 1
  BackoffMax = 30
  RetryWindow = 300
  Takes = {0, 30}
  WindowLen = 3
  Percent = 60
  IndexStart = 2
  IndexEnd = 6
  Gaps = {4}
  BadValues = {3}
  IndexNow = 7
  Length = 2
  Count = 3
  Settling = 0
  Start = 1
  End = 4
  PageSize = 2
  BadMarkets = {2}
  MaxNow = 4
  MaxJobs = 2
INVARIANTS
  NetworkFailuresRetried
CHECK_DEADLOCK FALSE
