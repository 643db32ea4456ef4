SPECIFICATION TasksSpec
CONSTANTS
  Levels = {bid, offer}
  MaxSize = 1
  MaxFaults = 2
  Modulus = 4
  WireCap = 1
  Markets = {a, b}
  Keys = 2
  Interval = 1
  Timeout = 2
INVARIANTS
  PartTypeOK
  LogTracksCoinbase
  SummaryPeriodBounded
  SummaryServedAsStamped
PROPERTIES
  GapEndsSession
CHECK_DEADLOCK FALSE
