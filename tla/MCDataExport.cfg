SPECIFICATION FairSpec
CONSTANTS
  WindowStart = 2
  WindowMin = 1
  WindowMax = 3
  TargetRows = 1
  BatchRows = 2
  MaxTs = 2
  Copies = 2
  MaxOpens = 2
  MaxWrites = 1
INVARIANTS
  TypeOK
  NothingMissed
  NothingRepeated
PROPERTIES
  ResponseEnds
CHECK_DEADLOCK FALSE
