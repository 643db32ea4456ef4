SPECIFICATION FairSpec
CONSTANTS
  Senders = {s1, s2}
  QueueCap = 2
  BatchCap = 2
  MaxRows = 4
  FlushesFail = TRUE
INVARIANTS
  TypeOK
PROPERTIES
  WriterIsSink
  WaitersServed
  EveryRowSettles
CHECK_DEADLOCK FALSE
