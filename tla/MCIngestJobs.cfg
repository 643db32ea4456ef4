SPECIFICATION FairSpec
CONSTANTS
  Slots = {a, b}
  Tags = {btc}
  Kinds = {"index", "contracts"}
  JobIds = {1, 2}
  Range = 2
INVARIANTS
  TypeOK
  OneTaskEach
PROPERTIES
  PolledForward
  AcceptedEnds
CHECK_DEADLOCK FALSE
