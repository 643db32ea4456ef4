SPECIFICATION Spec
CONSTANTS
  Slots = {a, b}
  Tags = {btc}
  Kinds = {"index", "contracts"}
  JobIds = {1, 2}
  Range = 2
INVARIANTS
  RunningJobsRun
CHECK_DEADLOCK FALSE
