SPECIFICATION Spec
CONSTANTS
  Slots = {a, b}
  Tags = {btc}
  Reserved = {}
  Series = {x}
  NoTag = NoTag
  NoDoc = NoDoc
  NoFeed = NoFeed
INVARIANTS
  FeedsHaveDocs
CHECK_DEADLOCK FALSE
