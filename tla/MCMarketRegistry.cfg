SPECIFICATION Spec
CONSTANTS
  Slots = {a, b}
  Tags = {btc, auth}
  Reserved = {auth}
  Series = {x, y}
  NoTag = NoTag
  NoDoc = NoDoc
  NoFeed = NoFeed
SYMMETRY Symmetry
INVARIANTS
  TypeOK
  AgreeUnlessRaced
  RemoveRepairs
CHECK_DEADLOCK FALSE
