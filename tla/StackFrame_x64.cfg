SPECIFICATION Spec
CONSTANTS
  Negative = TRUE
  BaseSizes = {40}
  Requests <- SomeRequests
  MaxFrame = 72
  MaxLive = 3
INVARIANTS
  SlotsDisjoint
  InFrame
  Aligned
