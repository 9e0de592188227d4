SPECIFICATION Spec
CONSTANTS
  CFGs <- MCCFGs
  MaxUses = 2
  AllowEarly = FALSE
INVARIANTS
  LayoutRight
  IntervalRight
  AssertsHold
  UsesRead
CHECK_DEADLOCK FALSE
