SPECIFICATION Spec
CONSTANTS
  CFGs <- SelfLoop
  MaxUses = 2
  AllowEarly = TRUE
INVARIANTS
  UsesRead
CHECK_DEADLOCK FALSE
