CONSTANTS
  W8 = 2
  W16 = 3
  W32 = 4
  W64 = 8
  MaxLinear = 4
  MaxSpread = 8
  Targets = {"x64", "a64"}
  Widths = {1, 2, 3, 4, 6, 8}
  ChainWidth = 4
  MaxChain = 4
  CaseLists <- MCCaseLists
  Wide128 = {"eq", "ne", "ugt", "uge", "ult", "ule", "sgt", "sge", "slt", "sle"}
SPECIFICATION Spec
INVARIANTS
  RefsPending
  NeededDefined
  DefInBlock
  LowBits
  EffectsRight
CHECK_DEADLOCK FALSE
