CONSTANTS
  W8 = 2
  W16 = 3
  W32 = 4
  W64 = 8
  MaxLinear = 4
  MaxSpread = 8
  Targets = {"a64"}
  Widths = {8}
  ChainWidth = 4
  MaxChain = 1
  CaseLists <- MCCaseLists
  Wide128 = {"ugt"}
SPECIFICATION Spec
INVARIANT Compares128
CHECK_DEADLOCK FALSE
