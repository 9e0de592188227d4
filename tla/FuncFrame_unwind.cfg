SPECIFICATION Spec
CONSTANTS
  Archs = {"a64"}
  CsrX64 <- SomeX64
  CsrA64 <- SomeA64
  FrameSizes = {90, 301, 4079, 4100}
  MaxItems = 3
INVARIANTS
  UnwindSound
