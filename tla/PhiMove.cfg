SPECIFICATION Spec
CONSTANTS
  RegsPerBank = 4
  WordBits = 64
  NoReg = NoReg
  NoSlot = NoSlot
  None = None
  Free = Free
  Junk = Junk
  N = 3
  NumOthers = 1
  NumConsts = 1
  PartCounts = {1, 2, 3}
  PartBank <- TwoBanks
  Regs = {0, 1, 2, 4, 5}
  BackEdges = {TRUE, FALSE}
  MaxFixed = 1
  MaxMulti = 2
  HeldRegs = {2}
  Held = Held
INVARIANTS
  ParallelCopy
  PlacesKept
  RefsUsed
  Asserts
PROPERTY Terminates
