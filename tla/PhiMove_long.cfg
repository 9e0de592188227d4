SPECIFICATION SpecLong
CONSTANTS
  RegsPerBank = 4
  WordBits = 64
  NoReg = NoReg
  NoSlot = NoSlot
  None = None
  Free = Free
  Junk = Junk
  N = 66
  NumOthers = 0
  NumConsts = 0
  PartCounts = {1}
  PartBank <- TwoBanks
  Regs = {0, 1, 2, 4, 5}
  BackEdges = {TRUE}
  MaxFixed = 1
  MaxMulti = 2
  HeldRegs = {2}
  Held = Held
INVARIANTS
  Asserts
