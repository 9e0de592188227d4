SPECIFICATION Spec
CONSTANTS
  v1 = v1 v2 = v2 w = w
  Regs = {0, 1}
  Allocatable = {0, 1}
  CalleeSaved = {1}
  FixedMask = {}
  MayEmitCalls = {TRUE, FALSE}
  ArgRegs = {0}
  RetRegs = {0}
  Values = {v1}
  VarRefs = {w}
  NumParts <- NumParts2
  BankOf <- Bank0
  NumFixed <- NumFixed1
  MaxRefs = 2
  VRefs = {x1}
  PRefs = {h1, h2}
  SRegs = {s1}
  RegsPerBank = 4
  NoReg = NoReg NoVal = NoVal NoPart = NoPart
  Free = Free Temp = Temp Arg = Arg Junk = Junk
INVARIANTS
  ContentSound
  TempSound
  ArgsIntact
  SavedIfUsed
SYMMETRY Symmetry
