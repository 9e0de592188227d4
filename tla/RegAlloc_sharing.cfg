SPECIFICATION Spec
CONSTANTS
  v1 = v1 v2 = v2 w = w
  Regs = {0, 1}
  Allocatable = {0, 1}
  CalleeSaved = {1}
  FixedMask = {}
  MayEmitCalls = {TRUE}
  ArgRegs = {}
  RetRegs = {}
  Values = {v1, v2}
  VarRefs = {}
  NumParts <- NumParts1
  BankOf <- Bank0
  NumFixed <- NumFixed1
  MaxRefs = 2
  VRefs = {x1, x2}
  PRefs = {h1, h2}
  SRegs = {}
  RegsPerBank = 4
  NoReg = NoReg NoVal = NoVal NoPart = NoPart
  Free = Free Temp = Temp Arg = Arg Junk = Junk
INVARIANTS
  OwnerConsistent
  LockAccounting
  HandleStable
  RefsAccounted
  NoValueLost
  FixedBounded
PROPERTY LockedStays
SYMMETRY SymmetryV
