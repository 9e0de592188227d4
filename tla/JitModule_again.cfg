CONSTANTS
  LoReserve = 16
  GlobalBit = 1000
  CieInstrs = 5
  FdeInstrs = 11
  PageSize = 64
  AdrPage = 64
  Range32 = 8000
  Range28 = 3000
  MaxCompiles = 2
  Spread = 10000
  Modules <- MCModules
  Resolvers <- MCResolvers
SPECIFICATION Spec
INVARIANTS NoLargeIndexLeft
