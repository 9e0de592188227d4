CONSTANTS
  LoReserve = 16
  GlobalBit = 1000
  CieInstrs = 5
  FdeInstrs = 11
  PageSize = 64
  AdrPage = 64
  Range32 = 8000
  Range28 = 3000
  MaxCompiles = 1
  Spread = 10000
  Modules <- MCManyClauses
  Resolvers <- MCResolvers
SPECIFICATION Spec
INVARIANT CleanupsRun
