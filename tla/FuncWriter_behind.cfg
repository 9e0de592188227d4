SPECIFICATION Spec
CONSTANTS
  TestReach = 32
  CondReach = 64
  Capacities = {16}
  Expected = {12}
  MaxGrowth = 12
  Limit = 76
  Labels = {1}
  Kinds = {"test", "cond", "b"}
  MaxBranches = 2
  MaxStart = 4
INVARIANTS
  NothingOverwritten
