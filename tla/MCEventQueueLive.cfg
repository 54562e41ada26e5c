CONSTANTS
  M = 32
  POOL_CAPACITY = 4
  BootCount = 2
  BootVi = 1
  ViDelay = 3
  Delays = {0, 2}
  NmiDelay = 3
  CompareValues = {0, 10, 30}
  CountValues = {0, 20}
  MaxTick = 2
  MaxOps = 1
SPECIFICATION Spec
INVARIANTS
  SpecialOnce
PROPERTIES
  ViKeepsComing
