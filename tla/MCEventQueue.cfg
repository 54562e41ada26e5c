CONSTANTS
  M = 256
  POOL_CAPACITY = 4
  BootCount = 2
  BootVi = 1
  ViDelay = 20
  Delays = {0, 3}
  NmiDelay = 3
  CompareValues = {}
  CountValues = {}
  MaxTick = 2
  MaxOps = 3
SPECIFICATION SafeSpec
INVARIANTS
  NeverEarly
  Timely
