CONSTANTS
  Lines = {"VI", "SP", "DP", "PI"}
  POOL_CAPACITY = 4
  StatusValues <- MCStatusValues
  MaxQueued = 1
  PerfectDark = FALSE
  SpWrites <- MCSpWrites
  DpcWrites <- MCDpcWrites
  Pages = {p1}
  FirstPage = p1
  Rows = {r1}
  FirstRow = r1
  Data = {d1}
  GuestCommands = {}
  SECTORS_PER_BLOCK = 2
  C2_SECTORS = 1
  BmWrites <- MCBmWrites
SPECIFICATION RspDiskSpec
INVARIANTS
  TaskNotForgotten
  FullSyncReported
  InterruptHasReason
  SectorsInOrder
