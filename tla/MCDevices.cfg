CONSTANTS
  Lines = {"VI", "PI", "SI"}
  POOL_CAPACITY = 4
  StatusValues <- MCStatusValues
  MaxQueued = 2
  Pages = {p1, p2}
  FirstPage = p1
  Rows = {r1, r2}
  FirstRow = r1
  Data = {d1}
  GuestCommands = {"b4"}
  RAM_SIZE = 20
  MaxItems = 4
  Skipped = {0, 3, 6}
  Present = {0, 2}
  Fillers = {0, 255}
SPECIFICATION DevSpec
CHECK_DEADLOCK FALSE
INVARIANTS
  BusyUntilInterrupt
  RowsHoldRequested
  SiStatusTrue
  ResponseIntact
  WalksFindCommands
PROPERTIES
  MediumDecidedOnce
  DmaEnds
