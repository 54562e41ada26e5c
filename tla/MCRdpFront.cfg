CONSTANTS
  Opcodes = {"noop", "triangle", "syncfull"}
  cmd_len_lut <- MCLengths
  SyncFull = "syncfull"
  Ignored = {"noop"}
  Capacity = 4
  DmemSize = 2
  MaxAddr = 3
  MaxPairs = 5
  PageSize = 4
  PagesPerRegion = 2
  NumRegions = 4
  FB_INFOS_COUNT = 3
  Buffers <- MCBuffers
  Textures = {a, b}
  Replaced = {a, b}
  Bytes <- MCBytes
  EntryCount = 2
  Tiles = {0, 1}
  Offsets = {o1, o2}
  FirstOffset = o1
  Budgets = {1}
  Ladders <- MCLadders
  MaxTick = 1
SPECIFICATION FrontSpec
INVARIANTS
  ParseMatchesStream
  SyncFenced
  WatchedAreReported
  BoundImageShown
  NoStaleReplacement
