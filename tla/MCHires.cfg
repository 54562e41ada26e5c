CONSTANTS
  Textures = {a, b}
  Replaced = {a, b}
  Bytes <- MCBytes
  EntryCount = 2
  Tiles = {0, 1}
  Offsets = {o1, o2}
  FirstOffset = o1
  Budgets = {1}
  Ladders <- MCLadders
  MaxTick = 1
SPECIFICATION RegistrySpec
INVARIANTS
  BudgetKept
