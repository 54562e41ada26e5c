CONSTANTS
  M = 12
  Lengths = {0, 1, 3}
  Rates = {1, 2}
  MaxBuffers = 3
SPECIFICATION Spec
INVARIANTS
  StatusMatchesDma
  PlayedOnce
PROPERTIES
  FullDrains
