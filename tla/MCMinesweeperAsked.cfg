CONSTANTS
  Size = 9
  MineCounts = {1}
  DebugBits = {TRUE, FALSE}
  MaxFlags = 0

SPECIFICATION SpecSteps

INVARIANTS
  MinesAsAsked
