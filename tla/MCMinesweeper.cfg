CONSTANTS
  Size = 3
  MineCounts = {2, 10}
  DebugBits = {FALSE}
  MaxFlags = 2

SPECIFICATION Spec
CONSTRAINT FewFlags

INVARIANTS
  TypeOK
  RemapCounted
  ImmapTruthful
  WinExact
  LossShown
  MinesPlaced

PROPERTIES
  FlagsHold
  FloodExact
  FirstMoveSafe
