CONSTANTS
  Size = 3
  MineCounts = {1, 10}
  DebugBits = {FALSE}
  MaxFlags = 1

SPECIFICATION FairSpecSteps
CONSTRAINT FewBoards

INVARIANTS
  TypeOKSteps

PROPERTIES
  ImplementsWhole
  HandlerReturns
