CONSTANTS
  Procs = {p1, p2}
  Boundaries = {2, 3}
  Guesses = {1}
  MaxInvocations = 3

SPECIFICATION Spec
SYMMETRY Symmetry
CHECK_DEADLOCK FALSE

INVARIANTS
  TypeOK
  
  
  CorruptExplained

PROPERTIES
  ImplementsGuessGame
