CONSTANTS
  Procs = {p1}
  Boundaries = {2, 3}
  Guesses = {1}
  MaxInvocations = 2

SPECIFICATION Spec
CHECK_DEADLOCK FALSE

INVARIANTS
  NewGameIsPlayed
