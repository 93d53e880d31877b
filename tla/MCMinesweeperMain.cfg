CONSTANTS
  Size = 2
  MineCounts = {1, 2}
  DebugBits = {FALSE}
  Instants = {0, 59, 61, 5999, 6061, 12100}

SPECIFICATION SpecMain

INVARIANTS
  TypeOKMain
  TimerRunsWithGame
  ElapsedShown
  HeaderAtEnd

PROPERTIES
  StartStays
