SPECIFICATION FairSpec
CONSTANTS
  Depth = 1
  FrameReads = 2
INVARIANTS
  TypeOK
  OutsideOnlyMidUpdate
PROPERTY
  QuitEnds
