CONSTANTS
  NRegs = 2
  Imm = 4
  RomEnd = 7
  BitAnd <- AndBits
  Programs <- TwoPrograms
  Typed <- TypedInts
  ViewRange = 3

SPECIFICATION Spec
CONSTRAINT FewChangesOrViews

INVARIANTS
  TypeOK
  ZeroIsZero
  ViewsInside

PROPERTIES
  ProgramsStayInRam
  RunsStopAtBreakpoints
