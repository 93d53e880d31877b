CONSTANTS
  NRegs = 2
  Imm = 16
  RomEnd = 63
  BitAnd <- AndBits
  Sources <- SomeSources
  MaxLabels = 2
  LongNames = {"longer"}
  MaxTicks = 16

SPECIFICATION ToolSpec
CONSTRAINT FewRuns
CHECK_DEADLOCK FALSE

INVARIANTS
  TypeOK
  PassesAgree
  LabelsResolve
  ArgumentsChecked

PROPERTIES
  RunsAsWritten
