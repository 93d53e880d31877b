CONSTANTS
  NRegs = 1
  Imm = 1
  RomEnd = 3
  BitAnd <- AndBits
  Programs <- Opcodes
  Typed <- TypedOpcodes
  ViewRange = 3

SPECIFICATION Spec

PROPERTIES
  RefusedLinesDoNothing
