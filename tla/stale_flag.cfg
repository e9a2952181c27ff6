SPECIFICATION ISpec
CONSTANTS
  Opcodes = {"block", "end", "unreachable", "drop"}
  BlockTypes <- NestingTypes
  Plain <- ControlPlain
  JumpTables <- NoJump
  FuncType <- NestingFunc
  Imports <- None
  Types <- None
  Locals <- None
  Globals <- None
  HasTable = FALSE
  FreshFlags = {FALSE}
  MaxCode = 7
  MaxBlocks = 3
  MaxFrames = 2
INVARIANT OperandsPresent
CHECK_DEADLOCK FALSE
