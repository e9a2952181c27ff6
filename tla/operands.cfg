SPECIFICATION ISpec
CONSTANTS
  Opcodes = {"block", "end", "call", "call_indirect", "drop", "select", "get_local", "set_local", "tee_local", "get_global", "set_global", "plain"}
  BlockTypes <- OperandTypes
  Plain <- OperandPlain
  JumpTables <- NoJump
  FuncType <- OperandFunc
  Imports <- Imported
  Types <- TypeSection
  Locals <- TwoLocals
  Globals <- TwoGlobals
  HasTable = TRUE
  FreshFlags = {FALSE}
  MaxCode = 6
  MaxBlocks = 2
  MaxFrames = 3
INVARIANTS TypeOK ITypeOK OperandsTyped LocalsTyped
PROPERTIES CallerUntouched
CHECK_DEADLOCK FALSE
