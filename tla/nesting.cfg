SPECIFICATION ISpec
CONSTANTS
  Opcodes = {"nop", "block", "loop", "if", "else", "end", "br_if", "plain"}
  BlockTypes <- NestingTypes
  Plain <- ControlPlain
  JumpTables <- NoJump
  FuncType <- NestingFunc
  Imports <- None
  Types <- None
  Locals <- None
  Globals <- None
  HasTable = FALSE
  FreshFlags = {FALSE}
  MaxCode = 8
  MaxBlocks = 3
  MaxFrames = 2
INVARIANTS EntriesOwned CursorSync
CHECK_DEADLOCK FALSE
