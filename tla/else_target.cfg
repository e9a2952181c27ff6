SPECIFICATION ISpec
CONSTANTS
  Opcodes = {"if", "else", "end", "plain"}
  BlockTypes <- NestingTypes
  Plain <- ControlPlain
  JumpTables <- NoJump
  FuncType <- NestingFunc
  Imports <- None
  Types <- None
  Locals <- None
  Globals <- None
  HasTable = FALSE
  FreshFlags = {FALSE}
  MaxCode = 6
  MaxBlocks = 3
  MaxFrames = 2
INVARIANT AllTargetsInSync
CHECK_DEADLOCK FALSE
