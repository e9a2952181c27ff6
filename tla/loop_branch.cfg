SPECIFICATION ISpec
CONSTANTS
  Opcodes = {"loop", "end", "br_if", "plain"}
  BlockTypes <- ResultTypes
  Plain <- ControlPlain
  JumpTables <- NoJump
  FuncType <- ControlFunc
  Imports <- None
  Types <- None
  Locals <- None
  Globals <- None
  HasTable = FALSE
  FreshFlags = {FALSE}
  MaxCode = 6
  MaxBlocks = 3
  MaxFrames = 2
INVARIANT LoopOperandsTyped
CHECK_DEADLOCK FALSE
