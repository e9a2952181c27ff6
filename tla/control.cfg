SPECIFICATION ISpec
CONSTANTS
  Opcodes = {"unreachable", "block", "loop", "if", "else", "end", "br", "br_if", "br_table", "return", "plain"}
  BlockTypes <- ControlTypes
  Plain <- ControlPlain
  JumpTables <- ControlTables
  FuncType <- ControlFunc
  Imports <- None
  Types <- None
  Locals <- None
  Globals <- None
  HasTable = FALSE
  FreshFlags = {FALSE}
  MaxCode = 6
  MaxBlocks = 3
  MaxFrames = 2
INVARIANTS BlocksNested CursorSync OperandsTyped DeadCodeUnreached StackBounded ResultsDelivered TargetsInSync
CHECK_DEADLOCK FALSE
