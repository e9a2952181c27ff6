CONSTANTS
  Files <- MCFiles
  FuncTypes <- MCFuncTypes
  Symbols <- MCSymbols
  ThreadNum = 2
SPECIFICATION Spec
INVARIANTS FreedOnce  LeaksConfined CleanExit LinkedImports
PROPERTIES Terminates
CHECK_DEADLOCK FALSE
