SPECIFICATION Spec
CONSTANTS
  Kinds = {"directory", "regular_file", "socket", "device"}
  SocketKinds = {"socket"}
  StdKinds <- AllFiles
  StdModes = {"RDWR"}
  Rights <- AllRights
  RightsBase <- MCBase
  RightsInheriting <- MCInheriting
  RightsArgs = {}
  OpenFlags = {}
  Preopens = 0
  SizeBits = 8
  SizeT = 256
  MaxOpens = 1
  MaxRenumbers = 2
  MaxLost = 0
  MaxHandles = 0
INVARIANT FreeSlot
CHECK_DEADLOCK FALSE
