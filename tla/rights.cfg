SPECIFICATION Spec
CONSTANTS
  Kinds = {"directory", "regular_file", "socket", "device"}
  SocketKinds = {"socket"}
  StdKinds <- AllDirectories
  StdModes = {"RDONLY"}
  Rights <- AllRights
  RightsBase <- MCBase
  RightsInheriting <- MCInheriting
  RightsArgs <- MCArgs
  OpenFlags = {"TRUNC"}
  Preopens = 0
  SizeBits = 5
  SizeT = 32
  MaxOpens = 1
  MaxRenumbers = 2
  MaxLost = 0
  MaxHandles = 0
INVARIANT RightsWithinKind
PROPERTIES RightsShrink WriteGranted
CHECK_DEADLOCK FALSE
