SPECIFICATION Spec
CONSTANTS
  Kinds = {"directory", "regular_file", "socket", "device"}
  SocketKinds = {"socket"}
  StdKinds <- OneDirectory
  StdModes = {"RDWR"}
  Rights <- AllRights
  RightsBase <- MCBase
  RightsInheriting <- MCInheriting
  RightsArgs = {}
  OpenFlags = {}
  Preopens = 1
  SizeBits = 5
  SizeT = 32
  MaxOpens = 1
  MaxRenumbers = 2
  MaxLost = 1
  MaxHandles = 1
INVARIANTS TypeOK RefsExact HostOwned LoadBounded
PROPERTY PreopenStable
CHECK_DEADLOCK FALSE
