\* The computing instructions, on words of 8 and 16 bits.
CONSTANTS
  ByteBits = 2
  Precision <- MCPrecision
  PageBytes = 16
  Group = 3
  Encodings <- MCEncodings
  Samples <- MCSamples
  Bounds <- MCBounds
  Memories <- MCMemories
  Accesses <- MCAccesses
  Ranges <- MCRanges
  Deltas <- MCDeltas
  MaxChanges = 2
SPECIFICATION Spec
INVARIANTS AddressesAgree
PROPERTIES Computed MemoryFramed PagesCounted
CHECK_DEADLOCK FALSE
