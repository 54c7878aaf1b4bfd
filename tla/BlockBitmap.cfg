CONSTANTS
  MX_BLOCKSIZE = 1
  UINT16 = 10
  NINODES = 4
  NBLOCKS = 9
  PoisonBytes <- MCPoisonBytes
SPECIFICATION BlockBitmapSpec
INVARIANTS
  BlockBitmapTypeOK
PROPERTIES
  GrantsFreeBlock
  ImplementsBlockAllocator
CHECK_DEADLOCK FALSE
