CONSTANTS
  MX_BLOCKSIZE = 2
  UINT16 = 9
  NINODES = 8
  NBLOCKS = 4
  PoisonBytes <- MCPoisonBytes
SPECIFICATION InodeBitmapSpec
INVARIANTS
  InodeBitmapTypeOK
  UndefinedOnlyWhenFull
PROPERTIES
  AllocatesFreeInode
  ImplementsAllocator
CHECK_DEADLOCK FALSE
