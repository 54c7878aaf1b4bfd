CONSTANTS
  MX_BLOCKSIZE = 1024
  UINT16 = 65536
  NINODES = 16
  NBLOCKS = 8192
  PoisonBytes <- NoPoison
  DIRENTS = 12
  DISK_NBLOCKS = 15
  PATH_ENTRIES = 6
  Names <- OneName
  Paths <- NoPaths
  RawInodes = {2}
  RawBlocks = {2}
SPECIFICATION AllSpec
INVARIANTS
  RootInPlace
CHECK_DEADLOCK FALSE
