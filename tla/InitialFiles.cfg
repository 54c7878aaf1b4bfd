CONSTANTS
  MX_BLOCKSIZE = 1024
  UINT16 = 65536
  NINODES = 16
  NBLOCKS = 8192
  PoisonBytes <- NoPoison
  DIRENTS = 8
  DISK_NBLOCKS = 8200
  PATH_ENTRIES = 6
  Names <- MCNames
  Paths <- MCPaths
  RawInodes = {}
  RawBlocks = {}
SPECIFICATION FilesSpec
INVARIANTS
  InitialFilesIntact
CHECK_DEADLOCK FALSE
