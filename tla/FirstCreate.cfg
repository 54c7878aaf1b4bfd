CONSTANTS
  MX_BLOCKSIZE = 1024
  UINT16 = 65536
  NINODES = 100
  NBLOCKS = 100
  PoisonBytes <- NoPoison
  DIRENTS = 10
  DISK_NBLOCKS = 140
  PATH_ENTRIES = 6
  Names <- MCNames
  Paths <- MCPaths
  RawInodes = {}
  RawBlocks = {}
SPECIFICATION FilesSpec
PROPERTIES
  FirstCreateSucceeds
CHECK_DEADLOCK FALSE
