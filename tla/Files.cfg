CONSTANTS
  MX_BLOCKSIZE = 1024
  UINT16 = 65536
  NINODES = 12
  NBLOCKS = 8192
  PoisonBytes <- NoPoison
  DIRENTS = 8
  DISK_NBLOCKS = 14
  PATH_ENTRIES = 6
  Names <- MCNames
  Paths <- MCPaths
  RawInodes = {}
  RawBlocks = {}
SPECIFICATION FilesSpec
INVARIANTS
  MxfsTypeOK
  DirentsMatchBitmap
  OneBlockPerInode
  NoHoles
  RootInPlace
  TopLevelAnswered
PROPERTIES
  ChangesOnlyByFreshFile
  ImplementsDirectory
  CreateStopsOnlyInLastByte
CHECK_DEADLOCK FALSE
