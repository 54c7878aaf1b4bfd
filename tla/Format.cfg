CONSTANTS
  MX_BLOCKSIZE = 1024
  UINT16 = 65536
  InodeCounts <- MCInodeCounts
  BlockCounts <- MCBlockCounts
  DiskSizes <- MCDiskSizes
  DiskBlockSizes = {512, 1024}
  ADDRESSABLE <- MCAddressable
SPECIFICATION PoisonSpec
INVARIANTS
  FormatTypeOK
  MountsExactlyWhenItFits
  ZonesDisjoint
  ZonesCleared
  SearchedBlocksCleared
  PoisonStaysInZone
  PoisonCovers
CHECK_DEADLOCK FALSE
