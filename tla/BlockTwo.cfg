CONSTANTS
  MX_BLOCKSIZE = 1
  UINT16 = 65536
  NINODES = 4
  NBLOCKS = 16
  PoisonBytes <- NoPoison
SPECIFICATION BlockBitmapSpec
INVARIANTS
  SearchFindsFreeBlock
CHECK_DEADLOCK FALSE
