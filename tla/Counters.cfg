CONSTANTS
  MX_BLOCKSIZE = 3
  UINT16 = 25
  NINODES = 4
  NBLOCKS = 24
  PoisonBytes <- NoPoison
SPECIFICATION CountersSpec
INVARIANTS
  UsedCountExact
  BytesFillInOrder
  BlocksUsedExact
CHECK_DEADLOCK FALSE
