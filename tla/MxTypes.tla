------------------------------ MODULE MxTypes ------------------------------
(***************************************************************************)
(* The sizes and limits every zone of the file system is computed from:    *)
(* src/src/mxfs/types.h and the integer widths the C code stores them in.  *)
(* The block size and the width of the superblock counters are constants   *)
(* so that a small instance can reach the end of a bitmap block and the    *)
(* wrap of a counter; the code has 1024 and 2^16.                          *)
(***************************************************************************)
EXTENDS Integers, FiniteSets

CONSTANTS
  MX_BLOCKSIZE,   \* bytes of a disk block
  UINT16          \* number of values of a uint16_t superblock field

ASSUME SizesAssumption ==
  /\ MX_BLOCKSIZE \in Nat \ {0}
  /\ UINT16 \in Nat \ {0}

MX_SUPERBLOCK_INDEX == 1
MX_INODE_FILE == 0
MX_INODE_DIR == 1

UINT8 == 256                            \* number of values of a uint8_t
SIZEOF_DISK_INODE == 2 + 8 + 9 * 8      \* packed: mode, size, blocks[9]

BlockBits == 8 * MX_BLOCKSIZE           \* bits of one bitmap block
=============================================================================
