------------------------------- MODULE Layout -------------------------------
(***************************************************************************)
(* Where the zones lie on the disk:                                        *)
(*   superblock | inode bitmap | inode zone | block bitmap | block zone    *)
(* as the registration functions compute it from the number of inodes and  *)
(* data blocks.  C's integer division is \div: all operands are unsigned.  *)
(***************************************************************************)
EXTENDS MxTypes

(* Blocks each function reserves, and blocks its setup loop clears.  The   *)
(* two differ: the loops leave out the last, partly used, bitmap block.    *)
mxfs_inode_bitmap_nblocks(ninodes) == (ninodes \div 8) \div MX_BLOCKSIZE + 1
InodeBitmapCleared(ninodes) == (ninodes \div 8) \div MX_BLOCKSIZE

mxfs_inode_zone_nblocks(ninodes) ==
  IF ninodes = 0 THEN 0
                 ELSE (ninodes * SIZEOF_DISK_INODE) \div MX_BLOCKSIZE + 1

(* Variant with a slip, unused: the partly used block is not reserved.     *)
ReservedRoundedDown(nblocks) == (nblocks \div 8 + 1) \div MX_BLOCKSIZE

BlockBitmapReserved(nblocks) == (nblocks \div 8 + 1) \div MX_BLOCKSIZE + 1
mxfs_block_bitmap_nblocks(nblocks) == (nblocks \div 8) \div MX_BLOCKSIZE

InodeBitmapBase == MX_SUPERBLOCK_INDEX + 1
InodeBase(ninodes) ==
  (InodeBitmapBase + mxfs_inode_bitmap_nblocks(ninodes)) % UINT16
BlockBitmapBase(ninodes) ==
  (InodeBase(ninodes) + mxfs_inode_zone_nblocks(ninodes)) % UINT16

Superblock == [ninodes : Nat, inodes_used : Nat,
               inode_bitmap_base : Nat, inode_base : Nat,
               nblocks : Nat, blocks_used : Nat,
               block_bitmap_base : Nat, block_base : Nat]

(* mxfs_init clears the whole record first.                                *)
ZeroSuperblock ==
  [ninodes |-> 0, inodes_used |-> 0, inode_bitmap_base |-> 0, inode_base |-> 0,
   nblocks |-> 0, blocks_used |-> 0, block_bitmap_base |-> 0, block_base |-> 0]

(* Variant with a slip, unused: a number of inodes that is not cut.        *)
RegisterUncut(s, n) ==
  [ninodes |-> n, inodes_used |-> 0,
   inode_bitmap_base |-> InodeBitmapBase, inode_base |-> InodeBase(n),
   nblocks |-> s.nblocks, blocks_used |-> s.blocks_used,
   block_bitmap_base |-> s.block_bitmap_base, block_base |-> s.block_base]

mxfs_inode_bitmap_register(s, n) ==
  [ninodes |-> n % UINT16, inodes_used |-> 0,
   inode_bitmap_base |-> InodeBitmapBase, inode_base |-> InodeBase(n % UINT16),
   nblocks |-> s.nblocks, blocks_used |-> s.blocks_used,
   block_bitmap_base |-> s.block_bitmap_base, block_base |-> s.block_base]

mxfs_block_bitmap_register(s, base, n) ==
  [ninodes |-> s.ninodes, inodes_used |-> s.inodes_used,
   inode_bitmap_base |-> s.inode_bitmap_base, inode_base |-> s.inode_base,
   nblocks |-> n % UINT16, blocks_used |-> 0,
   block_bitmap_base |-> base % UINT16,
   block_base |-> (base + BlockBitmapReserved(n)) % UINT16]

(* The superblock of a disk on which every setup function registered.      *)
RegisteredSuperblock(ninodes, nblocks) ==
  mxfs_block_bitmap_register(
    mxfs_inode_bitmap_register(ZeroSuperblock, ninodes),
    BlockBitmapBase(ninodes % UINT16), nblocks)
=============================================================================
