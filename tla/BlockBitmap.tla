---------------------------- MODULE BlockBitmap ----------------------------
(***************************************************************************)
(* The data block bitmap and its allocator (src/src/mxfs/block_bitmap.c).  *)
(* bbits holds the data blocks whose bit is 1, over all the blocks of the  *)
(* bitmap: unlike the inode bitmap, set and clear reach every one of them, *)
(* but the search stops before the last, partly used, one.                 *)
(***************************************************************************)
EXTENDS Bitmap, MountState

VARIABLE bbits

blockBitmapVars == <<status, sb, dsb, bbits>>

RootBlocks == 0 .. 3                  \* the root directory, a, b and c.txt

(* Variant with a slip, unused: the block after it is read.                *)
NextBitmapBlock(k) == {i \in 0 .. BlockBits - 1 : (k + 1) * BlockBits + i \in bbits}

(* Block k of the bitmap: its set bits, numbered from the block's first.   *)
BitmapBlock(k) == {i \in 0 .. BlockBits - 1 : k * BlockBits + i \in bbits}

(* One block's search runs over the bytes of the whole bitmap.             *)
mxfs_block_bitmap_block_free_index(k) ==
  FreeInBlock(BitmapBlock(k), sb.nblocks \div 8)

(* The first block whose search did not return 0 decides, with the index   *)
(* its search returned, relative to that block: "nothing free here" is     *)
(* tested as # 0, while the search of a block says it with -1.             *)
mxfs_block_bitmap_get_free_index ==
  LET searched == 0 .. mxfs_block_bitmap_nblocks(sb.nblocks) - 1
      found == [k \in searched |-> mxfs_block_bitmap_block_free_index(k)]
      reached == {k \in searched : \A h \in 0 .. k - 1 : 0 \in found[h]}
  IN  (UNION {found[k] \ {0} : k \in reached})
      \cup {i \in {NoIndex} : \A k \in searched : 0 \in found[k]}

-----------------------------------------------------------------------------
(* Variant with a slip, unused: the block is not read before it is written.*)
BlockBitSetUnread(i) ==
  IF i = NoIndex THEN bbits
                 ELSE {j \in bbits : j \div BlockBits # i \div BlockBits} \cup {i}

(* mxfs_block_bitmap_set.  The index -1 becomes the last bit of block      *)
(* 2^22 - 1 of the bitmap.  The disk refuses to read and write that block, *)
(* and set ignores it; a disk that is long enough takes it, and its 32-bit *)
(* product of index and block size (ramdisk.c:89) comes out at the block   *)
(* before the bitmap: there the last byte of the inode zone's last block   *)
(* gets a bit, which belongs to no inode.  No block's bit changes.         *)
BlockBitSet(i) == IF i = NoIndex THEN bbits ELSE SetBit(bbits, i)

mxfs_block_bitmap_set(i) == /\ Running
                            /\ bbits' = BlockBitSet(i)
                            /\ UNCHANGED <<status, sb, dsb>>

mxfs_block_bitmap_clear(i) == /\ Running
                              /\ bbits' = ClearByte(bbits, i)
                              /\ UNCHANGED <<status, sb, dsb>>

(* Variant with a slip, unused: the superblock in memory is written back.  *)
AllocateWithMemoryCount ==
  /\ Running
  /\ \E i \in mxfs_block_bitmap_get_free_index : bbits' = BlockBitSet(i)
  /\ dsb' = [sb EXCEPT !.blocks_used = (@ + 1) % UINT16]
  /\ UNCHANGED <<status, sb>>

(* The index is found with the superblock in memory, the counter of the    *)
(* superblock on disk is incremented, found or not.                        *)
mxfs_block_bitmap_allocate ==
  /\ Running
  /\ \E i \in mxfs_block_bitmap_get_free_index : bbits' = BlockBitSet(i)
  /\ dsb' = [dsb EXCEPT !.blocks_used = (@ + 1) % UINT16]
  /\ UNCHANGED <<status, sb>>

mxfs_block_bitmap_deallocate(i) ==
  /\ Running
  /\ bbits' = ClearByte(bbits, i)
  /\ dsb' = [dsb EXCEPT !.blocks_used = (@ - 1) % UINT16]
  /\ UNCHANGED <<status, sb>>

(* Variant with a slip, unused: a byte for every block.                    *)
PoisonByteEach(pattern) ==
  /\ Running
  /\ bbits' = {i \in 0 .. 8 * sb.nblocks - 1 : i % 8 \in pattern}
  /\ UNCHANGED <<status, sb, dsb>>

PoisonedBlocks(nblocks, pattern) ==
  {i \in 0 .. 8 * (nblocks \div 8 + 1) - 1 : i % 8 \in pattern}

(* nblocks/8 + 1 bytes are filled, the rest of the last block written with *)
(* 0.  These are bits of blocks that do not exist too.                     *)
mxfs_block_bitmap_poison(pattern) ==
  /\ Running
  /\ bbits' = PoisonedBlocks(sb.nblocks, pattern)
  /\ UNCHANGED <<status, sb, dsb>>

FlushBlockCounters == /\ Running
                      /\ mxfs_flush_superblock
                      /\ UNCHANGED bbits

RefreshBlockCounters == /\ Running
                        /\ mxfs_refresh_superblock
                        /\ UNCHANGED bbits

-----------------------------------------------------------------------------
BlockBitmapInit == /\ status = "running"
                   /\ sb = MountedSuperblock
                   /\ dsb = MountedSuperblock
                   /\ bbits = RootBlocks

(* Allocation with nothing ever given back.                                *)
GrantNext == \/ mxfs_block_bitmap_allocate
             \/ RefreshBlockCounters

(* Every operation of the component.                                       *)
BlockBitmapNext ==
  \/ GrantNext
  \/ FlushBlockCounters
  \/ \E i \in DataBlocks : \/ mxfs_block_bitmap_clear(i)
                           \/ mxfs_block_bitmap_deallocate(i)
                           \/ mxfs_block_bitmap_set(i)
  \/ \E pattern \in PoisonBytes : mxfs_block_bitmap_poison(pattern)

BlockBitmapSpec == BlockBitmapInit /\ [][BlockBitmapNext]_blockBitmapVars

-----------------------------------------------------------------------------
(* Type invariant: only the used counter of a superblock changes, and no   *)
(* bit leaves the blocks reserved for the bitmap.                          *)
BlockUnits == 0 .. BlockBits * BlockBitmapReserved(NBLOCKS) - 1

BlockCounterOnly(s) ==
  \E used \in 0 .. UINT16 - 1 : s = [MountedSuperblock EXCEPT !.blocks_used = used]

BlockBitmapTypeOK ==
  /\ Running
  /\ BlockCounterOnly(sb)
  /\ BlockCounterOnly(dsb)
  /\ bbits \subseteq BlockUnits

(* The blocks the search can look at, when it stays inside its buffer.     *)
SearchedBlocks == 0 .. BlockBits * mxfs_block_bitmap_nblocks(NBLOCKS) - 1

(* While blocks are only allocated, the counter on disk is the number of   *)
(* bits set since mxfs_init, as long as a searched block is free: it is    *)
(* the full bitmap, not the search, that makes the counter run ahead.      *)
BlocksUsedExact ==
  ~ (SearchedBlocks \subseteq bbits) =>
     dsb.blocks_used = Cardinality(bbits) - Cardinality(RootBlocks)

(* From any contents of the bitmap, an allocation takes exactly one block  *)
(* that was free, or none.  It takes none only if no byte of the bitmap    *)
(* has a free bit, or if the first that has one lacks block 0 alone:       *)
(* block 0, the root directory's, is never handed out.                     *)
GrantsFreeBlock ==
  [][mxfs_block_bitmap_allocate =>
       \/ \E i \in SearchedBlocks \ (bbits \cup {0}) : bbits' = bbits \cup {i}
       \/ /\ bbits' = bbits
          /\ \/ SearchedBlocks \subseteq bbits
             \/ 0 \notin bbits /\ 1 .. 7 \subseteq bbits]_blockBitmapVars

(* The bitmap implements the abstract allocator, over any number of bitmap *)
(* blocks and with every wrong index a search of several of them returns:  *)
(* bits change only by one data block more, by a byte of blocks less or by *)
(* poisoning, and the allocator never stops.  That bytes are given back is *)
(* what `& 0` does; its comment says "given the block index, clear it to   *)
(* 0" (block_bitmap.c:140), and ClearReusesRoot shows what comes of it.  A *)
(* grant of a block in use is a stutter here: GrantsFreeBlock speaks of it.*)
BlockBytes == {BitsOf(b) : b \in 0 .. NBLOCKS \div 8}
BlockImages == {PoisonedBlocks(NBLOCKS, pattern) : pattern \in PoisonBytes}

AbstractBlocks == INSTANCE Allocator WITH
                    Unit <- BlockUnits, Pool <- DataBlocks, Group <- BlockBytes,
                    Image <- BlockImages, allocated <- bbits, up <- Running

ImplementsBlockAllocator == AbstractBlocks!AllocatorSpec

(* block_bitmap.c: "the block bitmap maybe more than 1024*8 bits long...", *)
(* and of each block of it, "find a free index in a single block": what a  *)
(* search of several blocks returns is a free block.  The search of one    *)
(* runs over the bytes of all and past its buffer.                         *)
SearchFindsFreeBlock ==
  mxfs_block_bitmap_get_free_index \subseteq (DataBlocks \ bbits) \cup {NoIndex}
=============================================================================
