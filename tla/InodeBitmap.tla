---------------------------- MODULE InodeBitmap ----------------------------
(***************************************************************************)
(* The inode bitmap and its allocator (src/src/mxfs/inode_bitmap.c), with  *)
(* the copy of it in src/src/mxfs/bitmap.c that works from the superblock  *)
(* on disk.  Only the first block of the bitmap is ever read or written,   *)
(* whatever the number of inodes: ibits is that block.                     *)
(***************************************************************************)
EXTENDS Bitmap, MountState

VARIABLE ibits

inodeBitmapVars == <<status, sb, dsb, ibits>>

InodeBits == 0 .. BlockBits - 1
RootInodes == 0 .. 3                  \* the root directory, a, b and c.txt

(* The byte index of a 64-bit index is stored in a uint32_t and used to    *)
(* index the block buffer without a check.                                 *)
InBuffer(i) == i \in InodeBits

(* The loop runs over ninodes bytes, not ninodes bits.                     *)
mxfs_inode_bitmap_get_free_index == FreeInBlock(ibits, sb.ninodes)
mx_inode_get_free_index == FreeInBlock(ibits, dsb.ninodes)

-----------------------------------------------------------------------------
(* Variant with a slip, unused: the block is not read before it is written.*)
BitmapSetUnread(i) == \/ /\ InBuffer(i)
                         /\ ibits' = {i}
                         /\ UNCHANGED status
                      \/ /\ ~ InBuffer(i)
                         /\ Stop("undefined")
                         /\ UNCHANGED ibits

(* mxfs_inode_bitmap_set and mx_inode_set, as a fragment: the callers say  *)
(* what happens to the superblocks.                                        *)
BitmapSet(i) == \/ /\ InBuffer(i)
                   /\ ibits' = SetBit(ibits, i)
                   /\ UNCHANGED status
                \/ /\ ~ InBuffer(i)
                   /\ Stop("undefined")
                   /\ UNCHANGED ibits

(* Variant with a slip, unused: the superblock in memory is written back.  *)
AllocateFromMemory(candidates) ==
  /\ Running
  /\ \E i \in candidates :
       /\ BitmapSet(i)
       /\ dsb' = IF InBuffer(i)
                 THEN [sb EXCEPT !.inodes_used = (@ + 1) % UINT16]
                 ELSE dsb
  /\ UNCHANGED sb

(* Read the superblock from disk, find an index, set its bit, count it,    *)
(* write the superblock back.  A search that found nothing is not noticed: *)
(* the bit of index -1 is set.                                             *)
AllocateFrom(candidates) ==
  /\ Running
  /\ \E i \in candidates :
       /\ BitmapSet(i)
       /\ dsb' = IF InBuffer(i)
                 THEN [dsb EXCEPT !.inodes_used = (@ + 1) % UINT16]
                 ELSE dsb
  /\ UNCHANGED sb

mxfs_inode_bitmap_allocate == AllocateFrom(mxfs_inode_bitmap_get_free_index)
mx_inode_bitmap_allocate == AllocateFrom(mx_inode_get_free_index)

(* Variant with a slip, unused: a counter below zero.                      *)
DeallocateBelowZero(i) ==
  /\ Running
  /\ InBuffer(i)
  /\ ibits' = ClearByte(ibits, i)
  /\ dsb' = [dsb EXCEPT !.inodes_used = @ - 1]
  /\ UNCHANGED <<status, sb>>

(* mxfs_inode_bitmap_deallocate and mx_inode_bitmap_deallocate.            *)
mxfs_inode_bitmap_deallocate(i) ==
  /\ Running
  /\ \/ /\ InBuffer(i)
        /\ ibits' = ClearByte(ibits, i)
        /\ dsb' = [dsb EXCEPT !.inodes_used = (@ - 1) % UINT16]
        /\ UNCHANGED <<status, sb>>
     \/ /\ ~ InBuffer(i)
        /\ Stop("undefined")
        /\ UNCHANGED <<sb, dsb, ibits>>

mxfs_inode_bitmap_set(i) == /\ Running
                            /\ BitmapSet(i)
                            /\ UNCHANGED <<sb, dsb>>

mxfs_inode_bitmap_clear(i) ==
  /\ Running
  /\ \/ /\ InBuffer(i)
        /\ ibits' = ClearByte(ibits, i)
        /\ UNCHANGED status
     \/ /\ ~ InBuffer(i)
        /\ Stop("undefined")
        /\ UNCHANGED ibits
  /\ UNCHANGED <<sb, dsb>>

(* The loop of the sample program: find a free index and set it, without   *)
(* counting it in either superblock.                                       *)
sample_inode_bitmap_allocation ==
  \E i \in mxfs_inode_bitmap_get_free_index : mxfs_inode_bitmap_set(i)

FlushSuperblock == /\ Running
                   /\ mxfs_flush_superblock
                   /\ UNCHANGED ibits

RefreshSuperblock == /\ Running
                     /\ mxfs_refresh_superblock
                     /\ UNCHANGED ibits

-----------------------------------------------------------------------------
(* mxfs_inode_bitmap_poison: the first ninodes/8 + 1 bytes of the bitmap   *)
(* are filled with one byte, the rest of its last block with 0.  pattern   *)
(* holds the offsets whose bit is 1 in that byte.                          *)
Poisoned(ninodes, pattern) ==
  {i \in InodeBits : ByteOf(i) < ninodes \div 8 + 1 /\ i % 8 \in pattern}

mxfs_inode_bitmap_poison(pattern) ==
  /\ Running
  /\ ibits' = Poisoned(sb.ninodes, pattern)
  /\ UNCHANGED <<status, sb, dsb>>

-----------------------------------------------------------------------------
(* After mxfs_init: both superblocks fresh, the four initial inodes set.   *)
InodeBitmapInit ==
  /\ status = "running"
  /\ sb = MountedSuperblock
  /\ dsb = MountedSuperblock
  /\ ibits = RootInodes

(* The counting allocator alone, as sample_mxfs_inode_bitmap uses it.      *)
CountedNext == \/ mxfs_inode_bitmap_allocate
               \/ mx_inode_bitmap_allocate
               \/ RefreshSuperblock

(* Every operation of the component.                                       *)
InodeBitmapNext ==
  \/ CountedNext
  \/ sample_inode_bitmap_allocation
  \/ FlushSuperblock
  \/ \E i \in Inodes : \/ mxfs_inode_bitmap_deallocate(i)
                       \/ mxfs_inode_bitmap_clear(i)
                       \/ mxfs_inode_bitmap_set(i)
  \/ \E pattern \in PoisonBytes : mxfs_inode_bitmap_poison(pattern)

InodeBitmapSpec == InodeBitmapInit /\ [][InodeBitmapNext]_inodeBitmapVars

-----------------------------------------------------------------------------
(* Type invariant: the superblock fields keep the values their registers   *)
(* gave them but for the counter, and the bits stay in the one block.      *)
CounterOnly(s) ==
  \E used \in 0 .. UINT16 - 1 : s = [MountedSuperblock EXCEPT !.inodes_used = used]

InodeBitmapTypeOK ==
  /\ status \in {"running", "undefined"}
  /\ CounterOnly(sb)
  /\ CounterOnly(dsb)
  /\ ibits \subseteq InodeBits

(* While inodes are only allocated, the counter on disk is the number of   *)
(* bits set since mxfs_init: main.c asserts this after 16 allocations,     *)
(* through whichever of the two superblocks an allocation looks.           *)
UsedCountExact ==
  Running => dsb.inodes_used
               = (Cardinality(ibits) - Cardinality(RootInodes)) % UINT16

(* While inodes are only allocated, the bitmap fills from its first byte   *)
(* on, and inside a byte from the largest index down: no hole is left      *)
(* behind by the search.                                                   *)
BytesFillInOrder ==
  \A i \in ibits \ RootInodes :
     /\ \A j \in 0 .. 8 * ByteOf(i) - 1 : j \in ibits
     /\ \A j \in i + 1 .. 8 * ByteOf(i) + 7 : j \in ibits

(* The indices a search of the bitmap can look at inside the block buffer. *)
SearchedInodes == {i \in InodeBits : ByteOf(i) < NINODES}

(* An allocation that goes through takes exactly one index that was free,  *)
(* and leaves every other bit alone, from any contents of the bitmap.      *)
Allocation == \/ mxfs_inode_bitmap_allocate
              \/ mx_inode_bitmap_allocate
              \/ sample_inode_bitmap_allocation

AllocatesFreeInode ==
  [][(Allocation /\ status' = "running") =>
        \E i \in SearchedInodes \ ibits : ibits' = ibits \cup {i}]_inodeBitmapVars

(* The allocator runs into undefined behaviour only when no bit it can     *)
(* search is free: it does not give up, or fault, earlier.                 *)
UndefinedOnlyWhenFull ==
  status = "undefined" => SearchedInodes \subseteq ibits

(* The bitmap implements the abstract allocator: the units are the bits of *)
(* the block, a byte is what is given back together, poisoning replaces    *)
(* all of it, and the allocator is up until the write of index -1.         *)
Bytes == {BitsOf(b) : b \in 0 .. MX_BLOCKSIZE - 1}
PoisonImages == {Poisoned(NINODES, pattern) : pattern \in PoisonBytes}

Abstract == INSTANCE Allocator WITH
              Unit <- InodeBits, Pool <- SearchedInodes, Group <- Bytes,
              Image <- PoisonImages,
              allocated <- ibits, up <- Running

ImplementsAllocator == Abstract!AllocatorSpec
=============================================================================
