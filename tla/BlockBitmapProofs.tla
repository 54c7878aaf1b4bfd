------------------------- MODULE BlockBitmapProofs -------------------------
(***************************************************************************)
(* The block bitmap's invariant, its allocation, and its refinement of the *)
(* abstract allocator, for every block size and every number of blocks;    *)
(* then the counters of both bitmaps in the superblock they share.         *)
(***************************************************************************)
EXTENDS Counters, InodeBitmapProofs, FiniteSetTheorems

(* The only field of a superblock that changes is the used counter.        *)
LEMMA BlockCounterStep ==
  ASSUME NEW s, BlockCounterOnly(s)
  PROVE  /\ s.nblocks = NBLOCKS
         /\ s.blocks_used \in Int
         /\ \A x \in 0 .. UINT16 - 1 : BlockCounterOnly([s EXCEPT !.blocks_used = x])
<1>1. PICK used \in 0 .. UINT16 - 1 :
         s = [MountedSuperblock EXCEPT !.blocks_used = used]
  BY DEF BlockCounterOnly
<1>2. s.nblocks = NBLOCKS /\ s.blocks_used \in Int
  BY <1>1, MountedType, MountedFields DEF Superblock
<1>3. ASSUME NEW x \in 0 .. UINT16 - 1
      PROVE  BlockCounterOnly([s EXCEPT !.blocks_used = x])
  <2>1. [s EXCEPT !.blocks_used = x] = [MountedSuperblock EXCEPT !.blocks_used = x]
    BY <1>1, MountedType DEF Superblock
  <2>. QED BY <2>1 DEF BlockCounterOnly
<1>. QED BY <1>2, <1>3

LEMMA BlockCounterInit == BlockCounterOnly(MountedSuperblock)
<1>1. MountedSuperblock = [MountedSuperblock EXCEPT !.blocks_used = 0]
  BY MountedType, MountedFields DEF Superblock
<1>2. 0 \in 0 .. UINT16 - 1
  BY SizesAssumption
<1>. QED BY <1>1, <1>2 DEF BlockCounterOnly

LEMMA BlockCountUpDown ==
  ASSUME BlockCounterOnly(dsb)
  PROVE  /\ BlockCounterOnly([dsb EXCEPT !.blocks_used = (@ + 1) % UINT16])
         /\ BlockCounterOnly([dsb EXCEPT !.blocks_used = (@ - 1) % UINT16])
<1>. DEFINE more == dsb.blocks_used + 1
            less == dsb.blocks_used - 1
<1>1. more \in Int /\ less \in Int
  BY BlockCounterStep
<1>2. more % UINT16 \in 0 .. UINT16 - 1 /\ less % UINT16 \in 0 .. UINT16 - 1
  <2>. HIDE DEF more, less
  <2>. QED BY <1>1, Wraps
<1>. QED BY <1>2, BlockCounterStep

-----------------------------------------------------------------------------
(* Every data block has its bit in a byte of the bitmap, and the blocks    *)
(* reserved for the bitmap hold all of its bytes.                          *)
LEMMA BitmapRoom ==
  /\ NBLOCKS \div 8 \in Nat
  /\ DataBlocks \subseteq 0 .. 8 * (NBLOCKS \div 8 + 1) - 1
  /\ 0 .. 8 * (NBLOCKS \div 8 + 1) - 1 \subseteq BlockUnits
<1>. DEFINE q == NBLOCKS \div 8
            R == BlockBitmapReserved(NBLOCKS)
<1>1. NBLOCKS \in Nat /\ q \in Nat /\ NBLOCKS < 8 * (q + 1)
  BY MountAssumption, SizesAssumption
<1>2. DataBlocks \subseteq 0 .. 8 * (q + 1) - 1
  BY <1>1 DEF DataBlocks
<1>3. (q + 1) \div MX_BLOCKSIZE \in Nat /\ q + 1 < MX_BLOCKSIZE * R
  <2>. HIDE DEF q
  <2>1. q + 1 \in Nat
    BY <1>1
  <2>2. /\ (q + 1) \div MX_BLOCKSIZE \in Nat
        /\ q + 1 < MX_BLOCKSIZE * ((q + 1) \div MX_BLOCKSIZE + 1)
    BY <2>1, SizesAssumption, DivRoom
  <2>. QED BY <2>2 DEF BlockBitmapReserved, q
<1>4. R \in Nat
  BY <1>3 DEF BlockBitmapReserved
<1>5. 8 * (q + 1) <= BlockBits * R
  <2>. DEFINE P == MX_BLOCKSIZE * R
  <2>1. P \in Nat /\ BlockBits * R = 8 * P
    <3>. HIDE DEF R
    <3>. QED BY <1>4, SizesAssumption DEF BlockBits
  <2>. QED BY <1>1, <1>3, <2>1
<1>6. 0 .. 8 * (q + 1) - 1 \subseteq BlockUnits
  <2>. HIDE DEF q
  <2>1. BlockBits * R \in Nat
    <3>. HIDE DEF R
    <3>. QED BY <1>4, SizesAssumption DEF BlockBits
  <2>. QED BY <1>1, <1>5, <2>1 DEF BlockUnits
<1>. QED BY <1>1, <1>2, <1>6

(* The search of a bitmap block returns an index of a data block, or -1,   *)
(* even when it reads past its buffer.                                     *)
LEMMA BlockSearchRange ==
  ASSUME NEW bits, NEW i \in FreeInBlock(bits, NBLOCKS \div 8)
  PROVE  i = NoIndex \/ i \in DataBlocks
<1>. DEFINE q == NBLOCKS \div 8
<1>1. NBLOCKS \in Nat /\ q \in Nat /\ 8 * q <= NBLOCKS
  BY MountAssumption, SizesAssumption
<1>2. CASE i \in FirstFree(bits, q)
  <2>1. i \in 0 .. BlockBits - 1 /\ ByteOf(i) < q
    BY <1>1, <1>2, FirstFreeIsFree
  <2>. QED BY <1>1, <2>1, SizesAssumption DEF ByteOf, DataBlocks, BlockBits
<1>3. CASE i \in PastBuffer(q)
  <2>1. i \in BlockBits .. 8 * q - 1
    BY <1>3 DEF PastBuffer
  <2>. QED BY <1>1, <2>1, SizesAssumption DEF DataBlocks, BlockBits
<1>. QED BY <1>2, <1>3 DEF FreeInBlock

LEMMA GrantedIndex ==
  ASSUME sb.nblocks = NBLOCKS, NEW i \in mxfs_block_bitmap_get_free_index
  PROVE  i = NoIndex \/ i \in DataBlocks
<1>1. CASE i # NoIndex
  <2>1. PICK k : i \in mxfs_block_bitmap_block_free_index(k)
    BY <1>1 DEF mxfs_block_bitmap_get_free_index
  <2>. QED BY <2>1, BlockSearchRange DEF mxfs_block_bitmap_block_free_index
<1>. QED BY <1>1

(* The four ways a step looks to the bits.                                 *)
LEMMA BlockBitsStep ==
  ASSUME BlockBitmapTypeOK, BlockBitmapNext
  PROVE  /\ status' = status
         /\ BlockCounterOnly(sb') /\ BlockCounterOnly(dsb')
         /\ \/ \E i \in DataBlocks : bbits' = bbits \cup {i}
            \/ \E i \in DataBlocks : bbits' = ClearByte(bbits, i)
            \/ bbits' \in BlockImages
            \/ bbits' = bbits
<1>1. sb.nblocks = NBLOCKS
  BY BlockCounterStep DEF BlockBitmapTypeOK
<1>2. CASE mxfs_block_bitmap_allocate
  <2>1. PICK i \in mxfs_block_bitmap_get_free_index : bbits' = BlockBitSet(i)
    BY <1>2 DEF mxfs_block_bitmap_allocate
  <2>2. bbits' = bbits \/ (i \in DataBlocks /\ bbits' = bbits \cup {i})
    BY <1>1, <2>1, GrantedIndex DEF BlockBitSet, SetBit
  <2>. QED BY <1>2, <2>2, BlockCountUpDown
           DEF mxfs_block_bitmap_allocate, BlockBitmapTypeOK
<1>3. ASSUME NEW i \in DataBlocks, mxfs_block_bitmap_set(i)
      PROVE  /\ UNCHANGED <<status, sb, dsb>>
             /\ bbits' = bbits \cup {i}
  BY <1>3, MountAssumption, SizesAssumption
     DEF mxfs_block_bitmap_set, BlockBitSet, SetBit, DataBlocks, NoIndex
<1>4. ASSUME NEW i \in DataBlocks,
             mxfs_block_bitmap_clear(i) \/ mxfs_block_bitmap_deallocate(i)
      PROVE  /\ UNCHANGED status
             /\ BlockCounterOnly(sb') /\ BlockCounterOnly(dsb')
             /\ bbits' = ClearByte(bbits, i)
  BY <1>4, BlockCountUpDown
     DEF mxfs_block_bitmap_clear, mxfs_block_bitmap_deallocate, BlockBitmapTypeOK
<1>5. ASSUME NEW pattern \in PoisonBytes, mxfs_block_bitmap_poison(pattern)
      PROVE  /\ UNCHANGED <<status, sb, dsb>>
             /\ bbits' \in BlockImages
  BY <1>1, <1>5 DEF mxfs_block_bitmap_poison, BlockImages
<1>6. CASE FlushBlockCounters \/ RefreshBlockCounters
  BY <1>6 DEF FlushBlockCounters, RefreshBlockCounters, mxfs_flush_superblock,
              mxfs_refresh_superblock, BlockBitmapTypeOK
<1>. QED
  BY <1>2, <1>3, <1>4, <1>5, <1>6 DEF BlockBitmapNext, GrantNext, BlockBitmapTypeOK

LEMMA BlockTypeInit == BlockBitmapInit => BlockBitmapTypeOK
<1>1. RootBlocks \subseteq DataBlocks
  BY MountAssumption, SizesAssumption DEF RootBlocks, DataBlocks
<1>2. RootBlocks \subseteq BlockUnits
  BY <1>1, BitmapRoom
<1>. QED BY <1>2, BlockCounterInit DEF BlockBitmapInit, BlockBitmapTypeOK, Running

(* Whatever is called on the block bitmap, the superblocks keep their      *)
(* layout fields and the bits stay in the blocks reserved for the bitmap.  *)
THEOREM BlockTypeCorrect == BlockBitmapSpec => []BlockBitmapTypeOK
<1>1. ASSUME BlockBitmapTypeOK, [BlockBitmapNext]_blockBitmapVars
      PROVE  BlockBitmapTypeOK'
  <2>1. CASE BlockBitmapNext
    <3>1. bbits' \subseteq BlockUnits
      <4>1. ASSUME NEW i \in DataBlocks, bbits' = bbits \cup {i}
            PROVE  bbits' \subseteq BlockUnits
        BY <1>1, <4>1, BitmapRoom DEF BlockBitmapTypeOK
      <4>2. ASSUME NEW i \in DataBlocks, bbits' = ClearByte(bbits, i)
            PROVE  bbits' \subseteq BlockUnits
        BY <1>1, <4>2 DEF BlockBitmapTypeOK, ClearByte
      <4>3. ASSUME bbits' \in BlockImages PROVE bbits' \subseteq BlockUnits
        BY <4>3, BitmapRoom DEF BlockImages, PoisonedBlocks
      <4>. QED BY <1>1, <2>1, <4>1, <4>2, <4>3, BlockBitsStep DEF BlockBitmapTypeOK
    <3>. QED BY <1>1, <2>1, <3>1, BlockBitsStep DEF BlockBitmapTypeOK, Running, BlockUnits
  <2>2. CASE UNCHANGED blockBitmapVars
    BY <1>1, <2>2 DEF blockBitmapVars, BlockBitmapTypeOK, Running, BlockUnits
  <2>. QED BY <1>1, <2>1, <2>2
<1>. QED BY <1>1, BlockTypeInit, PTL DEF BlockBitmapSpec

(* A byte is a group of the abstract allocator.                            *)
LEMMA BlockByteReleases ==
  ASSUME BlockBitmapTypeOK, NEW i \in DataBlocks
  PROVE  \E g \in BlockBytes : ClearByte(bbits, i) = bbits \ g
<1>1. i \in Nat /\ ByteOf(i) \in 0 .. NBLOCKS \div 8
  BY MountAssumption, SizesAssumption DEF DataBlocks, ByteOf
<1>2. BitsOf(ByteOf(i)) \in BlockBytes
  BY <1>1 DEF BlockBytes
<1>3. ASSUME NEW j \in bbits
      PROVE  j \in BitsOf(ByteOf(i)) <=> ByteOf(j) = ByteOf(i)
  <2>1. j \in Nat
    BY <1>3 DEF BlockBitmapTypeOK, BlockUnits
  <2>. QED BY <1>1, <2>1 DEF BitsOf, ByteOf
<1>. QED BY <1>2, <1>3 DEF ClearByte

(* The block bitmap implements the abstract allocator, however many blocks *)
(* it has: setting a bit is a grant or changes nothing, a clear gives back *)
(* a byte.                                                                 *)
THEOREM BlockBitmapRefines == BlockBitmapSpec => ImplementsBlockAllocator
<1>1. BlockBitmapInit => AbstractBlocks!AllocatorInit
  BY BlockTypeInit
     DEF BlockBitmapInit, AbstractBlocks!AllocatorInit, BlockBitmapTypeOK, Running
<1>2. ASSUME BlockBitmapTypeOK, [BlockBitmapNext]_blockBitmapVars
      PROVE  [AbstractBlocks!AllocatorNext]_AbstractBlocks!allocatorVars
  <2>1. CASE BlockBitmapNext
    <3>1. Running /\ UNCHANGED Running
      BY <1>2, <2>1, BlockBitsStep DEF BlockBitmapTypeOK, Running
    <3>2. ASSUME NEW i \in DataBlocks \ bbits, bbits' = bbits \cup {i}
          PROVE  AbstractBlocks!Grant(i)
      BY <3>1, <3>2 DEF AbstractBlocks!Grant
    <3>3. ASSUME NEW i \in DataBlocks, bbits' = ClearByte(bbits, i)
          PROVE  \E g \in BlockBytes : AbstractBlocks!Release(g)
      <4>1. PICK g \in BlockBytes : bbits' = bbits \ g
        BY <1>2, <3>3, BlockByteReleases
      <4>. QED BY <3>1, <4>1 DEF AbstractBlocks!Release
    <3>4. ASSUME bbits' \in BlockImages
          PROVE  AbstractBlocks!Overwrite(bbits')
      BY <3>1, <3>4 DEF AbstractBlocks!Overwrite
    <3>5. ASSUME bbits' = bbits PROVE UNCHANGED AbstractBlocks!allocatorVars
      BY <3>1, <3>5 DEF AbstractBlocks!allocatorVars
    <3>6. \/ \E i \in DataBlocks \ bbits : bbits' = bbits \cup {i}
          \/ \E i \in DataBlocks : bbits' = ClearByte(bbits, i)
          \/ bbits' \in BlockImages
          \/ bbits' = bbits
      BY <1>2, <2>1, BlockBitsStep
    <3>. QED BY <3>2, <3>3, <3>4, <3>5, <3>6 DEF AbstractBlocks!AllocatorNext
  <2>2. CASE UNCHANGED blockBitmapVars
    BY <2>2 DEF blockBitmapVars, AbstractBlocks!allocatorVars, Running
  <2>. QED BY <1>2, <2>1, <2>2
<1>. QED
  BY <1>1, <1>2, BlockTypeCorrect, PTL
     DEF BlockBitmapSpec, ImplementsBlockAllocator, AbstractBlocks!AllocatorSpec
-----------------------------------------------------------------------------
(* At most one bitmap block is searched, and the search of it stays in the *)
(* block's buffer.                                                         *)
OneSearched == NBLOCKS \div 8 <= MX_BLOCKSIZE

LEMMA SearchedNone ==
  ASSUME NBLOCKS \div 8 < MX_BLOCKSIZE
  PROVE  mxfs_block_bitmap_nblocks(NBLOCKS) = 0 /\ SearchedBlocks = {}
<1>. DEFINE q == NBLOCKS \div 8
<1>1. q \in Nat /\ q < MX_BLOCKSIZE
  BY BitmapRoom
<1>2. q \div MX_BLOCKSIZE = 0
  <2>. HIDE DEF q
  <2>. QED BY <1>1, SizesAssumption
<1>. QED BY <1>2, SizesAssumption DEF mxfs_block_bitmap_nblocks, SearchedBlocks, BlockBits

LEMMA SearchedOne ==
  ASSUME NBLOCKS \div 8 = MX_BLOCKSIZE
  PROVE  /\ mxfs_block_bitmap_nblocks(NBLOCKS) = 1
         /\ SearchedBlocks = 0 .. BlockBits - 1
<1>1. MX_BLOCKSIZE \div MX_BLOCKSIZE = 1
  BY SizesAssumption
<1>. QED BY <1>1, SizesAssumption DEF mxfs_block_bitmap_nblocks, SearchedBlocks, BlockBits

(* What an allocation can come back with.                                  *)
LEMMA Granted ==
  ASSUME OneSearched, sb.nblocks = NBLOCKS, NEW i \in mxfs_block_bitmap_get_free_index
  PROVE  \/ i \in SearchedBlocks \ (bbits \cup {0})
         \/ /\ i = NoIndex
            /\ \/ SearchedBlocks \subseteq bbits
               \/ 0 \notin bbits /\ 1 .. 7 \subseteq bbits
<1>. DEFINE q == NBLOCKS \div 8
<1>0. q \in Nat
  BY BitmapRoom
<1>1. CASE q < MX_BLOCKSIZE
  <2>1. i = NoIndex
    BY <1>1, SearchedNone DEF mxfs_block_bitmap_get_free_index
  <2>. QED BY <1>1, <2>1, SearchedNone
<1>2. CASE q = MX_BLOCKSIZE
  <2>. DEFINE bits == BitmapBlock(0)
              found == FreeInBlock(bits, q)
  <2>1. mxfs_block_bitmap_block_free_index(0) = found
    BY DEF mxfs_block_bitmap_block_free_index
  <2>2. i \in found \ {0} \/ (i = NoIndex /\ 0 \in found)
    BY <1>2, <2>1, SearchedOne DEF mxfs_block_bitmap_get_free_index
  <2>3. /\ SearchedBlocks = 0 .. BlockBits - 1
        /\ \A j \in SearchedBlocks : j \in bits <=> j \in bbits
    BY <1>2, SearchedOne, SizesAssumption DEF BitmapBlock, BlockBits
  <2>4. CASE FirstFree(bits, q) = {}
    <3>1. found = {NoIndex}
      BY <1>2, <2>4, SizesAssumption DEF FreeInBlock, PastBuffer
    <3>2. i = NoIndex
      BY <2>2, <3>1
    <3>3. ASSUME NEW j \in SearchedBlocks, j \notin bbits PROVE FALSE
      <4>1. ByteOf(j) < q
        BY <1>2, <2>3, <3>3, SizesAssumption DEF ByteOf, BlockBits
      <4>. QED BY <1>0, <2>3, <2>4, <3>3, <4>1, FirstFreeFinds
    <3>. QED BY <3>2, <3>3
  <2>5. CASE FirstFree(bits, q) # {}
    <3>1. found = FirstFree(bits, q)
      BY <2>5 DEF FreeInBlock
    <3>2. CASE i \in found \ {0}
      BY <1>0, <2>3, <3>1, <3>2, FirstFreeIsFree
    <3>3. CASE i = NoIndex /\ 0 \in found
      <4>1. PICK b \in FirstOpen(bits, q) :
               0 \in BitsOf(b) \ bits /\ 1 .. 8 * b + 7 \subseteq bits
        BY <3>1, <3>3, FirstFreeDef
      <4>2. b \in Nat
        BY <1>0, <4>1, SizesAssumption DEF FirstOpen, Scanned
      <4>3. 1 .. 7 \subseteq bits /\ 0 \notin bits
        BY <4>1, <4>2 DEF BitsOf
      <4>. QED BY <2>3, <3>3, <4>3, SizesAssumption DEF BlockBits
    <3>. QED BY <2>2, <3>2, <3>3
  <2>. QED BY <2>4, <2>5
<1>. QED BY <1>0, <1>1, <1>2, SizesAssumption DEF OneSearched

(* With at most one searched bitmap block, an allocation takes one block   *)
(* that was free or, the bitmap being full, none; block 0 is never taken.  *)
THEOREM GrantTakesFreeBlock ==
  ASSUME OneSearched PROVE BlockBitmapSpec => GrantsFreeBlock
<1>1. ASSUME BlockBitmapTypeOK
      PROVE  mxfs_block_bitmap_allocate =>
               \/ \E i \in SearchedBlocks \ (bbits \cup {0}) : bbits' = bbits \cup {i}
               \/ /\ bbits' = bbits
                  /\ \/ SearchedBlocks \subseteq bbits
                     \/ 0 \notin bbits /\ 1 .. 7 \subseteq bbits
  <2>. SUFFICES ASSUME mxfs_block_bitmap_allocate
                PROVE  \/ \E i \in SearchedBlocks \ (bbits \cup {0}) :
                            bbits' = bbits \cup {i}
                       \/ /\ bbits' = bbits
                          /\ \/ SearchedBlocks \subseteq bbits
                             \/ 0 \notin bbits /\ 1 .. 7 \subseteq bbits
    OBVIOUS
  <2>1. PICK i \in mxfs_block_bitmap_get_free_index : bbits' = BlockBitSet(i)
    BY DEF mxfs_block_bitmap_allocate
  <2>2. sb.nblocks = NBLOCKS
    BY <1>1, BlockCounterStep DEF BlockBitmapTypeOK
  <2>3. CASE i \in SearchedBlocks \ (bbits \cup {0})
    <3>1. i # NoIndex
      BY <2>3 DEF SearchedBlocks, NoIndex
    <3>. QED BY <2>1, <2>3, <3>1 DEF BlockBitSet, SetBit
  <2>4. CASE i = NoIndex
    BY <2>1, <2>2, <2>4, Granted DEF BlockBitSet, SearchedBlocks, NoIndex
  <2>. QED BY <2>2, <2>3, <2>4, Granted
<1>. QED BY <1>1, BlockTypeCorrect, PTL DEF BlockBitmapSpec, GrantsFreeBlock

-----------------------------------------------------------------------------
(* Both allocators on one superblock.  The copies differ in their counters *)
(* and no bit is ever given back.                                          *)
Mounted(s) == s \in Superblock /\ s.ninodes = NINODES /\ s.nblocks = NBLOCKS

CountedInv ==
  /\ Mounted(sb) /\ Mounted(dsb)
  /\ RootInodes \subseteq ibits /\ ibits \subseteq InodeBits

CountersInv ==
  /\ CountedInv
  /\ RootBlocks \subseteq bbits /\ bbits \subseteq SearchedBlocks \cup RootBlocks

LEMMA CountInode ==
  ASSUME Mounted(dsb)
  PROVE  LET s == [dsb EXCEPT !.inodes_used = (@ + 1) % UINT16]
         IN  /\ Mounted(s)
             /\ s.inodes_used = (dsb.inodes_used + 1) % UINT16
             /\ s.blocks_used = dsb.blocks_used
<1>. DEFINE x == dsb.inodes_used + 1
<1>1. x \in Int
  BY DEF Mounted, Superblock
<1>2. x % UINT16 \in Nat
  <2>. HIDE DEF x
  <2>1. x % UINT16 \in 0 .. UINT16 - 1
    BY <1>1, Wraps
  <2>. QED BY <2>1, SizesAssumption
<1>. QED BY <1>2 DEF Mounted, Superblock

LEMMA CountBlock ==
  ASSUME Mounted(dsb)
  PROVE  LET s == [dsb EXCEPT !.blocks_used = (@ + 1) % UINT16]
         IN  /\ Mounted(s)
             /\ s.blocks_used = (dsb.blocks_used + 1) % UINT16
             /\ s.inodes_used = dsb.inodes_used
<1>. DEFINE x == dsb.blocks_used + 1
<1>1. x \in Int
  BY DEF Mounted, Superblock
<1>2. x % UINT16 \in Nat
  <2>. HIDE DEF x
  <2>1. x % UINT16 \in 0 .. UINT16 - 1
    BY <1>1, Wraps
  <2>. QED BY <2>1, SizesAssumption
<1>. QED BY <1>2 DEF Mounted, Superblock

(* The ways a step of the composition looks.  An inode is counted with its *)
(* bit, or the bitmap was full and the process faults,                     *)
InodeGranted ==
  /\ \E i \in InodeBits : /\ i \in FirstFree(ibits, NINODES)
                          /\ ibits' = ibits \cup {i}
  /\ dsb' = [dsb EXCEPT !.inodes_used = (@ + 1) % UINT16]
  /\ UNCHANGED <<status, sb, bbits>>

InodeFault == /\ status' = "undefined"
              /\ UNCHANGED <<sb, dsb, ibits, bbits>>

(* a block is counted with its bit, or counted without one.                *)
BlockGranted ==
  /\ \E i \in SearchedBlocks \ bbits : bbits' = bbits \cup {i}
  /\ dsb' = [dsb EXCEPT !.blocks_used = (@ + 1) % UINT16]
  /\ UNCHANGED <<status, sb, ibits>>

BlockMissed ==
  /\ SearchedBlocks \subseteq bbits
  /\ dsb' = [dsb EXCEPT !.blocks_used = (@ + 1) % UINT16]
  /\ UNCHANGED <<status, sb, ibits, bbits>>

Refreshed == sb' = dsb /\ UNCHANGED <<status, dsb, ibits, bbits>>

BlockStep == mxfs_block_bitmap_allocate /\ UNCHANGED ibits

LEMMA CountedStep ==
  ASSUME CountedInv, CountersNext
  PROVE  InodeGranted \/ InodeFault \/ BlockStep \/ Refreshed
<1>0. NINODES \in Nat
  BY MountAssumption, SizesAssumption
<1>1. CASE /\ mxfs_inode_bitmap_allocate \/ mx_inode_bitmap_allocate
           /\ UNCHANGED bbits
  <2>1. PICK i \in FreeInBlock(ibits, NINODES) :
           /\ BitmapSet(i)
           /\ dsb' = IF InBuffer(i)
                     THEN [dsb EXCEPT !.inodes_used = (@ + 1) % UINT16]
                     ELSE dsb
           /\ UNCHANGED <<sb, bbits>>
    BY <1>1 DEF mxfs_inode_bitmap_allocate, mx_inode_bitmap_allocate, AllocateFrom,
                mxfs_inode_bitmap_get_free_index, mx_inode_get_free_index,
                CountedInv, Mounted
  <2>2. CASE InBuffer(i)
    <3>1. i \in FirstFree(ibits, NINODES)
      <4>1. i \notin {NoIndex} \cup PastBuffer(NINODES)
        BY <1>0, <2>2, SizesAssumption
           DEF InBuffer, InodeBits, BlockBits, NoIndex, PastBuffer
      <4>. QED BY <2>1, <4>1 DEF FreeInBlock
    <3>. QED BY <2>1, <2>2, <3>1 DEF BitmapSet, InBuffer, SetBit, InodeGranted
  <2>3. CASE ~ InBuffer(i)
    BY <2>1, <2>3 DEF BitmapSet, Stop, InodeFault
  <2>. QED BY <2>2, <2>3
<1>2. CASE \/ RefreshSuperblock /\ UNCHANGED bbits
           \/ RefreshBlockCounters /\ UNCHANGED ibits
  BY <1>2 DEF RefreshSuperblock, RefreshBlockCounters, mxfs_refresh_superblock, Refreshed
<1>. QED BY <1>1, <1>2
         DEF CountersNext, AllocateInodes, AllocateBlocks, CountedNext, GrantNext, BlockStep

(* With one searched block the index that is found is the block's.         *)
LEMMA CountersStep ==
  ASSUME OneSearched, CountersInv, CountersNext
  PROVE  InodeGranted \/ InodeFault \/ BlockGranted \/ BlockMissed \/ Refreshed
<1>1. CASE BlockStep
  <2>1. PICK i \in mxfs_block_bitmap_get_free_index : bbits' = BlockBitSet(i)
    BY <1>1 DEF BlockStep, mxfs_block_bitmap_allocate
  <2>2. 0 \in bbits /\ sb.nblocks = NBLOCKS
    BY DEF CountersInv, CountedInv, RootBlocks, Mounted
  <2>3. CASE i \in SearchedBlocks \ (bbits \cup {0})
    <3>1. bbits' = bbits \cup {i}
      BY <2>1, <2>3 DEF BlockBitSet, SetBit, SearchedBlocks, NoIndex
    <3>. QED BY <1>1, <2>3, <3>1 DEF BlockStep, mxfs_block_bitmap_allocate, BlockGranted
  <2>4. CASE i = NoIndex
    <3>1. bbits' = bbits /\ SearchedBlocks \subseteq bbits
      BY <2>1, <2>2, <2>4, Granted DEF BlockBitSet, SearchedBlocks, NoIndex
    <3>. QED BY <1>1, <3>1 DEF BlockStep, mxfs_block_bitmap_allocate, BlockMissed
  <2>. QED BY <2>2, <2>3, <2>4, Granted
<1>. QED BY <1>1, CountedStep DEF CountersInv

LEMMA CountedInvStep ==
  ASSUME CountedInv, [CountersNext]_countersVars
  PROVE  CountedInv'
<1>1. CASE InodeGranted
  <2>1. ibits \subseteq ibits' /\ ibits' \subseteq InodeBits
    BY <1>1 DEF InodeGranted, CountedInv
  <2>. QED BY <1>1, <2>1, CountInode DEF InodeGranted, CountedInv, Mounted
<1>2. CASE BlockStep
  <2>1. /\ UNCHANGED <<sb, ibits>>
        /\ dsb' = [dsb EXCEPT !.blocks_used = (@ + 1) % UINT16]
    BY <1>2 DEF BlockStep, mxfs_block_bitmap_allocate
  <2>. QED BY <2>1, CountBlock DEF CountedInv, Mounted
<1>3. CASE InodeFault \/ Refreshed \/ UNCHANGED countersVars
  BY <1>3 DEF InodeFault, Refreshed, countersVars, CountedInv, Mounted
<1>. QED BY <1>1, <1>2, <1>3, CountedStep

LEMMA CountersInvStep ==
  ASSUME OneSearched, CountersInv, [CountersNext]_countersVars
  PROVE  CountersInv'
<1>1. CountedInv'
  BY CountedInvStep DEF CountersInv
<1>2. CASE BlockGranted \/ BlockMissed
  <2>1. bbits \subseteq bbits' /\ bbits' \subseteq SearchedBlocks \cup RootBlocks
    BY <1>2 DEF BlockGranted, BlockMissed, CountersInv
  <2>. QED BY <1>1, <2>1 DEF CountersInv, SearchedBlocks
<1>3. CASE InodeGranted \/ InodeFault \/ Refreshed \/ UNCHANGED countersVars
  BY <1>1, <1>3
     DEF InodeGranted, InodeFault, Refreshed, countersVars, CountersInv, SearchedBlocks
<1>. QED BY <1>2, <1>3, CountersStep

LEMMA CountedInvInit == CountersInit => CountedInv
<1>1. RootInodes \subseteq InodeBits
  BY SizesAssumption DEF RootInodes, InodeBits, BlockBits
<1>. QED
  BY <1>1, MountedType, MountedFields
     DEF CountersInit, InodeBitmapInit, CountedInv, Mounted

LEMMA CountersInvInit == CountersInit => CountersInv
BY CountedInvInit DEF CountersInit, CountersInv

LEMMA CountedInvariant == CountersSpec => []CountedInv
BY CountedInvInit, CountedInvStep, PTL DEF CountersSpec

LEMMA CountersInvariant == ASSUME OneSearched PROVE CountersSpec => []CountersInv
BY CountersInvInit, CountersInvStep, PTL DEF CountersSpec

LEMMA FromZero ==
  ASSUME NEW n \in Int, n >= -1
  PROVE  IsFiniteSet(0 .. n) /\ Cardinality(0 .. n) = n + 1
<1>1. /\ IsFiniteSet(0 .. n)
      /\ Cardinality(0 .. n) = IF 0 > n THEN 0 ELSE n - 0 + 1
  BY FS_Interval
<1>. QED BY <1>1

LEMMA RootCards ==
  /\ Cardinality(RootInodes) = 4 /\ Cardinality(RootBlocks) = 4
  /\ IsFiniteSet(RootBlocks)
<1>1. ASSUME NEW n \in Int, n = 3
      PROVE  RootInodes = 0 .. n /\ RootBlocks = 0 .. n
  BY <1>1 DEF RootInodes, RootBlocks
<1>2. PICK n \in Int : n = 3
  OBVIOUS
<1>3. n >= -1
  BY <1>2
<1>4. Cardinality(0 .. n) = n + 1 /\ IsFiniteSet(0 .. n)
  BY <1>3, FromZero
<1>5. n + 1 = 4
  BY <1>2
<1>. QED BY <1>1, <1>2, <1>4, <1>5, Zenon

LEMMA InodeBitsFinite ==
  ASSUME CountedInv
  PROVE  IsFiniteSet(ibits) /\ Cardinality(ibits) \in Nat
<1>1. IsFiniteSet(InodeBits)
  <2>1. BlockBits - 1 \in Int /\ BlockBits - 1 >= -1
    BY SizesAssumption DEF BlockBits
  <2>. QED BY <2>1, FromZero DEF InodeBits
<1>2. IsFiniteSet(ibits)
  BY <1>1, FS_Subset DEF CountedInv
<1>. QED BY <1>2, FS_CardinalityType

LEMMA BitsFinite ==
  ASSUME CountersInv
  PROVE  IsFiniteSet(bbits) /\ Cardinality(bbits) \in Nat
<1>1. IsFiniteSet(bbits)
  <2>. DEFINE n == mxfs_block_bitmap_nblocks(NBLOCKS)
              last == BlockBits * n - 1
  <2>1. n \in Nat
    BY MountAssumption, SizesAssumption DEF mxfs_block_bitmap_nblocks
  <2>2. last \in Int
    <3>. HIDE DEF n
    <3>. QED BY <2>1, SizesAssumption DEF BlockBits
  <2>3. IsFiniteSet(0 .. last) /\ IsFiniteSet(RootBlocks)
    <3>. HIDE DEF last
    <3>1. IsFiniteSet(0 .. last)
      BY <2>2, FS_Interval
    <3>. QED BY <3>1, RootCards
  <2>4. IsFiniteSet(SearchedBlocks \cup RootBlocks)
    BY <2>3, FS_Union DEF SearchedBlocks
  <2>. QED BY <2>4, FS_Subset DEF CountersInv
<1>. QED BY <1>1, FS_CardinalityType

(* The inode counter on disk counts the bits, wrapped to its width,        *)
(* whatever blocks are allocated and whichever copy of the superblock an   *)
(* allocation goes by.                                                     *)
THEOREM InodesCounted == CountersSpec => []UsedCountExact
<1>. DEFINE count == Cardinality(ibits) - Cardinality(RootInodes)
<1>1. CountersInit => UsedCountExact
  BY RootCards, MountedFields, Held, SizesAssumption
     DEF CountersInit, InodeBitmapInit, UsedCountExact
<1>2. ASSUME CountedInv, UsedCountExact, [CountersNext]_countersVars
      PROVE  UsedCountExact'
  <2>1. CASE InodeGranted
    <3>1. PICK i \in InodeBits : i \in FirstFree(ibits, NINODES) /\ ibits' = ibits \cup {i}
      BY <2>1 DEF InodeGranted
    <3>2. i \notin ibits
      BY <3>1, FirstFreeIsFree, MountAssumption, SizesAssumption
    <3>3. Cardinality(ibits') = Cardinality(ibits) + 1
      BY <1>2, <3>1, <3>2, InodeBitsFinite, FS_AddElement
    <3>4. count \in Int /\ Cardinality(ibits') - Cardinality(RootInodes) = count + 1
      BY <1>2, <3>3, InodeBitsFinite, RootCards
    <3>5. dsb'.inodes_used = (dsb.inodes_used + 1) % UINT16
      BY <1>2, <2>1, CountInode DEF InodeGranted, CountedInv
    <3>6. Running => dsb'.inodes_used = ((count % UINT16) + 1) % UINT16
      BY <1>2, <3>5 DEF UsedCountExact
    <3>7. Running' <=> Running
      BY <2>1 DEF InodeGranted, Running
    <3>8. ((count % UINT16) + 1) % UINT16 = (count + 1) % UINT16
      <4>. HIDE DEF count
      <4>. QED BY <3>4, ModStep, SizesAssumption
    <3>. QED BY <3>4, <3>6, <3>7, <3>8 DEF UsedCountExact, RootInodes
  <2>2. CASE BlockStep
    <3>1. UNCHANGED <<status, ibits>> /\ dsb'.inodes_used = dsb.inodes_used
      BY <1>2, <2>2, CountBlock DEF BlockStep, mxfs_block_bitmap_allocate, CountedInv
    <3>. QED BY <1>2, <3>1 DEF UsedCountExact, Running, RootInodes
  <2>3. CASE InodeFault
    BY <2>3 DEF InodeFault, UsedCountExact, Running
  <2>4. CASE Refreshed \/ UNCHANGED countersVars
    BY <1>2, <2>4 DEF Refreshed, countersVars, UsedCountExact, Running, RootInodes
  <2>. QED BY <1>2, <2>1, <2>2, <2>3, <2>4, CountedStep
<1>. QED BY <1>1, <1>2, CountedInvariant, PTL DEF CountersSpec

(* The inode bitmap fills from its first byte on, for every size.          *)
THEOREM InodesFillInOrder == CountersSpec => []BytesFillInOrder
<1>1. CountersInit => BytesFillInOrder
  BY DEF CountersInit, InodeBitmapInit, BytesFillInOrder
<1>2. ASSUME CountedInv, BytesFillInOrder, [CountersNext]_countersVars
      PROVE  BytesFillInOrder'
  <2>1. CASE InodeGranted
    <3>1. PICK i \in InodeBits : i \in FirstFree(ibits, NINODES) /\ ibits' = ibits \cup {i}
      BY <2>1 DEF InodeGranted
    <3>2. PICK b \in FirstOpen(ibits, NINODES) :
             i \in BitsOf(b) \ ibits /\ i + 1 .. 8 * b + 7 \subseteq ibits
      BY <3>1, FirstFreeDef
    <3>3. b \in Nat /\ \A c \in 0 .. b - 1 : BitsOf(c) \subseteq ibits
      BY <3>2, MountAssumption, SizesAssumption DEF FirstOpen, Scanned
    <3>4. i \in Nat /\ ByteOf(i) = b
      BY <3>2, <3>3 DEF BitsOf, ByteOf
    <3>5. ASSUME NEW j \in 0 .. 8 * b - 1 PROVE j \in ibits
      <4>1. j \div 8 \in 0 .. b - 1 /\ j \in BitsOf(j \div 8)
        BY <3>3, <3>5 DEF BitsOf
      <4>. QED BY <3>3, <4>1
    <3>6. /\ \A j \in 0 .. 8 * ByteOf(i) - 1 : j \in ibits'
          /\ \A j \in i + 1 .. 8 * ByteOf(i) + 7 : j \in ibits'
      BY <3>1, <3>2, <3>4, <3>5
    <3>. QED BY <1>2, <3>1, <3>6 DEF BytesFillInOrder, RootInodes
  <2>2. CASE UNCHANGED ibits
    BY <1>2, <2>2 DEF BytesFillInOrder, RootInodes
  <2>. QED BY <1>2, <2>1, <2>2, CountedStep
           DEF InodeFault, BlockStep, Refreshed, countersVars
<1>. QED BY <1>1, <1>2, CountedInvariant, PTL DEF CountersSpec

(* The block counter on disk counts the blocks allocated until the         *)
(* searched blocks are full, whatever inodes are allocated.                *)
THEOREM BlocksCounted ==
  ASSUME OneSearched PROVE CountersSpec => []BlocksUsedExact
<1>1. CountersInit => BlocksUsedExact
  BY RootCards, MountedFields DEF CountersInit, InodeBitmapInit, BlocksUsedExact
<1>2. ASSUME CountersInv, BlocksUsedExact, [CountersNext]_countersVars
      PROVE  BlocksUsedExact'
  <2>1. CASE BlockGranted
    <3>1. PICK i \in SearchedBlocks \ bbits : bbits' = bbits \cup {i}
      BY <2>1 DEF BlockGranted
    <3>2. Cardinality(bbits') = Cardinality(bbits) + 1
      BY <1>2, <3>1, BitsFinite, FS_AddElement
    <3>3. dsb.blocks_used = Cardinality(bbits) - 4 /\ dsb.blocks_used \in Nat
      BY <1>2, <3>1, RootCards DEF BlocksUsedExact, CountersInv, CountedInv, Mounted, Superblock
    <3>4. NBLOCKS \div 8 = MX_BLOCKSIZE
      BY <3>1, BitmapRoom, SearchedNone, SizesAssumption DEF OneSearched
    <3>5. bbits' \in SUBSET (0 .. BlockBits - 1)
      BY <1>2, <3>1, <3>4, SearchedOne, SizesAssumption
         DEF CountersInv, RootBlocks, BlockBits
    <3>6. BlockBits <= NBLOCKS /\ BlockBits \in Nat /\ NBLOCKS \in Nat
      BY <3>4, MountAssumption, SizesAssumption DEF BlockBits
    <3>7. Cardinality(bbits') <= BlockBits
      <4>1. /\ IsFiniteSet(0 .. BlockBits - 1)
            /\ Cardinality(0 .. BlockBits - 1) = BlockBits
        BY <3>6, FromZero
      <4>. QED BY <3>5, <4>1, FS_Subset
    <3>8. dsb.blocks_used + 1 \in 0 .. UINT16 - 1
      BY <1>2, <3>2, <3>3, <3>6, <3>7, BitsFinite, MountAssumption, SizesAssumption
    <3>9. dsb'.blocks_used = dsb.blocks_used + 1
      BY <1>2, <2>1, <3>8, CountBlock, Held DEF BlockGranted, CountersInv, CountedInv
    <3>. QED BY <1>2, <3>2, <3>3, <3>9, BitsFinite, RootCards DEF BlocksUsedExact, RootBlocks
  <2>2. CASE BlockMissed
    BY <2>2 DEF BlockMissed, BlocksUsedExact, SearchedBlocks
  <2>3. CASE InodeGranted
    <3>1. UNCHANGED bbits /\ dsb'.blocks_used = dsb.blocks_used
      BY <1>2, <2>3, CountInode DEF InodeGranted, CountersInv, CountedInv
    <3>. QED BY <1>2, <3>1 DEF BlocksUsedExact, SearchedBlocks, RootBlocks
  <2>4. CASE InodeFault \/ Refreshed \/ UNCHANGED countersVars
    BY <1>2, <2>4
       DEF InodeFault, Refreshed, countersVars, BlocksUsedExact, SearchedBlocks, RootBlocks
  <2>. QED BY <1>2, <2>1, <2>2, <2>3, <2>4, CountersStep
<1>. QED BY <1>1, <1>2, CountersInvariant, PTL DEF CountersSpec
=============================================================================
