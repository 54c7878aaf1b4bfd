---------------------------- MODULE BitmapProofs ----------------------------
(***************************************************************************)
(* What both bitmaps' proofs rest on: the superblock mxfs_init registers,  *)
(* and what the search of a bitmap block returns, for every number of      *)
(* inodes and data blocks, every block size and every contents.            *)
(***************************************************************************)
EXTENDS Bitmap, MountState, WidthProofs, WellFoundedInduction

(* Every base fits a field of the superblock.                              *)
LEMMA BaseRange ==
  ASSUME NEW n \in Nat, NEW m \in Nat
  PROVE  /\ InodeBase(n) \in 0 .. UINT16 - 1
         /\ BlockBitmapBase(n) \in 0 .. UINT16 - 1
         /\ BlockBitmapReserved(m) \in Int
<1>1. /\ mxfs_inode_bitmap_nblocks(n) \in Int
      /\ mxfs_inode_zone_nblocks(n) \in Int
      /\ BlockBitmapReserved(m) \in Int
  BY SizesAssumption
     DEF mxfs_inode_bitmap_nblocks, mxfs_inode_zone_nblocks, BlockBitmapReserved,
         SIZEOF_DISK_INODE
<1>2. InodeBase(n) \in 0 .. UINT16 - 1
  <2>1. InodeBitmapBase + mxfs_inode_bitmap_nblocks(n) \in Int
    BY <1>1 DEF InodeBitmapBase, MX_SUPERBLOCK_INDEX
  <2>. QED BY <2>1, ModRange, SizesAssumption DEF InodeBase
<1>3. BlockBitmapBase(n) \in 0 .. UINT16 - 1
  <2>1. InodeBase(n) + mxfs_inode_zone_nblocks(n) \in Int
    BY <1>1, <1>2, SizesAssumption
  <2>. QED BY <2>1, ModRange, SizesAssumption DEF BlockBitmapBase
<1>. QED BY <1>1, <1>2, <1>3

(* The registers store the numbers asked for, and clear the counters.      *)
LEMMA MountedFields ==
  /\ MountedSuperblock.ninodes = NINODES
  /\ MountedSuperblock.inodes_used = 0
  /\ MountedSuperblock.nblocks = NBLOCKS
  /\ MountedSuperblock.blocks_used = 0
<1>1. NINODES % UINT16 = NINODES /\ NBLOCKS % UINT16 = NBLOCKS
  BY ModId, MountAssumption, SizesAssumption
<1>. QED
  BY <1>1 DEF MountedSuperblock, RegisteredSuperblock, ZeroSuperblock,
              mxfs_block_bitmap_register, mxfs_inode_bitmap_register

LEMMA MountedType == MountedSuperblock \in Superblock
<1>. DEFINE n == NINODES % UINT16
<1>1. n \in Nat /\ NBLOCKS % UINT16 \in Nat /\ NBLOCKS \in Nat
  BY ModRange, MountAssumption, SizesAssumption
<1>2. InodeBase(n) \in Nat /\ BlockBitmapBase(n) \in Nat
  BY <1>1, BaseRange, SizesAssumption
<1>. DEFINE base == BlockBitmapBase(n)
            end == base + BlockBitmapReserved(NBLOCKS)
<1>3. base \in Int /\ end \in Int
  BY <1>1, <1>2, BaseRange
<1>4. base % UINT16 \in Nat /\ end % UINT16 \in Nat
  <2>. HIDE DEF base, end
  <2>1. base % UINT16 \in 0 .. UINT16 - 1 /\ end % UINT16 \in 0 .. UINT16 - 1
    BY <1>3, Wraps
  <2>. QED BY <2>1, SizesAssumption
<1>. QED
  BY <1>1, <1>2, <1>4
     DEF MountedSuperblock, RegisteredSuperblock, ZeroSuperblock, Superblock,
         mxfs_block_bitmap_register, mxfs_inode_bitmap_register,
         InodeBitmapBase, MX_SUPERBLOCK_INDEX

-----------------------------------------------------------------------------
(* A non-empty set of naturals has a least element.                        *)
LEMMA LeastElement ==
  ASSUME NEW S \in SUBSET Nat, S # {}
  PROVE  \E x \in S : \A y \in S : x <= y
<1>1. PICK x \in S : \A y \in S : ~ (<<y, x>> \in OpToRel(<, Nat))
  BY NatLessThanWellFounded, WFMin, Zenon
<1>2. \A y \in S : y < x => <<y, x>> \in OpToRel(<, Nat)
  BY DEF OpToRel
<1>3. \A y \in S : ~ (y < x)
  BY <1>1, <1>2, Zenon
<1>. QED BY <1>3

Scanned(nbytes) == IF nbytes < MX_BLOCKSIZE THEN nbytes ELSE MX_BLOCKSIZE

(* The bytes a search may stop at: the least one with a 0 bit.             *)
FirstOpen(bits, nbytes) ==
  {b \in 0 .. Scanned(nbytes) - 1 :
     /\ ~ (BitsOf(b) \subseteq bits)
     /\ \A c \in 0 .. b - 1 : BitsOf(c) \subseteq bits}

LEMMA FirstFreeDef ==
  ASSUME NEW bits, NEW nbytes
  PROVE  FirstFree(bits, nbytes) =
           UNION {{i \in BitsOf(b) \ bits : i + 1 .. 8 * b + 7 \subseteq bits} :
                    b \in FirstOpen(bits, nbytes)}
BY DEF FirstFree, FirstOpen, Scanned

(* What a search finds is a free bit of the buffer, in a scanned byte.     *)
LEMMA FirstFreeIsFree ==
  ASSUME NEW bits, NEW nbytes \in Nat, NEW i \in FirstFree(bits, nbytes)
  PROVE  /\ i \in (0 .. BlockBits - 1) \ bits
         /\ ByteOf(i) < nbytes
<1>1. PICK b \in FirstOpen(bits, nbytes) : i \in BitsOf(b) \ bits
  BY FirstFreeDef
<1>2. b \in 0 .. Scanned(nbytes) - 1
  BY <1>1 DEF FirstOpen
<1>3. b \in Nat /\ b < MX_BLOCKSIZE /\ b < nbytes
  BY <1>2, SizesAssumption DEF Scanned
<1>4. i \in 8 * b .. 8 * b + 7
  BY <1>1 DEF BitsOf
<1>. QED BY <1>1, <1>3, <1>4, SizesAssumption DEF BlockBits, ByteOf

(* A byte with a free bit has a last free bit.                             *)
LEMMA LastFreeBit ==
  ASSUME NEW bits, NEW b \in Nat, ~ (BitsOf(b) \subseteq bits)
  PROVE  \E i \in BitsOf(b) \ bits : i + 1 .. 8 * b + 7 \subseteq bits
<1>. DEFINE D == {d \in 0 .. 7 : 8 * b + 7 - d \notin bits}
<1>1. D # {}
  <2>1. PICK i \in BitsOf(b) : i \notin bits
    OBVIOUS
  <2>2. i \in Int /\ 8 * b <= i /\ i <= 8 * b + 7
    BY <2>1 DEF BitsOf
  <2>3. 8 * b + 7 - i \in 0 .. 7 /\ 8 * b + 7 - (8 * b + 7 - i) = i
    BY <2>2
  <2>. QED BY <2>1, <2>3
<1>2. PICK d \in D : \A e \in D : d <= e
  BY <1>1, LeastElement
<1>. DEFINE i == 8 * b + 7 - d
<1>3. i \in BitsOf(b) \ bits
  BY <1>2 DEF BitsOf
<1>4. ASSUME NEW j \in i + 1 .. 8 * b + 7 PROVE j \in bits
  <2>1. 8 * b + 7 - j \in 0 .. 7 /\ 8 * b + 7 - j < d
    BY <1>2, <1>4
  <2>2. 8 * b + 7 - (8 * b + 7 - j) = j
    BY <1>2, <1>4
  <2>3. ~ (d <= 8 * b + 7 - j)
    BY <1>2, <1>4, <2>1
  <2>4. 8 * b + 7 - j \notin D
    BY <1>2, <2>3, Zenon
  <2>. QED BY <2>1, <2>2, <2>4
<1>. QED BY <1>3, <1>4

(* A search finds something as soon as one of the bits it scans is free.   *)
LEMMA FirstFreeFinds ==
  ASSUME NEW bits, NEW nbytes \in Nat,
         NEW j \in (0 .. BlockBits - 1) \ bits, ByteOf(j) < nbytes
  PROVE  FirstFree(bits, nbytes) # {}
<1>. DEFINE Open == {b \in 0 .. Scanned(nbytes) - 1 : ~ (BitsOf(b) \subseteq bits)}
<1>1. ByteOf(j) \in Open
  <2>1. ByteOf(j) \in Nat /\ ByteOf(j) < MX_BLOCKSIZE /\ j \in BitsOf(ByteOf(j))
    BY SizesAssumption DEF ByteOf, BlockBits, BitsOf
  <2>. QED BY <2>1, SizesAssumption DEF Scanned
<1>2. Open \in SUBSET Nat
  BY SizesAssumption DEF Scanned
<1>3. PICK b \in Open : \A c \in Open : b <= c
  BY <1>1, <1>2, LeastElement
<1>4. b \in Nat /\ b \in 0 .. Scanned(nbytes) - 1
  BY <1>2, <1>3
<1>5. ASSUME NEW c \in 0 .. b - 1 PROVE BitsOf(c) \subseteq bits
  <2>1. c \in 0 .. Scanned(nbytes) - 1 /\ ~ (b <= c)
    BY <1>4, <1>5, SizesAssumption DEF Scanned
  <2>. QED BY <1>3, <2>1
<1>6. b \in FirstOpen(bits, nbytes)
  BY <1>3, <1>4, <1>5 DEF FirstOpen
<1>7. PICK i \in BitsOf(b) \ bits : i + 1 .. 8 * b + 7 \subseteq bits
  BY <1>3, <1>4, LastFreeBit
<1>8. i \in {h \in BitsOf(b) \ bits : h + 1 .. 8 * b + 7 \subseteq bits}
  BY <1>7
<1>. QED BY <1>6, <1>8, FirstFreeDef, Zenon

(* The search of a block returns a free bit of a scanned byte, if there is *)
(* one; otherwise -1 or an index past the buffer.                          *)
LEMMA SearchResult ==
  ASSUME NEW bits, NEW nbytes \in Nat, NEW i \in FreeInBlock(bits, nbytes)
  PROVE  \/ i \in (0 .. BlockBits - 1) \ bits /\ ByteOf(i) < nbytes
         \/ /\ i \notin 0 .. BlockBits - 1
            /\ \A j \in (0 .. BlockBits - 1) \ bits : ~ (ByteOf(j) < nbytes)
<1>1. CASE FirstFree(bits, nbytes) # {}
  BY <1>1, FirstFreeIsFree DEF FreeInBlock
<1>2. CASE FirstFree(bits, nbytes) = {}
  <2>1. i \in {NoIndex} \cup PastBuffer(nbytes)
    BY <1>2 DEF FreeInBlock
  <2>2. i \notin 0 .. BlockBits - 1
    BY <2>1, SizesAssumption DEF NoIndex, PastBuffer, BlockBits
  <2>. QED BY <1>2, <2>2, FirstFreeFinds
<1>. QED BY <1>1, <1>2

(* What a search finds is the last free bit of the first byte that has     *)
(* one,                                                                    *)
LEMMA FirstFreeShape ==
  ASSUME NEW bits, NEW nbytes \in Nat, NEW i \in FirstFree(bits, nbytes)
  PROVE  \E b \in Nat : /\ b < nbytes /\ b < MX_BLOCKSIZE
                        /\ i \in BitsOf(b) \ bits
                        /\ i + 1 .. 8 * b + 7 \subseteq bits
                        /\ \A c \in 0 .. b - 1 : BitsOf(c) \subseteq bits
<1>1. PICK b \in FirstOpen(bits, nbytes) :
         i \in {h \in BitsOf(b) \ bits : h + 1 .. 8 * b + 7 \subseteq bits}
  BY FirstFreeDef
<1>2. b \in Nat /\ b < nbytes /\ b < MX_BLOCKSIZE
  BY <1>1, SizesAssumption DEF FirstOpen, Scanned
<1>3. \A c \in 0 .. b - 1 : BitsOf(c) \subseteq bits
  BY <1>1 DEF FirstOpen
<1>. QED BY <1>1, <1>2, <1>3

(* so that a search of more bytes finds nothing else.                      *)
LEMMA FirstFreeUnique ==
  ASSUME NEW bits, NEW m \in Nat, NEW n \in Nat,
         NEW i \in FirstFree(bits, m), NEW j \in FirstFree(bits, n)
  PROVE  i = j
<1>1. PICK b \in Nat : /\ i \in BitsOf(b) \ bits
                       /\ i + 1 .. 8 * b + 7 \subseteq bits
                       /\ \A c \in 0 .. b - 1 : BitsOf(c) \subseteq bits
  BY FirstFreeShape
<1>2. PICK d \in Nat : /\ j \in BitsOf(d) \ bits
                       /\ j + 1 .. 8 * d + 7 \subseteq bits
                       /\ \A c \in 0 .. d - 1 : BitsOf(c) \subseteq bits
  BY FirstFreeShape
<1>3. ~ (b < d) /\ ~ (d < b)
  <2>1. b \notin 0 .. d - 1
    BY <1>1, <1>2
  <2>2. d \notin 0 .. b - 1
    BY <1>1, <1>2
  <2>. QED BY <2>1, <2>2
<1>4. b = d
  BY <1>3
<1>5. i \in 8 * b .. 8 * b + 7 /\ j \in 8 * b .. 8 * b + 7
  BY <1>1, <1>2, <1>4 DEF BitsOf
<1>6. j \notin i + 1 .. 8 * b + 7 /\ i \notin j + 1 .. 8 * b + 7
  BY <1>1, <1>2, <1>4
<1>. QED BY <1>5, <1>6
=============================================================================
