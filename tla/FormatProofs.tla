---------------------------- MODULE FormatProofs ----------------------------
(***************************************************************************)
(* The layout mxfs_init leaves on a disk, for every request that fits the  *)
(* superblock's fields and every disk.                                     *)
(***************************************************************************)
EXTENDS Poison, WidthProofs

(* The number of data blocks is one the superblock can hold.  (The number  *)
(* of inodes is cut to its field before anything is computed from it.)     *)
BlocksCountable == BlockCounts \subseteq 0 .. UINT16 - 1

LEMMA NblocksNat ==
  ASSUME NEW n \in Nat, NEW m \in Nat
  PROVE  /\ mxfs_inode_bitmap_nblocks(n) \in Nat
         /\ mxfs_inode_zone_nblocks(n) \in Nat
         /\ BlockBitmapReserved(m) \in Nat
BY SizesAssumption
   DEF mxfs_inode_bitmap_nblocks, mxfs_inode_zone_nblocks, BlockBitmapReserved,
       SIZEOF_DISK_INODE

(* No base is cut.                                                         *)
LEMMA BasesUncut ==
  ASSUME FieldsWide, NEW n \in 0 .. UINT16 - 1, NEW m \in 0 .. UINT16 - 1
  PROVE  /\ InodeBase(n) = InodeBitmapBase + mxfs_inode_bitmap_nblocks(n)
         /\ BlockBitmapBase(n) = InodeBase(n) + mxfs_inode_zone_nblocks(n)
         /\ InodeBase(n) \in Nat /\ BlockBitmapBase(n) \in 0 .. UINT16 - 1
         /\ (BlockBitmapBase(n) + BlockBitmapReserved(m)) % UINT16
              = BlockBitmapBase(n) + BlockBitmapReserved(m)
<1>. DEFINE i == InodeBitmapBase + mxfs_inode_bitmap_nblocks(n)
            b == i + mxfs_inode_zone_nblocks(n)
            d == b + BlockBitmapReserved(m)
<1>. UINT16 \in Nat \ {0} /\ UINT16 - 1 \in Nat /\ n \in Nat /\ m \in Nat
  BY SizesAssumption
<1>1. /\ i \in Nat /\ i <= b
      /\ b \in Nat /\ b <= d
      /\ d \in Nat
  BY NblocksNat DEF InodeBitmapBase, MX_SUPERBLOCK_INDEX
<1>2. d < UINT16
  <2>1. b + BlockBitmapReserved(UINT16 - 1) < UINT16
    BY DEF FieldsWide
  <2>2. BlockBitmapReserved(m) <= BlockBitmapReserved(UINT16 - 1)
    BY DEF FieldsWide
  <2>. HIDE DEF b
  <2>. QED BY <1>1, <2>1, <2>2, NblocksNat
<1>3. i \in 0 .. UINT16 - 1 /\ b \in 0 .. UINT16 - 1 /\ d \in 0 .. UINT16 - 1
  <2>. HIDE DEF i, b, d
  <2>. QED BY <1>1, <1>2
<1>4. i % UINT16 = i /\ b % UINT16 = b /\ d % UINT16 = d
  <2>. HIDE DEF i, b, d
  <2>. QED BY <1>3, Held
<1>5. InodeBase(n) = i
  BY <1>4 DEF InodeBase
<1>6. BlockBitmapBase(n) = b
  BY <1>4, <1>5 DEF BlockBitmapBase
<1>. QED BY <1>1, <1>3, <1>4, <1>5, <1>6, Zenon

(* What each zone reserves is enough for what it holds.                    *)
LEMMA ZonesHold ==
  ASSUME NEW n \in Nat, NEW m \in Nat
  PROVE  /\ n <= BlockBits * mxfs_inode_bitmap_nblocks(n)
         /\ n * SIZEOF_DISK_INODE <= MX_BLOCKSIZE * mxfs_inode_zone_nblocks(n)
         /\ m <= BlockBits * BlockBitmapReserved(m)
<1>1. MX_BLOCKSIZE \in Nat \ {0}
  BY SizesAssumption
<1>2. n <= BlockBits * mxfs_inode_bitmap_nblocks(n)
  <2>. DEFINE r == (n \div 8) \div MX_BLOCKSIZE
  <2>1. n \div 8 \in Nat /\ n < 8 * (n \div 8) + 8
    OBVIOUS
  <2>2. n \div 8 < MX_BLOCKSIZE * (r + 1) /\ r \in Nat
    BY <1>1, <2>1, DivRoom
  <2>3. MX_BLOCKSIZE * (r + 1) \in Nat
    BY <1>1, <2>2
  <2>4. n <= 8 * (MX_BLOCKSIZE * (r + 1))
    BY <2>1, <2>2, <2>3
  <2>5. 8 * (MX_BLOCKSIZE * (r + 1)) = (8 * MX_BLOCKSIZE) * (r + 1)
    BY <1>1, <2>2
  <2>. QED BY <2>4, <2>5 DEF mxfs_inode_bitmap_nblocks, BlockBits
<1>3. m <= BlockBits * BlockBitmapReserved(m)
  <2>. DEFINE r == (m \div 8 + 1) \div MX_BLOCKSIZE
  <2>1. m \div 8 + 1 \in Nat /\ m < 8 * (m \div 8 + 1) + 8
    OBVIOUS
  <2>2. m \div 8 + 1 < MX_BLOCKSIZE * (r + 1) /\ r \in Nat
    BY <1>1, <2>1, DivRoom
  <2>3. MX_BLOCKSIZE * (r + 1) \in Nat
    BY <1>1, <2>2
  <2>4. m <= 8 * (MX_BLOCKSIZE * (r + 1))
    BY <2>1, <2>2, <2>3
  <2>5. 8 * (MX_BLOCKSIZE * (r + 1)) = (8 * MX_BLOCKSIZE) * (r + 1)
    BY <1>1, <2>2
  <2>. QED BY <2>4, <2>5 DEF BlockBitmapReserved, BlockBits
<1>4. n * SIZEOF_DISK_INODE <= MX_BLOCKSIZE * mxfs_inode_zone_nblocks(n)
  <2>1. CASE n = 0
    BY <1>1, <2>1 DEF mxfs_inode_zone_nblocks, SIZEOF_DISK_INODE
  <2>2. CASE n # 0
    <3>. DEFINE bytes == n * SIZEOF_DISK_INODE
                r == bytes \div MX_BLOCKSIZE
    <3>1. bytes \in Nat
      BY DEF SIZEOF_DISK_INODE
    <3>2. bytes < MX_BLOCKSIZE * (r + 1) /\ r \in Nat
      <4>. HIDE DEF bytes
      <4>. QED BY <1>1, <3>1, DivRoom
    <3>3. mxfs_inode_zone_nblocks(n) = r + 1
      BY <2>2 DEF mxfs_inode_zone_nblocks
    <3>4. MX_BLOCKSIZE * (r + 1) \in Nat
      BY <1>1, <3>2
    <3>. QED BY <3>1, <3>2, <3>3, <3>4
  <2>. QED BY <2>1, <2>2
<1>. QED BY <1>2, <1>3, <1>4

-----------------------------------------------------------------------------
(* What each stage has registered.  The data blocks are registered only by *)
(* the third stage, so a superblock that counts any is complete: this is   *)
(* what makes the root directory's assertions refuse a failed setup.       *)
Empty == ZeroSuperblock
WithInodes == mxfs_inode_bitmap_register(ZeroSuperblock, ninodes)
Complete == RegisteredSuperblock(ninodes, nblocks)

RegisteredInv ==
  /\ ninodes \in Nat /\ nblocks \in BlockCounts
  /\ disk.nblocks \in Nat
  /\ pc = "inode_bitmap" => sb = Empty
  /\ pc \in {"inode_zone", "block_bitmap"} => sb = WithInodes
  /\ pc \in {"block_zone", "mounted"} => sb = Complete
  /\ pc = "mounted" => 0 < sb.nblocks
  /\ sb \in {Empty, WithInodes, Complete}

LEMMA UnregisteredHasNoBlocks == Empty.nblocks = 0 /\ WithInodes.nblocks = 0
BY DEF Empty, WithInodes, ZeroSuperblock, mxfs_inode_bitmap_register

LEMMA RegisteredInvInit == PoisonInit => RegisteredInv
BY FormatAssumption DEF PoisonInit, FormatInit, RegisteredInv, Empty

(* What a poison function leaves alone, and what it writes over.           *)
LEMMA PoisonLeaves ==
  ASSUME NEW zone, NEW base, NEW count, Fill(zone, base, count)
  PROVE  /\ pc = "mounted"
         /\ UNCHANGED <<pc, ninodes, nblocks, disk, sb, fresh>>
         /\ stale' \subseteq stale
BY DEF Fill

PoisonStep == \/ mxfs_inode_bitmap_poison
              \/ mxfs_inode_zone_poison
              \/ mxfs_block_bitmap_poison
              \/ mxfs_block_zone_poison

LEMMA PoisonStepLeaves ==
  ASSUME PoisonStep
  PROVE  /\ pc = "mounted"
         /\ UNCHANGED <<pc, ninodes, nblocks, disk, sb, fresh>>
         /\ stale' \subseteq stale
BY PoisonLeaves
   DEF PoisonStep, mxfs_inode_bitmap_poison, mxfs_inode_zone_poison,
       mxfs_block_bitmap_poison, mxfs_block_zone_poison

LEMMA StepKinds ==
  ASSUME [PoisonNext]_poisonVars
  PROVE  \/ FormatNext
         \/ PoisonStep
         \/ UNCHANGED formatVars
BY DEF PoisonNext, PoisonStep, FormatStep, poisonVars

(* The base mxfs_init hands to the third stage is the layout's.            *)
LEMMA ThirdBase ==
  ASSUME sb = WithInodes
  PROVE  /\ sb.ninodes = ninodes % UINT16
         /\ sb.inode_base = InodeBase(ninodes % UINT16)
         /\ (sb.inode_base + mxfs_inode_zone_nblocks(sb.ninodes)) % UINT16
              = BlockBitmapBase(ninodes % UINT16)
<1>1. /\ WithInodes.ninodes = ninodes % UINT16
      /\ WithInodes.inode_base = InodeBase(ninodes % UINT16)
  BY DEF WithInodes, mxfs_inode_bitmap_register
<1>. QED BY <1>1 DEF BlockBitmapBase

LEMMA RegisteredInvStep ==
  ASSUME RegisteredInv, [PoisonNext]_poisonVars
  PROVE  RegisteredInv'
<1>. USE DEF RegisteredInv, Empty, WithInodes, Complete, Goto, StageFails,
             AfterWriting
<1>1. CASE mxfs_inode_bitmap_init
  <2>1. CASE ~ SizeMatches
    BY <1>1, <2>1 DEF mxfs_inode_bitmap_init
  <2>2. CASE SizeMatches /\ Clears(InodeBitmapBase, InodeBitmapCleared(ninodes))
    BY <1>1, <2>2 DEF mxfs_inode_bitmap_init, Clears
  <2>3. CASE SizeMatches /\ ~ Clears(InodeBitmapBase, InodeBitmapCleared(ninodes))
    BY <1>1, <2>3 DEF mxfs_inode_bitmap_init, Clears
  <2>. QED BY <2>1, <2>2, <2>3
<1>2. CASE mxfs_inode_zone_init
  BY <1>2 DEF mxfs_inode_zone_init
<1>3. CASE mxfs_block_bitmap_init
  <2>. DEFINE base == BlockBitmapBase(ninodes % UINT16)
              cleared == mxfs_block_bitmap_nblocks(nblocks)
  <2>1. (sb.inode_base + mxfs_inode_zone_nblocks(sb.ninodes)) % UINT16 = base
    BY <1>3, ThirdBase DEF mxfs_block_bitmap_init
  <2>2. CASE Clears(base, cleared)
    BY <1>3, <2>1, <2>2 DEF mxfs_block_bitmap_init, RegisteredSuperblock, Clears
  <2>3. CASE ~ Clears(base, cleared)
    BY <1>3, <2>1, <2>3 DEF mxfs_block_bitmap_init, RegisteredSuperblock, Clears
  <2>. QED BY <2>2, <2>3
<1>4. CASE mxfs_block_zone_init
  BY <1>4 DEF mxfs_block_zone_init
<1>5. CASE FlushFormatted
  BY <1>5 DEF FlushFormatted
<1>6. CASE mxfs_init_root_directory
  <2>1. CASE RootFits
    <3>1. 0 < sb.nblocks
      BY <2>1 DEF RootFits
    <3>2. sb = Complete
      BY <3>1, UnregisteredHasNoBlocks
    <3>. QED BY <1>6, <3>1, <3>2 DEF mxfs_init_root_directory
  <2>2. CASE ~ RootFits
    BY <1>6, <2>2 DEF mxfs_init_root_directory
  <2>. QED BY <2>1, <2>2
<1>7. CASE Reformat
  BY <1>7, FormatAssumption DEF Reformat
<1>8. CASE PoisonStep
  BY <1>8, PoisonStepLeaves
<1>9. CASE UNCHANGED formatVars
  BY <1>9 DEF formatVars
<1>. QED BY <1>1, <1>2, <1>3, <1>4, <1>5, <1>6, <1>7, <1>8, <1>9, StepKinds
         DEF FormatNext

-----------------------------------------------------------------------------
(* A complete superblock with every cut gone.                              *)
LEMMA CompleteFields ==
  ASSUME FieldsWide, BlocksCountable, RegisteredInv, sb = Complete,
         NEW n \in 0 .. UINT16 - 1, n = ninodes % UINT16
  PROVE  /\ nblocks \in 0 .. UINT16 - 1
         /\ sb.ninodes = n
         /\ sb.inode_bitmap_base = InodeBitmapBase
         /\ sb.inode_base = InodeBase(n)
         /\ sb.nblocks = nblocks
         /\ sb.block_bitmap_base = BlockBitmapBase(n)
         /\ sb.block_base = BlockBitmapBase(n) + BlockBitmapReserved(nblocks)
<1>1. /\ sb.ninodes = n
      /\ sb.inode_bitmap_base = InodeBitmapBase
      /\ sb.inode_base = InodeBase(n)
      /\ sb.nblocks = nblocks % UINT16
      /\ sb.block_bitmap_base = BlockBitmapBase(n) % UINT16
      /\ sb.block_base = (BlockBitmapBase(n) + BlockBitmapReserved(nblocks)) % UINT16
  BY DEF Complete, RegisteredSuperblock, mxfs_inode_bitmap_register,
         mxfs_block_bitmap_register
<1>2. nblocks \in 0 .. UINT16 - 1
  BY DEF RegisteredInv, BlocksCountable
<1>3. nblocks % UINT16 = nblocks
  BY <1>2, Held
<1>4. BlockBitmapBase(n) % UINT16 = BlockBitmapBase(n)
  BY <1>2, BasesUncut, Held
<1>5. (BlockBitmapBase(n) + BlockBitmapReserved(nblocks)) % UINT16
        = BlockBitmapBase(n) + BlockBitmapReserved(nblocks)
  BY <1>2, BasesUncut
<1>. QED BY <1>1, <1>2, <1>3, <1>4, <1>5, Zenon

(* Each zone of a mounted file system begins where the one before ends.    *)
LEMMA ZonesFollow ==
  ASSUME FieldsWide, BlocksCountable, RegisteredInv, pc = "mounted"
  PROVE  /\ sb.ninodes \in Nat /\ sb.nblocks \in Nat
         /\ sb.inode_bitmap_base = InodeBitmapBase /\ InodeBitmapBase \in Nat
         /\ sb.inode_base = sb.inode_bitmap_base + mxfs_inode_bitmap_nblocks(sb.ninodes)
         /\ sb.block_bitmap_base = sb.inode_base + mxfs_inode_zone_nblocks(sb.ninodes)
         /\ sb.block_base = sb.block_bitmap_base + BlockBitmapReserved(sb.nblocks)
<1>. DEFINE cut == ninodes % UINT16
<1>1. cut \in 0 .. UINT16 - 1
  BY ModRange, SizesAssumption DEF RegisteredInv
<1>2. PICK n \in 0 .. UINT16 - 1 : n = cut
  BY <1>1
<1>3. sb = Complete
  BY DEF RegisteredInv
<1>4. /\ nblocks \in 0 .. UINT16 - 1
      /\ sb.ninodes = n
      /\ sb.inode_bitmap_base = InodeBitmapBase
      /\ sb.inode_base = InodeBase(n)
      /\ sb.nblocks = nblocks
      /\ sb.block_bitmap_base = BlockBitmapBase(n)
      /\ sb.block_base = BlockBitmapBase(n) + BlockBitmapReserved(nblocks)
  BY <1>2, <1>3, CompleteFields
<1>5. /\ InodeBase(n) = InodeBitmapBase + mxfs_inode_bitmap_nblocks(n)
      /\ BlockBitmapBase(n) = InodeBase(n) + mxfs_inode_zone_nblocks(n)
  BY <1>4, BasesUncut
<1>6. n \in Nat /\ nblocks \in Nat
  BY <1>4
<1>. QED BY <1>4, <1>5, <1>6 DEF InodeBitmapBase, MX_SUPERBLOCK_INDEX

LEMMA CompleteIsDisjoint ==
  ASSUME FieldsWide, BlocksCountable, RegisteredInv PROVE ZonesDisjoint
<1>. SUFFICES ASSUME pc = "mounted"
              PROVE  /\ MX_SUPERBLOCK_INDEX < sb.inode_bitmap_base
                     /\ sb.ninodes <= BlockBits * (sb.inode_base - sb.inode_bitmap_base)
                     /\ sb.ninodes * SIZEOF_DISK_INODE
                          <= MX_BLOCKSIZE * (sb.block_bitmap_base - sb.inode_base)
                     /\ sb.nblocks <= BlockBits * (sb.block_base - sb.block_bitmap_base)
  BY DEF ZonesDisjoint
<1>1. sb.ninodes \in Nat /\ sb.nblocks \in Nat
  BY ZonesFollow
<1>2. /\ mxfs_inode_bitmap_nblocks(sb.ninodes) \in Nat
      /\ mxfs_inode_zone_nblocks(sb.ninodes) \in Nat
      /\ BlockBitmapReserved(sb.nblocks) \in Nat
  BY <1>1, NblocksNat
<1>3. /\ sb.inode_base - sb.inode_bitmap_base = mxfs_inode_bitmap_nblocks(sb.ninodes)
      /\ sb.block_bitmap_base - sb.inode_base = mxfs_inode_zone_nblocks(sb.ninodes)
      /\ sb.block_base - sb.block_bitmap_base = BlockBitmapReserved(sb.nblocks)
  BY <1>2, ZonesFollow
<1>4. MX_SUPERBLOCK_INDEX < sb.inode_bitmap_base
  BY ZonesFollow DEF InodeBitmapBase, MX_SUPERBLOCK_INDEX
<1>5. /\ sb.ninodes <= BlockBits * mxfs_inode_bitmap_nblocks(sb.ninodes)
      /\ sb.ninodes * SIZEOF_DISK_INODE
           <= MX_BLOCKSIZE * mxfs_inode_zone_nblocks(sb.ninodes)
      /\ sb.nblocks <= BlockBits * BlockBitmapReserved(sb.nblocks)
  BY <1>1, ZonesHold
<1>. QED BY <1>3, <1>4, <1>5

(* On every disk, for every block size the fields are wide enough for and  *)
(* every request whose data blocks a field can count, the zones of a       *)
(* mounted file system do not overlap and hold what the superblock counts. *)
THEOREM ZonesStayDisjoint ==
  ASSUME FieldsWide, BlocksCountable PROVE PoisonSpec => []ZonesDisjoint
<1>1. RegisteredInv => ZonesDisjoint
  BY CompleteIsDisjoint
<1>. QED BY <1>1, RegisteredInvInit, RegisteredInvStep, PTL DEF PoisonSpec

-----------------------------------------------------------------------------
(* What the clearing loops have done when a stage is reached.              *)
InodeZoneClean ==
  \A b \in stale :
    ~ Within(b, sb.inode_base, sb.inode_base + mxfs_inode_zone_nblocks(sb.ninodes))
BlockZoneClean ==
  \A b \in stale : ~ Within(b, sb.block_base, sb.block_base + sb.nblocks)

(* What the search for a free block will read.                             *)
BlockBitmapClean ==
  \A b \in stale :
    ~ Within(b, sb.block_bitmap_base,
             sb.block_bitmap_base + mxfs_block_bitmap_nblocks(sb.nblocks))

ClearedInv ==
  /\ RegisteredInv
  /\ stale \subseteq Int
  /\ pc \in {"block_bitmap", "block_zone"} => InodeZoneClean
  /\ pc = "block_zone" => BlockBitmapClean
  /\ pc \in {"flush", "root", "mounted"} /\ sb.nblocks # 0 =>
       InodeZoneClean /\ BlockBitmapClean /\ BlockZoneClean

FieldsNat(s) ==
  /\ s.ninodes \in Nat /\ s.nblocks \in Nat
  /\ s.inode_bitmap_base \in Nat /\ s.inode_base \in Nat
  /\ s.block_bitmap_base \in Nat /\ s.block_base \in Nat

LEMMA AllRegisteredNat ==
  ASSUME ninodes \in Nat, nblocks \in Nat
  PROVE  FieldsNat(Empty) /\ FieldsNat(WithInodes) /\ FieldsNat(Complete)
<1>2. \A x \in Int : x % UINT16 \in Nat
  BY Wraps
<1>3. /\ (ninodes % UINT16) \in Nat /\ (nblocks % UINT16) \in Nat
  BY <1>2
<1>4. /\ InodeBase(ninodes % UINT16) \in Nat
      /\ BlockBitmapBase(ninodes % UINT16) \in Nat
  <2>1. InodeBase(ninodes % UINT16) \in Nat
    <3>1. InodeBitmapBase + mxfs_inode_bitmap_nblocks(ninodes % UINT16) \in Int
      BY <1>3, NblocksNat DEF InodeBitmapBase, MX_SUPERBLOCK_INDEX
    <3>. QED BY <3>1, <1>2 DEF InodeBase
  <2>2. InodeBase(ninodes % UINT16) + mxfs_inode_zone_nblocks(ninodes % UINT16) \in Int
    BY <1>3, <2>1, NblocksNat
  <2>. QED BY <1>2, <2>1, <2>2 DEF BlockBitmapBase
<1>5. /\ (BlockBitmapBase(ninodes % UINT16) % UINT16) \in Nat
      /\ ((BlockBitmapBase(ninodes % UINT16) + BlockBitmapReserved(nblocks)) % UINT16) \in Nat
  <2>1. BlockBitmapBase(ninodes % UINT16) + BlockBitmapReserved(nblocks) \in Int
    BY <1>4, NblocksNat
  <2>. QED BY <1>2, <1>4, <2>1
<1>6. InodeBitmapBase \in Nat
  BY DEF InodeBitmapBase, MX_SUPERBLOCK_INDEX
<1>7. FieldsNat(Empty)
  BY DEF FieldsNat, Empty, ZeroSuperblock
<1>8. FieldsNat(WithInodes)
  BY <1>3, <1>4, <1>6
     DEF FieldsNat, WithInodes, mxfs_inode_bitmap_register, ZeroSuperblock
<1>9. FieldsNat(Complete)
  BY <1>3, <1>4, <1>5, <1>6
     DEF FieldsNat, Complete, RegisteredSuperblock, mxfs_inode_bitmap_register,
         mxfs_block_bitmap_register, ZeroSuperblock
<1>. QED BY <1>7, <1>8, <1>9

LEMMA RegisteredNat == ASSUME RegisteredInv PROVE FieldsNat(sb) /\ nblocks \in Nat
BY AllRegisteredNat, FormatAssumption DEF RegisteredInv

LEMMA ZoneBlocksInt == ASSUME NEW s, FieldsNat(s) PROVE ZoneBlocks(s) \subseteq Int
BY DEF FieldsNat, ZoneBlocks, MX_SUPERBLOCK_INDEX

LEMMA ZeroingCleans ==
  ASSUME NEW base \in Int, NEW count \in Int, stale \subseteq Int,
         ZeroBlocks(base, count)
  PROVE  /\ stale' \subseteq stale
         /\ \A b \in stale' : ~ Within(b, base, base + count)
BY DEF ZeroBlocks, Within

LEMMA ClearedInvInit == PoisonInit => ClearedInv
<1>. SUFFICES ASSUME PoisonInit PROVE ClearedInv
  OBVIOUS
<1>1. RegisteredInv
  BY RegisteredInvInit
<1>2. FieldsNat(Complete)
  BY <1>1, AllRegisteredNat, FormatAssumption DEF RegisteredInv
<1>3. stale \subseteq ZoneBlocks(Complete)
  BY DEF PoisonInit, FormatInit, Complete
<1>4. pc = "inode_bitmap"
  BY DEF PoisonInit, FormatInit
<1>. QED BY <1>1, <1>2, <1>3, <1>4, ZoneBlocksInt DEF ClearedInv

(* A number cut to a field has no more bitmap blocks than before.          *)
LEMMA CutSearchesLess ==
  ASSUME NEW n \in Nat
  PROVE  /\ mxfs_block_bitmap_nblocks(n) \in Nat
         /\ mxfs_block_bitmap_nblocks(n % UINT16) \in Nat
         /\ mxfs_block_bitmap_nblocks(n % UINT16) <= mxfs_block_bitmap_nblocks(n)
<1>1. PICK k \in Nat : k = n % UINT16 /\ k <= n
  BY ModLeq, SizesAssumption
<1>2. PICK p \in Nat, q \in Nat : p = k \div 8 /\ q = n \div 8 /\ p <= q
  BY <1>1, DivOrder
<1>3. /\ p \div MX_BLOCKSIZE \in Nat /\ q \div MX_BLOCKSIZE \in Nat
      /\ p \div MX_BLOCKSIZE <= q \div MX_BLOCKSIZE
  BY <1>2, DivOrder, SizesAssumption
<1>. QED BY <1>1, <1>2, <1>3 DEF mxfs_block_bitmap_nblocks

LEMMA ClearedInvStep ==
  ASSUME ClearedInv, [PoisonNext]_poisonVars
  PROVE  ClearedInv'
<1>. DEFINE count == mxfs_inode_zone_nblocks(sb.ninodes)
<1>1. RegisteredInv /\ RegisteredInv'
  BY RegisteredInvStep DEF ClearedInv
<1>2. FieldsNat(sb) /\ nblocks \in Nat /\ count \in Nat
  BY <1>1, RegisteredNat, NblocksNat DEF FieldsNat
<1>3. stale \subseteq Int
  BY DEF ClearedInv
<1>. USE DEF Goto, StageFails, AfterWriting
<1>4. CASE mxfs_inode_bitmap_init
  <2>1. stale' \subseteq stale
    BY <1>4 DEF mxfs_inode_bitmap_init, ZeroBlocks
  <2>2. pc' = "flush" => sb'.nblocks = 0
    BY <1>1, <1>4, UnregisteredHasNoBlocks
       DEF mxfs_inode_bitmap_init, RegisteredInv, Clears
  <2>3. pc' \in {"flush", "inode_zone", "undefined"}
    BY <1>4 DEF mxfs_inode_bitmap_init
  <2>. QED BY <1>1, <1>3, <2>1, <2>2, <2>3 DEF ClearedInv
<1>5. CASE mxfs_inode_zone_init
  <2>1. ZeroBlocks(sb.inode_base, count)
    BY <1>5 DEF mxfs_inode_zone_init
  <2>2. stale' \subseteq stale /\ InodeZoneClean'
    BY <1>2, <1>3, <1>5, <2>1, ZeroingCleans
       DEF mxfs_inode_zone_init, FieldsNat, InodeZoneClean
  <2>3. pc' \in {"flush", "block_bitmap", "undefined"} /\ sb'.nblocks = 0
    BY <1>1, <1>5, UnregisteredHasNoBlocks DEF mxfs_inode_zone_init, RegisteredInv
  <2>. QED BY <1>1, <1>3, <2>2, <2>3 DEF ClearedInv
<1>6. CASE mxfs_block_bitmap_init
  <2>1. stale' \subseteq stale
    BY <1>6 DEF mxfs_block_bitmap_init, ZeroBlocks
  <2>2. sb'.inode_base = sb.inode_base /\ sb'.ninodes = sb.ninodes
    BY <1>6 DEF mxfs_block_bitmap_init, mxfs_block_bitmap_register
  <2>3. InodeZoneClean'
    BY <1>6, <2>1, <2>2 DEF mxfs_block_bitmap_init, ClearedInv, InodeZoneClean
  <2>4. pc' = "flush" => sb'.nblocks = 0
    BY <1>1, <1>6, UnregisteredHasNoBlocks
       DEF mxfs_block_bitmap_init, RegisteredInv, Clears
  <2>5. pc' \in {"flush", "block_zone", "undefined"}
    BY <1>6 DEF mxfs_block_bitmap_init
  <2>6. pc' = "block_zone" => BlockBitmapClean'
    <3>. DEFINE base == (sb.inode_base + count) % UINT16
                cleared == mxfs_block_bitmap_nblocks(nblocks)
                read == mxfs_block_bitmap_nblocks(nblocks % UINT16)
    <3>1. base \in 0 .. UINT16 - 1 /\ base \in Int /\ base % UINT16 = base
      <4>1. base \in 0 .. UINT16 - 1
        BY <1>2, Wraps DEF FieldsNat
      <4>. HIDE DEF base
      <4>. QED BY <4>1, Held
    <3>2. cleared \in Nat /\ read \in Nat /\ read <= cleared
      BY <1>2, CutSearchesLess
    <3>3. SUFFICES ASSUME pc' = "block_zone" PROVE BlockBitmapClean'
      OBVIOUS
    <3>4. ZeroBlocks(base, cleared)
      BY <1>6 DEF mxfs_block_bitmap_init
    <3>5. sb'.block_bitmap_base = base /\ sb'.nblocks = nblocks % UINT16
      BY <1>6, <3>1, <3>3
         DEF mxfs_block_bitmap_init, mxfs_block_bitmap_register, Clears
    <3>6. stale' \subseteq stale /\ \A b \in stale' : ~ Within(b, base, base + cleared)
      <4>. HIDE DEF base, cleared
      <4>1. base \in Int /\ cleared \in Int
        BY <3>1, <3>2
      <4>. QED BY <1>3, <3>4, <4>1, ZeroingCleans, Zenon
    <3>7. \A b \in stale' : ~ Within(b, base, base + read)
      <4>. HIDE DEF base, cleared, read
      <4>. QED BY <1>3, <3>1, <3>2, <3>6 DEF Within
    <3>. QED BY <3>5, <3>7 DEF BlockBitmapClean
  <2>. QED BY <1>1, <1>3, <2>1, <2>3, <2>4, <2>5, <2>6 DEF ClearedInv
<1>7. CASE mxfs_block_zone_init
  <2>1. ZeroBlocks(sb.block_base, sb.nblocks)
    BY <1>7 DEF mxfs_block_zone_init
  <2>2. stale' \subseteq stale /\ BlockZoneClean'
    BY <1>2, <1>3, <1>7, <2>1, ZeroingCleans
       DEF mxfs_block_zone_init, FieldsNat, BlockZoneClean
  <2>3. InodeZoneClean' /\ BlockBitmapClean'
    BY <1>7, <2>2
       DEF mxfs_block_zone_init, ClearedInv, InodeZoneClean, BlockBitmapClean
  <2>4. pc' \in {"flush", "undefined"}
    BY <1>7 DEF mxfs_block_zone_init
  <2>. QED BY <1>1, <1>3, <2>2, <2>3, <2>4 DEF ClearedInv
<1>8. CASE FlushFormatted \/ mxfs_init_root_directory \/ PoisonStep \/ UNCHANGED formatVars
  <2>1. stale' \subseteq stale /\ sb' = sb
    BY <1>8, PoisonStepLeaves
       DEF FlushFormatted, mxfs_init_root_directory, ZeroBlocks, formatVars
  <2>2. \/ /\ pc \in {"flush", "root", "mounted"}
           /\ pc' \in {"root", "mounted", "unformatted", "aborted", "undefined"}
        \/ pc' = pc
    BY <1>8, PoisonStepLeaves DEF FlushFormatted, mxfs_init_root_directory, formatVars
  <2>3. /\ InodeZoneClean => InodeZoneClean'
        /\ BlockBitmapClean => BlockBitmapClean'
        /\ BlockZoneClean => BlockZoneClean'
    BY <2>1 DEF InodeZoneClean, BlockBitmapClean, BlockZoneClean
  <2>. QED BY <1>1, <1>3, <2>1, <2>2, <2>3 DEF ClearedInv
<1>9. CASE Reformat
  <2>1. stale' \subseteq Int
    BY <1>2, <1>3, <1>9, ZoneBlocksInt DEF Reformat
  <2>2. pc' = "inode_bitmap"
    BY <1>9 DEF Reformat
  <2>. QED BY <1>1, <2>1, <2>2 DEF ClearedInv
<1>. QED BY <1>4, <1>5, <1>6, <1>7, <1>8, <1>9, StepKinds DEF FormatNext

LEMMA ClearedInvImplies == ClearedInv => ZonesCleared
<1>. SUFFICES ASSUME ClearedInv, pc = "mounted", NEW b \in stale
              PROVE  /\ ~ Within(b, sb.inode_base, sb.block_bitmap_base)
                     /\ ~ Within(b, sb.block_base, sb.block_base + sb.nblocks)
  BY DEF ZonesCleared
<1>1. FieldsNat(sb) /\ b \in Int /\ RegisteredInv /\ ninodes \in Nat
  BY RegisteredNat DEF ClearedInv, RegisteredInv
<1>2. InodeZoneClean /\ BlockZoneClean
  BY DEF ClearedInv, RegisteredInv
<1>3. sb.block_bitmap_base <= sb.inode_base + mxfs_inode_zone_nblocks(sb.ninodes)
  <2>. DEFINE zone == sb.inode_base + mxfs_inode_zone_nblocks(sb.ninodes)
  <2>1. zone \in Nat
    BY <1>1, NblocksNat DEF FieldsNat
  <2>2. sb.block_bitmap_base = (zone % UINT16) % UINT16
    BY <1>1 DEF RegisteredInv, Complete, RegisteredSuperblock, BlockBitmapBase,
                mxfs_inode_bitmap_register, mxfs_block_bitmap_register
  <2>3. (zone % UINT16) % UINT16 <= zone
    <3>. HIDE DEF zone
    <3>. QED BY <2>1, ModTwiceLeq, SizesAssumption
  <2>. QED BY <2>2, <2>3
<1>. QED BY <1>1, <1>2, <1>3, NblocksNat
         DEF InodeZoneClean, BlockZoneClean, Within, FieldsNat

(* Whatever the disk held, on every disk and for every request, the inodes *)
(* and the data blocks of a mounted file system hold nothing of an earlier *)
(* one: no assumption bounds what is asked for.                            *)
THEOREM FormatClearsZones == PoisonSpec => []ZonesCleared
BY ClearedInvInit, ClearedInvStep, ClearedInvImplies, PTL DEF PoisonSpec

(* Whatever the disk held, on every disk, one of more than 2^32 bytes too, *)
(* and for every request, nothing the search for a free block reads was    *)
(* left by anyone else: numbers above a field's range lose blocks of the   *)
(* bitmap only after more of it was cleared.                               *)
THEOREM SearchReadsCleared == PoisonSpec => []SearchedBlocksCleared
<1>1. ClearedInv => SearchedBlocksCleared
  <2>. SUFFICES ASSUME ClearedInv, pc = "mounted" PROVE SearchedBlocksCleared
    BY DEF SearchedBlocksCleared
  <2>1. sb.nblocks # 0
    BY DEF ClearedInv, RegisteredInv
  <2>. QED BY <2>1 DEF ClearedInv, BlockBitmapClean, SearchedBlocksCleared
<1>. QED BY <1>1, ClearedInvInit, ClearedInvStep, PTL DEF PoisonSpec

-----------------------------------------------------------------------------
(* A setup that failed left a superblock without data blocks, and only     *)
(* because something did not fit.                                          *)
BitmapOnDisk ==
  /\ SizeMatches
  /\ Clears(InodeBitmapBase, InodeBitmapCleared(ninodes))

FitsInv ==
  /\ RegisteredInv
  /\ pc \in {"inode_zone", "block_bitmap", "block_zone"} => BitmapOnDisk
  /\ pc \in {"flush", "root"} => /\ sb.nblocks # 0 => BitmapOnDisk
                                 /\ sb = Complete \/ ~ Fits
  /\ pc = "mounted" => BitmapOnDisk /\ RootFits
  /\ pc \in {"aborted", "unformatted"} => ~ Fits
  /\ pc = "undefined" => disk.nblocks = 0

(* What fits leaves room for every block the stages write.                 *)
LEMMA FitsLeavesRoom ==
  ASSUME FieldsWide, BlocksCountable, RegisteredInv, Fits,
         NEW n \in 0 .. UINT16 - 1, n = ninodes % UINT16
  PROVE  /\ SizeMatches
         /\ Clears(InodeBitmapBase, InodeBitmapCleared(ninodes))
         /\ Clears(InodeBase(n), mxfs_inode_zone_nblocks(n))
         /\ Clears(BlockBitmapBase(n), mxfs_block_bitmap_nblocks(nblocks))
         /\ Clears(MX_SUPERBLOCK_INDEX, 1)
         /\ sb = Complete => RootFits
<1>. DEFINE full == Complete
<1>1. /\ n \in Nat /\ ninodes \in Nat /\ disk.nblocks \in Nat
      /\ nblocks \in 0 .. UINT16 - 1 /\ nblocks \in Nat
  BY SizesAssumption DEF RegisteredInv, BlocksCountable
<1>2. /\ full.ninodes = n /\ full.nblocks = nblocks
      /\ full.inode_base = InodeBase(n)
      /\ full.block_base = BlockBitmapBase(n) + BlockBitmapReserved(nblocks)
  <2>1. nblocks % UINT16 = nblocks
    BY <1>1, Held
  <2>2. (BlockBitmapBase(n) + BlockBitmapReserved(nblocks)) % UINT16
          = BlockBitmapBase(n) + BlockBitmapReserved(nblocks)
    BY <1>1, BasesUncut
  <2>. QED BY <2>1, <2>2
       DEF Complete, RegisteredSuperblock, mxfs_inode_bitmap_register,
           mxfs_block_bitmap_register
<1>. DEFINE i == InodeBase(n)
            z == mxfs_inode_zone_nblocks(n)
            b == BlockBitmapBase(n)
            r == BlockBitmapReserved(nblocks)
            c == mxfs_block_bitmap_nblocks(nblocks)
            k == InodeBitmapCleared(ninodes)
<1>3. i \in Nat /\ z \in Nat /\ b = i + z /\ r \in Nat
  BY <1>1, BasesUncut, NblocksNat
<1>4. c \in Nat /\ c <= r
  <2>. DEFINE q == nblocks \div 8
  <2>1. q \in Nat /\ MX_BLOCKSIZE \in Nat \ {0}
    BY <1>1, SizesAssumption
  <2>2. q \div MX_BLOCKSIZE \in Nat /\ (q + 1) \div MX_BLOCKSIZE \in Nat
        /\ q \div MX_BLOCKSIZE <= (q + 1) \div MX_BLOCKSIZE
    <3>. HIDE DEF q
    <3>. QED BY <2>1, DivMonotone
  <2>. QED BY <2>2 DEF mxfs_block_bitmap_nblocks, BlockBitmapReserved
<1>5. k \in Nat
  BY <1>1, SizesAssumption DEF InodeBitmapCleared
<1>6. /\ SizeMatches /\ full.ninodes >= 4 /\ full.nblocks >= 4
      /\ b + r + 4 <= disk.nblocks
      /\ InodeBitmapBase + k <= disk.nblocks
  BY <1>2 DEF Fits, Complete
<1>7. Clears(InodeBitmapBase, k)
  BY <1>1, <1>5, <1>6, <1>3
     DEF Clears, WritesOutside, ZeroFails, DiskHolds, InodeBitmapBase, MX_SUPERBLOCK_INDEX
<1>8. Clears(i, z) /\ Clears(b, c) /\ Clears(MX_SUPERBLOCK_INDEX, 1)
  <2>. HIDE DEF i, z, b, c, r
  <2>. QED BY <1>1, <1>3, <1>4, <1>6
           DEF Clears, WritesOutside, ZeroFails, DiskHolds, MX_SUPERBLOCK_INDEX
<1>9. ASSUME sb = Complete PROVE RootFits
  <2>1. \A x \in 0 .. 3 : /\ x < n /\ x < nblocks
                         /\ i < disk.nblocks /\ b + r + x < disk.nblocks
    <3>. HIDE DEF i, z, b, r
    <3>. QED BY <1>1, <1>2, <1>3, <1>6
  <2>. QED BY <1>2, <1>9, <2>1 DEF RootFits, DiskHolds
<1>. QED BY <1>6, <1>7, <1>8, <1>9

(* And a root directory that was stored shows that all of it fits.         *)
LEMMA RootShowsFit ==
  ASSUME RegisteredInv, sb = Complete, BitmapOnDisk, RootFits
  PROVE  Fits
<1>1. FieldsNat(sb) /\ disk.nblocks \in Nat /\ ninodes \in Nat
  BY RegisteredNat DEF RegisteredInv
<1>2. 3 < sb.ninodes /\ 3 < sb.nblocks /\ sb.block_base + 3 < disk.nblocks
  BY DEF RootFits, DiskHolds
<1>. DEFINE k == InodeBitmapCleared(ninodes)
<1>3. k \in Nat
  BY <1>1, SizesAssumption DEF InodeBitmapCleared
<1>4. InodeBitmapBase + k <= disk.nblocks
  <2>1. Clears(InodeBitmapBase, k)
    BY DEF BitmapOnDisk
  <2>2. InodeBitmapBase = 2
    BY DEF InodeBitmapBase, MX_SUPERBLOCK_INDEX
  <2>. HIDE DEF k
  <2>. QED BY <1>1, <1>2, <1>3, <2>1, <2>2
           DEF Clears, WritesOutside, ZeroFails, DiskHolds, FieldsNat
<1>. QED BY <1>1, <1>2, <1>4
         DEF Fits, BitmapOnDisk, Complete, FieldsNat

LEMMA FitsInvInit == PoisonInit => FitsInv
BY RegisteredInvInit DEF PoisonInit, FormatInit, FitsInv

LEMMA FitsInvStep ==
  ASSUME FieldsWide, BlocksCountable, FitsInv, [PoisonNext]_poisonVars
  PROVE  FitsInv'
<1>1. RegisteredInv /\ RegisteredInv'
  BY RegisteredInvStep DEF FitsInv
<1>2. PICK n \in 0 .. UINT16 - 1 : n = ninodes % UINT16
  <2>. DEFINE cut == ninodes % UINT16
  <2>1. cut \in 0 .. UINT16 - 1
    BY <1>1, ModRange, SizesAssumption DEF RegisteredInv
  <2>. HIDE DEF cut
  <2>. QED BY <2>1 DEF cut
<1>. USE DEF Goto, StageFails, AfterWriting
<1>3. ASSUME UNCHANGED <<ninodes, nblocks, disk>>
      PROVE  /\ Fits' = Fits /\ BitmapOnDisk' = BitmapOnDisk
             /\ Complete' = Complete
  BY <1>3 DEF Fits, BitmapOnDisk, Complete, SizeMatches, Clears, WritesOutside,
              ZeroFails, DiskHolds
<1>4. CASE mxfs_inode_bitmap_init
  <2>1. UNCHANGED <<ninodes, nblocks, disk>>
    BY <1>4 DEF mxfs_inode_bitmap_init
  <2>2. \/ pc' = "inode_zone" /\ BitmapOnDisk
        \/ pc' = "flush" /\ ~ BitmapOnDisk
        \/ pc' = "undefined" /\ disk.nblocks = 0
    BY <1>4 DEF mxfs_inode_bitmap_init, BitmapOnDisk, Clears, WritesOutside
  <2>3. ~ BitmapOnDisk => ~ Fits
    BY <1>1, <1>2, FitsLeavesRoom DEF BitmapOnDisk
  <2>4. pc' = "flush" => sb'.nblocks = 0
    BY <1>1, <1>4, UnregisteredHasNoBlocks
       DEF mxfs_inode_bitmap_init, RegisteredInv, Clears
  <2>. QED BY <1>1, <1>3, <2>1, <2>2, <2>3, <2>4 DEF FitsInv
<1>5. CASE mxfs_inode_zone_init
  <2>1. UNCHANGED <<ninodes, nblocks, disk>> /\ BitmapOnDisk
    BY <1>5 DEF mxfs_inode_zone_init, FitsInv
  <2>2. sb.inode_base = InodeBase(n) /\ sb.ninodes = n
    BY <1>1, <1>2, <1>5, ThirdBase DEF mxfs_inode_zone_init, RegisteredInv
  <2>3. \/ pc' = "block_bitmap"
        \/ pc' = "flush" /\ ~ Clears(InodeBase(n), mxfs_inode_zone_nblocks(n))
        \/ pc' = "undefined" /\ disk.nblocks = 0
    BY <1>5, <2>2 DEF mxfs_inode_zone_init, Clears, WritesOutside
  <2>4. ~ Clears(InodeBase(n), mxfs_inode_zone_nblocks(n)) => ~ Fits
    BY <1>1, <1>2, FitsLeavesRoom
  <2>. QED BY <1>1, <1>3, <2>1, <2>3, <2>4 DEF FitsInv
<1>6. CASE mxfs_block_bitmap_init
  <2>1. UNCHANGED <<ninodes, nblocks, disk>> /\ BitmapOnDisk
    BY <1>6 DEF mxfs_block_bitmap_init, FitsInv
  <2>2. (sb.inode_base + mxfs_inode_zone_nblocks(sb.ninodes)) % UINT16
           = BlockBitmapBase(n)
    BY <1>1, <1>2, <1>6, ThirdBase DEF mxfs_block_bitmap_init, RegisteredInv
  <2>3. \/ pc' = "block_zone"
        \/ pc' = "flush" /\ ~ Clears(BlockBitmapBase(n), mxfs_block_bitmap_nblocks(nblocks))
        \/ pc' = "undefined" /\ disk.nblocks = 0
    BY <1>6, <2>2 DEF mxfs_block_bitmap_init, Clears, WritesOutside
  <2>4. ~ Clears(BlockBitmapBase(n), mxfs_block_bitmap_nblocks(nblocks)) => ~ Fits
    BY <1>1, <1>2, FitsLeavesRoom
  <2>. QED BY <1>1, <1>3, <2>1, <2>3, <2>4 DEF FitsInv
<1>7. CASE mxfs_block_zone_init
  <2>1. UNCHANGED <<ninodes, nblocks, disk, sb>> /\ BitmapOnDisk /\ sb = Complete
    BY <1>1, <1>7 DEF mxfs_block_zone_init, FitsInv, RegisteredInv
  <2>2. \/ pc' = "flush"
        \/ pc' = "undefined" /\ disk.nblocks = 0
    BY <1>7 DEF mxfs_block_zone_init, WritesOutside
  <2>. QED BY <1>1, <1>3, <2>1, <2>2 DEF FitsInv
<1>8. CASE FlushFormatted
  <2>1. UNCHANGED <<ninodes, nblocks, disk, sb>>
    BY <1>8 DEF FlushFormatted
  <2>2. \/ pc' = "root"
        \/ pc' = "unformatted" /\ ~ Clears(MX_SUPERBLOCK_INDEX, 1)
        \/ pc' = "undefined" /\ disk.nblocks = 0
    BY <1>8 DEF FlushFormatted, Clears, WritesOutside
  <2>3. ~ Clears(MX_SUPERBLOCK_INDEX, 1) => ~ Fits
    BY <1>1, <1>2, FitsLeavesRoom
  <2>4. /\ sb.nblocks # 0 => BitmapOnDisk
        /\ sb = Complete \/ ~ Fits
    BY <1>8 DEF FlushFormatted, FitsInv
  <2>. QED BY <1>1, <1>3, <2>1, <2>2, <2>3, <2>4 DEF FitsInv
<1>9. CASE mxfs_init_root_directory
  <2>1. UNCHANGED <<ninodes, nblocks, disk, sb>>
    BY <1>9 DEF mxfs_init_root_directory
  <2>2. /\ sb.nblocks # 0 => BitmapOnDisk
        /\ sb = Complete \/ ~ Fits
    BY <1>9 DEF mxfs_init_root_directory, FitsInv
  <2>3. RootFits' = RootFits
    BY <2>1 DEF RootFits, DiskHolds
  <2>4. CASE RootFits
    <3>1. 0 < sb.nblocks
      BY <2>4 DEF RootFits
    <3>2. pc' = "mounted"
      BY <1>9, <2>4 DEF mxfs_init_root_directory
    <3>3. BitmapOnDisk
      BY <2>2, <3>1
    <3>. QED BY <1>1, <1>3, <2>1, <2>3, <2>4, <3>2, <3>3 DEF FitsInv
  <2>5. CASE ~ RootFits
    <3>1. pc' = "aborted"
      BY <1>9, <2>5 DEF mxfs_init_root_directory
    <3>2. ~ Fits
      BY <1>1, <1>2, <2>2, <2>5, FitsLeavesRoom
    <3>. QED BY <1>1, <1>3, <2>1, <3>1, <3>2 DEF FitsInv
  <2>. QED BY <2>4, <2>5
<1>10. CASE Reformat
  BY <1>1, <1>10 DEF Reformat, FitsInv
<1>11. CASE PoisonStep \/ UNCHANGED formatVars
  <2>1. UNCHANGED <<pc, ninodes, nblocks, disk, sb>>
    BY <1>11, PoisonStepLeaves DEF formatVars
  <2>2. RootFits' = RootFits
    BY <2>1 DEF RootFits, DiskHolds
  <2>. QED BY <1>1, <1>3, <2>1, <2>2 DEF FitsInv
<1>. QED BY <1>4, <1>5, <1>6, <1>7, <1>8, <1>9, <1>10, <1>11, StepKinds
         DEF FormatNext

(* A disk is mounted exactly when what was asked for fits on it: the two   *)
(* checks mxfs_init makes, on single writes, are enough to know.           *)
THEOREM MountsWhatFits ==
  ASSUME FieldsWide, BlocksCountable
  PROVE  PoisonSpec => []MountsExactlyWhenItFits
<1>1. FitsInv => MountsExactlyWhenItFits
  BY RootShowsFit DEF FitsInv, RegisteredInv, MountsExactlyWhenItFits, Complete
<1>. QED BY <1>1, FitsInvInit, FitsInvStep, PTL DEF PoisonSpec

-----------------------------------------------------------------------------
(* How many blocks the bitmaps' loops write and the inode zone's, beside   *)
(* what the layout reserves for them.                                      *)
LEMMA FilledBitmap ==
  ASSUME NEW n \in Nat
  PROVE  /\ FilledBlocks(n \div 8 + 1) \in Nat
         /\ FilledBlocks(n \div 8 + 1) = mxfs_inode_bitmap_nblocks(n)
         /\ FilledBlocks(n \div 8 + 1) <= BlockBitmapReserved(n)
<1>. DEFINE q == n \div 8
            u == MX_BLOCKSIZE
<1>1. q \in Nat /\ u \in Nat \ {0}
  BY SizesAssumption
<1>2. FilledBlocks(q + 1) = (q + u) \div u
  BY <1>1 DEF FilledBlocks
<1>3. /\ (q + u) \div u = q \div u + 1
      /\ q \div u \in Nat /\ q \div u <= (q + 1) \div u
      /\ (q + 1) \div u \in Nat
  <2>. HIDE DEF q, u
  <2>. QED BY <1>1, DivMonotone, DivOneMore
<1>. QED BY <1>2, <1>3 DEF mxfs_inode_bitmap_nblocks, BlockBitmapReserved

LEMMA FilledInodes ==
  ASSUME NEW n \in Nat
  PROVE  /\ FilledBlocks(n * SIZEOF_DISK_INODE) \in Nat
         /\ FilledBlocks(n * SIZEOF_DISK_INODE) <= mxfs_inode_zone_nblocks(n)
<1>. DEFINE x == n * SIZEOF_DISK_INODE
            u == MX_BLOCKSIZE
<1>1. x \in Nat /\ u \in Nat \ {0} /\ (n = 0 => x = 0)
  BY SizesAssumption DEF SIZEOF_DISK_INODE
<1>2. /\ (x + u - 1) \div u \in Nat /\ (x + u - 1) \div u <= x \div u + 1
      /\ (x = 0 => (x + u - 1) \div u = 0)
  <2>. HIDE DEF x, u
  <2>. QED BY <1>1, DivCeiling
<1>. QED BY <1>1, <1>2 DEF FilledBlocks, mxfs_inode_zone_nblocks

PoisonInv == RegisteredInv /\ PoisonStaysInZone

LEMMA PoisonInvInit == PoisonInit => PoisonInv
BY RegisteredInvInit DEF PoisonInit, NoPoison, PoisonInv, PoisonStaysInZone, Poisoned

LEMMA FillStaysInZone ==
  ASSUME NEW zone, NEW base \in Nat, NEW count \in Nat, Fill(zone, base, count),
         disk.nblocks \in Nat,
         ZoneFirst(zone) = base, base + count <= ZoneEnd(zone), ZoneEnd(zone) \in Nat
  PROVE  PoisonStaysInZone'
<1>1. /\ poison'.zone = zone /\ poison'.first = base
      /\ poison'.end <= base + count /\ poison'.end \in Nat
  BY DEF Fill
<1>2. ZoneFirst(zone)' = ZoneFirst(zone) /\ ZoneEnd(zone)' = ZoneEnd(zone)
  BY DEF Fill, ZoneFirst, ZoneEnd
<1>3. poison'.end <= ZoneEnd(zone) /\ ZoneFirst(zone) <= poison'.first
  BY <1>1
<1>. QED BY <1>1, <1>2, <1>3 DEF PoisonStaysInZone

LEMMA PoisonInvStep ==
  ASSUME FieldsWide, BlocksCountable, PoisonInv, [PoisonNext]_poisonVars
  PROVE  PoisonInv'
<1>1. RegisteredInv /\ RegisteredInv'
  BY RegisteredInvStep DEF PoisonInv
<1>2. ASSUME pc = "mounted"
      PROVE  /\ sb.ninodes \in Nat /\ sb.nblocks \in Nat /\ disk.nblocks \in Nat
             /\ sb.inode_bitmap_base \in Nat
             /\ sb.inode_base = sb.inode_bitmap_base + mxfs_inode_bitmap_nblocks(sb.ninodes)
             /\ sb.block_bitmap_base = sb.inode_base + mxfs_inode_zone_nblocks(sb.ninodes)
             /\ sb.block_base = sb.block_bitmap_base + BlockBitmapReserved(sb.nblocks)
             /\ sb.inode_base \in Nat /\ sb.block_bitmap_base \in Nat
             /\ sb.block_base \in Nat
  BY <1>1, <1>2, ZonesFollow, RegisteredNat DEF FieldsNat, RegisteredInv
<1>3. CASE FormatStep
  BY <1>1, <1>3 DEF FormatStep, NoPoison, PoisonInv, PoisonStaysInZone, Poisoned
<1>4. CASE mxfs_inode_bitmap_poison
  <2>1. pc = "mounted"
    BY <1>4 DEF mxfs_inode_bitmap_poison, Fill
  <2>2. /\ ZoneFirst("inode_bitmap") = sb.inode_bitmap_base
        /\ ZoneEnd("inode_bitmap") = sb.inode_base
    BY DEF ZoneFirst, ZoneEnd
  <2>3. PoisonStaysInZone'
    BY <1>2, <1>4, <2>1, <2>2, FilledBitmap, FillStaysInZone DEF mxfs_inode_bitmap_poison
  <2>. QED BY <1>1, <2>3 DEF PoisonInv
<1>5. CASE mxfs_inode_zone_poison
  <2>1. pc = "mounted"
    BY <1>5 DEF mxfs_inode_zone_poison, Fill
  <2>2. /\ ZoneFirst("inode_zone") = sb.inode_base
        /\ ZoneEnd("inode_zone") = sb.block_bitmap_base
    BY DEF ZoneFirst, ZoneEnd
  <2>3. PoisonStaysInZone'
    BY <1>2, <1>5, <2>1, <2>2, FilledInodes, NblocksNat, FillStaysInZone
       DEF mxfs_inode_zone_poison
  <2>. QED BY <1>1, <2>3 DEF PoisonInv
<1>6. CASE mxfs_block_bitmap_poison
  <2>1. pc = "mounted"
    BY <1>6 DEF mxfs_block_bitmap_poison, Fill
  <2>2. /\ ZoneFirst("block_bitmap") = sb.block_bitmap_base
        /\ ZoneEnd("block_bitmap") = sb.block_base
    BY DEF ZoneFirst, ZoneEnd
  <2>. DEFINE count == FilledBlocks(sb.nblocks \div 8 + 1)
  <2>4. /\ count \in Nat /\ count <= BlockBitmapReserved(sb.nblocks)
        /\ BlockBitmapReserved(sb.nblocks) \in Nat
    BY <1>2, <2>1, FilledBitmap, NblocksNat
  <2>5. Fill("block_bitmap", sb.block_bitmap_base, count)
    BY <1>6 DEF mxfs_block_bitmap_poison
  <2>6. sb.block_bitmap_base + count <= ZoneEnd("block_bitmap")
    <3>. HIDE DEF count
    <3>. QED BY <1>2, <2>1, <2>2, <2>4
  <2>3. PoisonStaysInZone'
    <3>. HIDE DEF count
    <3>. QED BY <1>2, <2>1, <2>2, <2>4, <2>5, <2>6, FillStaysInZone
  <2>. QED BY <1>1, <2>3 DEF PoisonInv
<1>7. CASE mxfs_block_zone_poison
  <2>1. pc = "mounted"
    BY <1>7 DEF mxfs_block_zone_poison, Fill
  <2>2. /\ ZoneFirst("block_zone") = sb.block_base
        /\ ZoneEnd("block_zone") = sb.block_base + sb.nblocks
    BY DEF ZoneFirst, ZoneEnd
  <2>3. PoisonStaysInZone'
    BY <1>2, <1>7, <2>1, <2>2, FillStaysInZone DEF mxfs_block_zone_poison
  <2>. QED BY <1>1, <2>3 DEF PoisonInv
<1>8. CASE UNCHANGED poisonVars
  BY <1>1, <1>8 DEF poisonVars, formatVars, PoisonInv, PoisonStaysInZone, Poisoned,
                    ZoneFirst, ZoneEnd
<1>. QED BY <1>3, <1>4, <1>5, <1>6, <1>7, <1>8 DEF PoisonNext

(* Poisoning one zone never reaches into the next, for every size of the   *)
(* file system and of the disk.                                            *)
THEOREM PoisonKeepsNextZone ==
  ASSUME FieldsWide, BlocksCountable
  PROVE  PoisonSpec => []PoisonStaysInZone
BY PoisonInvInit, PoisonInvStep, PTL DEF PoisonSpec, PoisonInv

(* Poisoning one zone writes each of its blocks that is in use, and its    *)
(* result tells a zone that fits the disk from one that does not.          *)
LEMMA FillCovers ==
  ASSUME NEW zone, NEW base \in Nat, NEW count \in Nat, Fill(zone, base, count),
         disk.nblocks \in Nat, stale \subseteq Int,
         NEW last \in Int, LastUsed(zone) = last, ZoneFirst(zone) = base,
         last < base + count,
         base + count <= disk.nblocks \/ last = base + count - 1
  PROVE  PoisonCovers'
<1>1. LastUsed(zone)' = last /\ ZoneFirst(zone)' = base
  BY DEF Fill, LastUsed, ZoneFirst
<1>2. /\ poison'.zone = zone
      /\ disk' = disk
  BY DEF Fill
<1>3. CASE base + count <= disk.nblocks
  <2>1. /\ poison'.result = 0 /\ poison'.end = base + count
        /\ stale' = stale \ (base .. base + count - 1)
    BY <1>3 DEF Fill
  <2>2. \A b \in stale' : ~ (base <= b /\ b < last + 1)
    BY <2>1
  <2>3. last < disk'.nblocks
    BY <1>2, <1>3
  <2>. QED BY <1>1, <1>2, <2>1, <2>2, <2>3 DEF PoisonCovers, Within, DiskHolds
<1>4. CASE ~ (base + count <= disk.nblocks)
  <2>1. poison'.result = -1
    BY <1>4 DEF Fill
  <2>2. ~ (last < disk'.nblocks)
    BY <1>2, <1>4
  <2>. QED BY <1>1, <1>2, <2>1, <2>2 DEF PoisonCovers, DiskHolds
<1>. QED BY <1>3, <1>4

(* The block of the last of n bytes, when n bytes take whole blocks.       *)
LEMMA LastByte ==
  ASSUME NEW n \in Nat, n > 0
  PROVE  /\ FilledBlocks(n) \in Nat
         /\ (n - 1) \div MX_BLOCKSIZE = FilledBlocks(n) - 1
<1>. DEFINE u == MX_BLOCKSIZE
            x == n - 1
<1>1. u \in Nat \ {0} /\ x \in Nat
  BY SizesAssumption
<1>2. (x + u) \div u = x \div u + 1 /\ x \div u \in Nat
  <2>. HIDE DEF u, x
  <2>. QED BY <1>1, DivOneMore, DivMonotone
<1>3. x + u = n + u - 1
  BY <1>1
<1>. QED BY <1>2, <1>3 DEF FilledBlocks

(* The bit before n lies in a block its bitmap's loop fills.               *)
LEMMA LastBit ==
  ASSUME NEW n \in Nat, n > 0
  PROVE  /\ ((n - 1) \div 8) \div MX_BLOCKSIZE \in Nat
         /\ ((n - 1) \div 8) \div MX_BLOCKSIZE < FilledBlocks(n \div 8 + 1)
<1>. DEFINE u == MX_BLOCKSIZE
            p == (n - 1) \div 8
            q == n \div 8
<1>1. u \in Nat \ {0} /\ p \in Nat /\ q \in Nat /\ (p = q \/ p + 1 = q)
  BY SizesAssumption
<1>2. /\ p \div u \in Nat /\ q \div u \in Nat
      /\ p \div u <= q \div u
      /\ (q + u) \div u = q \div u + 1
  <2>. HIDE DEF u, p, q
  <2>1. /\ p \div u \in Nat /\ (p + 1) \div u \in Nat
        /\ p \div u <= (p + 1) \div u
    BY <1>1, DivMonotone
  <2>2. (q + u) \div u = q \div u + 1
    BY <1>1, DivOneMore
  <2>. QED BY <1>1, <2>1, <2>2
<1>3. FilledBlocks(q + 1) = (q + u) \div u
  BY <1>1 DEF FilledBlocks
<1>. QED BY <1>2, <1>3

CoversInv == FitsInv /\ ClearedInv /\ PoisonCovers

LEMMA CoversInvInit == PoisonInit => CoversInv
BY FitsInvInit, ClearedInvInit DEF PoisonInit, NoPoison, CoversInv, PoisonCovers, Poisoned

LEMMA CoversInvStep ==
  ASSUME FieldsWide, BlocksCountable, CoversInv, [PoisonNext]_poisonVars
  PROVE  CoversInv'
<1>1. FitsInv /\ FitsInv' /\ ClearedInv /\ ClearedInv' /\ RegisteredInv
  BY FitsInvStep, ClearedInvStep DEF CoversInv, FitsInv
<1>2. stale \subseteq Int
  BY <1>1 DEF ClearedInv
<1>3. ASSUME pc = "mounted"
      PROVE  /\ sb.ninodes \in Nat /\ sb.ninodes > 0
             /\ sb.nblocks \in Nat /\ sb.nblocks > 0
             /\ disk.nblocks \in Nat
             /\ sb.inode_bitmap_base \in Nat /\ sb.inode_base \in Nat
             /\ sb.block_bitmap_base \in Nat /\ sb.block_base \in Nat
             /\ sb.inode_base = sb.inode_bitmap_base + mxfs_inode_bitmap_nblocks(sb.ninodes)
             /\ sb.block_bitmap_base = sb.inode_base + mxfs_inode_zone_nblocks(sb.ninodes)
             /\ sb.block_base = sb.block_bitmap_base + BlockBitmapReserved(sb.nblocks)
             /\ sb.block_base < disk.nblocks
  <2>1. RootFits
    BY <1>1, <1>3 DEF FitsInv
  <2>2. 0 < sb.ninodes /\ 0 < sb.nblocks /\ sb.block_base + 0 < disk.nblocks
    BY <2>1 DEF RootFits, DiskHolds
  <2>. QED BY <1>1, <1>3, <2>2, ZonesFollow, RegisteredNat DEF FieldsNat, RegisteredInv
<1>4. /\ mxfs_inode_bitmap_nblocks(sb.ninodes) \in Nat
      /\ mxfs_inode_zone_nblocks(sb.ninodes) \in Nat
      /\ BlockBitmapReserved(sb.nblocks) \in Nat
  BY <1>1, RegisteredNat, NblocksNat DEF FieldsNat
<1>5. CASE FormatStep
  BY <1>1, <1>5 DEF FormatStep, NoPoison, CoversInv, PoisonCovers, Poisoned
<1>6. CASE mxfs_inode_bitmap_poison
  <2>. DEFINE base == sb.inode_bitmap_base
              count == FilledBlocks(sb.ninodes \div 8 + 1)
              last == base + ((sb.ninodes - 1) \div 8) \div MX_BLOCKSIZE
  <2>1. pc = "mounted" /\ Fill("inode_bitmap", base, count)
    BY <1>6 DEF mxfs_inode_bitmap_poison, Fill
  <2>2. LastUsed("inode_bitmap") = last /\ ZoneFirst("inode_bitmap") = base
    BY DEF LastUsed, ZoneFirst
  <2>3. /\ count \in Nat /\ count = mxfs_inode_bitmap_nblocks(sb.ninodes)
        /\ last \in Int /\ last < base + count
    <3>1. /\ count \in Nat /\ count = mxfs_inode_bitmap_nblocks(sb.ninodes)
          /\ ((sb.ninodes - 1) \div 8) \div MX_BLOCKSIZE \in Nat
          /\ ((sb.ninodes - 1) \div 8) \div MX_BLOCKSIZE < count
      BY <1>3, <2>1, FilledBitmap, LastBit
    <3>. HIDE DEF count
    <3>. QED BY <1>3, <2>1, <3>1
  <2>4. base + count <= disk.nblocks
    <3>. HIDE DEF count, last
    <3>. QED BY <1>3, <1>4, <2>1, <2>3
  <2>5. PoisonCovers'
    <3>. HIDE DEF count, last
    <3>. QED BY <1>2, <1>3, <2>1, <2>2, <2>3, <2>4, FillCovers
  <2>. QED BY <1>1, <2>5 DEF CoversInv
<1>7. CASE mxfs_inode_zone_poison
  <2>. DEFINE base == sb.inode_base
              bytes == sb.ninodes * SIZEOF_DISK_INODE
              count == FilledBlocks(bytes)
              last == base + (bytes - 1) \div MX_BLOCKSIZE
  <2>1. pc = "mounted" /\ Fill("inode_zone", base, count)
    BY <1>7 DEF mxfs_inode_zone_poison, Fill
  <2>2. LastUsed("inode_zone") = last /\ ZoneFirst("inode_zone") = base
    BY DEF LastUsed, ZoneFirst
  <2>3. count \in Nat /\ last = base + count - 1
    <3>1. bytes \in Nat /\ bytes > 0
      BY <1>3, <2>1 DEF SIZEOF_DISK_INODE
    <3>2. count \in Nat /\ (bytes - 1) \div MX_BLOCKSIZE = count - 1
      <4>. HIDE DEF bytes
      <4>. QED BY <3>1, LastByte
    <3>. HIDE DEF count, bytes
    <3>. QED BY <1>3, <2>1, <3>2
  <2>4. PoisonCovers'
    <3>. HIDE DEF count, last
    <3>. QED BY <1>2, <1>3, <2>1, <2>2, <2>3, FillCovers
  <2>. QED BY <1>1, <2>4 DEF CoversInv
<1>8. CASE mxfs_block_bitmap_poison
  <2>. DEFINE base == sb.block_bitmap_base
              count == FilledBlocks(sb.nblocks \div 8 + 1)
              last == base + ((sb.nblocks - 1) \div 8) \div MX_BLOCKSIZE
  <2>1. pc = "mounted" /\ Fill("block_bitmap", base, count)
    BY <1>8 DEF mxfs_block_bitmap_poison, Fill
  <2>2. LastUsed("block_bitmap") = last /\ ZoneFirst("block_bitmap") = base
    BY DEF LastUsed, ZoneFirst
  <2>3. /\ count \in Nat /\ count <= BlockBitmapReserved(sb.nblocks)
        /\ last \in Int /\ last < base + count
    <3>1. /\ count \in Nat /\ count <= BlockBitmapReserved(sb.nblocks)
          /\ ((sb.nblocks - 1) \div 8) \div MX_BLOCKSIZE \in Nat
          /\ ((sb.nblocks - 1) \div 8) \div MX_BLOCKSIZE < count
      BY <1>3, <2>1, FilledBitmap, LastBit
    <3>. HIDE DEF count
    <3>. QED BY <1>3, <2>1, <3>1
  <2>4. base + count <= disk.nblocks
    <3>. HIDE DEF count, last
    <3>. QED BY <1>3, <1>4, <2>1, <2>3
  <2>5. PoisonCovers'
    <3>. HIDE DEF count, last
    <3>. QED BY <1>2, <1>3, <2>1, <2>2, <2>3, <2>4, FillCovers
  <2>. QED BY <1>1, <2>5 DEF CoversInv
<1>9. CASE mxfs_block_zone_poison
  <2>1. pc = "mounted" /\ Fill("block_zone", sb.block_base, sb.nblocks)
    BY <1>9 DEF mxfs_block_zone_poison, Fill
  <2>2. /\ LastUsed("block_zone") = sb.block_base + sb.nblocks - 1
        /\ ZoneFirst("block_zone") = sb.block_base
    BY DEF LastUsed, ZoneFirst
  <2>3. PoisonCovers'
    BY <1>2, <1>3, <2>1, <2>2, FillCovers
  <2>. QED BY <1>1, <2>3 DEF CoversInv
<1>10. CASE UNCHANGED poisonVars
  BY <1>1, <1>10 DEF poisonVars, formatVars, CoversInv, PoisonCovers, Poisoned,
                     ZoneFirst, LastUsed, DiskHolds
<1>. QED BY <1>5, <1>6, <1>7, <1>8, <1>9, <1>10 DEF PoisonNext

(* For every size of the file system and of the disk, a poison function    *)
(* that returns 0 has written over all its zone uses, and one that returns *)
(* -1 has met the end of the disk.                                         *)
THEOREM PoisonReachesAll ==
  ASSUME FieldsWide, BlocksCountable
  PROVE  PoisonSpec => []PoisonCovers
BY CoversInvInit, CoversInvStep, PTL DEF PoisonSpec, CoversInv

-----------------------------------------------------------------------------
(* No action but a second formatting makes a block stale.                  *)
LEMMA StaleShrinks ==
  ASSUME [PoisonNext]_poisonVars
  PROVE  \/ Reformat
         \/ stale' \subseteq stale /\ UNCHANGED <<disk, fresh, ninodes, nblocks>>
<1>1. CASE \/ mxfs_inode_bitmap_init \/ mxfs_inode_zone_init
           \/ mxfs_block_bitmap_init \/ mxfs_block_zone_init
           \/ FlushFormatted \/ mxfs_init_root_directory
  BY <1>1 DEF mxfs_inode_bitmap_init, mxfs_inode_zone_init, mxfs_block_bitmap_init,
              mxfs_block_zone_init, FlushFormatted, mxfs_init_root_directory, ZeroBlocks
<1>2. CASE PoisonStep \/ UNCHANGED formatVars
  BY <1>2, PoisonStepLeaves DEF formatVars
<1>. QED BY <1>1, <1>2, StepKinds DEF FormatNext

-----------------------------------------------------------------------------
(* A field of a superblock is a natural number below the field's width.    *)
FieldsFit(s) == s \in Superblock /\ \A field \in DOMAIN s : s[field] < UINT16

(* The first inode bitmap block's number fits a field.                     *)
SecondBlockFits == InodeBitmapBase < UINT16

LEMMA WrappedFits == \A x \in Int : x % UINT16 \in Nat /\ x % UINT16 < UINT16
BY Wraps, SizesAssumption

LEMMA ZeroFits == FieldsFit(ZeroSuperblock)
BY SizesAssumption DEF FieldsFit, ZeroSuperblock, Superblock

LEMMA RegisteredFits ==
  ASSUME SecondBlockFits, NEW n \in Nat, NEW m \in Nat
  PROVE  /\ FieldsFit(mxfs_inode_bitmap_register(ZeroSuperblock, n))
         /\ FieldsFit(RegisteredSuperblock(n, m))
<1>1. PICK k \in Nat : k = n % UINT16 /\ k < UINT16
  BY WrappedFits
<1>2. PICK z \in Nat : z = m % UINT16 /\ z < UINT16
  BY WrappedFits
<1>3. PICK i \in Nat : i = InodeBase(k) /\ i < UINT16
  <2>1. InodeBitmapBase + mxfs_inode_bitmap_nblocks(k) \in Int
    BY NblocksNat DEF InodeBitmapBase, MX_SUPERBLOCK_INDEX
  <2>. QED BY <2>1, WrappedFits DEF InodeBase
<1>4. PICK base \in Nat : base = BlockBitmapBase(k)
  <2>1. i + mxfs_inode_zone_nblocks(k) \in Int
    BY NblocksNat
  <2>. QED BY <1>3, <2>1, WrappedFits DEF BlockBitmapBase
<1>5. PICK b \in Nat : b = base % UINT16 /\ b < UINT16
  BY WrappedFits
<1>6. PICK d \in Nat : d = (base + BlockBitmapReserved(m)) % UINT16 /\ d < UINT16
  <2>1. base + BlockBitmapReserved(m) \in Int
    BY NblocksNat
  <2>. QED BY <2>1, WrappedFits
<1>7. InodeBitmapBase \in Nat /\ InodeBitmapBase < UINT16 /\ 0 < UINT16
  BY SizesAssumption DEF InodeBitmapBase, MX_SUPERBLOCK_INDEX, SecondBlockFits
<1>8. FieldsFit([ninodes |-> k, inodes_used |-> 0,
                 inode_bitmap_base |-> InodeBitmapBase, inode_base |-> i,
                 nblocks |-> 0, blocks_used |-> 0,
                 block_bitmap_base |-> 0, block_base |-> 0])
  BY <1>1, <1>3, <1>7 DEF FieldsFit, Superblock
<1>9. FieldsFit([ninodes |-> k, inodes_used |-> 0,
                 inode_bitmap_base |-> InodeBitmapBase, inode_base |-> i,
                 nblocks |-> z, blocks_used |-> 0,
                 block_bitmap_base |-> b, block_base |-> d])
  BY <1>1, <1>2, <1>3, <1>5, <1>6, <1>7 DEF FieldsFit, Superblock
<1>10. mxfs_inode_bitmap_register(ZeroSuperblock, n)
         = [ninodes |-> k, inodes_used |-> 0,
            inode_bitmap_base |-> InodeBitmapBase, inode_base |-> i,
            nblocks |-> 0, blocks_used |-> 0,
            block_bitmap_base |-> 0, block_base |-> 0]
  BY <1>1, <1>3 DEF mxfs_inode_bitmap_register, ZeroSuperblock
<1>11. RegisteredSuperblock(n, m)
         = [ninodes |-> k, inodes_used |-> 0,
            inode_bitmap_base |-> InodeBitmapBase, inode_base |-> i,
            nblocks |-> z, blocks_used |-> 0,
            block_bitmap_base |-> b, block_base |-> d]
  BY <1>1, <1>2, <1>4, <1>5, <1>6, <1>10
     DEF RegisteredSuperblock, mxfs_block_bitmap_register
<1>. QED BY <1>8, <1>9, <1>10, <1>11

LEMMA ZoneBlocksOnDisk ==
  ASSUME NEW s, FieldsNat(s)
  PROVE  \A b \in ZoneBlocks(s) : b \in Nat /\ DiskHolds(b)
<1>1. \A b \in ZoneBlocks(s) : b >= 0 /\ DiskHolds(b)
  BY DEF ZoneBlocks
<1>. QED BY <1>1, ZoneBlocksInt

LEMMA FormatTypeInit == PoisonInit => FormatTypeOK
<1>. SUFFICES ASSUME PoisonInit PROVE FormatTypeOK
  OBVIOUS
<1>1. FieldsNat(Complete)
  BY RegisteredInvInit, AllRegisteredNat, FormatAssumption DEF RegisteredInv
<1>2. \A b \in stale : b \in Nat /\ DiskHolds(b)
  BY <1>1, ZoneBlocksOnDisk DEF PoisonInit, FormatInit, Complete
<1>3. sb \in Superblock /\ \A field \in DOMAIN sb : sb[field] < UINT16
  BY ZeroFits DEF PoisonInit, FormatInit, FieldsFit
<1>. QED BY <1>2, <1>3 DEF PoisonInit, FormatInit, FormatTypeOK, Stages

LEMMA FormatTypeStep ==
  ASSUME SecondBlockFits, RegisteredInv, RegisteredInv', FormatTypeOK,
         [PoisonNext]_poisonVars
  PROVE  FormatTypeOK'
<1>1. FieldsFit(sb')
  <2>1. /\ sb' \in {Empty, WithInodes, Complete}'
        /\ ninodes' \in Nat /\ nblocks' \in Nat
    BY FormatAssumption DEF RegisteredInv
  <2>. QED BY <2>1, ZeroFits, RegisteredFits DEF Empty, WithInodes, Complete
<1>2. CASE Reformat
  <2>1. \A b \in stale' : b \in Nat /\ b < disk'.nblocks
    BY <1>2, RegisteredNat, ZoneBlocksOnDisk DEF Reformat, FormatTypeOK, DiskHolds
  <2>. QED BY <1>1, <1>2, <2>1 DEF Reformat, FormatTypeOK, FieldsFit, DiskHolds, Stages
<1>3. CASE stale' \subseteq stale /\ UNCHANGED <<disk, fresh, ninodes, nblocks>>
  <2>1. pc' \in Stages \cup Outcomes
    <3>1. CASE FormatNext
      BY <3>1
         DEF FormatNext, mxfs_inode_bitmap_init, mxfs_inode_zone_init,
             mxfs_block_bitmap_init, mxfs_block_zone_init, FlushFormatted,
             mxfs_init_root_directory, Reformat, AfterWriting, Goto, StageFails,
             Stages, Outcomes
    <3>2. CASE PoisonStep \/ UNCHANGED formatVars
      BY <3>2, PoisonStepLeaves DEF formatVars, FormatTypeOK
    <3>. QED BY <3>1, <3>2, StepKinds
  <2>2. \A b \in stale' : b \in Nat /\ b < disk'.nblocks
    BY <1>3 DEF FormatTypeOK, DiskHolds
  <2>. QED BY <1>1, <1>3, <2>1, <2>2 DEF FormatTypeOK, FieldsFit, DiskHolds
<1>. QED BY <1>2, <1>3, StaleShrinks

(* No value mxfs_init stores leaves its 16-bit field, whatever it is asked *)
(* for, and no block it counts on as written before lies off the disk.     *)
THEOREM FormatTypeCorrect ==
  ASSUME SecondBlockFits PROVE PoisonSpec => []FormatTypeOK
BY FormatTypeInit, FormatTypeStep, RegisteredInvInit, RegisteredInvStep, PTL
   DEF PoisonSpec
=============================================================================
