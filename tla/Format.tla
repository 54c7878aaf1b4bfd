------------------------------- MODULE Format -------------------------------
(***************************************************************************)
(* mxfs_init (src/src/mxfs/mxfs.c), one step per stage, for whatever       *)
(* numbers of inodes and data blocks it is asked for, on a disk of any     *)
(* size, fresh or formatted before.  mxfs_setup_inodes_dblocks returns     *)
(* nothing: when one of its stages fails the later ones are skipped, and   *)
(* mxfs_init goes on with what was registered until then.                  *)
(***************************************************************************)
EXTENDS Layout

CONSTANTS
  InodeCounts,       \* numbers of inodes and data blocks asked for:
  BlockCounts,       \* size_t, not yet cut to the superblock's uint16_t
  DiskSizes,         \* blocks of the ramdisk
  DiskBlockSizes,    \* bytes of its blocks, powers of two
  ADDRESSABLE        \* the number of blocks of each size in 2^32 bytes

(* A larger disk block overflows every block buffer of the file system.    *)
ASSUME FormatAssumption ==
  /\ InodeCounts \subseteq Nat /\ BlockCounts \subseteq Nat
  /\ DiskSizes \subseteq Nat
  /\ DiskBlockSizes \subseteq 1 .. MX_BLOCKSIZE
  /\ ADDRESSABLE \in [DiskBlockSizes -> Nat \ {0}]

VARIABLES
  pc,          \* the stage of mxfs_init that runs next, or how it ended
  ninodes,
  nblocks,
  disk,
  sb,          \* mxfs->superblock
  stale,       \* disk blocks that hold bytes this file system never wrote
  fresh        \* the disk was formatted once

formatVars == <<pc, ninodes, nblocks, disk, sb, stale, fresh>>

Stages == {"inode_bitmap", "inode_zone", "block_bitmap", "block_zone",
           "flush", "root"}
Outcomes == {"mounted",         \* all of mxfs_init ran
             "unformatted",     \* it returned before the root directory
             "aborted",         \* an assertion failed
             "undefined"}       \* it wrote outside the disk's buffer

DiskHolds(b) == b < disk.nblocks

(* A disk of no blocks accepts every index: ramdisk_write compares with    *)
(* nblocks - 1, which is then the largest unsigned.                        *)
WritesOutside(count) == count > 0 /\ disk.nblocks = 0
SizeMatches == disk.blocksize = MX_BLOCKSIZE

(* Variant with a slip, unused: the loop stops one block early.            *)
ZeroBlocksButLast(base, count) == stale' = stale \ (base .. base + count - 2)

(* A stage's loop writes blocks of zeroes and returns -1 at the first one  *)
(* that is not on the disk.                                                *)
ZeroBlocks(base, count) == stale' = stale \ (base .. base + count - 1)
ZeroFails(base, count) ==
  count > 0 /\ disk.nblocks > 0 /\ ~ DiskHolds(base + count - 1)
Clears(base, count) == ~ WritesOutside(count) /\ ~ ZeroFails(base, count)

Goto(stage) == pc' = stage
StageFails == pc' = "flush"

(* How a stage ends that writes count blocks from base on.                 *)
AfterWriting(base, count, failed, next) ==
  \/ WritesOutside(count) /\ Goto("undefined")
  \/ ZeroFails(base, count) /\ Goto(failed)
  \/ Clears(base, count) /\ Goto(next)

-----------------------------------------------------------------------------
(* mxfs_inode_bitmap_init: setup, then register.                           *)
mxfs_inode_bitmap_init ==
  LET cleared == InodeBitmapCleared(ninodes)
  IN  /\ pc = "inode_bitmap"
      /\ \/ /\ ~ SizeMatches
            /\ StageFails
            /\ UNCHANGED <<sb, stale>>
         \/ /\ SizeMatches
            /\ ZeroBlocks(InodeBitmapBase, cleared)
            /\ AfterWriting(InodeBitmapBase, cleared, "flush", "inode_zone")
            /\ sb' = IF Clears(InodeBitmapBase, cleared)
                     THEN mxfs_inode_bitmap_register(sb, ninodes) ELSE sb
      /\ UNCHANGED <<ninodes, nblocks, disk, fresh>>

mxfs_inode_zone_init ==
  LET count == mxfs_inode_zone_nblocks(sb.ninodes)
  IN  /\ pc = "inode_zone"
      /\ ZeroBlocks(sb.inode_base, count)
      /\ AfterWriting(sb.inode_base, count, "flush", "block_bitmap")
      /\ UNCHANGED <<ninodes, nblocks, disk, sb, fresh>>

(* The base is computed in a uint16_t.                                     *)
mxfs_block_bitmap_init ==
  LET base == (sb.inode_base + mxfs_inode_zone_nblocks(sb.ninodes)) % UINT16
      cleared == mxfs_block_bitmap_nblocks(nblocks)
  IN  /\ pc = "block_bitmap"
      /\ ZeroBlocks(base, cleared)
      /\ AfterWriting(base, cleared, "flush", "block_zone")
      /\ sb' = IF Clears(base, cleared)
               THEN mxfs_block_bitmap_register(sb, base, nblocks) ELSE sb
      /\ UNCHANGED <<ninodes, nblocks, disk, fresh>>

mxfs_block_zone_init ==
  /\ pc = "block_zone"
  /\ ZeroBlocks(sb.block_base, sb.nblocks)
  /\ AfterWriting(sb.block_base, sb.nblocks, "flush", "flush")
  /\ UNCHANGED <<ninodes, nblocks, disk, sb, fresh>>

FlushFormatted ==
  /\ pc = "flush"
  /\ ZeroBlocks(MX_SUPERBLOCK_INDEX, 1)
  /\ AfterWriting(MX_SUPERBLOCK_INDEX, 1, "unformatted", "root")
  /\ UNCHANGED <<ninodes, nblocks, disk, sb, fresh>>

(* Variant with a slip, unused: the result of mxfs_set_block is not tested.*)
RootInodesFit ==
  \A i \in 0 .. 3 : i < sb.ninodes /\ DiskHolds(sb.inode_base) /\ i < sb.nblocks

(* mxfs_init_root_directory_v1 stores inodes and blocks 0 to 3, each in an *)
(* assertion.  The first inodes lie in the first block of the zone.        *)
RootFits ==
  \A i \in 0 .. 3 : /\ i < sb.ninodes /\ DiskHolds(sb.inode_base)
                    /\ i < sb.nblocks /\ DiskHolds(sb.block_base + i)

mxfs_init_root_directory ==
  /\ pc = "root"
  /\ Goto(IF RootFits THEN "mounted" ELSE "aborted")
  /\ UNCHANGED <<ninodes, nblocks, disk, sb, stale, fresh>>

-----------------------------------------------------------------------------
(* The blocks a file system's zones begin and end with stand for those it  *)
(* writes.                                                                 *)
ZoneBlocks(s) ==
  {b \in {MX_SUPERBLOCK_INDEX,
          s.inode_bitmap_base, s.inode_base - 1,
          s.inode_base, s.block_bitmap_base - 1,
          s.block_bitmap_base, s.block_base - 1,
          s.block_base + s.nblocks - 1} \cup (s.block_base .. s.block_base + 3) :
     b >= 0 /\ DiskHolds(b)}

(* ramdisk_create gets the whole buffer, but the length its memset zeroes  *)
(* is a product of two unsigned, cut to 32 bits.                           *)
ZeroedBlocks(d) == d.nblocks % ADDRESSABLE[d.blocksize]

(* mxfs_init is called on a disk just created, where what malloc returned  *)
(* may hold anything beyond the zeroed blocks,                             *)
FormatInit == /\ pc = "inode_bitmap"
              /\ ninodes \in InodeCounts
              /\ nblocks \in BlockCounts
              /\ disk \in [nblocks : DiskSizes, blocksize : DiskBlockSizes]
              /\ sb = ZeroSuperblock
              /\ stale = {b \in ZoneBlocks(RegisteredSuperblock(ninodes, nblocks)) :
                            b >= ZeroedBlocks(disk)}
              /\ fresh = TRUE

(* or once more on a disk that was mounted and used.  Bound: the disk is   *)
(* formatted twice.                                                        *)
Reformat == /\ pc = "mounted"
            /\ fresh
            /\ pc' = "inode_bitmap"
            /\ ninodes' \in InodeCounts
            /\ nblocks' \in BlockCounts
            /\ sb' = ZeroSuperblock
            /\ stale' = stale \cup ZoneBlocks(sb)
            /\ fresh' = FALSE
            /\ UNCHANGED disk

FormatNext == \/ mxfs_inode_bitmap_init
              \/ mxfs_inode_zone_init
              \/ mxfs_block_bitmap_init
              \/ mxfs_block_zone_init
              \/ FlushFormatted
              \/ mxfs_init_root_directory
              \/ Reformat

FormatSpec == FormatInit /\ [][FormatNext]_formatVars

-----------------------------------------------------------------------------
(* The superblock's fields are wide enough for the base of every zone,     *)
(* with as many inodes and blocks as they can count.                       *)
FieldsWide ==
  LET widest == BlockBitmapReserved(UINT16 - 1)
  IN  /\ \A n \in 0 .. UINT16 - 1 :
           InodeBitmapBase + mxfs_inode_bitmap_nblocks(n)
             + mxfs_inode_zone_nblocks(n) + widest < UINT16
      /\ \A m \in 0 .. UINT16 - 1 : BlockBitmapReserved(m) <= widest

(* Type invariant.                                                         *)
FormatTypeOK ==
  /\ pc \in Stages \cup Outcomes
  /\ ninodes \in InodeCounts
  /\ nblocks \in BlockCounts
  /\ disk \in [nblocks : DiskSizes, blocksize : DiskBlockSizes]
  /\ sb \in Superblock
  /\ \A field \in DOMAIN sb : sb[field] < UINT16
  /\ \A b \in stale : b \in Nat /\ DiskHolds(b)
  /\ fresh \in BOOLEAN

(* Which disks end up mounted, of all sizes and requests: the disk has the *)
(* file system's block size, four inodes and four blocks are left after    *)
(* the numbers were cut to 16 bits, and the root's four blocks are on it,  *)
(* as is what the loop clears of a bitmap for the number not yet cut.  No  *)
(* way through the stages leaves a file system behind that has no room for *)
(* its root directory, and only a disk of no blocks is written outside.    *)
Fits ==
  LET full == RegisteredSuperblock(ninodes, nblocks)
  IN  /\ SizeMatches
      /\ full.ninodes >= 4 /\ full.nblocks >= 4
      /\ full.block_base + 4 <= disk.nblocks
      /\ InodeBitmapBase + InodeBitmapCleared(ninodes) <= disk.nblocks

MountsExactlyWhenItFits ==
  /\ pc = "mounted" => Fits /\ sb = RegisteredSuperblock(ninodes, nblocks)
  /\ pc \in {"aborted", "unformatted"} => ~ Fits
  /\ pc = "undefined" => disk.nblocks = 0

(* The zones of a mounted file system follow each other on the disk and    *)
(* hold what they are for: every inode lies before the block bitmap, and   *)
(* each bitmap has a bit for everything it counts before the next zone.    *)
ZonesDisjoint ==
  pc = "mounted" =>
    /\ MX_SUPERBLOCK_INDEX < sb.inode_bitmap_base
    /\ sb.ninodes <= BlockBits * (sb.inode_base - sb.inode_bitmap_base)
    /\ sb.ninodes * SIZEOF_DISK_INODE
         <= MX_BLOCKSIZE * (sb.block_bitmap_base - sb.inode_base)
    /\ sb.nblocks <= BlockBits * (sb.block_base - sb.block_bitmap_base)

Within(b, first, end) == first <= b /\ b < end

(* However a disk was used before, the inodes and the data blocks of the   *)
(* new file system hold nothing of the old one.                            *)
ZonesCleared ==
  pc = "mounted" =>
    \A b \in stale : /\ ~ Within(b, sb.inode_base, sb.block_bitmap_base)
                     /\ ~ Within(b, sb.block_base, sb.block_base + sb.nblocks)

(* Formatting clears no bitmap up to its last block.  What the search for  *)
(* a free block reads was cleared nevertheless, of new disks of any length *)
(* as of used ones: the setup loop counts in the number asked for, the     *)
(* search in the one the superblock holds, which was cut to 16 bits.       *)
SearchedBlocksCleared ==
  pc = "mounted" =>
    LET read == mxfs_block_bitmap_nblocks(sb.nblocks)
    IN  \A b \in stale :
          ~ Within(b, sb.block_bitmap_base, sb.block_bitmap_base + read)

=============================================================================
