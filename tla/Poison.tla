------------------------------- MODULE Poison -------------------------------
(***************************************************************************)
(* The poison functions of the four zones of a mounted file system, each   *)
(* of which fills its zone with one byte:                                  *)
(*   mxfs_inode_bitmap_poison (src/src/mxfs/inode_bitmap.c)                *)
(*   mxfs_inode_zone_poison   (src/src/mxfs/inode_zone.c)                  *)
(*   mxfs_block_bitmap_poison (src/src/mxfs/block_bitmap.c)                *)
(*   mxfs_block_zone_poison   (src/src/mxfs/block_zone.c)                  *)
(***************************************************************************)
EXTENDS Format

VARIABLE
  poison       \* what the last of them wrote, blocks first to end - 1, and
               \* returned

poisonVars == <<formatVars, poison>>

NoPoison == [zone |-> "none", first |-> 0, end |-> 0, result |-> 0]

(* Variant with a slip, unused: one block more, as the zones' sizes are    *)
(* rounded elsewhere.                                                      *)
FilledAsReserved(bytes) == bytes \div MX_BLOCKSIZE + 1

(* Variant with a slip, unused: the rest of a block is left out.           *)
FilledRoundedDown(bytes) == bytes \div MX_BLOCKSIZE

(* The loop takes a whole block's bytes off, or what is left.              *)
FilledBlocks(bytes) == (bytes + MX_BLOCKSIZE - 1) \div MX_BLOCKSIZE

(* It returns -1 at the first block that is not on the disk.               *)
Fill(zone, base, count) ==
  LET end == base + count
      reached == IF end <= disk.nblocks THEN end ELSE disk.nblocks
  IN  /\ pc = "mounted"
      /\ poison' = [zone |-> zone, first |-> base, end |-> reached,
                    result |-> IF reached = end THEN 0 ELSE -1]
      /\ stale' = stale \ (base .. reached - 1)
      /\ UNCHANGED <<pc, ninodes, nblocks, disk, sb, fresh>>

mxfs_inode_bitmap_poison ==
  Fill("inode_bitmap", sb.inode_bitmap_base, FilledBlocks(sb.ninodes \div 8 + 1))

mxfs_inode_zone_poison ==
  Fill("inode_zone", sb.inode_base, FilledBlocks(sb.ninodes * SIZEOF_DISK_INODE))

mxfs_block_bitmap_poison ==
  Fill("block_bitmap", sb.block_bitmap_base, FilledBlocks(sb.nblocks \div 8 + 1))

mxfs_block_zone_poison == Fill("block_zone", sb.block_base, sb.nblocks)

FormatStep == FormatNext /\ poison' = NoPoison

PoisonInit == FormatInit /\ poison = NoPoison

PoisonNext == \/ FormatStep
              \/ mxfs_inode_bitmap_poison
              \/ mxfs_inode_zone_poison
              \/ mxfs_block_bitmap_poison
              \/ mxfs_block_zone_poison

PoisonSpec == PoisonInit /\ [][PoisonNext]_poisonVars

-----------------------------------------------------------------------------
ZoneFirst(zone) ==
  CASE zone = "inode_bitmap" -> sb.inode_bitmap_base
    [] zone = "inode_zone"   -> sb.inode_base
    [] zone = "block_bitmap" -> sb.block_bitmap_base
    [] zone = "block_zone"   -> sb.block_base

ZoneEnd(zone) ==
  CASE zone = "inode_bitmap" -> sb.inode_base
    [] zone = "inode_zone"   -> sb.block_bitmap_base
    [] zone = "block_bitmap" -> sb.block_base
    [] zone = "block_zone"   -> sb.block_base + sb.nblocks

(* The block in which the zone's last inode, bit or data block ends.       *)
LastUsed(zone) ==
  CASE zone = "inode_bitmap" ->
         sb.inode_bitmap_base + ((sb.ninodes - 1) \div 8) \div MX_BLOCKSIZE
    [] zone = "inode_zone" ->
         sb.inode_base + (sb.ninodes * SIZEOF_DISK_INODE - 1) \div MX_BLOCKSIZE
    [] zone = "block_bitmap" ->
         sb.block_bitmap_base + ((sb.nblocks - 1) \div 8) \div MX_BLOCKSIZE
    [] zone = "block_zone" -> sb.block_base + sb.nblocks - 1

Poisoned == poison.zone # "none"

(* Poisoning a zone writes no block of the zone behind it, though the      *)
(* layout and the loops round their sizes to blocks in different ways: the *)
(* bitmaps' loops count a byte more than the bits need, the inode zone's   *)
(* layout a block more than the inodes may need.                           *)
PoisonStaysInZone ==
  Poisoned => /\ ZoneFirst(poison.zone) <= poison.first
              /\ poison.end <= ZoneEnd(poison.zone)

(* It reaches everything the zone holds, down to the last inode, bit and   *)
(* data block, and says so: -1 exactly when the zone is longer than the    *)
(* disk, 0 when nothing of an earlier file system is left in what it uses. *)
PoisonCovers ==
  Poisoned =>
    /\ poison.result = 0 <=> DiskHolds(LastUsed(poison.zone))
    /\ poison.result = 0 =>
         /\ LastUsed(poison.zone) < poison.end
         /\ \A b \in stale :
              ~ Within(b, ZoneFirst(poison.zone), LastUsed(poison.zone) + 1)

=============================================================================
