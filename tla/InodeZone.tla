----------------------------- MODULE InodeZone -----------------------------
(***************************************************************************)
(* Where src/src/mxfs/inode_zone.c keeps the inodes.  An inode is          *)
(* addressed by a disk block and a byte offset in it, and the offset is    *)
(* returned in a uint8_t: inodes whose offset in the block is 256 or more  *)
(* fall on top of inodes at its start.  A slot holds the two fields of an  *)
(* inode that the program acts on.  A field other inodes were written over *)
(* is Garbled: what it reads as depends on their fields, on block pointers *)
(* that create leaves uninitialised among them, so a read of it may return *)
(* anything.                                                               *)
(***************************************************************************)
EXTENDS MountState

VARIABLE izone      \* inode number -> the fields mxfs_get_inode would read

Garbled == -1
Modes == {MX_INODE_FILE, MX_INODE_DIR}
InodeSlots == [mode : Modes \cup {Garbled}, block : Int]

FileInode(b) == [mode |-> MX_INODE_FILE, block |-> b]

(* What memset 0 leaves: also a file whose first block is 0.               *)
ZeroInode == FileInode(0)

(* Variant with a slip, unused: the offset in an int8_t.                   *)
SignedOffset(i) ==
  LET byte == ((i * SIZEOF_DISK_INODE) % MX_BLOCKSIZE) % UINT8
  IN  IF byte > 127 THEN byte - UINT8 ELSE byte

(* mxfs_inode_zone_index_to_block_offset, the block relative to the zone.  *)
InodeBlock(i) == (i * SIZEOF_DISK_INODE) \div MX_BLOCKSIZE
InodeOffset(i) ==
  (i * SIZEOF_DISK_INODE - InodeBlock(i) * MX_BLOCKSIZE) % UINT8

(* Writing inode i changes a byte of the field of inode j that lies at     *)
(* bytes first to last of the packed mx_disk_inode.                        *)
Overwrites(i, j, first, last) ==
  /\ InodeBlock(i) = InodeBlock(j)
  /\ InodeOffset(i) <= InodeOffset(j) + last
  /\ InodeOffset(j) + first <= InodeOffset(i) + SIZEOF_DISK_INODE - 1

OverwritesMode(i, j) == Overwrites(i, j, 0, 1)
OverwritesBlock(i, j) == Overwrites(i, j, 10, 17)

(* mxfs_inode_zone_set_inode and _clear_inode once their assertion that    *)
(* the index is below ninodes has passed.                                  *)
WriteInode(zone, i, inode) ==
  [j \in Inodes |->
     IF j = i THEN inode
     ELSE [mode |-> IF OverwritesMode(i, j) THEN Garbled ELSE zone[j].mode,
           block |-> IF OverwritesBlock(i, j) THEN Garbled ELSE zone[j].block]]

(* What a read of a field may return.                                      *)
ModeMayBe(i, mode) == izone[i].mode \in {mode, Garbled}
BlockMayBe(i, block) == izone[i].block \in {block, Garbled}
ModeMayDiffer(i, mode) == izone[i].mode # mode
BlockMayDiffer(i, block) == izone[i].block # block
=============================================================================
