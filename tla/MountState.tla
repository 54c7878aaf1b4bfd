----------------------------- MODULE MountState -----------------------------
(***************************************************************************)
(* The state every component shares: the superblock the program holds in   *)
(* its mxfs structure, the copy on disk block 1, and whether the program   *)
(* still runs.  The disk is a malloc'ed region of the same process, so a   *)
(* process that stopped leaves nothing behind to read.                     *)
(***************************************************************************)
EXTENDS Layout

CONSTANTS
  NINODES,   \* the inodes mxfs_init is asked for
  NBLOCKS    \* the data blocks mxfs_init is asked for

ASSUME MountAssumption ==
  /\ NINODES \in 4 .. UINT16 - 1     \* fewer than four stop mxfs_init
  /\ NBLOCKS \in 4 .. UINT16 - 1

Inodes == 0 .. NINODES - 1
DataBlocks == 0 .. NBLOCKS - 1

(* Both superblocks once mxfs_init has returned.                           *)
MountedSuperblock == RegisteredSuperblock(NINODES, NBLOCKS)

VARIABLES
  status,   \* "running"; "aborted": an assert() failed;
            \* "undefined": a write or copy outside its buffer was executed
  sb,       \* mxfs->superblock
  dsb       \* the superblock on disk block MX_SUPERBLOCK_INDEX

mountVars == <<status, sb, dsb>>

Statuses == {"running", "aborted", "undefined"}

Running == status = "running"

Stop(why) == status' = why

mxfs_flush_superblock == /\ dsb' = sb
                         /\ UNCHANGED <<status, sb>>

mxfs_refresh_superblock == /\ sb' = dsb
                           /\ UNCHANGED <<status, dsb>>
=============================================================================
