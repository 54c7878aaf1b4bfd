------------------------------ MODULE Counters ------------------------------
(***************************************************************************)
(* The two counting allocators on the one superblock they share.  Each     *)
(* reads the whole superblock from disk, changes its own counter and       *)
(* writes the whole superblock back; the search for a block, and one of    *)
(* the two searches for an inode, go by the copy in memory instead, which  *)
(* is refreshed from disk whenever a caller likes.                         *)
(***************************************************************************)
EXTENDS InodeBitmap, BlockBitmap

countersVars == <<status, sb, dsb, ibits, bbits>>

CountersInit == /\ InodeBitmapInit
                /\ bbits = RootBlocks

(* Inodes and blocks are allocated and nothing is given back.              *)
AllocateInodes == CountedNext /\ UNCHANGED bbits
AllocateBlocks == GrantNext /\ UNCHANGED ibits

CountersNext == AllocateInodes \/ AllocateBlocks

CountersSpec == CountersInit /\ [][CountersNext]_countersVars
=============================================================================
