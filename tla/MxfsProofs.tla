----------------------------- MODULE MxfsProofs -----------------------------
(***************************************************************************)
(* What file creation keeps, for every number of inodes, blocks and        *)
(* directory entries, every disk and every set of names and paths: the     *)
(* directory, the two bitmaps and the root directory's inode agree.        *)
(***************************************************************************)
EXTENDS Mxfs, BlockBitmapProofs, SequenceTheorems

(* What a creation is entitled to find.                                    *)
FilesTypeOK ==
  /\ sb = MountedSuperblock
  /\ ibits \subseteq Inodes
  /\ bbits \subseteq DataBlocks
  /\ root = [e \in 1 .. DIRENTS |-> root[e]]
  /\ \A e \in 1 .. DIRENTS : root[e].inode_num \in Inodes

FilesInv ==
  /\ FilesTypeOK
  /\ \A e \in FreeEntries : root[e] = FreeEntry
  /\ DirentsMatchBitmap
  /\ NoHoles

-----------------------------------------------------------------------------
(* The step of a file that was created: an inode and the first free entry, *)
(* both its own, and a block.                                              *)
Created(i, b, e, name) ==
  /\ i \in Inodes \ ibits
  /\ b \in DataBlocks
  /\ e \in FreeEntries
  /\ \A f \in FreeEntries : e <= f
  /\ ibits' = ibits \cup {i}
  /\ bbits' = bbits \cup {b}
  /\ izone' = WriteInode(izone, i, FileInode(b))
  /\ root' = [root EXCEPT ![e] = [inode_num |-> i, name |-> name]]
  /\ ret' = 0
  /\ UNCHANGED <<sb, dsb>>

LEMMA NameOverNothing ==
  ASSUME NEW name \in Seq(STRING)
  PROVE  Overlay(<<>>, name) = name
<1>1. SubSeq(<<>>, Len(name) + 1, Len(<<>>)) = <<>>
  OBVIOUS
<1>. QED BY <1>1 DEF Overlay

LEMMA FirstIsLeast ==
  ASSUME FreeEntries # {}
  PROVE  /\ FirstOf(FreeEntries) \in FreeEntries
         /\ \A f \in FreeEntries : FirstOf(FreeEntries) <= f
<1>1. FreeEntries \in SUBSET Nat
  BY MxfsAssumption DEF FreeEntries
<1>2. \E e \in FreeEntries : \A f \in FreeEntries : e <= f
  BY <1>1, LeastElement
<1>. QED BY <1>2 DEF FirstOf

LEMMA CreateStep ==
  ASSUME FilesInv, NEW name \in Names, mxfs_create_file_rootdir(name)
  PROVE  \/ UNCHANGED <<sb, ibits, bbits, izone, root>>
         \/ \E i \in Inodes, b \in DataBlocks, e \in 1 .. DIRENTS :
               /\ Created(i, b, e, name)
               /\ OneSearched => b \notin bbits
<1>1. CASE \/ CreateRefused
           \/ Die("undefined")
           \/ Die("aborted")
  BY <1>1 DEF CreateRefused, Die
<1>2. ASSUME FreeEntries # {},
             NEW i \in mxfs_inode_bitmap_get_free_index, InBuffer(i),
             NEW b \in mxfs_block_bitmap_get_free_index,
             CreateAsserts(i, b), CreateWith(i, b, name)
      PROVE  \E e \in 1 .. DIRENTS : /\ Created(i, b, e, name)
                                     /\ OneSearched => b \notin bbits
  <2>. DEFINE e == FirstOf(FreeEntries)
  <2>1. e \in FreeEntries /\ e \in 1 .. DIRENTS /\ \A f \in FreeEntries : e <= f
    BY <1>2, FirstIsLeast DEF FreeEntries
  <2>2. sb.ninodes = NINODES /\ sb.nblocks = NBLOCKS
    BY MountedFields DEF FilesInv, FilesTypeOK
  <2>3. i \in Inodes \ ibits
    <3>1. i \in FreeInBlock(ibits, NINODES) /\ NINODES \in Nat
      BY <1>2, <2>2, MountAssumption, SizesAssumption
         DEF mxfs_inode_bitmap_get_free_index
    <3>2. i \in Inodes /\ i \in 0 .. BlockBits - 1
      BY <1>2 DEF CreateAsserts, InBuffer, InodeBits
    <3>. QED BY <3>1, <3>2, SearchResult
  <2>4. b \in DataBlocks /\ b # NoIndex
    BY <1>2 DEF CreateAsserts, DataBlocks, NoIndex
  <2>5. OneSearched => b \notin bbits
    BY <1>2, <2>2, <2>4, Granted
  <2>6. EntryFor(root[e], i, name) = [inode_num |-> i, name |-> name]
    <3>1. root[e].name = <<>>
      BY <2>1 DEF FilesInv, FreeEntry
    <3>2. name \in Seq(STRING)
      BY MxfsAssumption
    <3>. QED BY <3>1, <3>2, NameOverNothing DEF EntryFor
  <2>. QED
    BY <1>2, <2>1, <2>3, <2>4, <2>5, <2>6
       DEF CreateWith, Created, Return, SetBit, BlockBitSet
<1>. QED BY <1>1, <1>2 DEF mxfs_create_file_rootdir, CreateAsserts

(* A lookup and a listing change none of it.                               *)
LEMMA FilesStep ==
  ASSUME FilesInv, [FilesNext]_mxfsVars
  PROVE  \/ UNCHANGED <<sb, ibits, bbits, izone, root>>
         \/ \E i \in Inodes, b \in DataBlocks, e \in 1 .. DIRENTS, name \in Names :
               /\ Created(i, b, e, name)
               /\ OneSearched => b \notin bbits
<1>1. ASSUME NEW path \in Paths, mxfs_path_to_inode(path)
      PROVE  UNCHANGED <<sb, ibits, bbits, izone, root>>
  BY <1>1 DEF mxfs_path_to_inode, Die, Return
<1>2. CASE mxfs_print_tree
  BY <1>2 DEF mxfs_print_tree, Die, mxfsVars
<1>3. CASE UNCHANGED mxfsVars
  BY <1>3 DEF mxfsVars
<1>. QED BY <1>1, <1>2, <1>3, CreateStep DEF FilesNext

-----------------------------------------------------------------------------
LEMMA FilesInvInit == MxfsInit => FilesInv
<1>. SUFFICES ASSUME MxfsInit PROVE FilesInv
  OBVIOUS
<1>1. RootInodes \subseteq Inodes /\ RootBlocks \subseteq DataBlocks
  BY MountAssumption, SizesAssumption DEF RootInodes, RootBlocks, Inodes, DataBlocks
<1>2. /\ DIRENTS \in Nat /\ DIRENTS >= 3
      /\ 0 \in Inodes /\ \A e \in 1 .. 3 : e \in Inodes
  BY <1>1, MxfsAssumption DEF RootInodes
<1>3. root = [e \in 1 .. DIRENTS |->
                IF e <= 3 THEN [inode_num |-> e, name |-> InitialNames[e]]
                          ELSE FreeEntry]
  BY DEF MxfsInit
<1>4. FilesTypeOK
  <2>1. \A e \in 1 .. DIRENTS : root[e].inode_num \in Inodes
    BY <1>2, <1>3 DEF FreeEntry
  <2>2. root = [e \in 1 .. DIRENTS |-> root[e]]
    BY <1>3
  <2>. QED BY <1>1, <2>1, <2>2 DEF MxfsInit, InodeBitmapInit, FilesTypeOK
<1>5. \A e \in 1 .. DIRENTS : /\ e <= 3 => root[e].inode_num = e
                              /\ e > 3 => root[e].inode_num = 0
                              /\ e > 3 => root[e] = FreeEntry
  BY <1>2, <1>3 DEF FreeEntry
<1>6. \A e \in FreeEntries : root[e] = FreeEntry
  BY <1>2, <1>5 DEF FreeEntries
<1>7. Used = 1 .. 3
  BY <1>2, <1>5 DEF Used
<1>8. Listed = 1 .. 3
  BY <1>2, <1>5 DEF Listed
<1>9. DirentsMatchBitmap
  <2>1. ibits = {ROOT_INODE} \cup Listed
    BY <1>8 DEF MxfsInit, InodeBitmapInit, RootInodes, ROOT_INODE
  <2>. QED BY <1>2, <1>5, <1>7, <2>1 DEF DirentsMatchBitmap
<1>10. NoHoles
  BY <1>7 DEF NoHoles
<1>. QED BY <1>4, <1>6, <1>9, <1>10 DEF FilesInv

(* The entries after a creation: the new file's, and the others as before. *)
LEMMA CreatedEntries ==
  ASSUME FilesInv, NEW i \in Inodes, NEW b, NEW e \in 1 .. DIRENTS, NEW name,
         Created(i, b, e, name)
  PROVE  /\ i # 0
         /\ root'[e] = [inode_num |-> i, name |-> name]
         /\ \A f \in 1 .. DIRENTS : f # e => root'[f] = root[f]
         /\ Used' = Used \cup {e}
         /\ FreeEntries' = FreeEntries \ {e}
         /\ Listed' = Listed \cup {i}
<1>1. DOMAIN root = 1 .. DIRENTS
  BY DEF FilesInv, FilesTypeOK
<1>2. i # 0
  BY DEF Created, FilesInv, DirentsMatchBitmap, ROOT_INODE
<1>3. /\ root'[e] = [inode_num |-> i, name |-> name]
      /\ \A f \in 1 .. DIRENTS : f # e => root'[f] = root[f]
  BY <1>1 DEF Created
<1>4. root'[e].inode_num = i /\ root[e].inode_num = 0
  BY <1>3 DEF Created, FreeEntries
<1>5. Used' = Used \cup {e} /\ FreeEntries' = FreeEntries \ {e}
  BY <1>2, <1>3, <1>4 DEF Used, FreeEntries
<1>6. Listed' = Listed \cup {i}
  BY <1>2, <1>3, <1>4 DEF Listed
<1>. QED BY <1>2, <1>3, <1>5, <1>6

LEMMA FilesInvStep ==
  ASSUME FilesInv, [FilesNext]_mxfsVars
  PROVE  FilesInv'
<1>1. CASE UNCHANGED <<sb, ibits, bbits, izone, root>>
  BY <1>1 DEF FilesInv, FilesTypeOK, FreeEntries, DirentsMatchBitmap, Used, Listed, NoHoles
<1>2. ASSUME NEW i \in Inodes, NEW b \in DataBlocks, NEW e \in 1 .. DIRENTS,
             NEW name \in Names, Created(i, b, e, name)
      PROVE  FilesInv'
  <2>0. /\ root'[e] = [inode_num |-> i, name |-> name]
        /\ \A f \in 1 .. DIRENTS : f # e => root'[f] = root[f]
        /\ Used' = Used \cup {e}
    BY <1>2, CreatedEntries
  <2>1. FilesTypeOK'
    <3>1. \A f \in 1 .. DIRENTS : root'[f].inode_num \in Inodes
      BY <2>0 DEF FilesInv, FilesTypeOK
    <3>2. root' = [f \in 1 .. DIRENTS |-> root'[f]]
      BY <1>2 DEF Created, FilesInv, FilesTypeOK
    <3>. QED BY <1>2, <3>1, <3>2 DEF Created, FilesInv, FilesTypeOK
  <2>2. (\A f \in FreeEntries : root[f] = FreeEntry)'
    <3>1. \A f \in FreeEntries' : f \in FreeEntries /\ root'[f] = root[f]
      BY <1>2, CreatedEntries DEF FreeEntries
    <3>. QED BY <3>1 DEF FilesInv
  <2>3. DirentsMatchBitmap'
    <3>1. \A f \in Used : f \in 1 .. DIRENTS /\ f # e /\ root[f].inode_num \in ibits
      BY <1>2 DEF Created, FreeEntries, Used, Listed, FilesInv, DirentsMatchBitmap
    <3>2. root'[e].inode_num = i /\ i \notin ibits
      BY <1>2, <2>0 DEF Created
    <3>3. \A f, g \in Used' : f # g => root'[f].inode_num # root'[g].inode_num
      BY <2>0, <3>1, <3>2 DEF FilesInv, DirentsMatchBitmap
    <3>4. ibits' = {ROOT_INODE} \cup Listed'
      BY <1>2, CreatedEntries DEF Created, FilesInv, DirentsMatchBitmap
    <3>. QED BY <3>3, <3>4 DEF DirentsMatchBitmap
  <2>4. NoHoles'
    <3>1. ASSUME NEW f \in 1 .. e - 1 PROVE f \in Used
      BY <1>2, <3>1, MxfsAssumption DEF Created, FreeEntries, Used
    <3>2. 1 .. e \subseteq Used'
      BY <2>0, <3>1
    <3>. QED BY <2>0, <3>2 DEF FilesInv, NoHoles
  <2>. QED BY <2>1, <2>2, <2>3, <2>4 DEF FilesInv
<1>. QED BY <1>1, <1>2, FilesStep

LEMMA FilesInvariant == FilesSpec => []FilesInv
BY FilesInvInit, FilesInvStep, PTL DEF FilesSpec

(* However many files are created, refused or failed, each entry has an    *)
(* inode of its own and the inode bitmap is exactly the directory's.       *)
THEOREM DirectoryOwnsInodes == FilesSpec => []DirentsMatchBitmap
BY FilesInvariant, PTL DEF FilesInv

(* Files fill a directory of any size from the front.                      *)
THEOREM FilesFillFront == FilesSpec => []NoHoles
BY FilesInvariant, PTL DEF FilesInv

-----------------------------------------------------------------------------
(* As many blocks as inodes: an inode's block is one nobody had.           *)
CardInv == /\ IsFiniteSet(ibits) /\ IsFiniteSet(bbits)
           /\ Cardinality(bbits) = Cardinality(ibits)

LEMMA CardInvInit == MxfsInit => CardInv
<1>. SUFFICES ASSUME MxfsInit PROVE CardInv
  OBVIOUS
<1>1. RootInodes = RootBlocks
  BY DEF RootInodes, RootBlocks
<1>2. ibits = RootInodes /\ bbits = RootBlocks
  BY Zenon DEF MxfsInit, InodeBitmapInit
<1>. QED BY <1>1, <1>2, RootCards DEF CardInv

LEMMA CardInvStep ==
  ASSUME OneSearched, FilesInv, CardInv, [FilesNext]_mxfsVars
  PROVE  CardInv'
<1>1. CASE UNCHANGED <<sb, ibits, bbits, izone, root>>
  BY <1>1 DEF CardInv
<1>2. ASSUME NEW i, NEW b, i \notin ibits, b \notin bbits,
             ibits' = ibits \cup {i}, bbits' = bbits \cup {b}
      PROVE  CardInv'
  <2>1. /\ IsFiniteSet(ibits') /\ Cardinality(ibits') = Cardinality(ibits) + 1
        /\ IsFiniteSet(bbits') /\ Cardinality(bbits') = Cardinality(bbits) + 1
    BY <1>2, FS_AddElement DEF CardInv
  <2>. QED BY <2>1 DEF CardInv
<1>. QED BY <1>1, <1>2, FilesStep DEF Created

(* With at most one searched bitmap block, no block is lost and none is    *)
(* given out twice, whatever was created and refused.                      *)
THEOREM BlocksMatchInodes ==
  ASSUME OneSearched PROVE FilesSpec => []OneBlockPerInode
<1>1. CardInv => OneBlockPerInode
  BY DEF CardInv, OneBlockPerInode
<1>. QED BY <1>1, CardInvInit, CardInvStep, FilesInvariant, PTL DEF FilesSpec

(* A creation returns 0 only with a whole file, and no other call changes  *)
(* what is on the disk.                                                    *)
THEOREM OnlyFreshFiles ==
  ASSUME OneSearched PROVE FilesSpec => ChangesOnlyByFreshFile
<1>1. ASSUME FilesInv, [FilesNext]_mxfsVars
      PROVE  \/ UNCHANGED <<ibits, bbits, izone, root>>
             \/ /\ ret' = 0
                /\ \E i \in ibits' \ ibits, b \in bbits' \ bbits, e \in FreeEntries,
                      name \in Names :
                     /\ ibits' = ibits \cup {i}
                     /\ bbits' = bbits \cup {b}
                     /\ izone'[i] = FileInode(b)
                     /\ root' = [root EXCEPT ![e] = [inode_num |-> i, name |-> name]]
  <2>1. ASSUME NEW i \in Inodes, NEW b \in DataBlocks, NEW e \in 1 .. DIRENTS,
               NEW name \in Names, Created(i, b, e, name), b \notin bbits
        PROVE  /\ ret' = 0
               /\ i \in ibits' \ ibits
               /\ b \in bbits' \ bbits
               /\ e \in FreeEntries
               /\ ibits' = ibits \cup {i}
               /\ bbits' = bbits \cup {b}
               /\ izone'[i] = FileInode(b)
               /\ root' = [root EXCEPT ![e] = [inode_num |-> i, name |-> name]]
    BY <2>1 DEF Created, WriteInode
  <2>. QED BY <1>1, <2>1, FilesStep
<1>. QED BY <1>1, FilesInvariant, PTL DEF FilesSpec, ChangesOnlyByFreshFile

-----------------------------------------------------------------------------
(* In a block of up to 1024 bytes no inode's offset, cut to eight bits,    *)
(* comes down to the first 18 bytes, where the root directory's mode and   *)
(* first block are.  Larger blocks have such inodes: 22 * 82 is 12 past a  *)
(* multiple of 256.                                                        *)
SmallBlocks == MX_BLOCKSIZE <= 1024

LEMMA OffsetsKeepAway ==
  ASSUME SmallBlocks, NEW i \in Inodes, i # ROOT_INODE
  PROVE  ~ OverwritesMode(i, ROOT_INODE) /\ ~ OverwritesBlock(i, ROOT_INODE)
<1>1. InodeBlock(ROOT_INODE) = 0 /\ InodeOffset(ROOT_INODE) = 0
  <2>1. 0 \div MX_BLOCKSIZE = 0
    BY SizesAssumption
  <2>2. ROOT_INODE * SIZEOF_DISK_INODE = 0
    BY DEF ROOT_INODE, SIZEOF_DISK_INODE
  <2>. QED BY <2>1, <2>2, SizesAssumption DEF InodeBlock, InodeOffset, UINT8
<1>2. i \in Nat /\ i > 0
  BY MountAssumption, SizesAssumption DEF Inodes, ROOT_INODE
<1>3. ASSUME InodeBlock(i) = 0 PROVE InodeOffset(i) \in Nat /\ InodeOffset(i) > 17
  <2>1. i * SIZEOF_DISK_INODE = 82 * i
    BY <1>2 DEF SIZEOF_DISK_INODE
  <2>2. 82 * i < MX_BLOCKSIZE
    BY <1>2, <1>3, <2>1, SizesAssumption DEF InodeBlock
  <2>3. i \in 1 .. 12
    BY <1>2, <2>2, SizesAssumption DEF SmallBlocks
  <2>4. InodeOffset(i) = (82 * i) % 256
    BY <1>2, <1>3, <2>1, SizesAssumption DEF InodeOffset, UINT8
  <2>. QED BY <2>3, <2>4
<1>. QED
  BY <1>1, <1>3 DEF OverwritesMode, OverwritesBlock, Overwrites

(* On blocks of the code's size and smaller ones, no sequence of calls     *)
(* that create, look up and list writes over the root directory's inode.   *)
THEOREM RootStaysInPlace ==
  ASSUME SmallBlocks PROVE FilesSpec => []RootInPlace
<1>1. ASSUME MxfsInit PROVE RootInPlace
  <2>1. ROOT_INODE \in Inodes /\ 1 .. 3 \subseteq Inodes
    BY MountAssumption, SizesAssumption DEF ROOT_INODE, Inodes
  <2>2. ASSUME NEW zone, NEW inode
        PROVE  WriteInode(zone, ROOT_INODE, inode)[ROOT_INODE] = inode
    BY <2>1 DEF WriteInode
  <2>3. ASSUME NEW zone, zone[ROOT_INODE] = RootInode, NEW i \in 1 .. 3, NEW inode
        PROVE  WriteInode(zone, i, inode)[ROOT_INODE] = RootInode
    <3>1. i \in Inodes /\ i # ROOT_INODE
      BY <2>1 DEF ROOT_INODE
    <3>2. ~ OverwritesMode(i, ROOT_INODE) /\ ~ OverwritesBlock(i, ROOT_INODE)
      BY <3>1, OffsetsKeepAway
    <3>. QED BY <2>1, <2>3, <3>1, <3>2 DEF WriteInode, RootInode
  <2>. QED BY <1>1, <2>2, <2>3 DEF MxfsInit, InitialZone, RootInPlace
<1>2. ASSUME FilesInv, RootInPlace, [FilesNext]_mxfsVars
      PROVE  RootInPlace'
  <2>1. CASE UNCHANGED <<sb, ibits, bbits, izone, root>>
    BY <1>2, <2>1 DEF RootInPlace
  <2>2. ASSUME NEW i \in Inodes, NEW b, NEW e, NEW name, Created(i, b, e, name)
        PROVE  RootInPlace'
    <3>1. i # ROOT_INODE
      BY <1>2, <2>2 DEF Created, FilesInv, DirentsMatchBitmap
    <3>2. ROOT_INODE \in Inodes
      BY MountAssumption, SizesAssumption DEF ROOT_INODE, Inodes
    <3>3. izone'[ROOT_INODE] = [mode |-> izone[ROOT_INODE].mode,
                                block |-> izone[ROOT_INODE].block]
      BY <2>2, <3>1, <3>2, OffsetsKeepAway DEF Created, WriteInode
    <3>. QED BY <1>2, <3>3 DEF RootInPlace, RootInode
  <2>. QED BY <1>2, <2>1, <2>2, FilesStep
<1>. QED BY <1>1, <1>2, FilesInvariant, PTL DEF FilesSpec

-----------------------------------------------------------------------------
(* A file's block has its inode's number: with a block bitmap of at least  *)
(* one whole block the two bitmaps fill in step, and both searches find    *)
(* the same index.                                                         *)
BlocksSearched == BlockBits <= NBLOCKS

InStep ==
  /\ FilesInv
  /\ bbits = ibits
  /\ ibits \subseteq InodeBits

LEMMA SearchedFromFirst ==
  ASSUME BlocksSearched
  PROVE  /\ NBLOCKS \div 8 \in Nat /\ MX_BLOCKSIZE <= NBLOCKS \div 8
         /\ 0 \in 0 .. mxfs_block_bitmap_nblocks(NBLOCKS) - 1
<1>. DEFINE q == NBLOCKS \div 8
<1>1. q \in Nat /\ MX_BLOCKSIZE <= q
  BY MountAssumption, SizesAssumption DEF BlocksSearched, BlockBits
<1>2. q \div MX_BLOCKSIZE \in Nat /\ q \div MX_BLOCKSIZE >= 1
  <2>. HIDE DEF q
  <2>1. q \div MX_BLOCKSIZE \in Nat /\ q < MX_BLOCKSIZE * (q \div MX_BLOCKSIZE + 1)
    BY <1>1, SizesAssumption, DivRoom
  <2>2. q \div MX_BLOCKSIZE # 0
    BY <1>1, <2>1, SizesAssumption
  <2>. QED BY <2>1, <2>2
<1>. QED BY <1>1, <1>2 DEF mxfs_block_bitmap_nblocks

LEMMA SameIndex ==
  ASSUME BlocksSearched, InStep,
         NEW i \in mxfs_inode_bitmap_get_free_index, InBuffer(i),
         NEW b \in mxfs_block_bitmap_get_free_index
  PROVE  b = i /\ i \in FirstFree(ibits, NINODES)
<1>. DEFINE q == NBLOCKS \div 8
            found == mxfs_block_bitmap_block_free_index(0)
<1>1. sb.ninodes = NINODES /\ sb.nblocks = NBLOCKS /\ NINODES \in Nat
  BY MountedFields, MountAssumption, SizesAssumption DEF InStep, FilesInv, FilesTypeOK
<1>2. i \in FirstFree(ibits, NINODES)
  <2>1. i \in FreeInBlock(ibits, NINODES)
    BY <1>1 DEF mxfs_inode_bitmap_get_free_index
  <2>2. i \notin {NoIndex} \cup PastBuffer(NINODES)
    BY SizesAssumption DEF InBuffer, InodeBits, NoIndex, PastBuffer, BlockBits
  <2>. QED BY <2>1, <2>2 DEF FreeInBlock
<1>3. i \in (0 .. BlockBits - 1) \ ibits
  BY <1>1, <1>2, FirstFreeIsFree
<1>4. BitmapBlock(0) = ibits
  <2>1. \A x \in 0 .. BlockBits - 1 : 0 * BlockBits + x = x
    BY SizesAssumption DEF BlockBits
  <2>. QED BY <2>1 DEF BitmapBlock, InStep, InodeBits
<1>5. q \in Nat /\ MX_BLOCKSIZE <= q
  BY SearchedFromFirst
<1>6. FirstFree(ibits, q) # {}
  <2>1. ByteOf(i) < q
    <3>1. ByteOf(i) < MX_BLOCKSIZE /\ ByteOf(i) \in Nat
      BY <1>3, SizesAssumption DEF ByteOf, BlockBits
    <3>. HIDE DEF q
    <3>. QED BY <1>5, <3>1, SizesAssumption
  <2>. HIDE DEF q
  <2>. QED BY <1>3, <1>5, <2>1, FirstFreeFinds
<1>7. found = FirstFree(ibits, q)
  BY <1>1, <1>4, <1>6 DEF mxfs_block_bitmap_block_free_index, FreeInBlock
<1>8. found = {i}
  <2>. HIDE DEF q
  <2>1. \A j \in FirstFree(ibits, q) : j = i
    BY <1>1, <1>2, <1>5, FirstFreeUnique
  <2>. QED BY <1>6, <1>7, <2>1
<1>9. i # 0
  BY <1>3 DEF InStep, FilesInv, DirentsMatchBitmap, ROOT_INODE
<1>10. b = i
  <2>. DEFINE searched == 0 .. mxfs_block_bitmap_nblocks(sb.nblocks) - 1
              all == [k \in searched |-> mxfs_block_bitmap_block_free_index(k)]
              reached == {k \in searched : \A h \in 0 .. k - 1 : 0 \in all[h]}
  <2>1. 0 \in searched /\ all[0] = {i}
    BY <1>1, <1>8, SearchedFromFirst
  <2>2. b \in (UNION {all[k] \ {0} : k \in reached})
              \cup {j \in {NoIndex} : \A k \in searched : 0 \in all[k]}
    BY DEF mxfs_block_bitmap_get_free_index
  <2>3. reached \subseteq {0}
    <3>1. ASSUME NEW k \in reached PROVE k = 0
      <4>1. k \in Int /\ k >= 0 /\ \A h \in 0 .. k - 1 : 0 \in all[h]
        OBVIOUS
      <4>2. 0 \notin all[0]
        BY <1>9, <2>1
      <4>3. 0 \notin 0 .. k - 1
        BY <4>1, <4>2
      <4>. QED BY <4>1, <4>3
    <3>. QED BY <3>1
  <2>4. ~ \A k \in searched : 0 \in all[k]
    BY <1>9, <2>1
  <2>. HIDE DEF searched, all, reached
  <2>. QED BY <2>1, <2>2, <2>3, <2>4
<1>. QED BY <1>2, <1>10

LEMMA InStepInit == MxfsInit => InStep
<1>. SUFFICES ASSUME MxfsInit PROVE InStep
  OBVIOUS
<1>1. ibits = RootInodes /\ bbits = RootBlocks
  BY Zenon DEF MxfsInit, InodeBitmapInit
<1>2. 0 .. 3 \subseteq InodeBits
  BY SizesAssumption DEF InodeBits, BlockBits
<1>. QED BY <1>1, <1>2, FilesInvInit DEF RootInodes, RootBlocks, InStep

(* A creation that goes through, as the code takes it.                     *)
LEMMA CreateCases ==
  ASSUME NEW name \in Names, mxfs_create_file_rootdir(name)
  PROVE  \/ UNCHANGED <<status, sb, dsb, ibits, bbits, izone, root>>
         \/ /\ FreeEntries # {}
            /\ \E i \in mxfs_inode_bitmap_get_free_index :
                 \/ /\ i # NoIndex /\ ~ InBuffer(i)
                    /\ Die("undefined")
                 \/ /\ InBuffer(i)
                    /\ \E b \in mxfs_block_bitmap_get_free_index :
                         \/ CreateAsserts(i, b) /\ CreateWith(i, b, name)
                         \/ ~ CreateAsserts(i, b) /\ Die("aborted")
BY DEF mxfs_create_file_rootdir, CreateRefused, Return

LEMMA InStepStep ==
  ASSUME BlocksSearched, InStep, [FilesNext]_mxfsVars
  PROVE  InStep'
<1>1. FilesInv'
  BY FilesInvStep DEF InStep
<1>2. ASSUME UNCHANGED <<ibits, bbits>> PROVE InStep'
  BY <1>1, <1>2 DEF InStep, InodeBits
<1>3. ASSUME NEW name \in Names, mxfs_create_file_rootdir(name) PROVE InStep'
  <2>1. ASSUME NEW i \in mxfs_inode_bitmap_get_free_index, InBuffer(i),
               NEW b \in mxfs_block_bitmap_get_free_index,
               CreateWith(i, b, name)
        PROVE  InStep'
    <3>1. b = i /\ i \in InodeBits /\ i # NoIndex
      BY <2>1, SameIndex DEF InBuffer, InodeBits, NoIndex
    <3>2. ibits' = ibits \cup {i} /\ bbits' = bbits \cup {i}
      BY <2>1, <3>1 DEF CreateWith, SetBit, BlockBitSet
    <3>. QED BY <1>1, <3>1, <3>2 DEF InStep, InodeBits
  <2>. QED BY <1>2, <1>3, <2>1, CreateCases DEF Die
<1>4. ASSUME NEW path \in Paths, mxfs_path_to_inode(path) PROVE InStep'
  BY <1>2, <1>4 DEF mxfs_path_to_inode, Die, Return
<1>5. CASE mxfs_print_tree \/ UNCHANGED mxfsVars
  BY <1>2, <1>5 DEF mxfs_print_tree, Die, mxfsVars
<1>. QED BY <1>3, <1>4, <1>5 DEF FilesNext

(* While an entry is free there are fewer files than entries, and no more  *)
(* inodes than entries in use.                                             *)
LEMMA FewerThanEntries ==
  ASSUME FilesInv, FreeEntries # {}
  PROVE  /\ IsFiniteSet(Listed) /\ Cardinality(Listed) < DIRENTS
         /\ \A m \in Nat : 0 .. m - 1 \subseteq ibits => m <= DIRENTS
<1>1. DIRENTS \in Nat
  BY MxfsAssumption
<1>2. IsFiniteSet(1 .. DIRENTS) /\ Cardinality(1 .. DIRENTS) = DIRENTS
  BY <1>1, FS_Interval
<1>3. PICK e \in 1 .. DIRENTS : e \notin Used
  BY DEF FreeEntries, Used
<1>4. /\ IsFiniteSet(Used)
      /\ Cardinality(Used) <= DIRENTS /\ Used # 1 .. DIRENTS
      /\ Cardinality(Used) \in Nat
  <2>1. Used \subseteq 1 .. DIRENTS
    BY DEF Used
  <2>. QED BY <1>2, <1>3, <2>1, FS_Subset, FS_CardinalityType
<1>5. Cardinality(Used) < DIRENTS
  <2>1. Used \subseteq 1 .. DIRENTS
    BY DEF Used
  <2>2. Cardinality(Used) = Cardinality(1 .. DIRENTS) => Used = 1 .. DIRENTS
    BY <1>2, <2>1, FS_Subset
  <2>. QED BY <1>1, <1>2, <1>4, <2>2
<1>6. IsFiniteSet(Listed) /\ Cardinality(Listed) <= Cardinality(Used)
  <2>. DEFINE number == [f \in Used |-> root[f].inode_num]
  <2>1. Listed = {number[f] : f \in Used}
    BY DEF Listed, Used
  <2>2. \A f \in Used : number[f] \in Listed
    BY <2>1
  <2>3. number \in Surjection(Used, Listed)
    BY <2>1, <2>2 DEF Surjection
  <2>. QED BY <1>4, <2>3, FS_Surjection
<1>7. Cardinality(Listed) \in Nat
  BY <1>6, FS_CardinalityType
<1>8. ASSUME NEW m \in Nat, 0 .. m - 1 \subseteq ibits PROVE m <= DIRENTS
  <2>1. IsFiniteSet(ibits) /\ Cardinality(ibits) <= Cardinality(Listed) + 1
        /\ Cardinality(ibits) \in Nat
    <3>1. ibits = Listed \cup {ROOT_INODE}
      BY DEF FilesInv, DirentsMatchBitmap
    <3>. QED BY <1>6, <1>7, <3>1, FS_AddElement, FS_CardinalityType
  <2>2. Cardinality(0 .. m - 1) = m
    BY <1>8, FS_Interval
  <2>3. m <= Cardinality(ibits)
    BY <1>8, <2>1, <2>2, FS_Subset
  <2>. QED BY <1>1, <1>5, <1>6, <1>7, <1>4, <2>1, <2>3
<1>. QED BY <1>1, <1>4, <1>5, <1>6, <1>7, <1>8

(* There are fewer entries than inodes where the inodes end with a byte,   *)
(* or with a block of the bitmap; 102 entries are fewer than 8192 bits.    *)
EntriesFirst == /\ NINODES % 8 # 0 \/ DIRENTS < NINODES
                /\ NINODES <= BlockBits \/ DIRENTS < BlockBits

(* The disk has a data block for every inode of a full byte.               *)
RoomOnDisk ==
  MountedSuperblock.block_base + 8 * ByteOf(NINODES) <= DISK_NBLOCKS

LEMMA ByteOfInodes ==
  /\ NINODES \in Nat /\ ByteOf(NINODES) \in Nat
  /\ 8 * ByteOf(NINODES) <= NINODES /\ NINODES < 8 * ByteOf(NINODES) + 8
  /\ NINODES % 8 = 0 => NINODES = 8 * ByteOf(NINODES)
BY MountAssumption, SizesAssumption DEF ByteOf

(* Where the full bytes are used up, a byte is partly used.                *)
LEMMA PartlyUsed ==
  ASSUME FilesInv, FreeEntries # {}, EntriesFirst,
         0 .. 8 * ByteOf(NINODES) - 1 \subseteq ibits
  PROVE  NINODES % 8 # 0
<1>1. SUFFICES ASSUME NINODES % 8 = 0 PROVE FALSE
  OBVIOUS
<1>2. NINODES \in Nat /\ 0 .. NINODES - 1 \subseteq ibits
  BY <1>1, ByteOfInodes
<1>3. NINODES <= DIRENTS
  BY <1>2, FewerThanEntries
<1>. QED BY <1>1, <1>2, <1>3, MxfsAssumption DEF EntriesFirst

(* The search leaves the block buffer only when the whole block is used,   *)
(* and the directory is full before that.                                  *)
LEMMA StaysInBuffer ==
  ASSUME FilesInv, FreeEntries # {}, EntriesFirst,
         NEW i \in mxfs_inode_bitmap_get_free_index, i # NoIndex
  PROVE  InBuffer(i)
<1>1. SUFFICES ASSUME ~ InBuffer(i) PROVE FALSE
  OBVIOUS
<1>2. i \in FreeInBlock(ibits, NINODES) /\ i \notin 0 .. BlockBits - 1
  BY <1>1, MountedFields
     DEF FilesInv, FilesTypeOK, mxfs_inode_bitmap_get_free_index, InBuffer, InodeBits
<1>3. FirstFree(ibits, NINODES) = {}
  BY <1>2, ByteOfInodes, FirstFreeIsFree DEF FreeInBlock
<1>4. NINODES > MX_BLOCKSIZE
  BY <1>1, <1>2, <1>3 DEF FreeInBlock, PastBuffer
<1>5. BlockBits \in Nat /\ 0 .. BlockBits - 1 \subseteq ibits
  <2>1. BlockBits \in Nat
    BY SizesAssumption DEF BlockBits
  <2>2. ASSUME NEW j \in 0 .. BlockBits - 1 PROVE ByteOf(j) < NINODES
    BY <2>2, <1>4, ByteOfInodes, SizesAssumption DEF ByteOf, BlockBits
  <2>. QED BY <1>3, <2>1, <2>2, ByteOfInodes, FirstFreeFinds
<1>6. BlockBits <= DIRENTS
  BY <1>5, FewerThanEntries
<1>7. BlockBits <= NINODES
  <2>1. BlockBits - 1 \in 0 .. BlockBits - 1
    BY SizesAssumption DEF BlockBits
  <2>2. BlockBits - 1 \in Inodes
    BY <1>5, <2>1 DEF FilesInv, FilesTypeOK
  <2>. QED BY <1>5, <2>2, ByteOfInodes DEF Inodes
<1>8. BlockBits % 8 = 0
  BY SizesAssumption DEF BlockBits
<1>9. CASE NINODES <= BlockBits
  <2>1. NINODES = BlockBits
    BY <1>5, <1>7, <1>9, ByteOfInodes
  <2>. QED BY <1>5, <1>6, <1>8, <2>1, MxfsAssumption DEF EntriesFirst
<1>10. CASE DIRENTS < BlockBits
  BY <1>5, <1>6, <1>10, MxfsAssumption
<1>. QED BY <1>9, <1>10 DEF EntriesFirst

(* An assertion fails only in the byte the inodes end in.                  *)
LEMMA AssertsHold ==
  ASSUME BlocksSearched, RoomOnDisk, InStep,
         NEW i \in mxfs_inode_bitmap_get_free_index, InBuffer(i),
         NEW b \in mxfs_block_bitmap_get_free_index,
         ~ CreateAsserts(i, b)
  PROVE  0 .. 8 * ByteOf(NINODES) - 1 \subseteq ibits
<1>1. b = i /\ i \in FirstFree(ibits, NINODES)
  BY SameIndex
<1>2. PICK c \in Nat : /\ c < MX_BLOCKSIZE
                       /\ i \in BitsOf(c) \ ibits
                       /\ \A d \in 0 .. c - 1 : BitsOf(d) \subseteq ibits
  BY <1>1, ByteOfInodes, FirstFreeShape
<1>3. 0 .. 8 * c - 1 \subseteq ibits
  <2>1. ASSUME NEW j \in 0 .. 8 * c - 1 PROVE j \in ibits
    <3>1. ByteOf(j) \in 0 .. c - 1 /\ j \in BitsOf(ByteOf(j))
      BY <1>2, <2>1 DEF ByteOf, BitsOf
    <3>. QED BY <1>2, <3>1
  <2>. QED BY <2>1
<1>4. ~ (ByteOf(NINODES) < c)
  <2>1. ASSUME ByteOf(NINODES) < c PROVE NINODES \in 0 .. 8 * c - 1
    BY <1>2, <2>1, ByteOfInodes
  <2>2. NINODES \notin ibits
    BY ByteOfInodes DEF InStep, FilesInv, FilesTypeOK, Inodes
  <2>. QED BY <1>3, <2>1, <2>2
<1>5. ~ (c < ByteOf(NINODES))
  <2>1. SUFFICES ASSUME c < ByteOf(NINODES) PROVE FALSE
    OBVIOUS
  <2>2. i \in Nat /\ i < 8 * ByteOf(NINODES) /\ i <= 8 * c + 7
    BY <1>2, <2>1, ByteOfInodes DEF BitsOf
  <2>3. i \in Inodes
    BY <2>2, ByteOfInodes DEF Inodes
  <2>4. i \in DataBlocks
    BY <1>2, <2>2, MountAssumption, SizesAssumption
       DEF BlocksSearched, BlockBits, DataBlocks
  <2>5. OnDisk(i)
    <3>1. sb.block_base = MountedSuperblock.block_base /\ sb.block_base \in Nat
      BY MountedType DEF InStep, FilesInv, FilesTypeOK, Superblock
    <3>. HIDE DEF MountedSuperblock
    <3>. QED BY <2>2, <3>1, ByteOfInodes, MxfsAssumption DEF RoomOnDisk, OnDisk
  <2>. QED BY <1>1, <2>3, <2>4, <2>5 DEF CreateAsserts
<1>. QED BY <1>2, <1>3, <1>4, <1>5, ByteOfInodes

(* A creation of any file, on a file system of any size whose disk and     *)
(* block bitmap have room, goes through or is refused until the inodes of  *)
(* all full bytes of the inode bitmap are in use.                          *)
THEOREM CreationsGoThrough ==
  ASSUME BlocksSearched, EntriesFirst, RoomOnDisk
  PROVE  FilesSpec => CreateStopsOnlyInLastByte
<1>1. ASSUME InStep, NEW name \in Names,
             mxfs_create_file_rootdir(name), status' # "running"
      PROVE  /\ NINODES % 8 # 0
             /\ 0 .. 8 * ByteOf(NINODES) - 1 \subseteq ibits
  <2>1. status = "running" /\ FilesInv
    BY <1>1 DEF mxfs_create_file_rootdir, Running, InStep
  <2>2. PICK i \in mxfs_inode_bitmap_get_free_index :
          /\ FreeEntries # {}
          /\ \/ i # NoIndex /\ ~ InBuffer(i)
             \/ /\ InBuffer(i)
                /\ \E b \in mxfs_block_bitmap_get_free_index : ~ CreateAsserts(i, b)
    BY <1>1, <2>1, CreateCases DEF CreateWith, Return
  <2>3. InBuffer(i)
    BY <2>1, <2>2, StaysInBuffer
  <2>4. 0 .. 8 * ByteOf(NINODES) - 1 \subseteq ibits
    BY <1>1, <2>2, <2>3, AssertsHold
  <2>. QED BY <2>1, <2>2, <2>4, PartlyUsed
<1>2. ASSUME InStep
      PROVE  \A name \in Names :
               mxfs_create_file_rootdir(name) /\ status' # "running" =>
                 /\ NINODES % 8 # 0
                 /\ 0 .. 8 * ByteOf(NINODES) - 1 \subseteq ibits
  BY <1>1, <1>2
<1>. QED BY <1>2, InStepInit, InStepStep, PTL DEF FilesSpec, CreateStopsOnlyInLastByte

-----------------------------------------------------------------------------
(* The walk along a path is a function of the component, defined from the  *)
(* last component on: such a function exists, for paths of any length, so  *)
(* that Walk is one.                                                       *)
Walks(path, f) ==
  f = [k \in 1 .. NComponents(path) |-> [i \in Inodes |-> WalkFrom(path, k, i, f[k + 1])]]

LEMMA SlashesFinite ==
  ASSUME NEW path \in Seq(STRING)
  PROVE  /\ IsFiniteSet(Slashes(path)) /\ Cardinality(Slashes(path)) \in Nat
         /\ NComponents(path) \in Nat /\ NComponents(path) >= 1
<1>1. IsFiniteSet(0 .. Len(path) - 1)
  BY FS_Interval
<1>2. IsFiniteSet(Slashes(path))
  BY <1>1, FS_Subset DEF Slashes
<1>. QED BY <1>2, FS_CardinalityType DEF NComponents

LEMMA PastLastComponent ==
  ASSUME NEW path \in Seq(STRING), NEW i, NEW onwards
  PROVE  WalkFrom(path, NComponents(path), i, onwards) = {i}
BY SlashesFinite DEF WalkFrom

LEMMA WalkExists ==
  ASSUME NEW path \in Seq(STRING)
  PROVE  \E f : Walks(path, f)
<1>. DEFINE N == NComponents(path)
            From(k, f) == [i \in Inodes |-> WalkFrom(path, k, i, f[k + 1])]
            Back(m) == \E f : f = [k \in N + 1 - m .. N |-> From(k, f)]
            Lacking == {m \in 0 .. N : ~ Back(m)}
<1>1. N \in Nat /\ N >= 1
  BY SlashesFinite
<1>2. \A f, g : From(N, f) = From(N, g)
  BY PastLastComponent
<1>3. \A f, g, k : f[k + 1] = g[k + 1] => From(k, f) = From(k, g)
  OBVIOUS
<1>. HIDE DEF N, From
<1>4. Back(0)
  <2>1. N + 1 - 0 .. N = {}
    BY <1>1
  <2>. DEFINE f == [k \in {} |-> 0]
  <2>2. f = [k \in N + 1 - 0 .. N |-> From(k, f)]
    BY <2>1
  <2>. QED BY <2>2
<1>5. ASSUME NEW m \in 0 .. N - 1, Back(m) PROVE Back(m + 1)
  <2>1. PICK f : f = [k \in N + 1 - m .. N |-> From(k, f)]
    BY <1>5
  <2>. DEFINE g == [k \in N - m .. N |-> IF k = N - m THEN From(k, f) ELSE f[k]]
  <2>2. ASSUME NEW k \in N - m .. N PROVE g[k] = From(k, g)
    <3>1. g[k] = From(k, f)
      BY <1>1, <2>1
    <3>2. CASE k = N
      BY <1>2, <3>1, <3>2
    <3>3. CASE k # N
      <4>1. g[k + 1] = f[k + 1]
        BY <1>1, <3>3
      <4>. QED BY <1>3, <3>1, <4>1
    <3>. QED BY <3>2, <3>3
  <2>3. N + 1 - (m + 1) = N - m
    BY <1>1
  <2>4. g = [k \in N - m .. N |-> From(k, g)]
    BY <2>2
  <2>. QED BY <2>3, <2>4
<1>6. Lacking = {}
  <2>1. SUFFICES ASSUME Lacking # {} PROVE FALSE
    OBVIOUS
  <2>2. Lacking \in SUBSET Nat
    OBVIOUS
  <2>3. PICK m \in Lacking : \A n \in Lacking : m <= n
    BY <2>1, <2>2, LeastElement
  <2>4. m # 0 /\ m \in 0 .. N
    BY <1>4, <2>3
  <2>5. m - 1 \in 0 .. N - 1 /\ m - 1 \in 0 .. N /\ ~ (m <= m - 1) /\ m - 1 + 1 = m
    BY <1>1, <2>4
  <2>6. Back(m - 1)
    BY <2>3, <2>5
  <2>7. Back(m - 1 + 1)
    BY <1>5, <2>5, <2>6
  <2>. QED BY <2>3, <2>5, <2>7
<1>7. Back(N)
  <2>1. N \in 0 .. N /\ \A m \in 0 .. N : m \notin Lacking => Back(m)
    BY <1>1
  <2>. QED BY <1>6, <2>1
<1>8. PICK f : f = [k \in N + 1 - N .. N |-> From(k, f)]
  BY <1>7
<1>9. f = [k \in 1 .. N |-> From(k, f)]
  BY <1>1, <1>8
<1>. QED BY <1>9 DEF Walks, N, From

LEMMA WalkIsOne ==
  ASSUME NEW path \in Seq(STRING)
  PROVE  \E f : Walks(path, f) /\ Walk(path) = f[1][ROOT_INODE]
<1>. DEFINE from == CHOOSE f : Walks(path, f)
<1>1. Walks(path, from)
  BY WalkExists
<1>2. Walk(path) = from[1][ROOT_INODE]
  BY DEF Walk, Walks
<1>. QED BY <1>1, <1>2

(* A path that is looked up is not the slash alone, whose last component   *)
(* is copied with length -1, and an indexer has room for two components.   *)
ReadablePaths == <<Slash>> \notin Paths /\ PATH_ENTRIES >= 2

Component(path) == ReadComponent(path, Entry(path, 1))

(* What the search of the root directory finds.                            *)
Found(component) ==
  IF Matching(component) = {} THEN Failed
                              ELSE root[FirstOf(Matching(component))].inode_num

LEMMA OneSlash ==
  ASSUME ReadablePaths, NEW path \in TopLevelPaths
  PROVE  /\ path \in Seq(STRING) /\ Len(path) \in Nat /\ Len(path) >= 2
         /\ NComponents(path) = 2 /\ path[1] = Slash
         /\ Slashes(path) = {0}
         /\ Entry(path, 1) = [start |-> 1, end |-> Len(path) - 1]
<1>1. path \in Seq(STRING) /\ NComponents(path) = 2 /\ path[1] = Slash /\ path \in Paths
  BY MxfsAssumption DEF TopLevelPaths
<1>2. Len(path) \in Nat
  BY <1>1
<1>3. IsFiniteSet(Slashes(path)) /\ Cardinality(Slashes(path)) = 1
  BY <1>1, SlashesFinite DEF NComponents
<1>4. PICK s : Slashes(path) = {s}
  BY <1>3, FS_Singleton
<1>5. Len(path) # 0
  BY <1>2, <1>4 DEF Slashes
<1>6. Slashes(path) = {0}
  <2>1. 0 \in Slashes(path)
    BY <1>1, <1>2, <1>5 DEF Slashes
  <2>. QED BY <1>4, <2>1
<1>7. Len(path) # 1
  <2>1. ASSUME Len(path) = 1 PROVE path = <<Slash>>
    BY <1>1, <2>1
  <2>. QED BY <1>1, <2>1 DEF ReadablePaths
<1>8. SlashAfter(path, 0) = 0
  <2>1. {h \in Slashes(path) : h < 0} = {}
    BY <1>6
  <2>2. Cardinality({h \in Slashes(path) : h < 0}) = 0
    BY <2>1, FS_EmptySet
  <2>. QED BY <1>6, <2>2 DEF SlashAfter
<1>9. Entry(path, 1) = [start |-> 1, end |-> Len(path) - 1]
  <2>1. SlashAfter(path, 1 - 1) + 1 = 1
    BY <1>8
  <2>. QED BY <1>1, <2>1 DEF Entry
<1>10. Len(path) >= 2
  <2>1. \A n \in Nat : n # 0 /\ n # 1 => n >= 2
    OBVIOUS
  <2>. QED BY <1>2, <1>5, <1>7, <2>1
<1>. QED BY <1>1, <1>2, <1>6, <1>9, <1>10

LEMMA FirstMatching ==
  ASSUME NEW component, Matching(component) # {}
  PROVE  /\ FirstOf(Matching(component)) \in Matching(component)
         /\ \A e \in Matching(component) : FirstOf(Matching(component)) <= e
<1>. DEFINE hits == Matching(component)
<1>1. hits \in SUBSET Nat
  BY MxfsAssumption DEF Matching
<1>. HIDE DEF hits
<1>2. hits # {}
  BY DEF hits
<1>3. \E e \in hits : \A f \in hits : e <= f
  BY <1>1, <1>2, LeastElement
<1>. QED BY <1>3 DEF FirstOf, hits

LEMMA FoundType ==
  ASSUME FilesTypeOK, NEW component
  PROVE  Found(component) \in Inodes \cup {Failed}
<1>1. CASE Matching(component) = {}
  BY <1>1 DEF Found
<1>2. CASE Matching(component) # {}
  <2>1. FirstOf(Matching(component)) \in 1 .. DIRENTS
    BY <1>2, FirstMatching DEF Matching
  <2>. QED BY <1>2, <2>1 DEF Found, FilesTypeOK
<1>. QED BY <1>1, <1>2

LEMMA TopLevelAnswer ==
  ASSUME ReadablePaths, FilesTypeOK, RootInPlace, NEW path \in TopLevelPaths
  PROVE  PathToInode(path) = {Found(Component(path))}
<1>. DEFINE answer == Found(Component(path))
<1>1. /\ path \in Seq(STRING) /\ NComponents(path) = 2 /\ path[1] = Slash
      /\ path # <<>>
      /\ ~ Unreadable(Entry(path, 1))
  BY OneSlash DEF Unreadable
<1>2. ROOT_INODE \in Inodes /\ answer \in Inodes \cup {Failed}
  BY FoundType, MountAssumption, SizesAssumption DEF ROOT_INODE, Inodes
<1>3. izone[ROOT_INODE].mode = MX_INODE_DIR /\ izone[ROOT_INODE].block = 0
  BY DEF RootInPlace, RootInode
<1>4. search_directory(ROOT_INODE, Component(path)) = {answer}
  BY <1>3 DEF search_directory, BlockMayDiffer, BlockMayBe, Found
<1>. HIDE DEF answer
<1>5. PICK f : Walks(path, f) /\ Walk(path) = f[1][ROOT_INODE]
  BY <1>1, WalkIsOne
<1>6. f[2] = [i \in Inodes |-> {i}]
  <2>1. f[2] = [i \in Inodes |-> WalkFrom(path, 2, i, f[2 + 1])]
    BY <1>1, <1>5 DEF Walks
  <2>2. \A i \in Inodes : WalkFrom(path, 2, i, f[2 + 1]) = {i}
    BY <1>1, PastLastComponent
  <2>. QED BY <2>1, <2>2
<1>7. f[1][ROOT_INODE] = WalkFrom(path, 1, ROOT_INODE, f[2])
  <2>1. f[1] = [i \in Inodes |-> WalkFrom(path, 1, i, f[1 + 1])]
    BY <1>1, <1>5 DEF Walks
  <2>. QED BY <1>2, <2>1
<1>8. WalkFrom(path, 1, ROOT_INODE, f[2]) = {answer}
  <2>1. WalkFrom(path, 1, ROOT_INODE, f[2])
          = UNION {IF r \in Inodes THEN f[2][r] ELSE {r} : r \in {answer}}
    BY <1>1, <1>4 DEF WalkFrom, Component
  <2>2. (IF answer \in Inodes THEN f[2][answer] ELSE {answer}) = {answer}
    BY <1>6
  <2>. QED BY <2>1, <2>2
<1>9. PathToInode(path) = Walk(path)
  <2>1. ~ (path = <<>> \/ NComponents(path) > PATH_ENTRIES)
    BY <1>1, PathAssumption DEF ReadablePaths
  <2>2. ~ ModeMayDiffer(ROOT_INODE, MX_INODE_DIR) /\ ModeMayBe(ROOT_INODE, MX_INODE_DIR)
    BY <1>3 DEF ModeMayDiffer, ModeMayBe
  <2>. QED BY <1>1, <2>1, <2>2 DEF PathToInode
<1>. QED BY <1>5, <1>7, <1>8, <1>9 DEF answer

(* A lookup in the root directory has an answer, and one, after any calls, *)
(* for every number of files and any paths that can be read.               *)
THEOREM LookupsAnswered ==
  ASSUME SmallBlocks, ReadablePaths
  PROVE  FilesSpec => []TopLevelAnswered
<1>1. FilesInv /\ RootInPlace => TopLevelAnswered
  BY TopLevelAnswer, FoundType DEF FilesInv, TopLevelAnswered
<1>. QED BY <1>1, FilesInvariant, RootStaysInPlace, PTL

-----------------------------------------------------------------------------
(* The refinement of the abstract directory.  A component that is looked   *)
(* up has a character, so no free entry matches it.                        *)
LEMMA ComponentNotEmpty ==
  ASSUME ReadablePaths, NEW path \in TopLevelPaths
  PROVE  Len(Component(path)) \in Nat /\ Len(Component(path)) >= 1
<1>. DEFINE n == Len(path)
<1>1. /\ path \in Seq(STRING) /\ n \in Nat /\ n >= 2
      /\ Slashes(path) = {0}
      /\ Entry(path, 1) = [start |-> 1, end |-> n - 1]
  BY OneSlash
<1>2. path[n] # Slash
  <2>1. \A m \in Nat : m >= 2 => m - 1 \in 0 .. m - 1 /\ m - 1 # 0 /\ m - 1 + 1 = m
    OBVIOUS
  <2>2. n - 1 \in 0 .. n - 1 /\ n - 1 # 0 /\ n - 1 + 1 = n
    BY <1>1, <2>1
  <2>3. n - 1 \notin Slashes(path)
    BY <1>1, <2>2
  <2>. QED BY <2>2, <2>3 DEF Slashes
<1>3. Component(path) = IF n - 1 = 1 THEN <<path[2]>> ELSE SubSeq(path, 2, n)
  <2>1. n - 1 + 1 = n /\ 1 + 1 = 2
    BY <1>1
  <2>2. Entry(path, 1).start = 1 /\ Entry(path, 1).end = n - 1
    BY <1>1
  <2>. HIDE DEF n
  <2>. QED BY <1>2, <2>1, <2>2 DEF Component, ReadComponent
<1>4. CASE n - 1 = 1
  BY <1>3, <1>4
<1>5. CASE n - 1 # 1
  <2>1. Len(SubSeq(path, 2, n)) = n - 2 + 1
    BY <1>1, <1>5, SubSeqProperties
  <2>2. n - 2 + 1 \in Nat /\ n - 2 + 1 >= 1
    BY <1>1
  <2>. HIDE DEF n
  <2>. QED BY <1>3, <1>5, <2>1, <2>2
<1>. QED BY <1>4, <1>5

LEMMA OnlyUsedMatch ==
  ASSUME FilesInv, NEW component, Len(component) \in Nat, Len(component) >= 1
  PROVE  /\ Matching(component) \subseteq Used
         /\ \A e \in FreeEntries : ~ IsPrefix(component, root[e].name)
<1>1. ~ IsPrefix(component, <<>>)
  <2>1. Len(<<>>) = 0
    OBVIOUS
  <2>. QED BY <2>1 DEF IsPrefix
<1>2. \A e \in FreeEntries : root[e].name = <<>>
  BY DEF FilesInv, FreeEntry
<1>3. \A e \in FreeEntries : ~ IsPrefix(component, root[e].name)
  BY <1>1, <1>2
<1>. QED BY <1>3 DEF Matching, Used, FreeEntries

LEMMA FoundIsListed ==
  ASSUME FilesInv, NEW component, Len(component) \in Nat, Len(component) >= 1
  PROVE  /\ Found(component) \in Listed \cup {Failed}
         /\ Found(component) = Failed <=> Matching(component) = {}
<1>1. Listed \subseteq Inodes /\ Failed \notin Inodes
  BY ByteOfInodes DEF FilesInv, FilesTypeOK, Listed, Failed, Inodes
<1>2. CASE Matching(component) = {}
  BY <1>2 DEF Found
<1>3. CASE Matching(component) # {}
  <2>1. FirstOf(Matching(component)) \in Used
    BY <1>3, FirstMatching, OnlyUsedMatch
  <2>2. Found(component) \in Listed
    BY <1>3, <2>1 DEF Found, Listed, Used
  <2>. QED BY <1>1, <1>3, <2>2
<1>. QED BY <1>2, <1>3

(* A new entry, behind all used ones, is what a component resolves to that *)
(* matches its name and matched nothing before.                            *)
LEMMA FoundAfterCreate ==
  ASSUME FilesInv, NEW component, Len(component) \in Nat, Len(component) >= 1,
         NEW i \in Inodes, NEW b, NEW e \in 1 .. DIRENTS, NEW name,
         Created(i, b, e, name)
  PROVE  Found(component)' = IF Found(component) = Failed /\ IsPrefix(component, name)
                             THEN i ELSE Found(component)
<1>1. /\ root'[e].name = name /\ root'[e].inode_num = i
      /\ \A f \in 1 .. DIRENTS : f # e => root'[f] = root[f]
  <2>1. /\ i # 0
        /\ root'[e] = [inode_num |-> i, name |-> name]
        /\ \A f \in 1 .. DIRENTS : f # e => root'[f] = root[f]
        /\ Used' = Used \cup {e}
        /\ FreeEntries' = FreeEntries \ {e}
        /\ Listed' = Listed \cup {i}
    BY CreatedEntries, Zenon
  <2>. QED BY <2>1
<1>2. e \in FreeEntries /\ ~ IsPrefix(component, root[e].name)
  BY OnlyUsedMatch DEF Created
<1>3. Matching(component)'
        = Matching(component) \cup {f \in {e} : IsPrefix(component, name)}
  BY <1>1, <1>2 DEF Matching
<1>. DEFINE hits == Matching(component)
            first == FirstOf(hits)
<1>4. CASE hits = {} /\ ~ IsPrefix(component, name)
  <2>1. Matching(component)' = {}
    BY <1>3, <1>4
  <2>. QED BY <1>4, <2>1 DEF Found
<1>5. CASE hits = {} /\ IsPrefix(component, name)
  <2>1. Matching(component)' = {e}
    BY <1>3, <1>5
  <2>2. FirstOf({e}) = e
    BY DEF FirstOf
  <2>3. Found(component)' = i
    BY <1>1, <2>1, <2>2 DEF Found
  <2>. QED BY <1>5, <2>3, FoundIsListed
<1>6. CASE hits # {}
  <2>1. first \in hits /\ \A f \in hits : first <= f
    BY <1>6, FirstMatching
  <2>2. first \in Used /\ first \in 1 .. DIRENTS
    BY <2>1, OnlyUsedMatch DEF Used
  <2>3. first # e /\ first <= e
    <3>1. e \notin Used
      BY <1>2 DEF FreeEntries, Used
    <3>2. e \notin 1 .. first
      BY <2>2, <3>1 DEF FilesInv, NoHoles
    <3>. HIDE DEF first
    <3>. QED BY <2>2, <3>1, <3>2, MxfsAssumption
  <2>. DEFINE after == Matching(component)'
  <2>4. first \in after /\ \A f \in after : first <= f
    BY <1>3, <2>1, <2>3
  <2>5. \A f \in after : (\A g \in after : f <= g) => f = first
    <3>1. after \subseteq 1 .. DIRENTS
      BY <1>3 DEF Matching
    <3>. HIDE DEF after, first
    <3>. QED BY <2>2, <2>4, <3>1, MxfsAssumption
  <2>6. FirstOf(after) = first
    <3>. HIDE DEF after, first
    <3>. QED BY <2>4, <2>5 DEF FirstOf
  <2>7. Found(component)' = root'[first].inode_num
    <3>1. after # {}
      BY <2>4
    <3>. QED BY <2>6, <3>1 DEF Found
  <2>8. root'[first] = root[first]
    BY <1>1, <2>2, <2>3
  <2>9. Found(component)' = Found(component) /\ Found(component) # Failed
    BY <1>6, <2>7, <2>8, FoundIsListed DEF Found
  <2>. QED BY <2>9
<1>. QED BY <1>4, <1>5, <1>6

(* How a call ends: with the process as it was, or with the process gone   *)
(* and the directory untouched.                                            *)
LEMMA CallsEnd ==
  ASSUME [FilesNext]_mxfsVars
  PROVE  \/ UNCHANGED status
         \/ Running /\ status' # "running" /\ UNCHANGED root
<1>1. ASSUME NEW name \in Names, mxfs_create_file_rootdir(name)
      PROVE  \/ UNCHANGED status
             \/ Running /\ status' # "running" /\ UNCHANGED root
  <2>1. Running
    BY <1>1 DEF mxfs_create_file_rootdir
  <2>. QED BY <1>1, <2>1, CreateCases DEF Die, Stop, CreateWith, Return
<1>2. ASSUME NEW path \in Paths, mxfs_path_to_inode(path)
      PROVE  \/ UNCHANGED status
             \/ Running /\ status' # "running" /\ UNCHANGED root
  BY <1>2 DEF mxfs_path_to_inode, Die, Stop, Return
<1>3. CASE mxfs_print_tree
  BY <1>3 DEF mxfs_print_tree, Die, Stop, mxfsVars
<1>4. CASE UNCHANGED mxfsVars
  BY <1>4 DEF mxfsVars
<1>. QED BY <1>1, <1>2, <1>3, <1>4 DEF FilesNext

(* A file is created while the process runs, and it goes on running.       *)
LEMMA CreatedRunning ==
  ASSUME FilesInv, [FilesNext]_mxfsVars, NEW i \in Inodes, NEW b,
         NEW e \in 1 .. DIRENTS, NEW name, Created(i, b, e, name)
  PROVE  Running /\ UNCHANGED status
<1>1. root' # root
  <2>1. root'[e] = [inode_num |-> i, name |-> name] /\ i # 0
    <3>1. DOMAIN root = 1 .. DIRENTS
      BY DEF FilesInv, FilesTypeOK
    <3>2. root'[e] = [inode_num |-> i, name |-> name]
      BY <3>1 DEF Created
    <3>3. i # 0
      BY DEF Created, FilesInv, DirentsMatchBitmap, ROOT_INODE
    <3>. QED BY <3>2, <3>3
  <2>2. root[e].inode_num = 0
    BY DEF Created, FreeEntries
  <2>. QED BY <2>1, <2>2
<1>2. UNCHANGED status
  BY <1>1, CallsEnd
<1>3. FilesNext
  BY <1>1 DEF mxfsVars
<1>. QED
  BY <1>2, <1>3
     DEF FilesNext, mxfs_create_file_rootdir, mxfs_path_to_inode, mxfs_print_tree

LEMMA TopLevelResolves ==
  ASSUME ReadablePaths, FilesInv, RootInPlace, NEW path \in TopLevelPaths
  PROVE  ResolvesTo(path) = Found(Component(path))
BY TopLevelAnswer DEF ResolvesTo, FilesInv

Resolved == [path \in TopLevelPaths |-> ResolvesTo(path)]

LEMMA ResolvedIs ==
  ReadablePaths /\ FilesInv /\ RootInPlace =>
    Resolved = [path \in TopLevelPaths |-> Found(Component(path))]
BY TopLevelResolves DEF Resolved

(* A creation through all its writes is one step of the abstract directory *)
(* and every other call a stutter, or the end.                             *)
LEMMA DirectoryStep ==
  ASSUME ReadablePaths, FilesInv, RootInPlace, FilesInv', RootInPlace',
         [FilesNext]_mxfsVars
  PROVE  [AbstractDirectory!DirectoryNext]_AbstractDirectory!directoryVars
<1>1. /\ Resolved = [path \in TopLevelPaths |-> Found(Component(path))]
      /\ Resolved' = [path \in TopLevelPaths |-> Found(Component(path))']
  <2>1. (ReadablePaths /\ FilesInv /\ RootInPlace =>
           Resolved = [path \in TopLevelPaths |-> Found(Component(path))])'
    BY ResolvedIs, PTL
  <2>. QED BY <2>1, ResolvedIs DEF ReadablePaths, TopLevelPaths, Component
<1>2. CASE UNCHANGED root
  <2>1. UNCHANGED <<Listed, Resolved>>
    BY <1>1, <1>2 DEF Listed, Found, Matching
  <2>2. CASE UNCHANGED status
    BY <2>1, <2>2 DEF AbstractDirectory!directoryVars, Resolved, Running
  <2>3. CASE Running /\ status' # "running"
    <3>1. AbstractDirectory!Fail
      BY <2>1, <2>3 DEF AbstractDirectory!Fail, Resolved, Running
    <3>. QED BY <3>1 DEF AbstractDirectory!DirectoryNext
  <2>. QED BY <2>2, <2>3, CallsEnd
<1>3. ASSUME NEW i \in Inodes, NEW b \in DataBlocks, NEW e \in 1 .. DIRENTS,
             NEW name \in Names, Created(i, b, e, name)
      PROVE  AbstractDirectory!CreateFile(name)
  <2>1. Running /\ Running'
    BY <1>3, CreatedRunning DEF Running
  <2>2. Cardinality(Listed) < DIRENTS
    BY <1>3, FewerThanEntries DEF Created
  <2>3. i \in (Inodes \ {ROOT_INODE}) \ Listed
    BY <1>3 DEF Created, FilesInv, DirentsMatchBitmap
  <2>4. Listed' = Listed \cup {i}
    BY <1>3, CreatedEntries
  <2>5. Resolved' = [p \in TopLevelPaths |->
                       IF /\ Resolved[p] = Failed
                          /\ <<p, name>> \in {pn \in TopLevelPaths \X Names :
                                IsPrefix(ReadComponent(pn[1], Entry(pn[1], 1)), pn[2])}
                       THEN i ELSE Resolved[p]]
    <3>1. ASSUME NEW p \in TopLevelPaths
          PROVE  Found(Component(p))' = IF Found(Component(p)) = Failed
                                             /\ IsPrefix(Component(p), name)
                                        THEN i ELSE Found(Component(p))
      BY <1>3, ComponentNotEmpty, FoundAfterCreate
    <3>. QED BY <1>1, <3>1 DEF Component
  <2>6. AbstractDirectory!Cardinality(Listed) = Cardinality(Listed)
    BY DEF AbstractDirectory!Cardinality, Cardinality
  <2>. QED
    BY <2>1, <2>2, <2>3, <2>4, <2>5, <2>6 DEF AbstractDirectory!CreateFile, Resolved, Running
<1>4. CASE \E i \in Inodes, b \in DataBlocks, e \in 1 .. DIRENTS, name \in Names :
             Created(i, b, e, name)
  BY <1>3, <1>4 DEF AbstractDirectory!DirectoryNext
<1>. QED BY <1>2, <1>4, FilesStep

LEMMA DirectoryStart ==
  ASSUME ReadablePaths, FilesInv, RootInPlace, MxfsInit
  PROVE  AbstractDirectory!DirectoryInit
<1>1. Listed \subseteq Inodes \ {ROOT_INODE}
  BY DEF FilesInv, FilesTypeOK, Listed, ROOT_INODE
<1>2. Resolved \in [TopLevelPaths -> Listed \cup {Failed}]
  BY ResolvedIs, ComponentNotEmpty, FoundIsListed
<1>3. Running
  BY DEF MxfsInit, InodeBitmapInit, Running
<1>. QED BY <1>1, <1>2, <1>3 DEF AbstractDirectory!DirectoryInit, Resolved

(* The file system of the code's block size is a directory, whatever the   *)
(* number of its inodes, blocks and entries: files stay, and what a path   *)
(* resolves to is settled by the first file it matches.                    *)
THEOREM FilesAreADirectory ==
  ASSUME SmallBlocks, ReadablePaths
  PROVE  FilesSpec => ImplementsDirectory
<1>1. MxfsInit /\ FilesInv /\ RootInPlace => AbstractDirectory!DirectoryInit
  BY DirectoryStart
<1>2. FilesInv /\ RootInPlace /\ FilesInv' /\ RootInPlace' /\ [FilesNext]_mxfsVars
        => [AbstractDirectory!DirectoryNext]_AbstractDirectory!directoryVars
  BY DirectoryStep
<1>. QED
  BY <1>1, <1>2, FilesInvariant, RootStaysInPlace, PTL
     DEF FilesSpec, ImplementsDirectory, AbstractDirectory!DirectorySpec

-----------------------------------------------------------------------------
(* The type invariant, with the calls that store and clear by number.      *)
(* Which inode a walk comes to, and how it may fail.                       *)
Answers == Inodes \cup {Failed, Aborts, Crashes}

Entered == root \in [1 .. DIRENTS -> Dirents]

LEMMA SearchType ==
  ASSUME Entered, NEW i, NEW component
  PROVE  search_directory(i, component) \subseteq Answers
<1>. DEFINE answer == IF Matching(component) = {} THEN Failed
                      ELSE root[FirstOf(Matching(component))].inode_num
<1>1. answer \in Answers
  <2>1. CASE Matching(component) = {}
    BY <2>1 DEF Answers
  <2>2. CASE Matching(component) # {}
    <3>1. FirstOf(Matching(component)) \in 1 .. DIRENTS
      BY <2>2, FirstMatching DEF Matching
    <3>2. root[FirstOf(Matching(component))].inode_num \in Inodes
      BY <3>1 DEF Entered, Dirents
    <3>. QED BY <2>2, <3>2 DEF Answers
  <2>. QED BY <2>1, <2>2
<1>2. search_directory(i, component) \subseteq {Aborts, answer}
  BY DEF search_directory
<1>. HIDE DEF answer
<1>. QED BY <1>1, <1>2 DEF Answers

LEMMA WalkFromType ==
  ASSUME Entered, NEW path, NEW k, NEW i \in Inodes, NEW onwards,
         \/ \A r \in Inodes : onwards[r] \subseteq Answers
         \/ k > NComponents(path) - 1
  PROVE  WalkFrom(path, k, i, onwards) \subseteq Answers
<1>1. CASE k > NComponents(path) - 1
  BY <1>1 DEF WalkFrom, Answers
<1>2. CASE ~ (k > NComponents(path) - 1)
  <2>. DEFINE next == search_directory(i, ReadComponent(path, Entry(path, k)))
  <2>1. next \subseteq Answers
    BY SearchType
  <2>. HIDE DEF next
  <2>2. \A r \in next : (IF r \in Inodes THEN onwards[r] ELSE {r}) \subseteq Answers
    BY <1>2, <2>1
  <2>3. \A r \in WalkFrom(path, k, i, onwards) :
          \/ r \in {Crashes, Failed}
          \/ \E n \in next : r \in (IF n \in Inodes THEN onwards[n] ELSE {n})
    BY <1>2 DEF WalkFrom, next
  <2>. QED BY <2>2, <2>3 DEF Answers
<1>. QED BY <1>1, <1>2

LEMMA WalkType ==
  ASSUME Entered, NEW path \in Seq(STRING)
  PROVE  Walk(path) \subseteq Answers
<1>. DEFINE N == NComponents(path)
<1>1. PICK f : Walks(path, f) /\ Walk(path) = f[1][ROOT_INODE]
  BY WalkIsOne
<1>. DEFINE Typed(k) == \A i \in Inodes : f[k][i] \subseteq Answers
            Untyped == {m \in 0 .. N - 1 : ~ Typed(N - m)}
<1>2. N \in Nat /\ N >= 1
  BY SlashesFinite
<1>3. ASSUME NEW k \in 1 .. N, k = N \/ Typed(k + 1) PROVE Typed(k)
  <2>1. f[k] = [i \in Inodes |-> WalkFrom(path, k, i, f[k + 1])]
    BY <1>1 DEF Walks
  <2>2. k > N - 1 \/ \A r \in Inodes : f[k + 1][r] \subseteq Answers
    <3>. HIDE DEF N
    <3>. QED BY <1>2, <1>3
  <2>3. \A i \in Inodes : WalkFrom(path, k, i, f[k + 1]) \subseteq Answers
    BY <2>2, WalkFromType
  <2>. QED BY <2>1, <2>3
<1>. HIDE DEF N, Typed
<1>4. Untyped = {}
  <2>1. SUFFICES ASSUME Untyped # {} PROVE FALSE
    OBVIOUS
  <2>2. Untyped \in SUBSET Nat
    BY <1>2
  <2>3. PICK m \in Untyped : \A n \in Untyped : m <= n
    BY <2>1, <2>2, LeastElement
  <2>4. m \in 0 .. N - 1 /\ N - m \in 1 .. N /\ ~ Typed(N - m)
    BY <1>2, <2>3
  <2>5. m # 0 /\ ~ Typed(N - m + 1)
    BY <1>2, <1>3, <2>4
  <2>6. m - 1 \in 0 .. N - 1 /\ N - (m - 1) = N - m + 1 /\ ~ (m <= m - 1)
    BY <1>2, <2>4, <2>5
  <2>7. m - 1 \in Untyped
    BY <2>5, <2>6
  <2>. QED BY <2>3, <2>6, <2>7
<1>5. Typed(1)
  <2>1. N - 1 \in 0 .. N - 1 /\ N - (N - 1) = 1
    BY <1>2
  <2>. QED BY <1>4, <2>1
<1>6. ROOT_INODE \in Inodes
  BY ByteOfInodes, MountAssumption DEF ROOT_INODE, Inodes
<1>. QED BY <1>1, <1>5, <1>6 DEF Typed

LEMMA LookupType ==
  ASSUME Entered, NEW path \in Paths
  PROVE  PathToInode(path) \subseteq Answers
<1>1. Walk(path) \subseteq Answers
  BY WalkType, MxfsAssumption
<1>. QED BY <1>1 DEF PathToInode, Answers

LEMMA OverlayType ==
  ASSUME NEW old \in Seq(STRING), NEW name \in Seq(STRING)
  PROVE  Overlay(old, name) \in Seq(STRING)
<1>1. Len(name) + 1 \in Int /\ Len(old) \in Int
  BY LenProperties
<1>2. \A j \in Len(name) + 1 .. Len(old) : old[j] \in STRING
  <2>1. \A j \in 1 .. Len(old) : old[j] \in STRING
    BY LenProperties
  <2>2. Len(name) \in Nat
    BY LenProperties
  <2>. QED BY <1>1, <2>1, <2>2
<1>3. SubSeq(old, Len(name) + 1, Len(old)) \in Seq(STRING)
  BY <1>1, <1>2, SubSeqProperties
<1>. QED BY <1>3, ConcatProperties DEF Overlay

LEMMA FileSlot == ASSUME NEW b \in Int PROVE FileInode(b) \in InodeSlots
BY DEF FileInode, InodeSlots, Modes

LEMMA WriteType ==
  ASSUME NEW zone \in [Inodes -> InodeSlots], NEW i \in Inodes, NEW inode \in InodeSlots
  PROVE  WriteInode(zone, i, inode) \in [Inodes -> InodeSlots]
<1>1. \A j \in Inodes :
        /\ zone[j].mode \in Modes \cup {Garbled}
        /\ zone[j].block \in Int /\ Garbled \in Int
  BY DEF InodeSlots, Garbled
<1>2. \A j \in Inodes :
        [mode |-> IF OverwritesMode(i, j) THEN Garbled ELSE zone[j].mode,
         block |-> IF OverwritesBlock(i, j) THEN Garbled ELSE zone[j].block]
          \in InodeSlots
  BY <1>1 DEF InodeSlots
<1>. QED BY <1>2 DEF WriteInode

LEMMA ZeroIsInode == ROOT_INODE \in Inodes /\ 0 \in Inodes /\ DataBlocks \subseteq Int
BY ByteOfInodes, MountAssumption DEF ROOT_INODE, Inodes, DataBlocks

LEMMA DirentType ==
  ASSUME NEW i \in Inodes, NEW name \in Seq(STRING)
  PROVE  [inode_num |-> i, name |-> name] \in Dirents
BY DEF Dirents

LEMMA FreeEntryType == FreeEntry \in Dirents
<1>1. <<>> \in Seq(STRING)
  OBVIOUS
<1>. QED BY <1>1, ZeroIsInode, DirentType DEF FreeEntry

LEMMA PairIsSeq ==
  ASSUME NEW S, NEW x \in S, NEW y \in S
  PROVE  <<x, y>> \in Seq(S)
OBVIOUS

LEMMA MxfsTypeInit == MxfsInit => MxfsTypeOK
<1>. SUFFICES ASSUME MxfsInit PROVE MxfsTypeOK
  OBVIOUS
<1>1. /\ status = "running" /\ sb = MountedSuperblock /\ dsb = MountedSuperblock
      /\ ibits = 0 .. 3 /\ bbits = 0 .. 3 /\ ret = 0
  BY DEF MxfsInit, InodeBitmapInit, RootInodes, RootBlocks
<1>2. 0 .. 3 \subseteq InodeBits /\ 0 .. 3 \subseteq DataBlocks /\ 0 .. 3 \subseteq Inodes
  BY SizesAssumption, MountAssumption DEF InodeBits, BlockBits, DataBlocks, Inodes
<1>3. izone \in [Inodes -> InodeSlots]
  <2>1. RootInode \in InodeSlots /\ \A i \in 0 .. 3 : FileInode(i) \in InodeSlots
    BY FileSlot DEF RootInode, InodeSlots, Modes
  <2>2. [i \in Inodes |-> ZeroInode] \in [Inodes -> InodeSlots]
    BY <2>1 DEF ZeroInode
  <2>3. /\ ROOT_INODE \in Inodes /\ 1 \in Inodes /\ 2 \in Inodes /\ 3 \in Inodes
        /\ \A i \in {1, 2, 3} : FileInode(i) \in InodeSlots
    BY <1>2, <2>1 DEF ROOT_INODE
  <2>. DEFINE rooted == WriteInode([i \in Inodes |-> ZeroInode], ROOT_INODE, RootInode)
              withA == WriteInode(rooted, 1, FileInode(1))
              withB == WriteInode(withA, 2, FileInode(2))
  <2>4. rooted \in [Inodes -> InodeSlots]
    BY <2>1, <2>2, <2>3, WriteType
  <2>5. withA \in [Inodes -> InodeSlots]
    <3>. HIDE DEF rooted
    <3>. QED BY <2>3, <2>4, WriteType
  <2>6. withB \in [Inodes -> InodeSlots]
    <3>. HIDE DEF withA
    <3>. QED BY <2>3, <2>5, WriteType
  <2>7. WriteInode(withB, 3, FileInode(3)) \in [Inodes -> InodeSlots]
    <3>. HIDE DEF withB
    <3>. QED BY <2>3, <2>6, WriteType
  <2>8. izone = WriteInode(withB, 3, FileInode(3))
    BY DEF MxfsInit, InitialZone
  <2>. QED BY <2>7, <2>8
<1>4. root \in [1 .. DIRENTS -> Dirents]
  <2>1. \A e \in 1 .. 3 : InitialNames[e] \in Seq(STRING)
    <3>. DEFINE pair(x, y) == <<x, y>>
    <3>1. /\ InitialNames[1] = pair("a", ".txt")
          /\ InitialNames[2] = pair("b", ".txt")
          /\ InitialNames[3] = pair("c", ".txt")
      BY DEF InitialNames
    <3>2. \A S : \A x, y \in S : pair(x, y) \in Seq(S)
      BY PairIsSeq
    <3>3. \A x, y \in STRING : pair(x, y) \in Seq(STRING)
      BY <3>2, Zenon
    <3>4. "a" \in STRING /\ "b" \in STRING /\ "c" \in STRING /\ ".txt" \in STRING
      BY LiteralAssumption
    <3>. HIDE DEF pair
    <3>5. /\ pair("a", ".txt") \in Seq(STRING)
          /\ pair("b", ".txt") \in Seq(STRING)
          /\ pair("c", ".txt") \in Seq(STRING)
      BY <3>3, <3>4, Zenon
    <3>6. \A e \in 1 .. 3 : e = 1 \/ e = 2 \/ e = 3
      OBVIOUS
    <3>. QED BY <3>1, <3>5, <3>6
  <2>2. \A e \in 1 .. 3 : [inode_num |-> e, name |-> InitialNames[e]] \in Dirents
    BY <1>2, <2>1, DirentType
  <2>. QED BY <2>2, FreeEntryType, MxfsAssumption DEF MxfsInit
<1>. QED BY <1>1, <1>2, <1>3, <1>4, ZeroIsInode DEF MxfsTypeOK, Statuses

LEMMA MxfsTypeStep ==
  ASSUME MxfsTypeOK, [AllNext]_mxfsVars
  PROVE  MxfsTypeOK'
<1>1. ASSUME UNCHANGED <<sb, dsb, ibits, bbits, izone, root, ret>>,
             status' \in Statuses
      PROVE  MxfsTypeOK'
  BY <1>1 DEF MxfsTypeOK, InodeBits, Dirents
<1>2. ASSUME NEW why \in Statuses, Die(why) PROVE MxfsTypeOK'
  BY <1>1, <1>2 DEF Die, Stop
<1>3. ASSUME NEW name \in Names, mxfs_create_file_rootdir(name) PROVE MxfsTypeOK'
  <2>1. CASE CreateRefused
    BY <2>1 DEF CreateRefused, Return, MxfsTypeOK, InodeBits, Dirents
  <2>2. CASE Die("undefined") \/ Die("aborted")
    BY <1>2, <2>2 DEF Statuses
  <2>3. ASSUME FreeEntries # {}, NEW i, InBuffer(i), NEW b,
               CreateAsserts(i, b), CreateWith(i, b, name)
        PROVE  MxfsTypeOK'
    <3>. DEFINE e == FirstOf(FreeEntries)
    <3>1. i \in Inodes /\ i \in InodeBits /\ b \in DataBlocks
      BY <2>3 DEF CreateAsserts, InBuffer
    <3>2. e \in 1 .. DIRENTS
      BY <2>3, FirstIsLeast DEF FreeEntries
    <3>3. EntryFor(root[e], i, name) \in Dirents
      <4>1. root[e].name \in Seq(STRING)
        BY <3>2 DEF MxfsTypeOK, Dirents
      <4>2. Overlay(root[e].name, name) \in Seq(STRING)
        BY <4>1, OverlayType, MxfsAssumption
      <4>. QED BY <3>1, <4>2, DirentType DEF EntryFor
    <3>4. root' \in [1 .. DIRENTS -> Dirents]
      <4>1. root' = [root EXCEPT ![e] = EntryFor(root[e], i, name)]
        BY <2>3 DEF CreateWith
      <4>. HIDE DEF e
      <4>. QED BY <3>2, <3>3, <4>1 DEF MxfsTypeOK
    <3>5. izone' \in [Inodes -> InodeSlots]
      BY <2>3, <3>1, WriteType, FileSlot, ZeroIsInode DEF CreateWith, MxfsTypeOK
    <3>6. bbits' \subseteq DataBlocks /\ ibits' \subseteq InodeBits
      <4>1. bbits' = bbits \cup {b} /\ ibits' = ibits \cup {i}
        BY <2>3, <3>1 DEF CreateWith, BlockBitSet, SetBit, NoIndex, DataBlocks
      <4>. QED BY <3>1, <4>1 DEF MxfsTypeOK
    <3>7. status' \in Statuses /\ sb' = MountedSuperblock /\ dsb' = MountedSuperblock
          /\ ret' = 0
      BY <2>3 DEF CreateWith, Return, MxfsTypeOK
    <3>. QED BY <3>4, <3>5, <3>6, <3>7, ZeroIsInode DEF MxfsTypeOK, InodeBits
  <2>. QED BY <1>3, <2>1, <2>2, <2>3 DEF mxfs_create_file_rootdir
<1>4. ASSUME NEW path \in Paths, mxfs_path_to_inode(path) PROVE MxfsTypeOK'
  <2>1. CASE Die("undefined") \/ Die("aborted")
    BY <1>2, <2>1 DEF Statuses
  <2>2. ASSUME NEW answer \in PathToInode(path), answer \notin {Aborts, Crashes},
               Return(answer), UNCHANGED <<sb, dsb, ibits, bbits, izone, root>>
        PROVE  MxfsTypeOK'
    <3>1. answer \in Inodes \cup {Failed}
      BY <2>2, LookupType DEF Answers, Entered, MxfsTypeOK
    <3>. QED BY <2>2, <3>1 DEF Return, MxfsTypeOK
  <2>. QED BY <1>4, <2>1, <2>2 DEF mxfs_path_to_inode
<1>5. CASE mxfs_print_tree
  <2>1. CASE UNCHANGED mxfsVars
    BY <1>1, <2>1 DEF mxfsVars, MxfsTypeOK
  <2>. QED BY <1>2, <1>5, <2>1 DEF mxfs_print_tree, Statuses
<1>6. ASSUME NEW i \in RawInodes, NEW b \in Int,
             \/ mxfs_set_inode(i, FileInode(b))
             \/ mxfs_clear_inode(i) /\ b = 0
      PROVE  MxfsTypeOK'
  <2>1. izone' = WriteInode(izone, i, FileInode(b))
    BY <1>6 DEF mxfs_set_inode, mxfs_clear_inode, ZeroInode
  <2>2. i \in Inodes
    BY MxfsAssumption
  <2>3. izone' \in [Inodes -> InodeSlots]
    BY <2>1, <2>2, WriteType, FileSlot DEF MxfsTypeOK
  <2>4. ibits' \subseteq InodeBits
    BY <1>6
       DEF mxfs_set_inode, mxfs_clear_inode, mxfs_inode_bitmap_set, BitmapSet,
           mxfs_inode_bitmap_clear, InBuffer, SetBit, ClearByte, MxfsTypeOK
  <2>5. /\ status' \in Statuses /\ ret' = 0
        /\ UNCHANGED <<sb, dsb, bbits, root>>
    BY <1>6
       DEF mxfs_set_inode, mxfs_clear_inode, mxfs_inode_bitmap_set, BitmapSet,
           mxfs_inode_bitmap_clear, Stop, Statuses, MxfsTypeOK
  <2>. QED BY <2>3, <2>4, <2>5, ZeroIsInode DEF MxfsTypeOK, InodeBits
<1>7. ASSUME NEW b \in RawBlocks, mxfs_set_block(b) \/ mxfs_clear_block(b)
      PROVE  MxfsTypeOK'
  <2>1. b \in DataBlocks
    BY MxfsAssumption
  <2>2. bbits' \subseteq DataBlocks
    BY <1>7, <2>1
       DEF mxfs_set_block, mxfs_clear_block, mxfs_block_bitmap_set, BlockBitSet,
           mxfs_block_bitmap_clear, SetBit, ClearByte, MxfsTypeOK
  <2>3. root' \in [1 .. DIRENTS -> Dirents]
    BY <1>7, FreeEntryType DEF mxfs_set_block, mxfs_clear_block, MxfsTypeOK
  <2>4. /\ ret' \in Inodes \cup {Failed}
        /\ UNCHANGED <<status, sb, dsb, ibits, izone>>
    BY <1>7, ZeroIsInode
       DEF mxfs_set_block, mxfs_clear_block, mxfs_block_bitmap_set,
           mxfs_block_bitmap_clear
  <2>. QED BY <2>2, <2>3, <2>4 DEF MxfsTypeOK, InodeBits
<1>8. RawBlocks \subseteq Int
  BY MxfsAssumption, ZeroIsInode
<1>9. CASE UNCHANGED mxfsVars
  BY <1>1, <1>9 DEF mxfsVars, MxfsTypeOK
<1>10. CASE FilesNext
  BY <1>3, <1>4, <1>5, <1>10 DEF FilesNext
<1>. QED BY <1>6, <1>7, <1>8, <1>9, <1>10 DEF AllNext

(* Whatever is created, looked up, listed, stored and cleared by number,   *)
(* every inode number and index stays in its zone, and a lookup returns an *)
(* inode of the file system or -1.                                         *)
THEOREM MxfsTypeCorrect == AllSpec => []MxfsTypeOK
BY MxfsTypeInit, MxfsTypeStep, PTL DEF AllSpec
=============================================================================
