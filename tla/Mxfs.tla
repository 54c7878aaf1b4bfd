-------------------------------- MODULE Mxfs --------------------------------
(***************************************************************************)
(* The file system as its callers see it (src/src/mxfs/mxfs.c): the root   *)
(* directory, file creation, path lookup and the tree walk, on top of the  *)
(* two bitmaps, the inode zone and the path indexer.  All calls are made   *)
(* by one thread and each runs to its end, so a call is a step.            *)
(*                                                                         *)
(* root is the content of data block 0; what other data blocks hold is not *)
(* modelled, no call reads it.  Names have at most the eight characters a  *)
(* directory entry has room for.                                           *)
(***************************************************************************)
EXTENDS InodeBitmap, BlockBitmap, InodeZone, Path, SequencesExt

CONSTANTS
  DIRENTS,        \* entries of a directory block: 102 in the code
  DISK_NBLOCKS,   \* blocks of the ramdisk
  Names,          \* the names files are created with
  Paths,          \* the paths that are looked up
  RawInodes,      \* the inodes and blocks that callers store and clear
  RawBlocks       \* by number

ASSUME MxfsAssumption ==
  /\ DIRENTS \in Nat /\ DIRENTS >= 3
  /\ DISK_NBLOCKS \in Nat
  /\ MountedSuperblock.block_base + 4 <= DISK_NBLOCKS
  /\ RawInodes \subseteq Inodes /\ RawBlocks \subseteq DataBlocks
  /\ \A n \in Names : n \in Seq(STRING) /\ n # <<>> /\ Slash \notin ToSet(n)
  /\ Paths \subseteq Seq(STRING)

VARIABLES
  root,      \* the entries of the root directory
  ret        \* what the last call returned

mxfsVars == <<status, sb, dsb, ibits, bbits, izone, root, ret>>

ROOT_INODE == 0

FreeEntry == [inode_num |-> 0, name |-> <<>>]
InitialNames == <<<<"a", ".txt">>, <<"b", ".txt">>, <<"c", ".txt">>>>

(* A string of the text is a string: the type of names needs it, and the   *)
(* provers do not know it.                                                 *)
ASSUME LiteralAssumption == {"a", "b", "c", ".txt"} \subseteq STRING

Failed == -1
Aborts == -2      \* no value is returned: an assertion failed,
Crashes == -3     \* or the behaviour is undefined

Return(value) == ret' = value /\ UNCHANGED status

(* The process ends in the middle of a call, and the disk with it.         *)
Die(why) == /\ Stop(why)
            /\ UNCHANGED <<sb, dsb, ibits, bbits, izone, root, ret>>

-----------------------------------------------------------------------------
(* Creating a file.  The entry taken is the first with inode number 0; the *)
(* name is copied over what its name field holds.                          *)
(* Variants with a slip, unused, each before what it is a variant of: the  *)
(* entry before a free one is taken,                                       *)
EntryBeforeFree == {e \in 1 .. DIRENTS - 1 : root[e + 1].inode_num = 0}

FreeEntries == {e \in 1 .. DIRENTS : root[e].inode_num = 0}

(* the loop over the entries does not stop at the first,                   *)
LastOf(entries) == CHOOSE e \in entries : \A f \in entries : f <= e

FirstOf(entries) == CHOOSE e \in entries : \A f \in entries : e <= f

Overlay(old, new) ==
  new \o SubSeq(old, Len(new) + 1, Len(old))

EntryFor(old, i, name) ==
  [inode_num |-> i, name |-> Overlay(old.name, name)]

(* one block of the disk too few,                                          *)
OnDiskButLast(b) == sb.block_base + b + 1 < DISK_NBLOCKS

OnDisk(b) == sb.block_base + b < DISK_NBLOCKS

(* neither the inode's index nor the disk's answer is checked,             *)
BlockAsserts(i, b) == b \in DataBlocks

(* The assertions around mxfs_set_inode and mxfs_set_block.                *)
CreateAsserts(i, b) == i \in Inodes /\ b \in DataBlocks /\ OnDisk(b)

(* the zones are written to directly, without the bit of the inode,        *)
CreateUnmarked(i, b, name) ==
  /\ izone' = WriteInode(izone, i, FileInode(b))
  /\ bbits' = BlockBitSet(b)
  /\ LET e == FirstOf(FreeEntries)
     IN  root' = [root EXCEPT ![e] = EntryFor(root[e], i, name)]
  /\ Return(0)
  /\ UNCHANGED <<sb, dsb, ibits>>

(* or of the block,                                                        *)
CreateInFreeBlock(i, b, name) ==
  /\ ibits' = SetBit(ibits, i)
  /\ izone' = WriteInode(izone, i, FileInode(b))
  /\ LET e == FirstOf(FreeEntries)
     IN  root' = [root EXCEPT ![e] = EntryFor(root[e], i, name)]
  /\ Return(0)
  /\ UNCHANGED <<sb, dsb, bbits>>

(* the inode does not get its block.                                       *)
CreateWithoutBlock(i, b, name) ==
  /\ ibits' = SetBit(ibits, i)
  /\ izone' = WriteInode(izone, i, ZeroInode)
  /\ bbits' = BlockBitSet(b)
  /\ LET e == FirstOf(FreeEntries)
     IN  root' = [root EXCEPT ![e] = EntryFor(root[e], i, name)]
  /\ Return(0)
  /\ UNCHANGED <<sb, dsb>>

(* The new inode takes block b, whose content becomes a copy of the root   *)
(* directory; no superblock counter changes.                               *)
CreateWith(i, b, name) ==
  /\ ibits' = SetBit(ibits, i)
  /\ izone' = WriteInode(izone, i, FileInode(b))
  /\ bbits' = BlockBitSet(b)
  /\ LET e == FirstOf(FreeEntries)
     IN  root' = [root EXCEPT ![e] = EntryFor(root[e], i, name)]
  /\ Return(0)
  /\ UNCHANGED <<sb, dsb>>

CreateRefused == Return(Failed) /\ UNCHANGED <<sb, dsb, ibits, bbits, izone, root>>

mxfs_create_file_rootdir(name) ==
  /\ Running
  /\ \/ FreeEntries = {} /\ CreateRefused
     \/ /\ FreeEntries # {}
        /\ \E i \in mxfs_inode_bitmap_get_free_index :
             \/ i = NoIndex /\ CreateRefused
             \/ /\ i # NoIndex /\ ~ InBuffer(i)
                /\ Die("undefined")
             \/ /\ InBuffer(i)
                /\ \E b \in mxfs_block_bitmap_get_free_index :
                     \/ CreateAsserts(i, b) /\ CreateWith(i, b, name)
                     \/ ~ CreateAsserts(i, b) /\ Die("aborted")

-----------------------------------------------------------------------------
(* Path lookup.  memcmp over the length of the component finds the first   *)
(* entry whose name starts with it; the inode number is not looked at, and *)
(* the directory read is always data block 0.                              *)
Matching(component) ==
  {e \in 1 .. DIRENTS : IsPrefix(component, root[e].name)}

(* search_directory from inode i: it asserts that the inode's first block  *)
(* is 0.                                                                   *)
search_directory(i, component) ==
  LET hits == Matching(component)
  IN  {r \in {Aborts} : BlockMayDiffer(i, 0)}
      \cup {r \in {IF hits = {} THEN Failed ELSE root[FirstOf(hits)].inode_num} :
              BlockMayBe(i, 0)}

(* What the loop may return from component k on, that has found inode i    *)
(* for the components before; onwards[r] is what it may return from the    *)
(* next one on for inode r.  A component that ends before it starts is     *)
(* copied with length -1.                                                  *)
WalkFrom(path, k, i, onwards) ==
  LET last == NComponents(path) - 1
  IN  IF k > last THEN {i}
      ELSE IF Unreadable(Entry(path, k)) THEN {Crashes}
      ELSE {r \in {Failed} : k # last /\ ModeMayDiffer(i, MX_INODE_DIR)}
           \cup UNION {IF r \in Inodes THEN onwards[r] ELSE {r} :
              r \in {s \in search_directory(i, ReadComponent(path, Entry(path, k))) :
                       k = last \/ ModeMayBe(i, MX_INODE_DIR)}}

Walk(path) ==
  LET from[k \in 1 .. NComponents(path)] ==
        [i \in Inodes |-> WalkFrom(path, k, i, from[k + 1])]
  IN  from[1][ROOT_INODE]

(* Everything mxfs_path_to_inode may answer.  It asserts that the path     *)
(* starts with a slash and that inode 0 is a directory.  The early return  *)
(* for a single component is dead: a path with a slash has at least two.   *)
PathToInode(path) ==
  IF path = <<>> \/ NComponents(path) > PATH_ENTRIES THEN {Crashes}
  ELSE IF path[1] # Slash THEN {Aborts}
  ELSE {r \in {Aborts} : ModeMayDiffer(ROOT_INODE, MX_INODE_DIR)}
       \cup {r \in Walk(path) : ModeMayBe(ROOT_INODE, MX_INODE_DIR)}

mxfs_path_to_inode(path) ==
  /\ Running
  /\ \E answer \in PathToInode(path) :
       \/ answer = Aborts /\ Die("aborted")
       \/ answer = Crashes /\ Die("undefined")
       \/ /\ answer \notin {Aborts, Crashes}
          /\ Return(answer)
          /\ UNCHANGED <<sb, dsb, ibits, bbits, izone, root>>

(* mxfs_print_tree asserts that what an entry names is a file or a         *)
(* directory.  Only a garbled inode is anything but a file; taken for a    *)
(* directory, the walk reads an arbitrary block as entries, and over one   *)
(* that lists itself it recurses without end.                              *)
Listed == {root[e].inode_num : e \in 1 .. DIRENTS} \ {0}

mxfs_print_tree ==
  /\ Running
  /\ \/ /\ ModeMayBe(ROOT_INODE, MX_INODE_DIR)
        /\ UNCHANGED mxfsVars
     \/ /\ \/ \E i \in Listed : izone[i].mode = Garbled
           \/ ModeMayDiffer(ROOT_INODE, MX_INODE_DIR)
        /\ Die("aborted")
     \/ /\ \E i \in Listed : izone[i].mode = Garbled
        /\ Die("undefined")

-----------------------------------------------------------------------------
(* The rest of mxfs.h: storing and clearing an inode or a data block by    *)
(* number, whoever it belongs to.                                          *)
mxfs_set_inode(i, inode) == /\ mxfs_inode_bitmap_set(i)
                            /\ izone' = WriteInode(izone, i, inode)
                            /\ ret' = 0
                            /\ UNCHANGED <<bbits, root>>

mxfs_clear_inode(i) == /\ mxfs_inode_bitmap_clear(i)
                       /\ izone' = WriteInode(izone, i, ZeroInode)
                       /\ ret' = 0
                       /\ UNCHANGED <<bbits, root>>

(* The bit is set or cleared before the disk refuses a block beyond it.    *)
mxfs_set_block(b) == /\ mxfs_block_bitmap_set(b)
                     /\ ret' = IF OnDisk(b) THEN 0 ELSE Failed
                     /\ UNCHANGED <<ibits, izone, root>>

mxfs_clear_block(b) ==
  /\ mxfs_block_bitmap_clear(b)
  /\ ret' = IF OnDisk(b) THEN 0 ELSE Failed
  /\ root' = IF b = 0 THEN [e \in 1 .. DIRENTS |-> FreeEntry] ELSE root
  /\ UNCHANGED <<ibits, izone>>

-----------------------------------------------------------------------------
(* The zone is zeroed, then the inodes of the root directory and of a, b   *)
(* and c.txt are written, each over what lies at its wrapped offset.       *)
RootInode == [mode |-> MX_INODE_DIR, block |-> 0]

InitialZone ==
  LET zeroed == [i \in Inodes |-> ZeroInode]
      rooted == WriteInode(zeroed, ROOT_INODE, RootInode)
      withA == WriteInode(rooted, 1, FileInode(1))
      withB == WriteInode(withA, 2, FileInode(2))
  IN  WriteInode(withB, 3, FileInode(3))

(* What mxfs_init leaves on a fresh disk that is large enough.             *)
MxfsInit ==
  /\ InodeBitmapInit
  /\ bbits = RootBlocks
  /\ izone = InitialZone
  /\ root = [e \in 1 .. DIRENTS |->
               IF e <= 3 THEN [inode_num |-> e, name |-> InitialNames[e]]
                         ELSE FreeEntry]
  /\ ret = 0

(* Creating files, looking them up, listing them.                          *)
FilesNext == \/ \E name \in Names : mxfs_create_file_rootdir(name)
             \/ \E path \in Paths : mxfs_path_to_inode(path)
             \/ mxfs_print_tree

(* However close inodes are packed on top of each other, the inode every   *)
(* lookup starts from stays readable: creating a file never writes over    *)
(* the mode or the block of the root directory.                            *)
RootInPlace == izone[ROOT_INODE] = RootInode

(* With the calls that store and clear by number, for regular files.  Data *)
(* block 0 is written by set_block only in mxfs_init.  Bound: no call is   *)
(* made any more once the root directory's inode was given to a file; what *)
(* a creation takes for the directory then is not modelled.                *)
AllNext ==
  /\ RootInPlace
  /\ \/ FilesNext
     \/ \E i \in RawInodes : \/ mxfs_clear_inode(i)
                             \/ \E b \in RawBlocks : mxfs_set_inode(i, FileInode(b))
     \/ \E b \in RawBlocks : \/ mxfs_clear_block(b)
                             \/ b # 0 /\ mxfs_set_block(b)

FilesSpec == MxfsInit /\ [][FilesNext]_mxfsVars
AllSpec == MxfsInit /\ [][AllNext]_mxfsVars

-----------------------------------------------------------------------------
(* Type invariant of the whole file system.                                *)
Dirents == [inode_num : Inodes, name : Seq(STRING)]

MxfsTypeOK ==
  /\ status \in Statuses
  /\ sb = MountedSuperblock
  /\ dsb = MountedSuperblock
  /\ ibits \subseteq InodeBits
  /\ bbits \subseteq DataBlocks
  /\ izone \in [Inodes -> InodeSlots]
  /\ root \in [1 .. DIRENTS -> Dirents]
  /\ ret \in Inodes \cup {Failed}

Used == {e \in 1 .. DIRENTS : root[e].inode_num # 0}

(* The directory and the bitmap agree, through every creation, refused,    *)
(* failed or successful: each used entry has an inode of its own whose bit *)
(* is set, and no bit is set that neither an entry nor the root needs.     *)
DirentsMatchBitmap ==
  /\ \A e, f \in Used : e # f => root[e].inode_num # root[f].inode_num
  /\ ibits = {ROOT_INODE} \cup Listed

(* No block is lost either: as many blocks as inodes are in use.           *)
OneBlockPerInode == Cardinality(bbits) = Cardinality(ibits)

(* Files fill the directory from the front, with no free entry between     *)
(* two files: the first free entry is where the used ones end.             *)
NoHoles == \A e \in Used : 1 .. e \subseteq Used

(* A call changes the bitmaps, the inodes or the directory only by         *)
(* creating a file and returning 0, and then takes an inode and a block    *)
(* nobody had and adds one entry: neither a lookup nor a creation that is  *)
(* refused leaves a part of a file behind.                                 *)
ChangesOnlyByFreshFile ==
  [][\/ UNCHANGED <<ibits, bbits, izone, root>>
     \/ /\ ret' = 0
        /\ \E i \in ibits' \ ibits, b \in bbits' \ bbits, e \in FreeEntries, name \in Names :
             /\ ibits' = ibits \cup {i}
             /\ bbits' = bbits \cup {b}
             /\ izone'[i] = FileInode(b)
             /\ root' = [root EXCEPT ![e] = [inode_num |-> i, name |-> name]]
    ]_mxfsVars

(* A path to the root directory's entries has one answer, and answering    *)
(* needs no inode but the root's, so garbled ones do no harm.              *)
TopLevelPaths == {p \in Paths : NComponents(p) = 2 /\ p[1] = Slash}

TopLevelAnswered ==
  Running => \A path \in TopLevelPaths :
     \E i \in Inodes \cup {Failed} : PathToInode(path) = {i}

(* The file system implements the abstract directory: a creation, through  *)
(* all its writes, adds one new file under one new inode number and does   *)
(* not change what any path resolved to, though nobody looks for an entry  *)
(* of the same name, or of one that begins with it.  A creation that is    *)
(* refused, a lookup and a listing change nothing.                         *)
ResolvesTo(path) == CHOOSE i \in PathToInode(path) : TRUE

AbstractDirectory == INSTANCE Directory WITH
  File <- Inodes \ {ROOT_INODE}, None <- Failed,
  Path <- TopLevelPaths, Name <- Names,
  Matches <- {pn \in TopLevelPaths \X Names :
                IsPrefix(ReadComponent(pn[1], Entry(pn[1], 1)), pn[2])},
  Capacity <- DIRENTS,
  files <- Listed, bound <- [p \in TopLevelPaths |-> ResolvesTo(p)], up <- Running

ImplementsDirectory == AbstractDirectory!DirectorySpec

(* With a block bitmap that is searched at all, a creation stops the       *)
(* process half way only when it has come to the partly used byte at the   *)
(* end of the inode bitmap, whatever was created before: neither the       *)
(* blocks nor the disk give out first.                                     *)
CreateStopsOnlyInLastByte ==
  [][\A name \in Names :
       mxfs_create_file_rootdir(name) /\ status' # "running" =>
         /\ NINODES % 8 # 0
         /\ 0 .. 8 * ByteOf(NINODES) - 1 \subseteq ibits]_mxfsVars

(* main.c: assert(mxfs_create_file_rootdir(...) == 0) on a file system     *)
(* that was just initialised.                                              *)
FirstCreateSucceeds ==
  [][\A name \in Names :
       mxfs_create_file_rootdir(name) /\ Listed = 1 .. 3 => ret' = 0 /\ status' = "running"
    ]_mxfsVars

(* mxfs.c: "a.txt - inode 1, block 1", and so for b.txt and c.txt.         *)
InitialFilesIntact ==
  \A i \in 1 .. 3 : izone[i] = FileInode(i)

=============================================================================
