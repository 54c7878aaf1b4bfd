# MXFS in TLA+

A verification development for the file system simulation of this repository:
`mxfs`, a Unix-like file system on a RAM disk, written in C (`src/src`). It holds
TLA+ modules that model the program, TLC configurations that check them on small
instances, and proofs for TLAPS.

The program is one process with one thread. Every call runs to its end before
the next one begins, nothing runs concurrently, and the disk is a `malloc`ed
region of the same process, so there is no crash to recover from: when an
`assert` fails the disk is gone with the process. What makes the code hard is
elsewhere: long sequences of legal calls, integer widths and off-by-one
rounding, a superblock kept in two copies, return values that are dropped,
buffers and bitmaps at their limit, and calls that fail half way.

There are no tests in the repository; `main.c` has sample programs with asserts
that serve as the statement of what is expected, together with the comments and
the repository's README.

## The system

The disk is `superblock | inode bitmap | inode zone | block bitmap | block zone`,
with the superblock on disk block 1.

| component | state | operations | interacts by |
|---|---|---|---|
| superblock and layout (`mxfs.c`, `types.h`, the `_register` functions) | eight `uint16_t` fields, in memory and on disk block 1 | register, flush, refresh, read, write | everyone reads the copy in memory; the allocators change the copy on disk |
| formatting (`mxfs_init`) | the superblock being built, the zeroed blocks | five stages, then flush, then the root directory | calls every zone's `_init`; results of the stages are dropped |
| poisoning (the `_poison` functions) | the blocks of one zone | fill a zone with a byte | reads the bases in memory, stops at the disk's end |
| inode bitmap (`inode_bitmap.c`, older twin in `bitmap.c`) | one bit per inode | search, set, clear, allocate, deallocate, poison | used by create and by `mxfs_set_inode` / `mxfs_clear_inode` |
| block bitmap (`block_bitmap.c`) | one bit per data block | the same | used by create and by `mxfs_set_block` / `mxfs_clear_block` |
| inode zone (`inode_zone.c`) | packed 82-byte inodes | get, set, clear, poison | addressed by an index the bitmap returned |
| block zone (`block_zone.c`) | data blocks | set, clear, poison | addressed by an index the bitmap returned |
| root directory (`mxfs.c`) | data block 0, entries of inode number and name | create a file, print the tree | writes bitmap, inode zone, block zone, directory, in that order |
| path lookup (`mxfs.c`) | none | path to inode number | path indexer, then inode and directory reads |
| path indexer (`path_indexer.c`) | six entries of start and end | parse, read a component | called by path lookup |
| ramdisk (`ramdisk.c`) | the blocks | create, read, write | refuses an index past its end; few callers look |
| open file table (`file_table.h`) | ten objects of offset and flag | initialise, add, remove | nothing yet: no source file of the build includes it |
| descriptor table (`fd_table.h`) | ten descriptors, in use or not | allocate | as above |

What makes each of them correct:

- layout and formatting: zones do not overlap and are large enough for what
  they count, a mount happens exactly when the root directory has room, and
  nothing of an earlier file system shows through;
- the allocators: an allocation takes one free unit, the counter agrees with the
  bits, nothing in use is given away, and the search fails only when full;
- inode zone: writing one inode leaves the inodes every lookup needs alone;
- creation: all or nothing, an inode and a block of its own, one entry;
- lookup: one answer for a path, and the same answer later;
- parser: it ends, stays inside the string, and splits at every slash;
- the tables: no open file is overwritten, none is lost but an object that
  carries the mark of a free slot itself, no descriptor is handed out twice,
  whatever the memory held they were placed in.

`PROJECT.json` lists the hazards at their lines, with the properties that
watch each.

## Modules

| module | models | state and actions |
|---|---|---|
| `MxTypes` | sizes of `mxfs/types.h` | block size and counter width are constants (1024 and 65536 in the code), so that a small instance reaches a bitmap's end or a wrap |
| `Layout` | the arithmetic of the `_register` and `_nblocks` functions | operators only |
| `Bitmap` | one bitmap block: search, set, clear | a block is the set of the indices whose bit is 1 |
| `MountState` | a mounted file system | `status`, `sb` (memory), `dsb` (disk); flush and refresh |
| `InodeBitmap` | `inode_bitmap.c` and the allocator of `bitmap.c` | adds `ibits`; one action per function |
| `BlockBitmap` | `block_bitmap.c` | adds `bbits`; one action per function |
| `Counters` | both bitmaps' counting allocators on the superblock they share | actions of the two, composed |
| `Allocator` | what an allocator promises (abstract) | `allocated`, `up`; grant, release a group, overwrite, exhaust |
| `InodeZone` | `inode_zone.c` | `izone`: what each inode would read as; `Garbled` where another one was written over it |
| `Path` | what the parser computes, and `path_indexer_read_component` | operators only |
| `PathIndexer` | the loops of `path_indexer_parse` | one action per part of the loop |
| `Mxfs` | `mxfs.c` after formatting, over `InodeBitmap`, `BlockBitmap`, `InodeZone`, `Path` | adds `root` (data block 0) and `ret`; one action per call |
| `Directory` | what the root directory promises (abstract) | `files`, `bound` (what each path resolves to), `up`; create a file, fail |
| `Format` | `ramdisk_create` and `mxfs_init`, over `Layout` | one action per stage, and formatting a used disk again |
| `Poison` | the four `_poison` functions on what `Format` left | adds `poison`, what the last of them wrote and returned |
| `FileTable` | `file_table.h` | `files`, `inBounds`, and two histories: `opened`, the additions answered 0 and not undone, and `lost`, those of them whose object left its slot free |
| `FdTable` | `fd_table.h` | `inuse`, `fd`, and `handed`, a history of what was returned |
| `OpenFiles` | both tables side by side | actions of the two, composed |
| `MC*` | values for TLC | |
| `*Proofs` | theorems and their lemmas | `WidthProofs` on integer widths and rounding, `BitmapProofs` on what both bitmaps share, the others on the module they are named after; `BlockBitmapProofs` holds those on `Counters` too |

`Allocator` is instantiated three times: for the inode bitmap, whose groups are
bytes because clearing a bit clears its byte, for the block bitmap in the same
way, and for the open file table, whose groups are single slots. That bytes are
given back is what the code does, not what its comments say: the refinements show
that bits change in no other way, and the run `ClearReusesRoot` shows the
disagreement and what it costs. A grant of a unit in use is a stutter of
`Allocator`; that an allocation takes a free one is `AllocatesFreeInode` and
`GrantsFreeBlock`.

`Mxfs` EXTENDS both bitmaps, which share `MountState`: an action of the file
system conjoins the fragments of the two allocators and the inode zone. `Path`
is not taken on trust: the `PathIndexer` run checks that the parser computes it,
and `Mxfs` uses it for lookups.

Modelling decisions that matter:

- **An assertion that fails** sets `status` to `"aborted"`; **a write or copy
  outside its buffer** sets it to `"undefined"`; both end the behaviour. The
  asserts are those of a build without `NDEBUG`. Every configuration disables
  TLC's deadlock check, because these ends, and the return of `mxfs_init` and of
  the parser, are real.
- **Reading past a buffer** returns any index of the bytes there, or none
  (`PastBuffer`). **Reading a field another inode was written over** returns
  anything (`Garbled`): create leaves eight block pointers of an inode
  uninitialised, so the bytes are indeed arbitrary.
- **The search of a bitmap** is the operator `FirstFree`: the first byte with a 0
  bit and in it the largest free index, the right-most bit. It is given the
  number of *bytes* to scan; the inode search passes the number of *inodes*.
- **`clear`** is `& 0`, so it clears the byte (`ClearByte`).
- **The inode zone** keeps mode and first block of an inode, the only fields a
  call acts on, and computes from `InodeOffset`, cut to 8 bits, what a write
  overwrites. The size of a file is never read.
- **Names** are sequences of model strings of at most the eight bytes an entry
  has; a longer name overflows the entry and is outside the model. The NUL is
  not copied by create, which `Overlay` keeps. The 100 bytes a lookup copies a
  component into (`mxfs.c:329`) are left out in the same way: no component of a
  path looked up is longer.
- **A history** (`opened`, `lost`, `handed`) keeps what callers were told, so that
  the table can be compared with it. No action reads one, but for the bound
  `MAX_LOST` on an otherwise unbounded counter.
- **The inodes mxfs_init writes** are written one over the other (`InitialZone`),
  as later ones are: inode 4, which is free, already reads bytes of inode 1.
- **`root` stands for data block 0**, the block of the root directory; no lookup
  reads another. Once inode 0 itself is given to a file (`ClearReusesRoot`)
  that is no longer so, and `AllNext` stops there: a named bound.
- **Formatting** tracks as `stale` the blocks written by an earlier file system,
  or never zeroed because the length `ramdisk_create` zeroes is cut to 32 bits
  (`fresh` says that the disk was just created). `ZoneBlocks` takes the first and
  last block of each zone and the root's four data blocks for all of them. A
  disk of no blocks accepts every index, its bound being `nblocks - 1` in an
  unsigned; `WritesOutside` makes that the outcome `"undefined"`.

## Runs

Passing runs:

| run | question | bounds, and why they are enough |
|---|---|---|
| `Counters` | the counters of both bitmaps in one superblock, and the order the inode bitmap fills in | three bytes of bits in each bitmap, until both are full and past it: every interleaving of the three allocators and the refresh of the copy in memory; the inode search scans 4 bytes, one more than the buffer has |
| `InodeBitmap` | type invariant; refinement of `Allocator`; an allocation takes one free index; a fault only when full | every operation, set and poison included; two bytes, so "first byte" and "byte given back" mean something; 8 inodes, so 8 bytes are scanned and the search leaves its buffer; 9 counter values, so the counter wraps both ways |
| `BlockBitmap` | type invariant; refinement of `Allocator`; an allocation takes one free block or none | every operation; one-byte blocks, one of them searched and three reserved, 10 counter values; set and poison give every kind of contents |
| `PathIndexer` | the parser | every path of up to 7 characters, slash or not: up to 8 components for 6 entries |
| `Files` | create, lookup, list; type invariant; refinement of `Directory` | the code's sizes; 12 inodes, so that the search comes to the partly used byte; 8 directory entries; a disk that ends with the last data block the directory can use, so that one less is noticed; names that begin one another and one that exists; paths of 2, 3 and 4 components, one that ends in a slash, one without a leading slash |
| `Format` | `mxfs_init`, then poisoning | numbers and disk sizes at, below and above every limit in the code, numbers above 65535, wrong block size, a disk of no blocks and one of more than 2^32 bytes; the four poison functions in every order after each of them |
| `OpenFiles` | the two tables | three slots and three descriptors, with every content memory may hold; the largest offset, the mark of a free slot and one past it; every index of the array and one outside on each side; two lost objects at most (`MAX_LOST`) |

The calls that store and clear inodes and blocks by number are explored by the run
`ClearReusesRoot` below, up to its violation; the theorem `MxfsTypeCorrect` speaks of
all of them in every order.

`ImplementsDirectory` is the strongest property of `Files`: nobody looks for an
entry of the same name before a file is created, a lookup takes the first name
its component begins, and the search reads entries whose inode number is 0. That a path, once
it resolves to a file, keeps resolving to that file follows from none of these,
but from the order in which entries are taken. `TopLevelAnswered` is what makes
the refinement mapping sound, a path having one answer.

`MountsExactlyWhenItFits` and `PoisonCovers` together say what the dropped results
of the formatting stages cost: a file system is mounted when its four first data
blocks are on the disk, not when all are, and poisoning the data blocks is where
that comes out. `SearchedBlocksCleared` is about bitmap blocks that formatting
clears by one count and the search reads by another: the loop takes the number
asked for, the search the one that was cut to 16 bits, both rounded down. What is
left out of both is the last, partly used block, which no search reads.

Runs that find the code at odds with its own words; each checks one property and
`PROJECT.json` quotes the line under `findings`:

| run | what it shows |
|---|---|
| `BlockTwo` | with two bitmap blocks, which a comment foresees, and the first one full, the search of the first reads past its buffer and may return a block of the second that is in use |
| `FirstCreate` | the creation `main.c` asserts aborts: below 8192 blocks the search reads no bitmap block, and its -1 is not tested |
| `InitialFiles` | the first file's inode is written over a.txt's |
| `ClearReusesRoot` | clearing one inode clears its byte, and a later creation takes the root directory's inode; clearing one block does the same, and gives files' blocks to others. The disk ends behind data block 7, so the creations that follow need the blocks that were freed with block 2 |
| `TrailingSlash` | a slash at the end of a path begins a component of length -1 of its own, where the comments end the last component at it |

Further places where the code and its words part, met while modelling and visible
in the modelled definitions, without a run of their own:

- `mxfs_inode_bitmap_get_free_index` scans as many bytes as there are inodes
  (`inode_bitmap.c:107`), so with 100 inodes it hands out 103 first among the
  last byte's indices; `inode_zone.c:124` asserts the index is below `ninodes`.
- A bitmap block that is full yields -1, which is not 0, so the search does not go
  on to the next (`block_bitmap.c:91`); where it does, after an index of 0, what it
  returns is relative to the next block. `BlockTwo`'s trace is shorter than either.
- `memcmp` over the component's length (`mxfs.c:296`) makes `/a` find `a.txt`.
- Since `/` has two components, the return for a path of one (`mxfs.c:338`) is
  never reached, and the copy of the second one is undefined.
- `// ABORT!!` marks the failures of a stage (`mxfs.c:26`), but `mxfs_init` goes
  on; the 100-block disks of `main.c` are mounted that way, 100 inodes and 100
  blocks need 113.
- "initialising the bitmap onto the disk" (`inode_bitmap.c:20`) clears
  `ninodes / 8192` blocks, none for fewer inodes, where one more is reserved: a
  used disk keeps its old bits. `ZonesCleared` therefore speaks of the inode zone
  and the data blocks only.

Two things these leave standing are worth knowing. In `Files`, with 8192 data
blocks, directory, bitmaps and lookups stay consistent through all of it, garbled
inodes included, because a lookup of a name in the root directory reads no inode
but the root's. And the fields of the root's inode, at offset 0, survive as long
as no inode is cleared: no other inode's wrapped offset reaches them.

**Fairness.** Only `PathIndexer` has a liveness property, and only it assumes
fairness: weak fairness of its next-state relation, which says that a function
that can take a step on the only thread takes it. The other specifications
describe what callers may do, and callers may stop.

## Proofs

| theorem | module | assumes |
|---|---|---|
| `InodeTypeCorrect`: `InodeBitmapSpec => []InodeBitmapTypeOK` | `InodeBitmapProofs` | |
| `AllocationTakesFree`: `InodeBitmapSpec => AllocatesFreeInode` | `InodeBitmapProofs` | |
| `FullBeforeUndefined`: `InodeBitmapSpec => []UndefinedOnlyWhenFull` | `InodeBitmapProofs` | `OneBlock` |
| `InodeBitmapRefines`: `InodeBitmapSpec => ImplementsAllocator` | `InodeBitmapProofs` | `OneBlock` |
| `BlockTypeCorrect`: `BlockBitmapSpec => []BlockBitmapTypeOK` | `BlockBitmapProofs` | |
| `BlockBitmapRefines`: `BlockBitmapSpec => ImplementsBlockAllocator` | `BlockBitmapProofs` | |
| `GrantTakesFreeBlock`: `BlockBitmapSpec => GrantsFreeBlock` | `BlockBitmapProofs` | `OneSearched` |
| `InodesCounted`: `CountersSpec => []UsedCountExact` | `BlockBitmapProofs` | |
| `InodesFillInOrder`: `CountersSpec => []BytesFillInOrder` | `BlockBitmapProofs` | |
| `BlocksCounted`: `CountersSpec => []BlocksUsedExact` | `BlockBitmapProofs` | `OneSearched` |
| `DirectoryOwnsInodes`: `FilesSpec => []DirentsMatchBitmap` | `MxfsProofs` | |
| `FilesFillFront`: `FilesSpec => []NoHoles` | `MxfsProofs` | |
| `BlocksMatchInodes`: `FilesSpec => []OneBlockPerInode` | `MxfsProofs` | `OneSearched` |
| `OnlyFreshFiles`: `FilesSpec => ChangesOnlyByFreshFile` | `MxfsProofs` | `OneSearched` |
| `RootStaysInPlace`: `FilesSpec => []RootInPlace` | `MxfsProofs` | `SmallBlocks` |
| `CreationsGoThrough`: `FilesSpec => CreateStopsOnlyInLastByte` | `MxfsProofs` | `BlocksSearched`, `EntriesFirst`, `RoomOnDisk` |
| `LookupsAnswered`: `FilesSpec => []TopLevelAnswered` | `MxfsProofs` | `SmallBlocks`, `ReadablePaths` |
| `FilesAreADirectory`: `FilesSpec => ImplementsDirectory` | `MxfsProofs` | `SmallBlocks`, `ReadablePaths` |
| `MxfsTypeCorrect`: `AllSpec => []MxfsTypeOK` | `MxfsProofs` | |
| `ParserTypeCorrect`: `ParserSpec => []ParserTypeOK` | `PathIndexerProofs` | |
| `ScanStops`: `ParserSpec => []ScanStaysInPath` | `PathIndexerProofs` | |
| `OverflowsOnlyThen`: `ParserSpec => []OverflowsOnlyWhenTooMany` | `PathIndexerProofs` | |
| `ParsesRight`: `ParserSpec => []ParsesAsEntries` | `PathIndexerProofs` | |
| `ZonesStayDisjoint`: `PoisonSpec => []ZonesDisjoint` | `FormatProofs` | `FieldsWide`, `BlocksCountable` |
| `FormatClearsZones`: `PoisonSpec => []ZonesCleared` | `FormatProofs` | |
| `MountsWhatFits`: `PoisonSpec => []MountsExactlyWhenItFits` | `FormatProofs` | `FieldsWide`, `BlocksCountable` |
| `PoisonKeepsNextZone`: `PoisonSpec => []PoisonStaysInZone` | `FormatProofs` | `FieldsWide`, `BlocksCountable` |
| `PoisonReachesAll`: `PoisonSpec => []PoisonCovers` | `FormatProofs` | `FieldsWide`, `BlocksCountable` |
| `SearchReadsCleared`: `PoisonSpec => []SearchedBlocksCleared` | `FormatProofs` | |
| `FormatTypeCorrect`: `PoisonSpec => []FormatTypeOK` | `FormatProofs` | `SecondBlockFits` |
| `OpenedFilesPresent`: `OpenFilesSpec => []OpenedArePresent` | `OpenFilesProofs` | |
| `OpenFilesStay`: `OpenFilesSpec => EntriesStay` | `OpenFilesProofs` | |
| `FileTableRefines`: `OpenFilesSpec => ImplementsSlotAllocator` | `OpenFilesProofs` | |
| `DescriptorsUnique`: `OpenFilesSpec => []DescriptorsDistinct` | `OpenFilesProofs` | |

Every theorem also rests on the assumptions on constants that their modules name
(`SizesAssumption`, `PoisonAssumption`, `MountAssumption`, `FormatAssumption`,
`MxfsAssumption`, `PathAssumption`, `PathsAssumption`, `FileTableAssumption`,
`FdTableAssumption`); TLC evaluates them in the runs. `LiteralAssumption` is about
no constant: it says that four strings in the text of `Mxfs` are strings, which
the type of names needs and the provers do not know. The hypotheses in the table
are not assumptions of a module but part of the theorem:

- `OneBlock` says the inodes scanned fit one block of the bitmap (`NINODES <=
  BlockBits`). Beyond it the search looks at bytes as indices it could never
  set, and `SearchedInodes` would not be the whole of what it reads.
- `OneSearched` says at most one bitmap block is searched (`NBLOCKS \div 8 <=
  MX_BLOCKSIZE`). Beyond it the search of a block reads past its buffer
  (`BlockTwo`), and a block can be handed out again. The refinement of
  `Allocator` does without it: an abstract grant of a unit in use is a stutter.
- `SmallBlocks` says a block has at most 1024 bytes, as it does in the code.
  Larger blocks hold inodes whose offset, cut to 8 bits, comes down on the root
  directory's fields: inode 22 is the first, on the block pointer.
- `BlocksSearched` says at least one bitmap block is searched (`BlockBits <=
  NBLOCKS`). Below it the first creation aborts, which is the finding of the
  `FirstCreate` run.
- `EntriesFirst` says the directory is full before the inodes are, if these end
  with a byte or with a bitmap block: the 102 entries of the code against the
  8192 bits of a block, or a number of inodes like `main.c`'s 100, which is no
  multiple of 8. Otherwise the search leaves the inodes, or the buffer, with no
  partly used byte to blame.
- `RoomOnDisk` says the disk has a data block for every inode of a full byte, since
  a file's block gets its inode's number.
- `ReadablePaths` says that the path that is the slash alone is not looked up, the
  copy of its second component being undefined, and that an indexer has room for
  two components. All five hypotheses on files hold of the `Files` run.
- `FieldsWide` says that a superblock field is wide enough for the base of the
  last zone, with the largest numbers a field can count. It holds of the code's
  sizes: `MCFormat` assumes it, so TLC evaluates it.
- `BlocksCountable` bounds the blocks asked for by what a `uint16_t` base and
  their bitmap can take together; with some 2^29 blocks `block_base` wraps.
- `SecondBlockFits` says a superblock field can hold 2, the constant base of the
  inode bitmap: it is stored uncut.

The arguments, component by component:

- *Bitmaps.* The type invariants are inductive; the work is in `CounterOnly`, that
  a superblock differs from the mounted one in its counter alone, which needs a
  lemma on counters modulo their width (`WidthProofs`). Everything else follows
  from lemmas of `BitmapProofs` about `FirstFree`: what it returns is free, is in
  the searched bytes, and there is something unless every one of them is full;
  `Granted` adds what a search over the bitmap blocks makes of it.
- *Refinements of `Allocator`.* An allocation maps to a grant or to exhaustion, a
  clear to a release of the byte's group, poisoning to an overwrite, everything
  else to a stutter.
- *Counters.* `CountersInv` says that the two superblocks agree on the numbers and
  that bits are only ever added; `CountersStep` reduces a step of the composition
  to five shapes, and each counter changes in the one that adds its bit.
- *Files.* `FilesInv` adds to `DirentsMatchBitmap` and `NoHoles` that a free entry
  is empty, its name included: without that a creation could leave the tail of
  an older name behind, since the NUL is not copied. `FilesStep` reduces every
  call to one that changes nothing and `Created`. For these invariants a lookup's
  answer is not needed, only that it changes nothing.
- *Where a creation stops.* `InStep` adds that the two bitmaps are equal: both
  searches run the same byte loop, the block's over more bytes, and
  `FirstFreeUnique` says that more bytes find nothing else. So a file's block has
  its inode's number, an assertion can fail only on a number past the inodes,
  and the byte of that number is the one the inodes end in; that the bytes
  before it are full is what the search stopping there means. `FewerThanEntries`
  counts: while an entry is free there are no more inodes than entries.
- *Lookups.* The walk is a recursive function on the components of a path. What it
  computes needs no induction: `WalkExists` shows that a function satisfying its
  equation exists, from the last component back, with the least number of
  components for which there is none (`LeastElement`); then the equation is
  applied. For a path of two components twice is enough (`TopLevelAnswer`);
  `WalkType` bounds the answers for paths of any length with a least
  counterexample again.
- *Refinement of `Directory`.* `FoundAfterCreate` compares what a component matches
  before and after a creation: free entries match nothing, their names being
  empty and a component never; a new entry lies behind all used ones (`NoHoles`),
  so it decides only where nothing matched. `Created` then maps to `CreateFile`,
  the end of the process to `Fail`, all else to a stutter.
- *Types.* `MxfsTypeOK` is inductive under every call, those by number included; it
  rests on `WalkType` for what a lookup returns and on `OverlayType` for names
  copied over what an entry held.
- *Root inode.* `OffsetsKeepAway`: in a block of 1024 bytes only the inodes 1 to 12
  share the root's block, and none of their offsets, cut to 8 bits, is below 18.
- *Parser.* `ParserInv` counts: as many entries are stored as slashes were passed,
  and each ends at the slash that has as many before it. `SlashAfterIs` makes
  that slash unique, which ties the loops to the definitions of `Path`.
- *Formatting.* `RegisteredInv` says, stage by stage, which fields hold their
  registered values, and that a superblock with four blocks (which the root
  directory's assertions demand) can have got there only through the stage that
  registered the block bitmap. With it `ZonesStayDisjoint` is arithmetic on
  integer division (`DivRoom`). `ClearedInv` adds which
  zones were zeroed, and which blocks of the block bitmap: `CutSearchesLess` says
  that a number cut to 16 bits has no more of them than before. `FitsInv` says
  which blocks were found on the disk.
- *Poisoning.* `PoisonInv` says where the last call wrote; that a rounded-up length
  stays below the layout's is `DivCeiling`. For the other direction, that the
  call reaches all of its zone, `CoversInv` joins `FitsInv` and `ClearedInv`: the
  last index of a zone must fall into a block that is filled (`FillCovers`,
  `LastByte`, `LastBit`), and a block beyond the disk is one mounting has seen.
- *Tables.* The number of open files is the cardinality of `Present`, which an
  addition or removal changes by one slot; a descriptor that was returned is in
  use, so it is never found again.

Only model-checked, not proved: that a parse ends (`ParseEnds`), a liveness property
under fairness, which these provers cannot reach. Every other property of the
passing runs is stated by a theorem; each was checked by TLC first, and so were
`FilesInv`, `InStep` and the other strengthenings, as invariants of the runs.

## Not modelled

- `mx_bitmap_init`, `mx_bitmap_register_inodemap`, `mx_bitmap_register_blockmap`,
  `mxfs_read_inode_block`: they have no caller, their successors are modelled.
- `syscalls.h`, `merofs.h`: declarations without code. `file_table.h` and
  `fd_table.h` have code but no caller, so the tables are modelled alone and not
  composed with the file system.
- printing, dumping and the debug log; the content of files; the sample programs
  of `main.c`, whose asserts are used as the statement of what is expected.
- disks whose blocks are larger than 1024 bytes, which overflow every buffer
  (`FormatAssumption`), and names longer than eight characters.

## Plan

1. Done: layout, both bitmaps and their counters, formatting and poisoning, file
   creation and lookup, the parser, the open file and descriptor tables; the
   abstract allocator and the abstract directory with what implements them;
   proofs for every component.
2. Done: proofs of every safety property, action property and refinement that the
   passing runs check. Left: `ParseEnds`, which stays with TLC.
3. Left to model, once the code has it: system calls over the two tables, and
   directories other than the root, which lookup walks into but nothing creates.
