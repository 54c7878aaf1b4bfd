------------------------- MODULE InodeBitmapProofs -------------------------
(***************************************************************************)
(* The inode bitmap's invariants and its refinement of the abstract        *)
(* allocator, for every block size and every number of inodes.             *)
(***************************************************************************)
EXTENDS InodeBitmap, BitmapProofs

(* The only field of a superblock that changes is the used counter.        *)
LEMMA CounterStep ==
  ASSUME NEW s, CounterOnly(s)
  PROVE  /\ s.ninodes = NINODES
         /\ s.inodes_used \in Int
         /\ \A x \in 0 .. UINT16 - 1 : CounterOnly([s EXCEPT !.inodes_used = x])
<1>1. PICK used \in 0 .. UINT16 - 1 :
         s = [MountedSuperblock EXCEPT !.inodes_used = used]
  BY DEF CounterOnly
<1>2. s.ninodes = NINODES /\ s.inodes_used \in Int
  BY <1>1, MountedType, MountedFields DEF Superblock
<1>3. ASSUME NEW x \in 0 .. UINT16 - 1
      PROVE  CounterOnly([s EXCEPT !.inodes_used = x])
  <2>1. [s EXCEPT !.inodes_used = x] = [MountedSuperblock EXCEPT !.inodes_used = x]
    BY <1>1, MountedType DEF Superblock
  <2>. QED BY <2>1 DEF CounterOnly
<1>. QED BY <1>2, <1>3

LEMMA CounterInit == CounterOnly(MountedSuperblock)
<1>1. MountedSuperblock = [MountedSuperblock EXCEPT !.inodes_used = 0]
  BY MountedType, MountedFields DEF Superblock
<1>2. 0 \in 0 .. UINT16 - 1
  BY SizesAssumption
<1>. QED BY <1>1, <1>2 DEF CounterOnly

LEMMA CountUpDown ==
  ASSUME CounterOnly(dsb)
  PROVE  /\ CounterOnly([dsb EXCEPT !.inodes_used = (@ + 1) % UINT16])
         /\ CounterOnly([dsb EXCEPT !.inodes_used = (@ - 1) % UINT16])
<1>. DEFINE more == dsb.inodes_used + 1
            less == dsb.inodes_used - 1
<1>1. more \in Int /\ less \in Int
  BY CounterStep
<1>2. more % UINT16 \in 0 .. UINT16 - 1 /\ less % UINT16 \in 0 .. UINT16 - 1
  <2>. HIDE DEF more, less
  <2>. QED BY <1>1, Wraps
<1>. QED BY <1>2, CounterStep

(* What the steps are made of, with the search's answer known.             *)
LEMMA AllocateStep ==
  ASSUME InodeBitmapTypeOK, Running, Allocation
  PROVE  /\ \/ /\ status' = "running"
               /\ \E i \in SearchedInodes \ ibits : ibits' = ibits \cup {i}
            \/ /\ status' = "undefined"
               /\ SearchedInodes \subseteq ibits
               /\ UNCHANGED ibits
         /\ sb' = sb
         /\ CounterOnly(dsb')
<1>. DEFINE Candidates == FreeInBlock(ibits, NINODES)
<1>1. /\ mxfs_inode_bitmap_get_free_index = Candidates
      /\ mx_inode_get_free_index = Candidates
  BY CounterStep
     DEF InodeBitmapTypeOK, mxfs_inode_bitmap_get_free_index, mx_inode_get_free_index
<1>2. PICK i \in Candidates : /\ BitmapSet(i)
                              /\ sb' = sb
                              /\ \/ dsb' = dsb
                                 \/ dsb' = [dsb EXCEPT !.inodes_used = (@ + 1) % UINT16]
  BY <1>1 DEF Allocation, mxfs_inode_bitmap_allocate, mx_inode_bitmap_allocate,
              AllocateFrom, sample_inode_bitmap_allocation, mxfs_inode_bitmap_set
<1>3. CounterOnly(dsb')
  BY <1>2, CountUpDown DEF InodeBitmapTypeOK
<1>4. NINODES \in Nat
  BY MountAssumption, SizesAssumption
<1>5. CASE i \in InodeBits
  <2>1. i \notin ibits /\ ByteOf(i) < NINODES
    BY <1>4, <1>5, SearchResult DEF InodeBits
  <2>2. i \in SearchedInodes \ ibits
    BY <1>5, <2>1 DEF SearchedInodes
  <2>3. status' = "running" /\ ibits' = ibits \cup {i}
    BY <1>2, <1>5 DEF BitmapSet, InBuffer, SetBit, Running
  <2>. QED BY <1>2, <1>3, <2>2, <2>3
<1>6. CASE i \notin InodeBits
  <2>1. \A j \in InodeBits \ ibits : ~ (ByteOf(j) < NINODES)
    BY <1>4, <1>6, SearchResult DEF InodeBits
  <2>2. SearchedInodes \subseteq ibits
    BY <2>1 DEF SearchedInodes
  <2>3. status' = "undefined" /\ UNCHANGED ibits
    BY <1>2, <1>6 DEF BitmapSet, InBuffer, Stop
  <2>. QED BY <1>2, <1>3, <2>2, <2>3
<1>. QED BY <1>5, <1>6

(* Clearing a byte keeps the bits inside the block.                        *)
LEMMA ClearStep ==
  ASSUME InodeBitmapTypeOK, NEW i \in Inodes,
         mxfs_inode_bitmap_deallocate(i) \/ mxfs_inode_bitmap_clear(i)
  PROVE  /\ InodeBitmapTypeOK'
         /\ \/ status' = status /\ ibits' = ClearByte(ibits, i) /\ InBuffer(i)
            \/ status' = "undefined" /\ ibits' = ibits /\ ~ InBuffer(i)
<1>1. /\ \/ status' = status /\ ibits' = ClearByte(ibits, i) /\ InBuffer(i)
         \/ status' = "undefined" /\ ibits' = ibits /\ ~ InBuffer(i)
      /\ sb' = sb
      /\ \/ dsb' = dsb
         \/ dsb' = [dsb EXCEPT !.inodes_used = (@ - 1) % UINT16]
  BY DEF mxfs_inode_bitmap_deallocate, mxfs_inode_bitmap_clear, Stop
<1>2. CounterOnly(dsb')
  BY <1>1, CountUpDown DEF InodeBitmapTypeOK
<1>3. ibits' \subseteq InodeBits /\ status' \in {"running", "undefined"}
  BY <1>1 DEF InodeBitmapTypeOK, ClearByte
<1>. QED BY <1>1, <1>2, <1>3 DEF InodeBitmapTypeOK

(* The type invariant is inductive: one step for each kind of operation.   *)
LEMMA TypeStep ==
  ASSUME InodeBitmapTypeOK, [InodeBitmapNext]_inodeBitmapVars
  PROVE  InodeBitmapTypeOK'
<1>1. CASE Allocation
  <2>1. Running
    BY <1>1 DEF Allocation, mxfs_inode_bitmap_allocate, mx_inode_bitmap_allocate,
                AllocateFrom, sample_inode_bitmap_allocation, mxfs_inode_bitmap_set
  <2>2. /\ status' \in {"running", "undefined"}
        /\ ibits' \subseteq InodeBits
        /\ sb' = sb
        /\ CounterOnly(dsb')
    BY <1>1, <2>1, AllocateStep DEF InodeBitmapTypeOK, SearchedInodes
  <2>. QED BY <2>2 DEF InodeBitmapTypeOK
<1>2. ASSUME NEW i \in Inodes,
             mxfs_inode_bitmap_deallocate(i) \/ mxfs_inode_bitmap_clear(i)
      PROVE  InodeBitmapTypeOK'
  BY <1>2, ClearStep
<1>3. ASSUME NEW i \in Inodes, mxfs_inode_bitmap_set(i)
      PROVE  InodeBitmapTypeOK'
  BY <1>3 DEF mxfs_inode_bitmap_set, BitmapSet, InBuffer, SetBit, Stop, InodeBitmapTypeOK
<1>4. ASSUME NEW pattern \in PoisonBytes, mxfs_inode_bitmap_poison(pattern)
      PROVE  InodeBitmapTypeOK'
  <2>1. ibits' \subseteq InodeBits
    BY <1>4 DEF mxfs_inode_bitmap_poison, Poisoned
  <2>. QED BY <1>4, <2>1 DEF mxfs_inode_bitmap_poison, InodeBitmapTypeOK
<1>5. CASE FlushSuperblock \/ RefreshSuperblock
  BY <1>5 DEF FlushSuperblock, RefreshSuperblock, mxfs_flush_superblock,
              mxfs_refresh_superblock, InodeBitmapTypeOK
<1>6. CASE UNCHANGED inodeBitmapVars
  BY <1>6 DEF inodeBitmapVars, InodeBitmapTypeOK
<1>. QED
  BY <1>1, <1>2, <1>3, <1>4, <1>5, <1>6
     DEF InodeBitmapNext, CountedNext, Allocation

LEMMA TypeInit == InodeBitmapInit => InodeBitmapTypeOK
<1>1. RootInodes \subseteq InodeBits
  BY SizesAssumption DEF RootInodes, InodeBits, BlockBits
<1>. QED BY <1>1, CounterInit DEF InodeBitmapInit, InodeBitmapTypeOK

(* Whatever operations are called on the inode bitmap, the superblocks     *)
(* keep their layout fields and the bits stay in the first bitmap block.   *)
THEOREM InodeTypeCorrect == InodeBitmapSpec => []InodeBitmapTypeOK
<1>. QED BY TypeInit, TypeStep, PTL DEF InodeBitmapSpec

(* An allocation that goes through takes one free index and no other bit   *)
(* changes, whatever raw sets, clears and poisoning came before.           *)
THEOREM AllocationTakesFree == InodeBitmapSpec => AllocatesFreeInode
<1>1. ASSUME InodeBitmapTypeOK, [InodeBitmapNext]_inodeBitmapVars
      PROVE  [(Allocation /\ status' = "running") =>
                \E i \in SearchedInodes \ ibits : ibits' = ibits \cup {i}
             ]_inodeBitmapVars
  <2>. SUFFICES ASSUME Allocation, status' = "running"
                PROVE  \E i \in SearchedInodes \ ibits : ibits' = ibits \cup {i}
    OBVIOUS
  <2>1. Running
    BY DEF Allocation, mxfs_inode_bitmap_allocate, mx_inode_bitmap_allocate,
           AllocateFrom, sample_inode_bitmap_allocation, mxfs_inode_bitmap_set
  <2>. QED BY <1>1, <2>1, AllocateStep
<1>. QED BY <1>1, InodeTypeCorrect, PTL DEF InodeBitmapSpec, AllocatesFreeInode

-----------------------------------------------------------------------------
(* On a bitmap of one block every inode has its bit in it.                 *)
OneBlock == NINODES <= BlockBits

LEMMA InodesInBuffer == ASSUME OneBlock, NEW i \in Inodes PROVE InBuffer(i)
BY MountAssumption, SizesAssumption DEF OneBlock, Inodes, InBuffer, InodeBits, BlockBits

LEMMA InodesSearched == ASSUME OneBlock, NEW i \in Inodes PROVE i \in SearchedInodes
<1>1. i \in Nat /\ i < NINODES
  BY MountAssumption, SizesAssumption DEF Inodes
<1>2. i \div 8 < NINODES
  BY <1>1, MountAssumption, SizesAssumption
<1>. QED BY <1>2, InodesInBuffer DEF SearchedInodes, ByteOf, InBuffer

(* What a step does to the bits and the status: the five ways it can look. *)
LEMMA BitsStep ==
  ASSUME OneBlock, InodeBitmapTypeOK, InodeBitmapNext
  PROVE  /\ Running
         /\ \/ /\ status' = status
               /\ \E i \in SearchedInodes \ ibits : ibits' = ibits \cup {i}
            \/ /\ status' = "undefined"
               /\ SearchedInodes \subseteq ibits
               /\ ibits' = ibits
            \/ /\ status' = status
               /\ \E i \in Inodes : ibits' = ClearByte(ibits, i)
            \/ status' = status /\ ibits' \in PoisonImages
            \/ status' = status /\ ibits' = ibits
<1>1. CASE Allocation
  <2>1. Running
    BY <1>1 DEF Allocation, mxfs_inode_bitmap_allocate, mx_inode_bitmap_allocate,
                AllocateFrom, sample_inode_bitmap_allocation, mxfs_inode_bitmap_set
  <2>. QED BY <1>1, <2>1, AllocateStep DEF Running
<1>2. ASSUME NEW i \in Inodes,
             mxfs_inode_bitmap_deallocate(i) \/ mxfs_inode_bitmap_clear(i)
      PROVE  Running /\ status' = status /\ ibits' = ClearByte(ibits, i)
  <2>1. Running
    BY <1>2 DEF mxfs_inode_bitmap_deallocate, mxfs_inode_bitmap_clear
  <2>. QED BY <1>2, <2>1, ClearStep, InodesInBuffer
<1>3. ASSUME NEW i \in Inodes, mxfs_inode_bitmap_set(i)
      PROVE  /\ Running /\ status' = status
             /\ \/ \E j \in SearchedInodes \ ibits : ibits' = ibits \cup {j}
                \/ ibits' = ibits
  <2>1. Running /\ status' = status /\ ibits' = ibits \cup {i}
    BY <1>3, InodesInBuffer DEF mxfs_inode_bitmap_set, BitmapSet, SetBit
  <2>. QED BY <2>1, InodesSearched
<1>4. ASSUME NEW pattern \in PoisonBytes, mxfs_inode_bitmap_poison(pattern)
      PROVE  Running /\ status' = status /\ ibits' \in PoisonImages
  <2>1. sb.ninodes = NINODES
    BY CounterStep DEF InodeBitmapTypeOK
  <2>. QED BY <1>4, <2>1 DEF mxfs_inode_bitmap_poison, PoisonImages
<1>5. CASE FlushSuperblock \/ RefreshSuperblock
  BY <1>5 DEF FlushSuperblock, RefreshSuperblock, mxfs_flush_superblock,
              mxfs_refresh_superblock
<1>. QED
  BY <1>1, <1>2, <1>3, <1>4, <1>5 DEF InodeBitmapNext, CountedNext, Allocation

(* The allocator faults only on a bitmap with no free bit in its reach,    *)
(* for every number of inodes that fits one bitmap block.                  *)
THEOREM FullBeforeUndefined ==
  ASSUME OneBlock PROVE InodeBitmapSpec => []UndefinedOnlyWhenFull
<1>1. InodeBitmapSpec => []InodeBitmapTypeOK
  BY InodeTypeCorrect
<1>2. InodeBitmapInit => UndefinedOnlyWhenFull
  BY DEF InodeBitmapInit, UndefinedOnlyWhenFull
<1>3. ASSUME InodeBitmapTypeOK, UndefinedOnlyWhenFull,
             [InodeBitmapNext]_inodeBitmapVars
      PROVE  UndefinedOnlyWhenFull'
  <2>1. CASE InodeBitmapNext
    BY <2>1, <1>3, BitsStep DEF UndefinedOnlyWhenFull, Running, SearchedInodes
  <2>2. CASE UNCHANGED inodeBitmapVars
    BY <2>2, <1>3 DEF inodeBitmapVars, UndefinedOnlyWhenFull, SearchedInodes
  <2>. QED BY <1>3, <2>1, <2>2
<1>. QED BY <1>1, <1>2, <1>3, PTL DEF InodeBitmapSpec

(* A byte is a group of the abstract allocator.                            *)
LEMMA ClearByteReleases ==
  ASSUME OneBlock, InodeBitmapTypeOK, NEW i \in Inodes
  PROVE  \E g \in Bytes : ClearByte(ibits, i) = ibits \ g
<1>1. /\ i \in Nat /\ ByteOf(i) \in 0 .. MX_BLOCKSIZE - 1
  BY InodesInBuffer, SizesAssumption DEF InBuffer, InodeBits, BlockBits, ByteOf
<1>2. BitsOf(ByteOf(i)) \in Bytes
  BY <1>1 DEF Bytes
<1>3. ASSUME NEW j \in ibits
      PROVE  j \in BitsOf(ByteOf(i)) <=> ByteOf(j) = ByteOf(i)
  <2>1. j \in Nat
    BY <1>3, SizesAssumption DEF InodeBitmapTypeOK, InodeBits, BlockBits
  <2>. QED BY <1>1, <2>1 DEF BitsOf, ByteOf
<1>. QED BY <1>2, <1>3 DEF ClearByte

(* The bitmap allocator implements the abstract one: an allocation that    *)
(* goes through is a grant, one that faults an exhaustion, a clear gives   *)
(* back a byte, and what happens to the superblocks is a stutter.          *)
THEOREM InodeBitmapRefines ==
  ASSUME OneBlock PROVE InodeBitmapSpec => ImplementsAllocator
<1>1. InodeBitmapSpec => []InodeBitmapTypeOK
  BY InodeTypeCorrect
<1>2. InodeBitmapInit => Abstract!AllocatorInit
  BY TypeInit DEF InodeBitmapInit, Abstract!AllocatorInit, InodeBitmapTypeOK, Running
<1>3. ASSUME InodeBitmapTypeOK, [InodeBitmapNext]_inodeBitmapVars
      PROVE  [Abstract!AllocatorNext]_Abstract!allocatorVars
  <2>1. CASE UNCHANGED inodeBitmapVars
    BY <2>1 DEF inodeBitmapVars, Abstract!allocatorVars, Running
  <2>2. CASE InodeBitmapNext /\ \E i \in SearchedInodes \ ibits :
                                 status' = status /\ ibits' = ibits \cup {i}
    <3>1. PICK i \in SearchedInodes \ ibits :
                 status' = status /\ ibits' = ibits \cup {i}
      BY <2>2
    <3>2. Abstract!Grant(i)
      BY <1>3, <2>2, <3>1, BitsStep DEF Abstract!Grant, Running
    <3>. QED BY <3>1, <3>2 DEF Abstract!AllocatorNext
  <2>3. CASE /\ InodeBitmapNext
             /\ status' = "undefined" /\ ibits' = ibits
             /\ SearchedInodes \subseteq ibits
    <3>1. Abstract!Exhaust
      BY <1>3, <2>3, BitsStep DEF Abstract!Exhaust, Running
    <3>. QED BY <3>1 DEF Abstract!AllocatorNext
  <2>4. CASE InodeBitmapNext /\ \E i \in Inodes :
                                 status' = status /\ ibits' = ClearByte(ibits, i)
    <3>1. PICK g \in Bytes : status' = status /\ ibits' = ibits \ g
      BY <1>3, <2>4, ClearByteReleases
    <3>2. Abstract!Release(g)
      BY <1>3, <2>4, <3>1, BitsStep DEF Abstract!Release, Running
    <3>. QED BY <3>1, <3>2 DEF Abstract!AllocatorNext
  <2>5. CASE status' = status /\ ibits' = ibits
    BY <2>5 DEF Abstract!allocatorVars, Running
  <2>6. CASE InodeBitmapNext /\ status' = status /\ ibits' \in PoisonImages
    <3>1. Abstract!Overwrite(ibits')
      BY <1>3, <2>6, BitsStep DEF Abstract!Overwrite, Running
    <3>. QED BY <2>6, <3>1 DEF Abstract!AllocatorNext
  <2>. QED BY <1>3, <2>1, <2>2, <2>3, <2>4, <2>5, <2>6, BitsStep
<1>. QED
  BY <1>1, <1>2, <1>3, PTL
     DEF InodeBitmapSpec, ImplementsAllocator, Abstract!AllocatorSpec
=============================================================================
