-------------------------- MODULE OpenFilesProofs --------------------------
(***************************************************************************)
(* The tables of open files and of descriptors, for any size of either,    *)
(* any offsets and any flags.                                              *)
(***************************************************************************)
EXTENDS OpenFiles, FiniteSetTheorems, TLAPS

FilesTypeOK == files \in [Slots -> OpenFile] /\ opened \in Int /\ lost \in Int

(* Marking a slot free frees it and nothing else.                          *)
LEMMA ClearedIsFree ==
  ASSUME NEW fobj \in OpenFile
  PROVE  open_file_clear(fobj) \in OpenFile /\ open_file_not_present(open_file_clear(fobj))
BY FileTableAssumption
   DEF OpenFile, open_file_clear, open_file_not_present, FTABLE_NOT_PRESENT

LEMMA PresentFinite == IsFiniteSet(Present)
<1>1. IsFiniteSet(Slots)
  BY FileTableAssumption, FS_Interval DEF Slots
<1>. QED BY <1>1, FS_Subset DEF Present

(* What is counted as opened and not as lost.                              *)
Kept == opened - lost

(* The four ways a step looks to the set of present entries: one more, one *)
(* less, each of them counted, all gone, or the same set, an addition that *)
(* is lost among them, and in every case each entry that stays is the same *)
(* object.                                                                 *)
LEMMA FilesStep ==
  ASSUME FilesTypeOK, FileTableNext
  PROVE  /\ FilesTypeOK'
         /\ \/ \E i \in Slots \ Present :
                 Present' = Present \cup {i} /\ Kept' = Kept + 1
            \/ \E i \in Present :
                 Present' = Present \ {i} /\ Kept' = Kept - 1
            \/ Present' = {} /\ Kept' = 0
            \/ Present' = Present /\ Kept' = Kept
         /\ \A i \in Present \cap Present' : files'[i] = files[i]
<1>1. CASE file_table_init
  <2>1. /\ opened' = 0 /\ lost' = 0 /\ Kept' = 0
        /\ \A i \in Slots : /\ files'[i] \in OpenFile
                            /\ open_file_not_present(files'[i])
    BY <1>1, ClearedIsFree DEF file_table_init, FilesTypeOK, Kept
  <2>2. Present' = {}
    BY <2>1 DEF Present, open_file_not_present, FTABLE_NOT_PRESENT
  <2>3. FilesTypeOK'
    BY <1>1, <2>1 DEF file_table_init, FilesTypeOK
  <2>. QED BY <2>1, <2>2, <2>3
<1>2. ASSUME NEW fobj \in Objects, file_table_add(fobj)
      PROVE  /\ FilesTypeOK'
             /\ \/ \E i \in Slots \ Present :
                     Present' = Present \cup {i} /\ Kept' = Kept + 1
                \/ Present' = Present /\ Kept' = Kept
             /\ \A i \in Present \cap Present' : files'[i] = files[i]
  <2>1. CASE UNCHANGED <<files, opened, lost>>
    BY <2>1 DEF FilesTypeOK, Present, Kept
  <2>2. CASE \E i \in FirstSlot :
               /\ files' = [files EXCEPT ![i] = fobj]
               /\ opened' = opened + 1
               /\ lost' = IF open_file_not_present(fobj) THEN lost + 1 ELSE lost
    <3>1. PICK i \in FirstSlot :
             /\ files' = [files EXCEPT ![i] = fobj]
             /\ opened' = opened + 1
             /\ lost' = IF open_file_not_present(fobj) THEN lost + 1 ELSE lost
      BY <2>2
    <3>2. i \in Slots \ Present
      BY <3>1 DEF FirstSlot, Present, open_file_not_present, FTABLE_NOT_PRESENT
    <3>3. fobj \in OpenFile
      BY <1>2, FileTableAssumption DEF Objects, OpenFile
    <3>4. FilesTypeOK' /\ \A j \in Slots : files'[j] = IF j = i THEN fobj ELSE files[j]
      BY <3>1, <3>2, <3>3 DEF FilesTypeOK
    <3>5. CASE open_file_not_present(fobj)
      <4>1. Present' = Present
        BY <3>2, <3>4, <3>5 DEF Present, open_file_not_present, FTABLE_NOT_PRESENT
      <4>2. Kept' = Kept
        BY <3>1, <3>5 DEF Kept, FilesTypeOK
      <4>. QED BY <3>2, <3>4, <4>1, <4>2 DEF Present
    <3>6. CASE ~ open_file_not_present(fobj)
      <4>1. Present' = Present \cup {i}
        BY <3>2, <3>4, <3>6 DEF Present, open_file_not_present, FTABLE_NOT_PRESENT
      <4>2. Kept' = Kept + 1
        BY <3>1, <3>6 DEF Kept, FilesTypeOK
      <4>. QED BY <3>2, <3>4, <4>1, <4>2 DEF Present
    <3>. QED BY <3>5, <3>6
  <2>. QED BY <1>2, <2>1, <2>2 DEF file_table_add
<1>3. ASSUME NEW index \in -1 .. FTABLE_ENTRIES, file_table_remove(index)
      PROVE  /\ FilesTypeOK'
             /\ \/ \E i \in Present :
                     Present' = Present \ {i} /\ Kept' = Kept - 1
                \/ Present' = Present /\ Kept' = Kept
             /\ \A i \in Present \cap Present' : files'[i] = files[i]
  <2>1. CASE UNCHANGED <<files, opened, lost>>
    BY <2>1 DEF FilesTypeOK, Present, Kept
  <2>2. CASE /\ index \in Slots
             /\ ~ open_file_not_present(files[index])
             /\ files' = [files EXCEPT ![index] = open_file_clear(@)]
             /\ opened' = opened - 1
             /\ UNCHANGED lost
    <3>1. index \in Present
      BY <2>2 DEF Present, open_file_not_present, FTABLE_NOT_PRESENT
    <3>2. /\ files'[index] \in OpenFile
          /\ open_file_not_present(files'[index])
          /\ \A j \in Slots \ {index} : files'[j] = files[j]
      BY <2>2, ClearedIsFree DEF FilesTypeOK
    <3>3. Present' = Present \ {index}
      BY <2>2, <3>2 DEF Present, open_file_not_present, FTABLE_NOT_PRESENT
    <3>4. FilesTypeOK'
      BY <2>2, <3>2 DEF FilesTypeOK
    <3>5. Kept' = Kept - 1
      BY <2>2 DEF Kept, FilesTypeOK
    <3>. QED BY <3>1, <3>2, <3>3, <3>4, <3>5 DEF Present
  <2>. QED BY <1>3, <2>1, <2>2 DEF file_table_remove, fileTableVars
<1>. QED BY <1>1, <1>2, <1>3 DEF FileTableNext

LEMMA FilesInit == FileTableInit => FilesTypeOK
<1>1. Objects \subseteq OpenFile
  BY FileTableAssumption DEF Objects, OpenFile
<1>2. FileTableInit => opened \in Int
  BY PresentFinite, FS_CardinalityType DEF FileTableInit
<1>. QED BY <1>1, <1>2 DEF FileTableInit, FilesTypeOK

LEMMA FilesType == OpenFilesSpec => []FilesTypeOK
<1>1. OpenFilesInit => FilesTypeOK
  BY FilesInit DEF OpenFilesInit
<1>2. ASSUME FilesTypeOK, [OpenFilesNext]_openFilesVars PROVE FilesTypeOK'
  <2>1. CASE FileTableNext
    BY <1>2, <2>1, FilesStep
  <2>2. CASE UNCHANGED fileTableVars
    BY <1>2, <2>2 DEF fileTableVars, FilesTypeOK
  <2>. QED BY <1>2, <2>1, <2>2 DEF OpenFilesNext, openFilesVars
<1>. QED BY <1>1, <1>2, PTL DEF OpenFilesSpec

(* The additions that were answered 0 and not undone are the files in the  *)
(* table and the objects that were lost, in a table of any size.           *)
THEOREM OpenedFilesPresent == OpenFilesSpec => []OpenedArePresent
<1>1. OpenFilesInit => OpenedArePresent
  BY PresentFinite, FS_CardinalityType DEF OpenFilesInit, FileTableInit, OpenedArePresent
<1>2. ASSUME FilesTypeOK, OpenedArePresent, [OpenFilesNext]_openFilesVars
      PROVE  OpenedArePresent'
  <2>1. CASE FileTableNext
    <3>1. Cardinality(Present) \in Int /\ Kept = Cardinality(Present)
      BY <1>2, PresentFinite, FS_CardinalityType DEF OpenedArePresent, Kept, FilesTypeOK
    <3>2. Kept' = Cardinality(Present')
      <4>1. ASSUME NEW i \in Slots \ Present, Present' = Present \cup {i}, Kept' = Kept + 1
            PROVE  Kept' = Cardinality(Present')
        BY <3>1, <4>1, PresentFinite, FS_AddElement
      <4>2. ASSUME NEW i \in Present, Present' = Present \ {i}, Kept' = Kept - 1
            PROVE  Kept' = Cardinality(Present')
        BY <3>1, <4>2, PresentFinite, FS_RemoveElement
      <4>3. ASSUME Present' = {}, Kept' = 0
            PROVE  Kept' = Cardinality(Present')
        BY <4>3, FS_EmptySet
      <4>4. ASSUME Present' = Present, Kept' = Kept
            PROVE  Kept' = Cardinality(Present')
        BY <3>1, <4>4
      <4>. QED BY <1>2, <2>1, <4>1, <4>2, <4>3, <4>4, FilesStep
    <3>3. FilesTypeOK'
      BY <1>2, <2>1, FilesStep
    <3>. QED BY <3>2, <3>3 DEF OpenedArePresent, Kept, FilesTypeOK
  <2>2. CASE UNCHANGED fileTableVars
    BY <1>2, <2>2 DEF fileTableVars, OpenedArePresent, Present
  <2>. QED BY <1>2, <2>1, <2>2 DEF OpenFilesNext, openFilesVars
<1>. QED BY <1>1, <1>2, FilesType, PTL DEF OpenFilesSpec

(* No entry is overwritten while it is present.                            *)
THEOREM OpenFilesStay == OpenFilesSpec => EntriesStay
<1>1. ASSUME FilesTypeOK, [OpenFilesNext]_openFilesVars
      PROVE  [\A i \in Present \cap Present' : files'[i] = files[i]]_fileTableVars
  <2>1. CASE FileTableNext
    BY <1>1, <2>1, FilesStep
  <2>2. CASE UNCHANGED fileTableVars
    BY <2>2
  <2>. QED BY <1>1, <2>1, <2>2 DEF OpenFilesNext, openFilesVars
<1>. QED BY <1>1, FilesType, PTL DEF OpenFilesSpec, EntriesStay

(* The table of open files implements the abstract allocator of slots.     *)
THEOREM FileTableRefines == OpenFilesSpec => ImplementsSlotAllocator
<1>1. OpenFilesInit => SlotAllocator!AllocatorInit
  BY DEF SlotAllocator!AllocatorInit, Present
<1>2. ASSUME FilesTypeOK, [OpenFilesNext]_openFilesVars
      PROVE  [SlotAllocator!AllocatorNext]_SlotAllocator!allocatorVars
  <2>1. CASE FileTableNext
    <3>1. CASE \E i \in Slots \ Present : Present' = Present \cup {i}
      BY <3>1 DEF SlotAllocator!AllocatorNext, SlotAllocator!Grant
    <3>2. CASE \E i \in Present : Present' = Present \ {i}
      <4>1. PICK i \in Slots : Present' = Present \ {i}
        BY <3>2 DEF Present
      <4>2. SlotAllocator!Release({i})
        BY <4>1 DEF SlotAllocator!Release
      <4>. QED BY <4>1, <4>2 DEF SlotAllocator!AllocatorNext
    <3>3. CASE Present' = {}
      BY <3>3 DEF SlotAllocator!AllocatorNext, SlotAllocator!Overwrite
    <3>4. CASE Present' = Present
      BY <3>4 DEF SlotAllocator!allocatorVars
    <3>. QED BY <1>2, <2>1, <3>1, <3>2, <3>3, <3>4, FilesStep
  <2>2. CASE UNCHANGED fileTableVars
    BY <2>2 DEF fileTableVars, SlotAllocator!allocatorVars, Present
  <2>. QED BY <1>2, <2>1, <2>2 DEF OpenFilesNext, openFilesVars
<1>. QED
  BY <1>1, <1>2, FilesType, PTL
     DEF OpenFilesSpec, ImplementsSlotAllocator, SlotAllocator!AllocatorSpec

-----------------------------------------------------------------------------
(* A descriptor that was returned is marked, and was returned once.        *)
FdInv == /\ handed \in [Fds -> {0, 1}]
         /\ \A i \in Fds : handed[i] = 1 => i \in inuse

(* In a table of any size and with any contents, no descriptor is handed   *)
(* out twice.                                                              *)
THEOREM DescriptorsUnique == OpenFilesSpec => []DescriptorsDistinct
<1>1. OpenFilesInit => FdInv
  BY DEF OpenFilesInit, FdTableInit, FdInv
<1>2. ASSUME FdInv, [OpenFilesNext]_openFilesVars PROVE FdInv'
  <2>1. CASE fd_table_allocate
    <3>1. CASE \E i \in FirstAvailable : /\ fd_set_inuse(i)
                                         /\ handed' = [handed EXCEPT ![i] = @ + 1]
      <4>1. PICK i \in FirstAvailable : /\ fd_set_inuse(i)
                                        /\ handed' = [handed EXCEPT ![i] = @ + 1]
        BY <3>1
      <4>2. i \in Fds /\ i \notin inuse /\ handed[i] = 0
        BY <1>2, <4>1 DEF FirstAvailable, fd_avail, FdInv
      <4>3. handed' = [handed EXCEPT ![i] = 1] /\ inuse' = inuse \cup {i}
        BY <4>1, <4>2 DEF fd_set_inuse
      <4>. QED BY <1>2, <4>2, <4>3 DEF FdInv
    <3>2. CASE UNCHANGED <<inuse, handed>>
      BY <1>2, <3>2 DEF FdInv
    <3>. QED BY <2>1, <3>1, <3>2 DEF fd_table_allocate
  <2>2. CASE UNCHANGED fdTableVars
    BY <1>2, <2>2 DEF fdTableVars, FdInv
  <2>. QED BY <1>2, <2>1, <2>2 DEF OpenFilesNext, openFilesVars
<1>3. FdInv => DescriptorsDistinct
  BY DEF FdInv, DescriptorsDistinct
<1>. QED BY <1>1, <1>2, <1>3, PTL DEF OpenFilesSpec
=============================================================================
