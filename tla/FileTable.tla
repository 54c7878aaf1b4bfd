----------------------------- MODULE FileTable -----------------------------
(***************************************************************************)
(* The open file table (src/src/file_table.h): a fixed array of open file  *)
(* objects.  A slot is free when its offset is the one past MAX_OFFSET;    *)
(* the flag, which a comment proposes as a present bit, is not looked at.  *)
(* A caller learns whether an object was added, not where.                 *)
(***************************************************************************)
EXTENDS Integers, FiniteSets

CONSTANTS
  FTABLE_ENTRIES,   \* 10 in the code
  MAX_OFFSET,       \* 0xFFFFFF in the code
  Offsets,          \* the offsets objects may have: any unsigned long
  Flags,
  MAX_LOST          \* bound on the additions that are lost

ASSUME FileTableAssumption ==
  /\ FTABLE_ENTRIES \in Nat /\ MAX_OFFSET \in Nat /\ MAX_LOST \in Nat
  /\ Offsets \subseteq Nat

VARIABLES
  files,       \* slot -> open file object
  opened,      \* history: additions that returned 0 less removals that
               \* returned 1
  lost,        \* history: those of them whose object left its slot free
  inBounds     \* FALSE once an index outside the array was used

fileTableVars == <<files, opened, lost, inBounds>>

FTABLE_NOT_PRESENT == MAX_OFFSET + 1
Slots == 0 .. FTABLE_ENTRIES - 1
OpenFile == [file_offset : Nat, flag : Flags]
Objects == [file_offset : Offsets, flag : Flags]

(* Variant with a slip, unused: the flag as the present bit.               *)
NotPresentByFlag(fobj) == fobj.flag = 0

open_file_not_present(fobj) == fobj.file_offset = FTABLE_NOT_PRESENT

open_file_clear(fobj) == [fobj EXCEPT !.file_offset = FTABLE_NOT_PRESENT]

FirstSlot == {i \in Slots : /\ open_file_not_present(files[i])
                            /\ \A j \in 0 .. i - 1 : ~ open_file_not_present(files[j])}

-----------------------------------------------------------------------------
file_table_init == /\ inBounds
                   /\ files' = [i \in Slots |-> open_file_clear(files[i])]
                   /\ opened' = 0
                   /\ lost' = 0
                   /\ UNCHANGED inBounds

(* Variant with a slip, unused: the loop goes on after it found a slot.    *)
AddEverywhere(fobj) ==
  /\ inBounds
  /\ files' = [i \in Slots |-> IF open_file_not_present(files[i]) THEN fobj ELSE files[i]]
  /\ opened' = IF FirstSlot = {} THEN opened ELSE opened + 1
  /\ lost' = IF FirstSlot # {} /\ open_file_not_present(fobj) THEN lost + 1 ELSE lost
  /\ UNCHANGED inBounds

(* Returns -1 when no slot is free.  An object whose own offset is the     *)
(* mark of a free slot is copied, 0 is returned, and the slot stays free.  *)
file_table_add(fobj) ==
  /\ inBounds
  /\ \/ FirstSlot = {} /\ UNCHANGED <<files, opened, lost>>
     \/ \E i \in FirstSlot :
          /\ files' = [files EXCEPT ![i] = fobj]
          /\ opened' = opened + 1
          /\ lost' = IF open_file_not_present(fobj) THEN lost + 1 ELSE lost
  /\ UNCHANGED inBounds

(* Variant with a slip, unused: 1 is returned for a free slot too.         *)
RemoveUnchecked(index) ==
  /\ inBounds
  /\ index \in Slots
  /\ files' = [files EXCEPT ![index] = open_file_clear(@)]
  /\ opened' = opened - 1
  /\ UNCHANGED <<lost, inBounds>>

(* The index is not checked.  Returns 0 for a free slot, 1 for a removal.  *)
file_table_remove(index) ==
  /\ inBounds
  /\ \/ /\ index \in Slots
        /\ open_file_not_present(files[index])
        /\ UNCHANGED fileTableVars
     \/ /\ index \in Slots
        /\ ~ open_file_not_present(files[index])
        /\ files' = [files EXCEPT ![index] = open_file_clear(@)]
        /\ opened' = opened - 1
        /\ UNCHANGED <<lost, inBounds>>
     \/ /\ index \notin Slots
        /\ inBounds' = FALSE
        /\ UNCHANGED <<files, opened, lost>>

-----------------------------------------------------------------------------
Present == {i \in Slots : files[i].file_offset # MAX_OFFSET + 1}

(* A table lies in memory that holds anything until it is initialised:     *)
(* what happens to be present then counts as open.                         *)
FileTableInit == /\ files \in [Slots -> Objects]
                 /\ opened = Cardinality(Present)
                 /\ lost = 0
                 /\ inBounds = TRUE

(* Bound: MAX_LOST objects that carry the mark are added.                  *)
FileTableNext == \/ file_table_init
                 \/ \E fobj \in Objects :
                      /\ open_file_not_present(fobj) => lost < MAX_LOST
                      /\ file_table_add(fobj)
                 \/ \E index \in -1 .. FTABLE_ENTRIES : file_table_remove(index)

FileTableSpec == FileTableInit /\ [][FileTableNext]_fileTableVars

(* No open file is kept twice, and none is lost but those whose object     *)
(* carries the mark of a free slot: whatever was added, removed and        *)
(* refused, the additions that returned 0 and were not undone by a removal *)
(* that returned 1 are the entries present and the objects lost that way.  *)
OpenedArePresent == opened = Cardinality(Present) + lost

(* An entry is never overwritten: while it stays present it is the object  *)
(* that was added, and in its slot, which is what a pointer to it relies   *)
(* on.                                                                     *)
EntriesStay ==
  [][\A i \in Present \cap Present' : files'[i] = files[i]]_fileTableVars

(* The table is an allocator of slots: an addition grants one, a removal   *)
(* gives back one, initialising it gives back all, and nothing else        *)
(* happens to it, a full table and a removal of nothing included.          *)
SlotAllocator == INSTANCE Allocator WITH
                   Unit <- Slots, Pool <- Slots, Group <- {{i} : i \in Slots},
                   Image <- {{}}, allocated <- Present, up <- TRUE

ImplementsSlotAllocator == SlotAllocator!AllocatorSpec
=============================================================================
