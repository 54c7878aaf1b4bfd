------------------------------ MODULE FdTable ------------------------------
(***************************************************************************)
(* The descriptor table of a process (src/src/fd_table.h).  Descriptors    *)
(* are handed out and never taken back; the pointer to an open file that   *)
(* each has room for is not touched by any function.                       *)
(***************************************************************************)
EXTENDS Integers, FiniteSets

CONSTANT FDTABLE_ENTRIES      \* 10 in the code

ASSUME FdTableAssumption == FDTABLE_ENTRIES \in Nat

VARIABLES
  inuse,      \* the descriptors whose avail field is not `true` (0)
  handed,     \* history: how often each descriptor was returned
  fd          \* what the last call returned

fdTableVars == <<inuse, handed, fd>>

Fds == 0 .. FDTABLE_ENTRIES - 1
NoFd == -1

fd_avail(i) == i \notin inuse

FirstAvailable == {i \in Fds : fd_avail(i) /\ \A j \in 0 .. i - 1 : ~ fd_avail(j)}

(* Variant with a slip, unused: a descriptor is not marked.                *)
InUseUnmarked(i) == UNCHANGED inuse

fd_set_inuse(i) == inuse' = inuse \cup {i}

fd_table_allocate ==
  \/ \E i \in FirstAvailable : /\ fd_set_inuse(i)
                               /\ handed' = [handed EXCEPT ![i] = @ + 1]
                               /\ fd' = i
  \/ /\ FirstAvailable = {}
     /\ fd' = NoFd
     /\ UNCHANGED <<inuse, handed>>

(* No function initialises a table: any descriptor may be taken already.   *)
FdTableInit == /\ inuse \in SUBSET Fds
               /\ handed = [i \in Fds |-> 0]
               /\ fd = NoFd

FdTableSpec == FdTableInit /\ [][fd_table_allocate]_fdTableVars

(* From whatever contents, no two calls return the same descriptor.        *)
DescriptorsDistinct == \A i \in Fds : handed[i] <= 1
=============================================================================
