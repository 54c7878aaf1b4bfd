----------------------------- MODULE Allocator -----------------------------
(***************************************************************************)
(* What a bitmap allocator of this file system promises, with no bitmap,   *)
(* no superblock and no search order: a grant takes one unit nobody holds, *)
(* units are given back a whole group at a time, the map may be replaced   *)
(* by one of a few images, and the allocator stops for good only when it   *)
(* could not find a unit.                                                  *)
(***************************************************************************)
CONSTANTS
  Unit,      \* what is allocated
  Pool,      \* the units a search looks at
  Group,     \* the sets of units that are given back together
  Image      \* the sets the allocated units may be replaced by

VARIABLES
  allocated,
  up

allocatorVars == <<allocated, up>>

AllocatorInit == /\ allocated \subseteq Unit
                 /\ up = TRUE

Grant(u) == /\ up
            /\ u \notin allocated
            /\ allocated' = allocated \cup {u}
            /\ UNCHANGED up

Release(g) == /\ up
              /\ allocated' = allocated \ g
              /\ UNCHANGED up

Overwrite(s) == /\ up
                /\ allocated' = s
                /\ UNCHANGED up

Exhaust == /\ up
           /\ Pool \subseteq allocated
           /\ up' = FALSE
           /\ UNCHANGED allocated

AllocatorNext == \/ \E u \in Pool : Grant(u)
                 \/ \E g \in Group : Release(g)
                 \/ \E s \in Image : Overwrite(s)
                 \/ Exhaust

AllocatorSpec == AllocatorInit /\ [][AllocatorNext]_allocatorVars
=============================================================================
