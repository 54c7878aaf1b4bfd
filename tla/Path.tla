-------------------------------- MODULE Path --------------------------------
(***************************************************************************)
(* Paths and their components, as src/src/path_indexer.c splits and reads  *)
(* them.  A path is a sequence of characters; positions count from 0 as in *)
(* the C string, so character i is path[i + 1].  Only the slash is told    *)
(* apart from other characters, so a "character" of a small instance may   *)
(* stand for a run of them.                                                *)
(***************************************************************************)
EXTENDS Integers, Sequences, FiniteSets

CONSTANT PATH_ENTRIES     \* entries of a path_indexer: 6 in the code

ASSUME PathAssumption == PATH_ENTRIES \in Nat \ {0}

Slash == "/"

Slashes(path) == {i \in 0 .. Len(path) - 1 : path[i + 1] = Slash}

(* The slash with n slashes before it.                                     *)
SlashAfter(path, n) ==
  CHOOSE i \in Slashes(path) : Cardinality({h \in Slashes(path) : h < i}) = n

(* What path_indexer_parse computes: a component ends at its slash, the    *)
(* last one at the end of the path, even when no character is left for it. *)
(* By its comments a closing slash is the end of the last component and no *)
(* other follows (see TrailingSlashClosesComponent of PathIndexer).        *)
NComponents(path) == Cardinality(Slashes(path)) + 1

Entry(path, j) ==
  [start |-> IF j = 0 THEN 0 ELSE SlashAfter(path, j - 1) + 1,
   end |-> IF j = NComponents(path) - 1 THEN Len(path) - 1
                                        ELSE SlashAfter(path, j)]

Entries(path) == [j \in 0 .. NComponents(path) - 1 |-> Entry(path, j)]

(* path_indexer_read_component: a component of one character, be it the    *)
(* slash, is copied whole, a longer one without its slash.                 *)
ReadComponent(path, entry) ==
  IF entry.end = entry.start THEN <<path[entry.start + 1]>>
  ELSE IF path[entry.end + 1] = Slash
       THEN SubSeq(path, entry.start + 1, entry.end)
       ELSE SubSeq(path, entry.start + 1, entry.end + 1)

(* Variant with a slip, unused: a length of 0 is not made 1.               *)
EmptyOrUnreadable(entry) == entry.end <= entry.start

(* An entry that ends before it starts has length -1, and that is the      *)
(* length memcpy is called with.                                           *)
Unreadable(entry) == entry.end < entry.start
=============================================================================
