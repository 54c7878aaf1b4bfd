---------------------------- MODULE PathIndexer ----------------------------
(***************************************************************************)
(* The loops of path_indexer_parse (src/src/path_indexer.c), one step per  *)
(* iteration, over the array of PATH_ENTRIES entries that lies before the  *)
(* component counter.  Path.tla says what they compute.                    *)
(***************************************************************************)
EXTENDS Path

CONSTANT Paths      \* the paths tried

ASSUME PathsAssumption == \A p \in Paths : p \in Seq(STRING)

VARIABLES
  pc,             \* the part of the function that runs next
  path,
  entries,        \* path_indexer->entries, of which the first are written
  ncomponents,
  index,
  comp_start,
  comp_indexer

parserVars ==
  <<pc, path, entries, ncomponents, index, comp_start, comp_indexer>>

Labels == {"begin", "next", "scan", "store", "done", "undefined"}

(* path_indexer->entries[index] = (start, end); past the array it writes   *)
(* over ncomponents and the memory behind.                                 *)
StoreEntry(start, end, then) ==
  IF Len(entries) < PATH_ENTRIES
  THEN /\ entries' = Append(entries, [start |-> start, end |-> end])
       /\ ncomponents' = ncomponents + 1
       /\ pc' = then
  ELSE /\ pc' = "undefined"
       /\ UNCHANGED <<entries, ncomponents>>

(* Variants with a slip, unused, each before the step it is a variant of:  *)
(* the leading slash is stored but not counted,                            *)
BeginUncounted ==
  /\ pc = "begin"
  /\ pc' = "next"
  /\ IF 0 \in Slashes(path)
     THEN entries' = Append(entries, [start |-> 0, end |-> 0]) /\ index' = index + 1
     ELSE UNCHANGED <<entries, index>>
  /\ UNCHANGED <<path, ncomponents, comp_start, comp_indexer>>

Begin == /\ pc = "begin"
         /\ IF 0 \in Slashes(path)
            THEN StoreEntry(0, 0, "next") /\ index' = index + 1
            ELSE pc' = "next" /\ UNCHANGED <<entries, ncomponents, index>>
         /\ UNCHANGED <<path, comp_start, comp_indexer>>

(* a component starts at the slash before it,                              *)
NextFromSlash ==
  /\ pc = "next"
  /\ comp_start' = IF ncomponents = 0 THEN 0 ELSE entries[index].end
  /\ comp_indexer' = comp_start'
  /\ pc' = "scan"
  /\ UNCHANGED <<path, entries, ncomponents, index>>

NextComponent ==
  /\ pc = "next"
  /\ comp_start' = IF ncomponents = 0 THEN 0 ELSE entries[index].end + 1
  /\ comp_indexer' = comp_start'
  /\ pc' = "scan"
  /\ UNCHANGED <<path, entries, ncomponents, index>>

(* the length of the path is not looked at,                                *)
ScanUnbounded ==
  /\ pc = "scan"
  /\ IF comp_indexer \notin Slashes(path) /\ comp_indexer <= Len(path)
     THEN comp_indexer' = comp_indexer + 1 /\ UNCHANGED pc
     ELSE pc' = "store" /\ UNCHANGED comp_indexer
  /\ UNCHANGED <<path, entries, ncomponents, index, comp_start>>

(* the scan does not move,                                                 *)
ScanInPlace ==
  /\ pc = "scan"
  /\ \/ comp_indexer \in Slashes(path)
     \/ comp_indexer >= Len(path)
  /\ pc' = "store"
  /\ UNCHANGED <<path, entries, ncomponents, index, comp_start, comp_indexer>>

Scan == /\ pc = "scan"
        /\ IF comp_indexer \notin Slashes(path) /\ comp_indexer < Len(path)
           THEN comp_indexer' = comp_indexer + 1 /\ UNCHANGED pc
           ELSE pc' = "store" /\ UNCHANGED comp_indexer
        /\ UNCHANGED <<path, entries, ncomponents, index, comp_start>>

(* the end of the last component is not the last character but the NUL.    *)
StoreLastWithNul == /\ pc = "store"
                    /\ comp_indexer = Len(path)
                    /\ StoreEntry(comp_start, comp_indexer, "done")
                    /\ UNCHANGED <<path, index, comp_start, comp_indexer>>

StoreLast == /\ pc = "store"
             /\ comp_indexer = Len(path)
             /\ comp_indexer' = comp_indexer - 1
             /\ StoreEntry(comp_start, comp_indexer', "done")
             /\ UNCHANGED <<path, index, comp_start>>

StoreInner == /\ pc = "store"
              /\ comp_indexer # Len(path)
              /\ StoreEntry(comp_start, comp_indexer, "next")
              /\ index' = index + 1
              /\ UNCHANGED <<path, comp_start, comp_indexer>>

ParserInit == /\ pc = "begin"
              /\ path \in Paths
              /\ entries = <<>>
              /\ ncomponents = 0
              /\ index = 0
              /\ comp_start = 0
              /\ comp_indexer = 0

ParserNext == Begin \/ NextComponent \/ Scan \/ StoreLast \/ StoreInner

(* The function runs on its own thread until it returns.                   *)
ParserSpec == /\ ParserInit
              /\ [][ParserNext]_parserVars
              /\ WF_parserVars(ParserNext)

-----------------------------------------------------------------------------
(* Type invariant: the entries written are the first ncomponents, and an   *)
(* offset in them is a position of the path or of its NUL, or -1, the end  *)
(* of an empty path.  A write behind the array is the outcome "undefined". *)
ParserTypeOK ==
  /\ pc \in Labels
  /\ path \in Paths
  /\ entries \in Seq([start : 0 .. Len(path), end : -1 .. Len(path)])
  /\ ncomponents = Len(entries)
  /\ Len(entries) <= PATH_ENTRIES
  /\ index \in 0 .. PATH_ENTRIES + 1
  /\ comp_start \in 0 .. Len(path)

(* No character past the terminating NUL is looked at: the inner loop      *)
(* stops at the end of the path, wherever the previous component ended.    *)
ScanStaysInPath == pc \in {"scan", "store"} => comp_indexer \in 0 .. Len(path)

(* A parse that returns has split the path at every slash: its entries     *)
(* are those Path.tla defines from the slashes alone, the empty component  *)
(* behind a closing slash among them, which the comments do not have.      *)
ParsesAsEntries ==
  pc = "done" => /\ ncomponents = NComponents(path)
                 /\ \A j \in 0 .. ncomponents - 1 :
                      entries[j + 1] = Entries(path)[j]

(* The array overflows for the paths with more components than it has      *)
(* entries, counted as the code counts them, and for no other.             *)
OverflowsOnlyWhenTooMany ==
  /\ pc = "undefined" => NComponents(path) > PATH_ENTRIES
  /\ pc = "done" => NComponents(path) <= PATH_ENTRIES

(* path_indexer.c: "/ - start and end is at index 0", "/hiya/baka/ - start *)
(* = 6 end = 10", so a slash that ends the path ends its last component:   *)
(* there are as many components as slashes, and the last one is not empty. *)
TrailingSlashClosesComponent ==
  pc = "done" /\ path # <<>> /\ path[Len(path)] = Slash =>
    /\ ncomponents = Cardinality(Slashes(path))
    /\ entries[ncomponents].start <= entries[ncomponents].end

(* The loops end on every path: each round of the outer loop starts past   *)
(* the slash the previous one ended at.                                    *)
ParseEnds == <>(pc \in {"done", "undefined"})
=============================================================================
