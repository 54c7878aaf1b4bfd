----------------------------- MODULE Directory -----------------------------
(***************************************************************************)
(* What the root directory promises its callers, with no entries, inodes   *)
(* or blocks: a file is there for good once it is created, and which file  *)
(* a path resolves to is settled by the first file it matches.             *)
(***************************************************************************)
EXTENDS FiniteSets, Integers

CONSTANTS
  File,        \* what identifies a file
  None,        \* the answer for a path that matches no file
  Path,        \* the paths that are looked up
  Name,        \* the names files are created with
  Matches,     \* the pairs of a path and a name it matches
  Capacity     \* the most files there can be

VARIABLES
  files,       \* the files there are
  bound,       \* what each path resolves to
  up

directoryVars == <<files, bound, up>>

DirectoryInit == /\ files \subseteq File
                 /\ bound \in [Path -> files \cup {None}]
                 /\ up = TRUE

(* A new file is what every path resolves to that matches its name and     *)
(* resolved to nothing before.                                             *)
CreateFile(name) ==
  /\ up
  /\ Cardinality(files) < Capacity
  /\ \E f \in File \ files :
       /\ files' = files \cup {f}
       /\ bound' = [p \in Path |-> IF bound[p] = None /\ <<p, name>> \in Matches
                                   THEN f ELSE bound[p]]
  /\ UNCHANGED up

Fail == /\ up
        /\ up' = FALSE
        /\ UNCHANGED <<files, bound>>

DirectoryNext == Fail \/ \E name \in Name : CreateFile(name)

DirectorySpec == DirectoryInit /\ [][DirectoryNext]_directoryVars
=============================================================================
