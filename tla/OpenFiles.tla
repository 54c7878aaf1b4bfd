----------------------------- MODULE OpenFiles -----------------------------
(***************************************************************************)
(* The table of open files of the whole system and the descriptor table of *)
(* a process, as calls on either leave the other alone.                    *)
(***************************************************************************)
EXTENDS FileTable, FdTable

openFilesVars == <<fileTableVars, fdTableVars>>

OpenFilesInit == FileTableInit /\ FdTableInit

OpenFilesNext == \/ FileTableNext /\ UNCHANGED fdTableVars
                 \/ inBounds /\ fd_table_allocate /\ UNCHANGED fileTableVars

OpenFilesSpec == OpenFilesInit /\ [][OpenFilesNext]_openFilesVars
=============================================================================
