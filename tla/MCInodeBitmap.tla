--------------------------- MODULE MCInodeBitmap ---------------------------
(* Values the configurations of InodeBitmap share.                         *)
EXTENDS InodeBitmap

NoPoison == {}
(* 0x88, the byte the sample program uses.                                 *)
MCPoisonBytes == {{0, 4}}
=============================================================================
