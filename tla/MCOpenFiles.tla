---------------------------- MODULE MCOpenFiles ----------------------------
(* Values for the configuration of OpenFiles: the largest offset, the mark *)
(* of a free slot and one offset beyond it.                                *)
EXTENDS OpenFiles

MCOffsets == {MAX_OFFSET, MAX_OFFSET + 1, MAX_OFFSET + 2}
=============================================================================
