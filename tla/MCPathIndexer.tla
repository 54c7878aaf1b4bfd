--------------------------- MODULE MCPathIndexer ---------------------------
(* Every path of up to seven characters, a slash or not.                   *)
EXTENDS PathIndexer

MCPaths == UNION {[1 .. n -> {Slash, "c"}] : n \in 0 .. 7}
=============================================================================
