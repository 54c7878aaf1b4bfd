--------------------------- MODULE MCBlockBitmap ---------------------------
(* Values the configurations of BlockBitmap share.                         *)
EXTENDS BlockBitmap

NoPoison == {}
(* 0xFE, the byte the sample program uses, 0x7F and 0xFF.                  *)
MCPoisonBytes == {0 .. 6, 1 .. 7, 0 .. 7}
=============================================================================
