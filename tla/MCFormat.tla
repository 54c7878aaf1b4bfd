------------------------------ MODULE MCFormat ------------------------------
(* Requests and disks of both sides of every limit: too few for the root   *)
(* directory, a full byte or bitmap block and one less, the largest        *)
(* uint16_t and numbers that are cut to 16 bits; no disk, and one of more  *)
(* than 2^32 bytes.                                                        *)
EXTENDS Poison

(* The sizes of the code leave every field room for its base.              *)
ASSUME CodeSizesFit == FieldsWide

MCInodeCounts == {0, 3, 4, 100, 8191, 8192, 65535, 65540}
MCBlockCounts == {0, 3, 4, 100, 8191, 8192, 65535, 65544}
MCDiskSizes == {0, 1, 2, 9, 10, 100, 113, 670, 8300, 71000, 4194306}
MCAddressable == [bytes \in DiskBlockSizes |-> (4194304 \div bytes) * 1024]
=============================================================================
