------------------------------- MODULE Bitmap -------------------------------
(***************************************************************************)
(* The bit operations both bitmaps share.  A bitmap block is the set of    *)
(* the indices whose bit is 1 (busy).  Index i is bit 7 - i % 8 of byte    *)
(* i \div 8, so inside a byte the index grows towards the right-most bit.  *)
(***************************************************************************)
EXTENDS MxTypes

CONSTANT PoisonBytes      \* the poison patterns tried: sets of offsets 0..7

ASSUME PoisonAssumption == PoisonBytes \subseteq SUBSET (0 .. 7)

ByteOf(i) == i \div 8
BitsOf(b) == 8 * b .. 8 * b + 7

NoIndex == -1       \* what a search returns when every bit it read is 1

SetBit(bits, i) == bits \cup {i}

(* `buffer[byteno] &= 0 << (7 - offset)`: the mask is 0, whatever offset   *)
(* is, so all eight bits of the byte are cleared.                          *)
ClearByte(bits, i) == {j \in bits : ByteOf(j) # ByteOf(i)}

(* Variants with a slip, none of them used by the model: the left-most 0   *)
(* bit, a byte mask that is not inverted, bits counted where bytes are.    *)
FirstFreeLeftmost(bits, nbytes) ==
  UNION {{i \in BitsOf(b) \ bits : 8 * b .. i - 1 \subseteq bits} :
           b \in {c \in 0 .. MX_BLOCKSIZE - 1 :
                   c < nbytes /\ 0 .. 8 * c - 1 \subseteq bits}}

FirstFreeUninverted(bits, nbytes) ==
  {i \in bits : ByteOf(i) < nbytes /\ \A j \in bits : ByteOf(j) >= ByteOf(i)}

FirstFreeOfBits(bits, nbytes) ==
  UNION {{i \in BitsOf(b) \ bits : i + 1 .. 8 * b + 7 \subseteq bits} :
           b \in {c \in 0 .. MX_BLOCKSIZE - 1 :
                   c < nbytes \div 8 /\ 0 .. 8 * c - 1 \subseteq bits}}

(* The byte loop of the two searches over one block buffer, for nbytes     *)
(* bytes: the first byte that has a 0 bit, and in it the right-most 0 bit, *)
(* which is the largest free index of the byte.                            *)
FirstFree(bits, nbytes) ==
  LET scanned == IF nbytes < MX_BLOCKSIZE THEN nbytes ELSE MX_BLOCKSIZE
      firstOpen == {b \in 0 .. scanned - 1 :
                      /\ ~ (BitsOf(b) \subseteq bits)
                      /\ \A c \in 0 .. b - 1 : BitsOf(c) \subseteq bits}
  IN  UNION {{i \in BitsOf(b) \ bits : i + 1 .. 8 * b + 7 \subseteq bits} :
               b \in firstOpen}

(* Past the last byte of the buffer the loop reads whatever lies on the    *)
(* stack there: any index of those bytes can come out, or none.            *)
PastBuffer(nbytes) ==
  IF nbytes > MX_BLOCKSIZE THEN BlockBits .. 8 * nbytes - 1 ELSE {}

(* Every value the search of one block may return.                         *)
FreeInBlock(bits, nbytes) ==
  LET first == FirstFree(bits, nbytes)
  IN  IF first # {} THEN first ELSE {NoIndex} \cup PastBuffer(nbytes)
=============================================================================
