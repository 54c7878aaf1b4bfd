---------------------------- MODULE WidthProofs ----------------------------
(***************************************************************************)
(* Arithmetic modulo the width of a superblock field, and divisions by the *)
(* size of a block.                                                        *)
(***************************************************************************)
EXTENDS MxTypes, TLAPS

LEMMA ModId == ASSUME NEW u \in Nat \ {0}, NEW x \in 0 .. u - 1
               PROVE  x % u = x
OBVIOUS

LEMMA ModRange == ASSUME NEW u \in Nat \ {0}, NEW x \in Int
                  PROVE  x % u \in 0 .. u - 1
OBVIOUS

LEMMA ModLeq == ASSUME NEW u \in Nat \ {0}, NEW x \in Nat
                PROVE  (x % u) \in Nat /\ (x % u) <= x
OBVIOUS

LEMMA ModTwiceLeq == ASSUME NEW u \in Nat \ {0}, NEW x \in Nat
                     PROVE  ((x % u) % u) <= x
<1>. DEFINE y == x % u
<1>1. y \in Nat /\ y <= x
  BY ModLeq
<1>. HIDE DEF y
<1>2. (y % u) \in Nat /\ (y % u) <= y
  BY <1>1, ModLeq
<1>. QED BY <1>1, <1>2 DEF y

LEMMA DivMonotone == ASSUME NEW u \in Nat \ {0}, NEW x \in Nat
                     PROVE  /\ x \div u \in Nat /\ (x + 1) \div u \in Nat
                            /\ x \div u <= (x + 1) \div u
OBVIOUS

LEMMA DivOrder == ASSUME NEW u \in Nat \ {0}, NEW x \in Nat, NEW y \in Nat, x <= y
                  PROVE  /\ x \div u \in Nat /\ y \div u \in Nat
                         /\ x \div u <= y \div u
OBVIOUS

LEMMA DivOneMore == ASSUME NEW u \in Nat \ {0}, NEW x \in Nat
                    PROVE  (x + u) \div u = x \div u + 1
OBVIOUS

LEMMA DivCeiling == ASSUME NEW u \in Nat \ {0}, NEW x \in Nat
                    PROVE  /\ (x + u - 1) \div u \in Nat
                           /\ (x + u - 1) \div u <= x \div u + 1
                           /\ x = 0 => (x + u - 1) \div u = 0
OBVIOUS

LEMMA Wraps == \A x \in Int : x % UINT16 \in 0 .. UINT16 - 1
BY ModRange, SizesAssumption

(* A value a field can hold is stored unchanged.                           *)
LEMMA Held == \A x \in 0 .. UINT16 - 1 : x % UINT16 = x
BY ModId, SizesAssumption

LEMMA DivMod == ASSUME NEW u \in Nat \ {0}, NEW x \in Int
                PROVE  /\ x \div u \in Int /\ x % u \in 0 .. u - 1
                       /\ x = u * (x \div u) + (x % u)
OBVIOUS

LEMMA ModUnique == ASSUME NEW u \in Nat \ {0}, NEW q \in Int, NEW r \in 0 .. u - 1
                   PROVE  (u * q + r) % u = r
OBVIOUS

(* Counting up a wrapped counter is wrapping the count.                    *)
LEMMA ModStep == ASSUME NEW u \in Nat \ {0}, NEW x \in Int
                 PROVE  ((x % u) + 1) % u = (x + 1) % u
<1>. DEFINE q == x \div u
            r == x % u
<1>1. q \in Int /\ r \in 0 .. u - 1 /\ x = u * q + r
  BY DivMod
<1>2. CASE r + 1 < u
  <2>. HIDE DEF q, r
  <2>1. r + 1 \in 0 .. u - 1 /\ x + 1 = u * q + (r + 1)
    BY <1>1, <1>2
  <2>2. (x + 1) % u = r + 1
    BY <1>1, <2>1, ModUnique
  <2>3. (r + 1) % u = r + 1
    BY <2>1
  <2>. QED BY <2>2, <2>3 DEF r
<1>3. CASE r + 1 = u
  <2>. HIDE DEF q, r
  <2>1. x + 1 = u * (q + 1) + 0 /\ q + 1 \in Int /\ 0 \in 0 .. u - 1
    BY <1>1, <1>3
  <2>2. (x + 1) % u = 0
    BY <2>1, ModUnique
  <2>3. (r + 1) % u = 0
    BY <1>1, <1>3
  <2>. QED BY <2>2, <2>3 DEF r
<1>. QED BY <1>1, <1>2, <1>3

(* A number of blocks computed as q / b + 1 has room for more than q.      *)
LEMMA DivRoom == ASSUME NEW b \in Nat \ {0}, NEW q \in Nat
                 PROVE  q \div b \in Nat /\ q < b * (q \div b + 1)
OBVIOUS
=============================================================================
