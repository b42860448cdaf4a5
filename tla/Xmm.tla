-------------------------------- MODULE Xmm --------------------------------
(***************************************************************************)
(* The AVX and AES-NI instructions that the key expansions and the block   *)
(* kernel are written with, on 128-bit registers of sixteen bytes, lowest  *)
(* address first.  They belong to the processor and not to the repository: *)
(* each is what the code relies on it doing.  The S-box and the doubling   *)
(* of GF(2^8) are parameters; RijndaelTables computes them as the Python   *)
(* reference of the repository does.                                       *)
(***************************************************************************)
EXTENDS Naturals, Bytes

CONSTANTS
  Sbox,      \* SubBytes on one byte
  Mul2       \* multiplication by 2 in GF(2^8)

ASSUME BitAssumption == Bit = 0..7
ASSUME SboxAssumption == Sbox \in [Byte -> Byte]
ASSUME Mul2Assumption == Mul2 \in [Byte -> Byte]

\* The byte an integer literal of the assembly denotes.
Hex(n) == {i \in Bit : (n \div 2^i) % 2 = 1}

Lane == 0..15
Reg  == [Lane -> Byte]

ZeroReg == [i \in Lane |-> Zero]

-----------------------------------------------------------------------------
(* Moves and bitwise operations                                            *)

\* Unaligned loads and stores; a memory is a function on byte offsets.
Load(mem, at) == [i \in Lane |-> mem[at + i]]

Store(mem, at, r) ==
  [a \in DOMAIN mem |-> IF a \in at..(at + 15) THEN r[a - at] ELSE mem[a]]

VPXOR(a, b) == [i \in Lane |-> a[i] (+) b[i]]

VPAND(a, b) == [i \in Lane |-> a[i] \cap b[i]]

\* Byte shuffle: a mask byte of 128 or more selects zero.
VPSHUFB(a, mask) ==
  [i \in Lane |-> IF mask[i] >= 128 THEN Zero ELSE a[mask[i] % 16]]

\* Doubleword shuffle with the same selector for the four doublewords.
VPSHUFD(a, d) == [i \in Lane |-> a[4 * d + (i % 4)]]

\* Two doublewords of a and then two of b, by number.
SHUFPS(a, b, d) ==
  [i \in Lane |-> LET n == 4 * d[i \div 4 + 1] + (i % 4)
                  IN  IF i < 8 THEN a[n] ELSE b[n]]

\* Shift left by four bytes, that is towards the higher addresses.
VPSLLDQ4(a) == [i \in Lane |-> IF i < 4 THEN Zero ELSE a[i - 4]]

\* Each doubleword shifted left by one bit.
VPSLLD1(a) ==
  [i \in Lane |-> {b \in Bit : IF b = 0 THEN i % 4 # 0 /\ 7 \in a[i - 1]
                                       ELSE b - 1 \in a[i]}]

\* A doubleword of a register as the set of its one bits, and back.
Dword(a, d) == {n \in 0..31 : (n % 8) \in a[4 * d + n \div 8]}

DwordByte(x, j) == {b \in Bit : 8 * j + b \in x}

\* The sum of two doublewords, carried from bit to bit and out of the last.
ADD(x, y) ==
  LET carry[n \in 0..31] ==
        /\ n > 0
        /\ \/ n - 1 \in x /\ n - 1 \in y
           \/ (n - 1 \in x \/ n - 1 \in y) /\ carry[n - 1]
  IN  {n \in 0..31 : (n \in x) # ((n \in y) # carry[n])}

BSWAP(x) == {n \in 0..31 : 8 * (3 - n \div 8) + (n % 8) \in x}

VPADDD(a, b) ==
  LET sum == [d \in 0..3 |-> ADD(Dword(a, d), Dword(b, d))]
  IN  [i \in Lane |-> DwordByte(sum[i \div 4], i % 4)]

VPINSRD(a, d, x) ==
  [i \in Lane |-> IF i \div 4 = d THEN DwordByte(x, i % 4) ELSE a[i]]

-----------------------------------------------------------------------------
(* AES rounds on a register, four columns of four bytes                    *)

ShiftRows(a) == [i \in Lane |-> a[(i + 4 * (i % 4)) % 16]]

SubBytes(a) == [i \in Lane |-> Sbox[a[i]]]

\* Row i % 4 of MixColumns in the column of byte i.
MixColumns(a) ==
  LET row(i, k) == a[4 * (i \div 4) + ((i + k) % 4)]
  IN  [i \in Lane |-> (Mul2[row(i, 0)] (+) (Mul2[row(i, 1)] (+) row(i, 1)))
                        (+) (row(i, 2) (+) row(i, 3))]

VAESENC(a, k) == VPXOR(MixColumns(SubBytes(ShiftRows(a))), k)

VAESENCLAST(a, k) == VPXOR(SubBytes(ShiftRows(a)), k)

\* SubWord of doublewords 1 and 3, each followed by its rotation xor rc.
VAESKEYGENASSIST(a, rc) ==
  [i \in Lane |->
     LET w == IF i < 8 THEN 1 ELSE 3
     IN  IF (i \div 4) % 2 = 0
         THEN Sbox[a[4 * w + (i % 4)]]
         ELSE Sbox[a[4 * w + ((i + 1) % 4)]]
                (+) (IF i % 4 = 0 THEN rc ELSE Zero)]
=============================================================================
