---------------------------- MODULE K32b32_proof ----------------------------
(***************************************************************************)
(* Proofs about K32b32: for every S-box and every doubling, a round on two *)
(* registers is a round of the reference on eight words, and the routine   *)
(* implements the encryption of four blocks from anywhere to anywhere.     *)
(***************************************************************************)
EXTENDS K32b32, TLAPS

-----------------------------------------------------------------------------
(* Exclusive-or                                                            *)

LEMMA XorLaws ==
  /\ Zero \in Byte
  /\ \A a, b \in Byte : a (+) b \in Byte
  /\ \A a, b : a (+) b = b (+) a
  /\ \A a, b, c : (a (+) b) (+) c = a (+) (b (+) c)
BY DEF Byte, (+), Zero

LEMMA SameXor == \A a, b : Reference!(+)(a, b) = a (+) b
BY DEF Reference!(+), (+)

\* The exchange of two bytes through their masked difference.
LEMMA Exchange ==
  ASSUME NEW a \in Byte, NEW b \in Byte
  PROVE  /\ a (+) ((a (+) b) \cap Bit) = b
         /\ b (+) ((a (+) b) \cap Bit) = a
         /\ a (+) ((a (+) b) \cap Zero) = a
         /\ b (+) ((a (+) b) \cap Zero) = b
BY DEF Byte, (+), Zero

-----------------------------------------------------------------------------
(* Where the bytes go                                                      *)

\* The index from which byte i of a register comes when both rows that the
\* masks treat apart and ShiftRows have been at work.
From(i) == 4 * (((i \div 4) + Reference!shift(i % 4)) % 4) + (i % 4)

\* Whether it comes from the other register.
Other(i) == ((i \div 4) + Reference!shift(i % 4)) >= 4

LEMMA Lanes ==
  \A i : i \in Lane <=> i \in {0, 1, 2, 3, 4, 5, 6, 7, 8, 9, 10, 11, 12, 13, 14, 15}
BY DEF Lane

LEMMA MaskValues ==
  \A i \in Lane : /\ (i + 4 * (i % 4)) % 16 \in Lane
                  /\ rijndael256_mask[(i + 4 * (i % 4)) % 16] = From(i)
                  /\ From(i) \in Lane
                  /\ From(i) < 128 /\ From(i) % 16 = From(i)
<1>1. /\ rijndael256_mask[0] = 0 /\ rijndael256_mask[1] = 1
      /\ rijndael256_mask[2] = 6 /\ rijndael256_mask[3] = 7
      /\ rijndael256_mask[4] = 4 /\ rijndael256_mask[5] = 5
      /\ rijndael256_mask[6] = 10 /\ rijndael256_mask[7] = 11
      /\ rijndael256_mask[8] = 8 /\ rijndael256_mask[9] = 9
      /\ rijndael256_mask[10] = 14 /\ rijndael256_mask[11] = 15
      /\ rijndael256_mask[12] = 12 /\ rijndael256_mask[13] = 13
      /\ rijndael256_mask[14] = 2 /\ rijndael256_mask[15] = 3
  BY DEF rijndael256_mask, Lane
<1>2. SUFFICES ASSUME NEW i \in Lane
               PROVE  /\ (i + 4 * (i % 4)) % 16 \in Lane
                      /\ rijndael256_mask[(i + 4 * (i % 4)) % 16] = From(i)
                      /\ From(i) \in Lane
                      /\ From(i) < 128 /\ From(i) % 16 = From(i)
  OBVIOUS
<1>3. i \in {0, 1, 2, 3, 4, 5, 6, 7, 8, 9, 10, 11, 12, 13, 14, 15}
  BY Lanes
<1> QED BY <1>1, <1>3 DEF From, Reference!shift, Lane

\* sel2 marks what has to change sides.
LEMMA SelValues ==
  \A i \in Lane : sel2[From(i)] = IF Other(i) THEN Bit ELSE Zero
<1> SUFFICES ASSUME NEW i \in Lane
             PROVE  sel2[From(i)] = IF Other(i) THEN Bit ELSE Zero
  OBVIOUS
<1>1. \A k \in Lane : sel2[k] = IF k \in {1, 2, 3, 6, 7, 10, 11, 15}
                               THEN Bit ELSE Zero
  BY DEF sel2
<1>2. i \in {0, 1, 2, 3, 4, 5, 6, 7, 8, 9, 10, 11, 12, 13, 14, 15}
  BY Lanes
<1>3. From(i) \in {1, 2, 3, 6, 7, 10, 11, 15} <=> Other(i)
  BY <1>2 DEF From, Other, Reference!shift
<1> QED BY <1>1, <1>3, MaskValues

\* ShiftRows of the blended registers is the reference's ShiftRow.
LEMMA Gather ==
  ASSUME NEW h \in Half, NEW i \in Lane
  PROVE  /\ ShiftRows(blockblend(h).data1)[i]
              = Reference!shifted(Joined(h), i \div 4, i % 4)
         /\ ShiftRows(blockblend(h).data2)[i]
              = Reference!shifted(Joined(h), 4 + (i \div 4), i % 4)
<1> DEFINE j == (i + 4 * (i % 4)) % 16
           g == From(i)
           d1 == h.data1
           d2 == h.data2
<1>0. \A k \in Lane : d1[k] \in Byte /\ d2[k] \in Byte
  BY DEF Half, Reg
<1>1. /\ j \in Lane /\ g \in Lane /\ rijndael256_mask[j] = g
      /\ ~(g >= 128) /\ g % 16 = g
  BY MaskValues DEF Lane
<1>2. d1[g] \in Byte /\ d2[g] \in Byte
  BY <1>0, <1>1
<1>3. /\ ShiftRows(blockblend(h).data1)[i]
            = d1[g] (+) ((d1[g] (+) d2[g]) \cap sel2[g])
      /\ ShiftRows(blockblend(h).data2)[i]
            = d2[g] (+) ((d1[g] (+) d2[g]) \cap sel2[g])
  BY <1>1 DEF ShiftRows, blockblend, VPSHUFB, VPXOR, VPAND
<1>4. /\ ShiftRows(blockblend(h).data1)[i] = IF Other(i) THEN d2[g] ELSE d1[g]
      /\ ShiftRows(blockblend(h).data2)[i] = IF Other(i) THEN d1[g] ELSE d2[g]
  <2>1. CASE Other(i)
    <3>1. sel2[g] = Bit
      BY <2>1, SelValues
    <3> QED BY <2>1, <3>1, <1>2, <1>3, Exchange
  <2>2. CASE ~Other(i)
    <3>1. sel2[g] = Zero
      BY <2>2, SelValues
    <3> QED BY <2>2, <3>1, <1>2, <1>3, Exchange
  <2> QED BY <2>1, <2>2
<1>5. /\ Reference!shifted(Joined(h), i \div 4, i % 4)
            = IF Other(i) THEN d2[g] ELSE d1[g]
      /\ Reference!shifted(Joined(h), 4 + (i \div 4), i % 4)
            = IF Other(i) THEN d1[g] ELSE d2[g]
  <2>1. /\ 4 * (((i \div 4) + Reference!shift(i % 4)) % 8) + (i % 4)
             = IF Other(i) THEN 16 + g ELSE g
        /\ 4 * (((4 + (i \div 4)) + Reference!shift(i % 4)) % 8) + (i % 4)
             = IF Other(i) THEN g ELSE 16 + g
    <3>1. i \in {0, 1, 2, 3, 4, 5, 6, 7, 8, 9, 10, 11, 12, 13, 14, 15}
      BY Lanes
    <3> QED BY <3>1 DEF From, Other, Reference!shift
  <2>2. Joined(h)[g] = d1[g] /\ Joined(h)[16 + g] = d2[g]
    BY <1>1 DEF Joined, Lane
  <2> QED BY <2>1, <2>2 DEF Reference!shifted, Reference!BC
<1> QED BY <1>4, <1>5

-----------------------------------------------------------------------------
(* A round                                                                 *)

\* Four products and sums of one column are those of the T-boxes.
LEMMA Column ==
  ASSUME NEW s \in [0..3 -> Byte], NEW k \in 0..3
  PROVE  LET r(n) == s[(k + n) % 4]
             T(j) == Reference!times(Reference!G(j, k), s[j])
         IN  (Mul2[r(0)] (+) (Mul2[r(1)] (+) r(1))) (+) (r(2) (+) r(3))
               = (T(0) (+) T(1)) (+) (T(2) (+) T(3))
<1> DEFINE T(j) == Reference!times(Reference!G(j, k), s[j])
<1>1. \A n \in 0..3 : s[n] \in Byte
  OBVIOUS
<1>2. /\ \A b : Reference!times(1, b) = b
      /\ \A b : Reference!times(2, b) = Mul2[b]
      /\ \A b : Reference!times(3, b) = Mul2[b] (+) b
  BY SameXor DEF Reference!times
<1>3. CASE k = 0
  <2>1. T(0) = Mul2[s[0]] /\ T(1) = Mul2[s[1]] (+) s[1] /\ T(2) = s[2] /\ T(3) = s[3]
    BY <1>2, <1>3 DEF Reference!G
  <2> QED BY <2>1, <1>3
<1>4. CASE k = 1
  <2>1. T(0) = s[0] /\ T(1) = Mul2[s[1]] /\ T(2) = Mul2[s[2]] (+) s[2] /\ T(3) = s[3]
    BY <1>2, <1>4 DEF Reference!G
  <2>2. \A a, b, c, d : (b (+) c) (+) (d (+) a) = (a (+) b) (+) (c (+) d)
    BY XorLaws
  <2>3. s[(k + 0) % 4] = s[1] /\ s[(k + 1) % 4] = s[2]
        /\ s[(k + 2) % 4] = s[3] /\ s[(k + 3) % 4] = s[0]
    BY <1>4
  <2>4. (Mul2[s[1]] (+) (Mul2[s[2]] (+) s[2])) (+) (s[3] (+) s[0])
          = (s[0] (+) Mul2[s[1]]) (+) ((Mul2[s[2]] (+) s[2]) (+) s[3])
    BY <2>2
  <2> QED BY <2>1, <2>3, <2>4
<1>5. CASE k = 2
  <2>1. T(0) = s[0] /\ T(1) = s[1] /\ T(2) = Mul2[s[2]] /\ T(3) = Mul2[s[3]] (+) s[3]
    BY <1>2, <1>5 DEF Reference!G
  <2>2. \A a, b, c, d : (c (+) d) (+) (a (+) b) = (a (+) b) (+) (c (+) d)
    BY XorLaws
  <2>3. s[(k + 0) % 4] = s[2] /\ s[(k + 1) % 4] = s[3]
        /\ s[(k + 2) % 4] = s[0] /\ s[(k + 3) % 4] = s[1]
    BY <1>5
  <2>4. (Mul2[s[2]] (+) (Mul2[s[3]] (+) s[3])) (+) (s[0] (+) s[1])
          = (s[0] (+) s[1]) (+) (Mul2[s[2]] (+) (Mul2[s[3]] (+) s[3]))
    BY <2>2
  <2> QED BY <2>1, <2>3, <2>4
<1>6. CASE k = 3
  <2>1. T(0) = Mul2[s[0]] (+) s[0] /\ T(1) = s[1] /\ T(2) = s[2] /\ T(3) = Mul2[s[3]]
    BY <1>2, <1>6 DEF Reference!G
  <2>2. \A a, b, c, d : (d (+) a) (+) (b (+) c) = (a (+) b) (+) (c (+) d)
    BY XorLaws
  <2>3. s[(k + 0) % 4] = s[3] /\ s[(k + 1) % 4] = s[0]
        /\ s[(k + 2) % 4] = s[1] /\ s[(k + 3) % 4] = s[2]
    BY <1>6
  <2>4. (Mul2[s[3]] (+) (Mul2[s[0]] (+) s[0])) (+) (s[1] (+) s[2])
          = ((Mul2[s[0]] (+) s[0]) (+) s[1]) (+) (s[2] (+) Mul2[s[3]])
    BY <2>2
  <2> QED BY <2>1, <2>3, <2>4
<1> QED BY <1>3, <1>4, <1>5, <1>6

\* Index of row n further on, in the column of byte i.
Row(i, n) == 4 * (i \div 4) + ((i + n) % 4)

LEMMA RowIndex ==
  \A i \in Lane, n \in 0..3 : /\ Row(i, n) \in Lane
                              /\ Row(i, n) \div 4 = i \div 4
                              /\ Row(i, n) % 4 = ((i % 4) + n) % 4
BY DEF Row, Lane

\* VAESENC and VAESENCLAST, byte by byte.
LEMMA AesRound ==
  ASSUME NEW a, NEW k, NEW i \in Lane
  PROVE  /\ VAESENC(a, k)[i] =
              (LET r(n) == Sbox[ShiftRows(a)[Row(i, n)]]
               IN  (Mul2[r(0)] (+) (Mul2[r(1)] (+) r(1))) (+) (r(2) (+) r(3)))
                (+) k[i]
         /\ VAESENCLAST(a, k)[i] = Sbox[ShiftRows(a)[i]] (+) k[i]
<1>1. \A n \in 0..3 : SubBytes(ShiftRows(a))[Row(i, n)]
                         = Sbox[ShiftRows(a)[Row(i, n)]]
  BY RowIndex DEF SubBytes
<1>2. SubBytes(ShiftRows(a))[i] = Sbox[ShiftRows(a)[i]]
  BY DEF SubBytes
<1>3. VAESENC(a, k)[i] = MixColumns(SubBytes(ShiftRows(a)))[i] (+) k[i]
  BY DEF VAESENC, VPXOR
<1>4. VAESENCLAST(a, k)[i] = SubBytes(ShiftRows(a))[i] (+) k[i]
  BY DEF VAESENCLAST, VPXOR
<1>5. MixColumns(SubBytes(ShiftRows(a)))[i] =
        LET r(n) == SubBytes(ShiftRows(a))[Row(i, n)]
        IN  (Mul2[r(0)] (+) (Mul2[r(1)] (+) r(1))) (+) (r(2) (+) r(3))
  BY DEF MixColumns, Row
<1> QED BY <1>1, <1>2, <1>3, <1>4, <1>5

LEMMA HalfBytes ==
  ASSUME NEW h \in Half
  PROVE  Joined(h) \in [0..31 -> Byte]
<1>1. \A i \in Lane : h.data1[i] \in Byte /\ h.data2[i] \in Byte
  BY DEF Half, Reg
<1>2. \A n \in 0..31 : IF n < 16 THEN n \in Lane ELSE n - 16 \in Lane
  BY DEF Lane
<1> QED BY <1>1, <1>2 DEF Joined

\* For every S-box and doubling, blockblend and VAESENC on the two registers
\* of a block are one round of the reference on its eight words.
LEMMA RoundIsRound ==
  ASSUME NEW h \in Half, NEW ke, NEW rd \in Nat
  PROVE  Joined(roundx(h, ke, 32 * rd)) = Reference!round(Joined(h), ke, rd)
<1> DEFINE s == Joined(h)
           b == blockblend(h)
           T(n, j) == Reference!TBox(j, Reference!shifted(s, n \div 4, j), n % 4)
           sum(n) == (T(n, 0) (+) T(n, 1)) (+) (T(n, 2) (+) T(n, 3))
           row(n, m) == Sbox[Reference!shifted(s, n \div 4, ((n % 4) + m) % 4)]
           mixed(n) == (Mul2[row(n, 0)] (+) (Mul2[row(n, 1)] (+) row(n, 1)))
                         (+) (row(n, 2) (+) row(n, 3))
<1>1. \A n \in 0..31 :
        Reference!round(s, ke, rd)[n] = sum(n) (+) ke[32 * rd + n]
  BY SameXor DEF Reference!round, Reference!RoundKey
<1>2. ASSUME NEW n \in 0..31
      PROVE  mixed(n) = sum(n)
  <2> DEFINE c == n \div 4
             col == [j \in 0..3 |-> Sbox[Reference!shifted(s, c, j)]]
  <2>1. n % 4 \in 0..3 /\ \A m \in 0..3 : ((n % 4) + m) % 4 \in 0..3
    OBVIOUS
  <2>2. \A j \in 0..3 : Reference!shifted(s, c, j) \in Byte
    <3>1. \A j \in 0..3 : 4 * ((c + Reference!shift(j)) % 8) + j \in 0..31
      BY DEF Reference!shift
    <3> QED BY <3>1, HalfBytes DEF Reference!shifted, Reference!BC
  <2>3. col \in [0..3 -> Byte]
    BY <2>2, SboxAssumption
  <2>4. \A j \in 0..3 : T(n, j) = Reference!times(Reference!G(j, n % 4), col[j])
    BY DEF Reference!TBox
  <2>5. \A m \in 0..3 : row(n, m) = col[((n % 4) + m) % 4]
    BY <2>1
  <2> HIDE DEF col, T, row
  <2> QED BY <2>1, <2>3, <2>4, <2>5, Column
<1>3. Joined(roundx(h, ke, 32 * rd))
        = [n \in 0..31 |-> IF n < 16 THEN VAESENC(b.data1, Load(ke, 32 * rd))[n]
                           ELSE VAESENC(b.data2, Load(ke, 32 * rd + 16))[n - 16]]
  BY DEF Joined, roundx
<1>4. ASSUME NEW n \in 0..31
      PROVE  Joined(roundx(h, ke, 32 * rd))[n] = sum(n) (+) ke[32 * rd + n]
  <2>1. CASE n < 16
    <3>1. n \in Lane
      BY <2>1 DEF Lane
    <3>2. ASSUME NEW m \in 0..3
          PROVE  Sbox[ShiftRows(b.data1)[Row(n, m)]] = row(n, m)
      <4> DEFINE q == Row(n, m)
      <4>1. q \in Lane /\ q \div 4 = n \div 4 /\ q % 4 = ((n % 4) + m) % 4
        BY <3>1, RowIndex
      <4> HIDE DEF q
      <4>2. ShiftRows(b.data1)[q] = Reference!shifted(s, q \div 4, q % 4)
        BY <4>1, Gather
      <4> QED BY <3>1, <4>1, <4>2 DEF q
    <3>3. Load(ke, 32 * rd)[n] = ke[32 * rd + n]
      BY <3>1 DEF Load
    <3> HIDE DEF row, b
    <3>4. VAESENC(b.data1, Load(ke, 32 * rd))[n] = mixed(n) (+) ke[32 * rd + n]
      BY <3>1, <3>2, <3>3, AesRound
    <3> QED BY <3>4, <2>1, <1>2, <1>3
  <2>2. CASE n >= 16
    <3> DEFINE i == n - 16
    <3>1. i \in Lane /\ i % 4 = n % 4 /\ 4 + (i \div 4) = n \div 4
      BY <2>2 DEF Lane
    <3>2. ASSUME NEW m \in 0..3
          PROVE  Sbox[ShiftRows(b.data2)[Row(i, m)]] = row(n, m)
      <4> DEFINE q == Row(i, m)
      <4>1. q \in Lane /\ q \div 4 = i \div 4 /\ q % 4 = ((i % 4) + m) % 4
        BY <3>1, RowIndex
      <4> HIDE DEF q
      <4>2. ShiftRows(b.data2)[q] = Reference!shifted(s, 4 + (q \div 4), q % 4)
        BY <4>1, Gather
      <4> QED BY <3>1, <4>1, <4>2 DEF q
    <3>3. Load(ke, 32 * rd + 16)[i] = ke[32 * rd + n]
      BY <3>1 DEF Load
    <3> HIDE DEF row, b
    <3>4. VAESENC(b.data2, Load(ke, 32 * rd + 16))[i]
            = mixed(n) (+) ke[32 * rd + n]
      <4> HIDE DEF i
      <4> QED BY <3>1, <3>2, <3>3, AesRound
    <3> QED BY <3>4, <2>2, <1>2, <1>3
  <2> QED BY <2>1, <2>2
<1>5. \A n \in 0..31 : Joined(roundx(h, ke, 32 * rd))[n]
                         = Reference!round(s, ke, rd)[n]
  BY <1>1, <1>4
<1> QED BY <1>5 DEF Joined, Reference!round

\* The same for the last round.
LEMMA LastIsLast ==
  ASSUME NEW h \in Half, NEW ke
  PROVE  Joined(lastx(h, ke)) = Reference!last(Joined(h), ke)
<1> DEFINE s == Joined(h)
           b == blockblend(h)
<1>1. \A n \in 0..31 : Reference!last(s, ke)[n]
        = Sbox[Reference!shifted(s, n \div 4, n % 4)] (+) ke[32 * 14 + n]
  BY SameXor DEF Reference!last, Reference!RoundKey, Reference!ROUNDS
<1>2. Joined(lastx(h, ke))
        = [n \in 0..31 |-> IF n < 16 THEN VAESENCLAST(b.data1, Load(ke, 14 * 32))[n]
                  ELSE VAESENCLAST(b.data2, Load(ke, 14 * 32 + 16))[n - 16]]
  BY DEF Joined, lastx
<1>3. ASSUME NEW n \in 0..31
      PROVE  Joined(lastx(h, ke))[n]
               = Sbox[Reference!shifted(s, n \div 4, n % 4)] (+) ke[32 * 14 + n]
  <2>1. CASE n < 16
    <3>1. n \in Lane
      BY <2>1 DEF Lane
    <3>2. ShiftRows(b.data1)[n] = Reference!shifted(s, n \div 4, n % 4)
      BY <3>1, Gather
    <3>3. Load(ke, 14 * 32)[n] = ke[32 * 14 + n]
      BY <3>1 DEF Load
    <3> HIDE DEF b
    <3>4. VAESENCLAST(b.data1, Load(ke, 14 * 32))[n]
            = Sbox[Reference!shifted(s, n \div 4, n % 4)] (+) ke[32 * 14 + n]
      BY <3>1, <3>2, <3>3, AesRound
    <3> QED BY <3>4, <2>1, <1>2
  <2>2. CASE n >= 16
    <3> DEFINE i == n - 16
    <3>1. i \in Lane /\ i % 4 = n % 4 /\ 4 + (i \div 4) = n \div 4
      BY <2>2 DEF Lane
    <3>2. ShiftRows(b.data2)[i] = Reference!shifted(s, n \div 4, n % 4)
      <4>1. ShiftRows(b.data2)[i] = Reference!shifted(s, 4 + (i \div 4), i % 4)
        <5> HIDE DEF i
        <5> QED BY <3>1, Gather
      <4> QED BY <3>1, <4>1
    <3>3. Load(ke, 14 * 32 + 16)[i] = ke[32 * 14 + n]
      BY <3>1 DEF Load
    <3> HIDE DEF b
    <3>4. VAESENCLAST(b.data2, Load(ke, 14 * 32 + 16))[i]
            = Sbox[Reference!shifted(s, n \div 4, n % 4)] (+) ke[32 * 14 + n]
      <4> HIDE DEF i
      <4> QED BY <3>1, <3>2, <3>3, AesRound
    <3> QED BY <3>4, <2>2, <1>2
  <2> QED BY <2>1, <2>2
<1>4. \A n \in 0..31 : Joined(lastx(h, ke))[n] = Reference!last(s, ke)[n]
  BY <1>1, <1>3
<1> QED BY <1>4 DEF Joined, Reference!last

-----------------------------------------------------------------------------
(* Types                                                                   *)

LEMMA InstructionTypes ==
  ASSUME NEW a \in Reg, NEW b \in Reg
  PROVE  /\ VPXOR(a, b) \in Reg
         /\ VPAND(a, b) \in Reg
         /\ VPSHUFB(a, rijndael256_mask) \in Reg
         /\ VAESENC(a, b) \in Reg
         /\ VAESENCLAST(a, b) \in Reg
<1>1. \A c \in Reg, i \in Lane : c[i] \in Byte
  BY DEF Reg
<1>2. VPXOR(a, b) \in Reg
  BY <1>1, XorLaws DEF VPXOR, Reg
<1>3. VPAND(a, b) \in Reg
  BY <1>1 DEF VPAND, Reg, Byte
<1>4. VPSHUFB(a, rijndael256_mask) \in Reg
  <2>1. \A i \in Lane : rijndael256_mask[i] % 16 \in Lane
    <3>1. \A i \in Lane : rijndael256_mask[i] \in Nat
      BY DEF rijndael256_mask, Lane
    <3> QED BY <3>1 DEF Lane
  <2> QED BY <1>1, <2>1, XorLaws DEF VPSHUFB, Reg
<1>5. ASSUME NEW i \in Lane
      PROVE  /\ Sbox[ShiftRows(a)[i]] \in Byte
             /\ VAESENCLAST(a, b)[i] \in Byte
  <2>1. (i + 4 * (i % 4)) % 16 \in Lane
    BY DEF Lane
  <2>2. Sbox[ShiftRows(a)[i]] \in Byte
    BY <1>1, <2>1, SboxAssumption DEF ShiftRows
  <2> QED BY <1>1, <2>2, AesRound, XorLaws
<1>6. ASSUME NEW i \in Lane PROVE VAESENC(a, b)[i] \in Byte
  <2> DEFINE r(n) == Sbox[ShiftRows(a)[Row(i, n)]]
  <2>1. /\ r(0) \in Byte /\ r(1) \in Byte /\ r(2) \in Byte /\ r(3) \in Byte
    BY <1>5, RowIndex
  <2>2. VAESENC(a, b)[i]
          = ((Mul2[r(0)] (+) (Mul2[r(1)] (+) r(1))) (+) (r(2) (+) r(3))) (+) b[i]
    BY AesRound
  <2> HIDE DEF r
  <2>3. Mul2[r(0)] \in Byte /\ Mul2[r(1)] \in Byte
    BY <2>1, Mul2Assumption
  <2> QED BY <1>1, <2>1, <2>2, <2>3, XorLaws
<1>7. VAESENC(a, b) \in Reg
  BY <1>6 DEF VAESENC, VPXOR, Reg
<1>8. VAESENCLAST(a, b) \in Reg
  BY <1>5 DEF VAESENCLAST, VPXOR, Reg
<1> QED BY <1>2, <1>3, <1>4, <1>7, <1>8

LEMMA RoundTypes ==
  ASSUME NEW h \in Half, NEW ke \in [0..479 -> Byte]
  PROVE  /\ \A at \in Nat : at + 32 <= 480 => roundx(h, ke, at) \in Half
         /\ lastx(h, ke) \in Half
<1>1. h.data1 \in Reg /\ h.data2 \in Reg
  BY DEF Half
<1>2. sel2 \in Reg
  BY XorLaws DEF sel2, Reg, Byte
<1>3. blockblend(h).data1 \in Reg /\ blockblend(h).data2 \in Reg
  BY <1>1, <1>2, InstructionTypes DEF blockblend
<1>4. \A at \in Nat : at + 16 <= 480 => Load(ke, at) \in Reg
  <2> SUFFICES ASSUME NEW at \in Nat, at + 16 <= 480
               PROVE  Load(ke, at) \in Reg
    OBVIOUS
  <2>1. \A i \in Lane : at + i \in 0..479
    BY DEF Lane
  <2> QED BY <2>1 DEF Load, Reg
<1>5. \A at \in Nat : at + 32 <= 480 => roundx(h, ke, at) \in Half
  <2> SUFFICES ASSUME NEW at \in Nat, at + 32 <= 480
               PROVE  roundx(h, ke, at) \in Half
    OBVIOUS
  <2>1. Load(ke, at) \in Reg /\ Load(ke, at + 16) \in Reg
    BY <1>4
  <2> QED BY <1>3, <2>1, InstructionTypes DEF roundx, Half
<1>6. lastx(h, ke) \in Half
  <2>1. Load(ke, 14 * 32) \in Reg /\ Load(ke, 14 * 32 + 16) \in Reg
    BY <1>4
  <2> QED BY <1>3, <2>1, InstructionTypes DEF lastx, Half
<1> QED BY <1>5, <1>6

-----------------------------------------------------------------------------
(* Memory                                                                  *)

\* A register pair goes to 32 bytes, and nowhere else.
LEMMA StoreBlockBytes ==
  ASSUME NEW m \in [Addr -> Byte], NEW at \in Nat, NEW h \in Half
  PROVE  /\ StoreBlock(m, at, h) \in [Addr -> Byte]
         /\ \A a \in Addr : StoreBlock(m, at, h)[a] =
              IF a \in at..(at + 31) THEN Joined(h)[a - at] ELSE m[a]
<1>1. StoreBlock(m, at, h) =
        [a \in Addr |-> IF a \in at..(at + 15) THEN h.data1[a - at]
                       ELSE IF a \in (at + 16)..(at + 16 + 15)
                            THEN h.data2[a - (at + 16)] ELSE m[a]]
  BY DEF StoreBlock, Store
<1>2. \A i \in Lane : h.data1[i] \in Byte /\ h.data2[i] \in Byte
  BY DEF Half, Reg
<1>3. \A a \in Addr : /\ a \in Nat
                      /\ a \in at..(at + 15) => a - at \in Lane /\ a - at < 16
                      /\ a \in (at + 16)..(at + 16 + 15)
                           => /\ a - (at + 16) \in Lane
                              /\ a - (at + 16) = (a - at) - 16
                              /\ ~(a - at < 16)
  BY AddrAssumption DEF Lane
<1>4. StoreBlock(m, at, h) \in [Addr -> Byte]
  BY <1>1, <1>2, <1>3
<1>5. ASSUME NEW a \in Addr
      PROVE  StoreBlock(m, at, h)[a] =
               IF a \in at..(at + 31) THEN Joined(h)[a - at] ELSE m[a]
  <2>1. a \in at..(at + 31) <=> \/ a \in at..(at + 15)
                                \/ a \in (at + 16)..(at + 16 + 15)
    BY <1>3
  <2>2. a \in at..(at + 31) => a - at \in 0..31
    BY <1>3
  <2> QED BY <1>1, <1>3, <2>1, <2>2 DEF Joined
<1> QED BY <1>4, <1>5

\* Four blocks one after the other fill 128 bytes.
LEMMA StoreFour ==
  ASSUME NEW m \in [Addr -> Byte], NEW at \in Nat, NEW hs \in [Block -> Half]
  PROVE  /\ StoreBlocks(m, at, hs) \in [Addr -> Byte]
         /\ \A a \in Addr : StoreBlocks(m, at, hs)[a] =
              IF a \in at..(at + 127)
              THEN Joined(hs[(a - at) \div 32])[(a - at) % 32] ELSE m[a]
<1> DEFINE s(n, b) == StoreBlock(n, at + 32 * b, hs[b])
           m0 == s(m, 0)
           m1 == s(m0, 1)
           m2 == s(m1, 2)
           m3 == s(m2, 3)
<1>1. \A b \in Block : hs[b] \in Half /\ at + 32 * b \in Nat
  BY DEF Block
<1>2. 0 \in Block /\ 1 \in Block /\ 2 \in Block /\ 3 \in Block
  BY DEF Block
<1>3. ASSUME NEW n \in [Addr -> Byte], NEW b \in Block
      PROVE  /\ s(n, b) \in [Addr -> Byte]
             /\ \A a \in Addr : s(n, b)[a] =
                  IF a \in (at + 32 * b)..(at + 32 * b + 31)
                  THEN Joined(hs[b])[a - (at + 32 * b)] ELSE n[a]
  BY <1>1, StoreBlockBytes
<1> HIDE DEF s
<1>4. m0 \in [Addr -> Byte] /\ m1 \in [Addr -> Byte]
      /\ m2 \in [Addr -> Byte] /\ m3 \in [Addr -> Byte]
  BY <1>2, <1>3
<1>5. ASSUME NEW a \in Addr
      PROVE  m3[a] = IF a \in at..(at + 127)
                     THEN Joined(hs[(a - at) \div 32])[(a - at) % 32] ELSE m[a]
  <2> DEFINE in(b) == a \in (at + 32 * b)..(at + 32 * b + 31)
             byte(b) == Joined(hs[b])[a - (at + 32 * b)]
  <2>1. /\ m0[a] = IF in(0) THEN byte(0) ELSE m[a]
        /\ m1[a] = IF in(1) THEN byte(1) ELSE m0[a]
        /\ m2[a] = IF in(2) THEN byte(2) ELSE m1[a]
        /\ m3[a] = IF in(3) THEN byte(3) ELSE m2[a]
    BY <1>2, <1>3, <1>4
  <2>2. a \in Nat
    BY AddrAssumption
  <2>3. \A b \in Block : in(b) => /\ a \in at..(at + 127)
                                 /\ (a - at) \div 32 = b
                                 /\ (a - at) % 32 = a - (at + 32 * b)
    BY <2>2 DEF Block
  <2>4. a \in at..(at + 127) => in(0) \/ in(1) \/ in(2) \/ in(3)
    BY <2>2
  <2>5. \A b \in Block : in(b) =>
          byte(b) = Joined(hs[(a - at) \div 32])[(a - at) % 32]
    BY <2>3
  <2>6. /\ in(1) => ~in(0)
        /\ in(2) => ~in(0) /\ ~in(1)
        /\ in(3) => ~in(0) /\ ~in(1) /\ ~in(2)
    BY <2>2
  <2> HIDE DEF in, byte, m0, m1, m2, m3
  <2> QED BY <1>2, <2>1, <2>3, <2>4, <2>5, <2>6
<1>6. StoreBlocks(m, at, hs) = m3
  BY DEF StoreBlocks, s
<1> QED BY <1>4, <1>5, <1>6

-----------------------------------------------------------------------------
(* The routine                                                             *)

\* The key pointer and the counter advance together.
IInv == /\ TypeOK
        /\ pc = "rounds" => r8 \in 1..13 /\ ks = 32 * (r8 - 1)
        /\ pc = "last" => r8 = 14 /\ ks = 416

LEMMA ArgFacts ==
  ASSUME arg \in Args
  PROVE  /\ arg.Ke \in [0..479 -> Byte] /\ arg.src \in Nat /\ arg.dst \in Nat
         /\ arg.src..(arg.src + 127) \subseteq Addr
         /\ arg.dst..(arg.dst + 127) \subseteq Addr
BY ArgsAssumption

LEMMA ZeroHalf == [data1 |-> ZeroReg, data2 |-> ZeroReg] \in Half
BY XorLaws DEF Half, ZeroReg, Reg

LEMMA InitInv == Init => IInv
BY ZeroHalf, MemsAssumption DEF Init, IInv, TypeOK, Block

\* Round 0 puts in each pair of registers a block xored with the first round
\* key, as the reference begins.
LEMMA Round0Blocks ==
  ASSUME IInv, Round0
  PROVE  /\ x' \in [Block -> Half]
         /\ \A b \in Block : Joined(x'[b])
              = Reference!first(Reference!BlockAt(mem, arg.src, b), arg.Ke)
<1>1. /\ arg.Ke \in [0..479 -> Byte] /\ arg.src \in Nat
      /\ arg.src..(arg.src + 127) \subseteq Addr /\ mem \in [Addr -> Byte]
  BY ArgFacts DEF IInv, TypeOK
<1>2. ASSUME NEW b \in Block
      PROVE  /\ x'[b] \in Half
             /\ Joined(x'[b])
                  = Reference!first(Reference!BlockAt(mem, arg.src, b), arg.Ke)
  <2> DEFINE k1 == Load(arg.Ke, 0)
             k2 == Load(arg.Ke, 16)
             p1 == Load(mem, arg.src + 32 * b)
             p2 == Load(mem, arg.src + 32 * b + 16)
  <2>1. x'[b] = [data1 |-> VPXOR(k1, p1), data2 |-> VPXOR(k2, p2)]
    BY DEF Round0
  <2>2. b \in 0..3
    BY DEF Block
  <2>3. \A i \in Lane : /\ 0 + i \in 0..479 /\ 16 + i \in 0..479
                        /\ arg.src + 32 * b + i \in Addr
                        /\ arg.src + 32 * b + 16 + i \in Addr
    BY <1>1, <2>2 DEF Lane
  <2>4. k1 \in Reg /\ k2 \in Reg /\ p1 \in Reg /\ p2 \in Reg
    <3>1. k1 \in Reg
      BY <1>1, <2>3 DEF Load, Reg
    <3>2. k2 \in Reg
      BY <1>1, <2>3 DEF Load, Reg
    <3>3. p1 \in Reg
      BY <1>1, <2>3 DEF Load, Reg
    <3>4. p2 \in Reg
      BY <1>1, <2>3 DEF Load, Reg
    <3> QED BY <3>1, <3>2, <3>3, <3>4
  <2>5. x'[b] \in Half
    <3> HIDE DEF k1, k2, p1, p2
    <3> QED BY <2>1, <2>4, InstructionTypes DEF Half
  <2>6. \A n \in 0..31 : Joined(x'[b])[n] = arg.Ke[n] (+) mem[arg.src + 32 * b + n]
    <3>1. \A i \in Lane : /\ VPXOR(k1, p1)[i] = arg.Ke[i] (+) mem[arg.src + 32 * b + i]
                          /\ VPXOR(k2, p2)[i]
                               = arg.Ke[16 + i] (+) mem[arg.src + 32 * b + 16 + i]
      BY <2>2, <1>1 DEF VPXOR, Load, Lane
    <3>2. \A n \in 0..31 : /\ n < 16 => n \in Lane
                           /\ ~(n < 16) => /\ n - 16 \in Lane /\ 16 + (n - 16) = n
                                           /\ arg.src + 32 * b + 16 + (n - 16)
                                                = arg.src + 32 * b + n
      BY <2>2, <1>1 DEF Lane
    <3>3. \A n \in 0..31 : Joined(x'[b])[n] = IF n < 16 THEN VPXOR(k1, p1)[n]
                                              ELSE VPXOR(k2, p2)[n - 16]
      BY <2>1 DEF Joined
    <3> HIDE DEF k1, k2, p1, p2
    <3> QED BY <3>1, <3>2, <3>3
  <2>7. \A n \in 0..31 :
          Reference!first(Reference!BlockAt(mem, arg.src, b), arg.Ke)[n]
            = mem[arg.src + 32 * b + n] (+) arg.Ke[n]
    BY SameXor DEF Reference!first, Reference!BlockAt, Reference!RoundKey
  <2>8. \A n \in 0..31 : Joined(x'[b])[n]
          = Reference!first(Reference!BlockAt(mem, arg.src, b), arg.Ke)[n]
    BY <2>6, <2>7, XorLaws
  <2> QED BY <2>5, <2>8 DEF Joined, Reference!first
<1>3. DOMAIN x' = Block /\ x' = [b \in Block |-> x'[b]]
  BY DEF Round0
<1> QED BY <1>2, <1>3

LEMMA RoundsBlocks ==
  ASSUME IInv, Rounds
  PROVE  /\ x' \in [Block -> Half]
         /\ \A b \in Block : Joined(x'[b])
                                = Reference!round(Joined(x[b]), arg.Ke, r8)
<1>1. /\ r8 \in 1..13 /\ ks' = 32 * r8 /\ x \in [Block -> Half]
      /\ arg.Ke \in [0..479 -> Byte]
  BY ArgFacts DEF Rounds, IInv, TypeOK
<1>2. x' = [b \in Block |-> roundx(x[b], arg.Ke, 32 * r8)]
  BY <1>1 DEF Rounds
<1>3. 32 * r8 \in Nat /\ 32 * r8 + 32 <= 480 /\ r8 \in Nat
  BY <1>1
<1>4. \A b \in Block : roundx(x[b], arg.Ke, 32 * r8) \in Half
  BY <1>1, <1>3, RoundTypes
<1> QED BY <1>1, <1>2, <1>3, <1>4, RoundIsRound

\* The last round's result, in memory.
LEMMA Round14Memory ==
  ASSUME IInv, Round14
  PROVE  /\ mem' \in [Addr -> Byte]
         /\ \A a \in Addr : mem'[a] =
              IF a \in arg.dst..(arg.dst + 127)
              THEN Reference!last(Joined(x[(a - arg.dst) \div 32]), arg.Ke)
                     [(a - arg.dst) % 32]
              ELSE mem[a]
<1>1. /\ x \in [Block -> Half] /\ mem \in [Addr -> Byte]
      /\ arg.Ke \in [0..479 -> Byte] /\ arg.dst \in Nat
  BY ArgFacts DEF IInv, TypeOK
<1> DEFINE hs == [b \in Block |-> lastx(x[b], arg.Ke)]
<1>2. hs \in [Block -> Half]
  BY <1>1, RoundTypes
<1>3. mem' = StoreBlocks(mem, arg.dst, hs)
  BY DEF Round14
<1>4. \A a \in Addr : a \in arg.dst..(arg.dst + 127)
                       => (a - arg.dst) \div 32 \in Block
  BY <1>1, AddrAssumption DEF Block
<1>5. \A b \in Block : Joined(hs[b]) = Reference!last(Joined(x[b]), arg.Ke)
  BY <1>1, LastIsLast
<1> HIDE DEF hs
<1>6. /\ mem' \in [Addr -> Byte]
      /\ \A a \in Addr : mem'[a] =
           IF a \in arg.dst..(arg.dst + 127)
           THEN Joined(hs[(a - arg.dst) \div 32])[(a - arg.dst) % 32] ELSE mem[a]
  BY <1>1, <1>2, <1>3, StoreFour
<1> QED BY <1>4, <1>5, <1>6

-----------------------------------------------------------------------------
(* Theorems                                                                *)

\* Round counter, key pointer, registers and memory stay in step, for every
\* memory and every call with its blocks inside it.
THEOREM Invariance == Spec => []IInv
<1>1. Init => IInv
  BY InitInv
<1>2. IInv /\ [Next]_vars => IInv'
  <2> SUFFICES ASSUME IInv, [Next]_vars PROVE IInv'
    OBVIOUS
  <2>1. CASE Round0
    BY <2>1, Round0Blocks DEF Round0, IInv, TypeOK
  <2>2. CASE Rounds
    <3>1. x' \in [Block -> Half]
      BY <2>2, RoundsBlocks
    <3>2. r8 \in 1..13 /\ ks = 32 * (r8 - 1) /\ r8' = r8 + 1 /\ ks' = ks + 32
      BY <2>2 DEF Rounds, IInv
    <3>3. ks' = 32 * (r8' - 1) /\ ks' \in 0..416 /\ r8' \in 2..14
      BY <3>2
    <3> QED BY <2>2, <3>1, <3>3 DEF Rounds, IInv, TypeOK
  <2>3. CASE Round14
    <3>1. x' \in [Block -> Half]
      BY <2>3, ZeroHalf DEF Round14
    <3> QED BY <2>3, <3>1, Round14Memory DEF Round14, IInv, TypeOK
  <2>4. CASE Call
    BY <2>4, MemsAssumption DEF Call, IInv, TypeOK
  <2>5. CASE UNCHANGED vars
    BY <2>5 DEF vars, IInv, TypeOK
  <2> QED BY <2>1, <2>2, <2>3, <2>4, <2>5 DEF Next
<1> QED BY <1>1, <1>2, PTL DEF Spec

\* Every variable keeps its type: the key pointer stays inside the schedule.
THEOREM TypeCorrect == Spec => []TypeOK
BY Invariance, PTL DEF IInv

\* The routine implements four encryptions of the reference in step, with any
\* S-box, any doubling, and input and output wherever they lie.
THEOREM Implementation == Spec => ImplementsReference
<1> DEFINE T == [b \in Block |-> Joined(x[b])]
<1>1. Init => Reference!Init
  <2> SUFFICES ASSUME Init PROVE Reference!Init
    OBVIOUS
  <2>1. \A b \in Block : Joined(x[b]) \in [0..31 -> Byte]
    BY InitInv, HalfBytes DEF IInv, TypeOK
  <2> QED BY <2>1, MemsAssumption
        DEF Init, Reference!Init, Reference!State, Reference!Block, Block,
            RoundNumber, Reference!Byte, Byte
<1>2. IInv /\ IInv' /\ [Next]_vars => [Reference!Next]_Reference!vars
  <2> SUFFICES ASSUME IInv, IInv', [Next]_vars
               PROVE  [Reference!Next]_Reference!vars
    OBVIOUS
  <2>1. T \in [Reference!Block -> Reference!State]
        /\ T' \in [Reference!Block -> Reference!State]
    <3>1. \A b \in Block : x[b] \in Half /\ x'[b] \in Half
      BY DEF IInv, TypeOK
    <3>2. \A b \in Block : Joined(x[b]) \in [0..31 -> Byte]
                           /\ Joined(x'[b]) \in [0..31 -> Byte]
      BY <3>1, HalfBytes
    <3> QED BY <3>2 DEF Reference!Block, Block, Reference!State,
                        Reference!Byte, Byte
  <2>2. T' = [b \in Block |-> Joined(x'[b])]
    OBVIOUS
  <2>3. CASE Round0
    <3>1. T' = [b \in Reference!Block |->
                 Reference!first(Reference!BlockAt(mem, arg.src, b), arg.Ke)]
      BY <2>2, <2>3, Round0Blocks DEF Block, Reference!Block
    <3>2. RoundNumber = 0 /\ RoundNumber' = 1 /\ UNCHANGED <<arg, mem>>
      BY <2>3 DEF Round0, RoundNumber
    <3>3. Reference!Start
      BY <3>1, <3>2 DEF Reference!Start
    <3> QED BY <3>3 DEF Reference!Next
  <2>4. CASE Rounds
    <3>1. T' = [b \in Reference!Block |-> Reference!round(T[b], arg.Ke, r8)]
      BY <2>2, <2>4, RoundsBlocks DEF Block, Reference!Block
    <3>2. /\ RoundNumber = r8 /\ r8 \in 1..(Reference!ROUNDS - 1)
          /\ RoundNumber' = RoundNumber + 1 /\ UNCHANGED <<arg, mem>>
      BY <2>4 DEF Rounds, RoundNumber, IInv, TypeOK, Reference!ROUNDS
    <3>3. Reference!Round
      BY <3>1, <3>2 DEF Reference!Round
    <3> QED BY <3>3 DEF Reference!Next
  <2>5. CASE Round14
    <3>1. mem' = [a \in Addr |->
                    IF a \in arg.dst..(arg.dst + 127)
                    THEN Reference!last(T[(a - arg.dst) \div 32], arg.Ke)
                           [(a - arg.dst) % 32]
                    ELSE mem[a]]
      <4>1. \A a \in Addr : a \in arg.dst..(arg.dst + 127)
                             => (a - arg.dst) \div 32 \in Block
        <5>1. arg.dst \in Nat
          BY ArgFacts DEF IInv, TypeOK
        <5> QED BY <5>1, AddrAssumption DEF Block
      <4> QED BY <2>5, <4>1, Round14Memory
    <3>2. /\ RoundNumber = Reference!ROUNDS
          /\ RoundNumber' = Reference!ROUNDS + 1 /\ UNCHANGED arg
      BY <2>5 DEF Round14, RoundNumber, Reference!ROUNDS
    <3>3. Reference!Last
      BY <2>1, <3>1, <3>2 DEF Reference!Last
    <3> QED BY <3>3 DEF Reference!Next
  <2>6. CASE Call
    <3>1. /\ RoundNumber = Reference!ROUNDS + 1 /\ RoundNumber' = 0
          /\ arg' \in Args /\ mem' \in [Addr -> Reference!Byte]
      BY <2>6, MemsAssumption
        DEF Call, RoundNumber, Reference!ROUNDS, Byte, Reference!Byte
    <3>2. Reference!Again
      BY <2>1, <3>1 DEF Reference!Again
    <3> QED BY <3>2 DEF Reference!Next
  <2>7. CASE UNCHANGED vars
    BY <2>7 DEF vars, Reference!vars, RoundNumber
  <2> QED BY <2>3, <2>4, <2>5, <2>6, <2>7 DEF Next
<1> QED BY <1>1, <1>2, Invariance, PTL
     DEF Spec, ImplementsReference, Reference!Spec
=============================================================================
