---------------------------- MODULE Stream_proof ----------------------------
(***************************************************************************)
(* Proofs about Stream: on bytes the code is, step for step, the driver    *)
(* RijnCtr with Rijndael-256 for its cipher, whatever the keys, nonces,    *)
(* memories and requests, so that the theorems about RijnCtr are theorems  *)
(* about the bytes.                                                        *)
(***************************************************************************)
EXTENDS StreamCorrect, Integers, TLAPS

\* The lemmas about schedules and recursion.
X == INSTANCE Expansion_proof WITH Addr <- 0..479, NumWords <- 120

LEMMA Tables == /\ X!AddrAssumption /\ X!RconAssumption /\ X!BitAssumption
                /\ X!SboxAssumption /\ X!Mul2Assumption
<1>1. 120 \in Nat /\ 120 >= 8 /\ 4 * 120 - 1 = 479 /\ 0..479 \subseteq Nat
  OBVIOUS
<1> QED BY <1>1, StreamTableAssumption
     DEF X!AddrAssumption, X!RconAssumption, X!BitAssumption, X!SboxAssumption,
         X!Mul2Assumption, X!Byte, Byte

\* Induction, over a set instead of a predicate.
LEMMA Induction ==
  ASSUME NEW T, 0 \in T, \A n \in Nat : n \in T => n + 1 \in T
  PROVE  Nat \subseteq T
BY X!Induction, Tables

\* There is a list of any length whose elements come from the ones before.
Listed(f, n, base, F) == X!Listed(f, n, base, F)

LEMMA Recursion ==
  ASSUME NEW S, NEW N \in Nat, NEW base \in S, NEW F \in [1..N -> [S -> S]]
  PROVE  \E f \in [0..N -> S] : Listed(f, N, base, F)
BY X!Recursion, Tables DEF Listed

-----------------------------------------------------------------------------
(* Numbers as sets of bits                                                 *)

Digit(x, b) == IF b \in x THEN 1 ELSE 0

\* The numbers that the top bits of x stand for, m bits at index m.
Tops(x, f) == /\ f[0] = 0
              /\ \A m \in 1..64 : f[m] = 2 * f[m - 1] + Digit(x, 64 - m)

LEMMA TopsExist ==
  ASSUME NEW x
  PROVE  \E f \in [0..64 -> Nat] : Tops(x, f)
<1> DEFINE N == 64
           S == Nat
           F == [m \in 1..N |-> [a \in S |-> 2 * a + Digit(x, 64 - m)]]
<1>1. N \in Nat /\ 0 \in S /\ F \in [1..N -> [S -> S]]
  BY DEF Digit
<1>2. PICK f \in [0..N -> S] : Listed(f, N, 0, F)
  <2> HIDE DEF F, N, S
  <2> QED BY <1>1, Recursion
<1>3. f[0] = 0 /\ \A m \in 1..N : f[m] = F[m][f[m - 1]]
  <2> HIDE DEF F, N, S
  <2> QED BY <1>2 DEF Listed, X!Listed
<1>4. ASSUME NEW m \in 1..64 PROVE f[m] = 2 * f[m - 1] + Digit(x, 64 - m)
  <2>1. m - 1 \in 0..64
    OBVIOUS
  <2>2. f[m - 1] \in Nat
    BY <2>1
  <2> QED BY <1>3, <2>2
<1> QED BY <1>3, <1>4 DEF Tops

\* Two lists that begin and go on alike are one.
LEMMA TopsUnique ==
  ASSUME NEW x, NEW f, NEW g, Tops(x, f), Tops(x, g)
  PROVE  \A m \in 0..64 : f[m] = g[m]
<1> DEFINE T == {n \in Nat : n <= 64 => f[n] = g[n]}
<1>1. 0 \in T
  BY DEF Tops
<1>2. ASSUME NEW n \in Nat, n \in T PROVE n + 1 \in T
  <2> SUFFICES ASSUME n + 1 <= 64 PROVE f[n + 1] = g[n + 1]
    OBVIOUS
  <2>1. n + 1 \in 1..64 /\ (n + 1) - 1 = n /\ n <= 64
    OBVIOUS
  <2>2. f[n] = g[n]
    BY <2>1, <1>2
  <2> QED BY <2>1, <2>2 DEF Tops
<1> HIDE DEF T
<1>3. Nat \subseteq T
  BY <1>1, <1>2, Induction
<1> QED BY <1>3 DEF T

\* Value is the last of them.
LEMMA ValueTop ==
  ASSUME NEW x, NEW f \in [0..64 -> Nat], Tops(x, f)
  PROVE  Value(x) = f[64]
<1> DEFINE E(h, m) == IF m = 0 THEN 0 ELSE 2 * h[m - 1] + (IF 64 - m \in x THEN 1 ELSE 0)
           h == CHOOSE h : h = [m \in 0..64 |-> E(h, m)]
<1>1. f = [m \in 0..64 |-> E(f, m)]
  <2>1. \A m \in 0..64 : f[m] = E(f, m)
    BY DEF Tops, Digit
  <2> HIDE DEF E
  <2> QED BY <2>1
<1>2. h = [m \in 0..64 |-> E(h, m)]
  <2> HIDE DEF E
  <2> QED BY <1>1
<1>3. Value(x) = h[64]
  BY DEF Value
<1> HIDE DEF h
<1>4. Tops(x, h)
  <2>1. \A m \in 0..64 : h[m] = E(h, m)
    <3> HIDE DEF E
    <3> QED BY <1>2
  <2> QED BY <2>1 DEF Tops, Digit
<1>5. h[64] = f[64]
  BY <1>4, TopsUnique
<1> QED BY <1>3, <1>5

\* The bits of that number are the ones it was made of: half as much is the
\* number of one top bit less.
LEMMA BitsOfValue ==
  ASSUME NEW x \in SUBSET (0..63)
  PROVE  Value(x) \in Nat /\ Bits(Value(x)) = x
<1>1. PICK f \in [0..64 -> Nat] : Tops(x, f)
  BY TopsExist
<1>2. Value(x) = f[64]
  BY <1>1, ValueTop
<1> DEFINE c == Value(x)
           E(h, b) == IF b = 0 THEN c ELSE h[b - 1] \div 2
           g == [b \in 0..63 |-> f[64 - b]]
           h == CHOOSE h : h = [b \in 0..63 |-> E(h, b)]
<1>3. \A b \in 0..63 : f[64 - b] = 2 * f[63 - b] + Digit(x, b)
  <2> TAKE b \in 0..63
  <2>1. 64 - b \in 1..64 /\ (64 - b) - 1 = 63 - b /\ 64 - (64 - b) = b
    OBVIOUS
  <2> QED BY <1>1, <2>1 DEF Tops
<1>4. \A b \in 0..63 : /\ f[64 - b] \div 2 = f[63 - b]
                       /\ f[64 - b] % 2 = 1 <=> b \in x
  <2> TAKE b \in 0..63
  <2>1. 63 - b \in 0..64
    OBVIOUS
  <2>2. f[63 - b] \in Nat
    BY <2>1
  <2>3. \A a \in Nat : /\ (2 * a + 0) \div 2 = a /\ (2 * a + 0) % 2 = 0
                      /\ (2 * a + 1) \div 2 = a /\ (2 * a + 1) % 2 = 1
    OBVIOUS
  <2>4. CASE b \in x
    <3>1. f[64 - b] = 2 * f[63 - b] + 1
      BY <1>3, <2>4 DEF Digit
    <3> QED BY ONLY <2>2, <2>3, <2>4, <3>1
  <2>5. CASE b \notin x
    <3>1. f[64 - b] = 2 * f[63 - b] + 0
      BY <1>3, <2>5 DEF Digit
    <3> QED BY ONLY <2>2, <2>3, <2>5, <3>1
  <2> QED BY <2>4, <2>5
<1> HIDE DEF c
<1>5. g = [b \in 0..63 |-> E(g, b)]
  <2>1. ASSUME NEW b \in 0..63 PROVE f[64 - b] = E(g, b)
    <3>1. CASE b = 0
      BY <3>1, <1>2 DEF c
    <3>2. CASE b # 0
      <4>1. b - 1 \in 0..63 /\ 64 - (b - 1) = 65 - b /\ 63 - (b - 1) = 64 - b
        BY <3>2
      <4>2. f[65 - b] \div 2 = f[64 - b]
        <5> DEFINE a == b - 1
        <5>1. a \in 0..63 /\ 64 - a = 65 - b /\ 63 - a = 64 - b
          BY <4>1
        <5>2. f[64 - a] \div 2 = f[63 - a]
          BY ONLY <5>1, <1>4
        <5> HIDE DEF a
        <5> QED BY ONLY <5>1, <5>2
      <4>3. g[b - 1] = f[65 - b]
        BY <4>1
      <4> QED BY <3>2, <4>2, <4>3
    <3> QED BY <3>1, <3>2
  <2> HIDE DEF E
  <2> QED BY <2>1
<1> HIDE DEF g
<1>6. h = [b \in 0..63 |-> E(h, b)]
  <2> HIDE DEF E
  <2> QED BY <1>5
<1>7. Bits(c) = {b \in 0..63 : h[b] % 2 = 1}
  BY DEF Bits
<1> HIDE DEF h
<1> DEFINE T == {n \in Nat : n <= 63 => h[n] = g[n]}
<1>8. 0 \in T
  <2>1. h[0] = E(h, 0) /\ g[0] = E(g, 0)
    <3> HIDE DEF E
    <3> QED BY <1>5, <1>6
  <2> QED BY <2>1
<1>9. ASSUME NEW n \in Nat, n \in T PROVE n + 1 \in T
  <2> SUFFICES ASSUME n + 1 <= 63 PROVE h[n + 1] = g[n + 1]
    OBVIOUS
  <2>1. n + 1 \in 0..63 /\ n + 1 # 0 /\ (n + 1) - 1 = n /\ n <= 63
    OBVIOUS
  <2>2. h[n + 1] = E(h, n + 1) /\ g[n + 1] = E(g, n + 1)
    <3> HIDE DEF E
    <3> QED BY <2>1, <1>5, <1>6
  <2>3. h[n] = g[n]
    BY <2>1, <1>9
  <2> QED BY <2>1, <2>2, <2>3
<1> HIDE DEF T
<1>10. \A b \in 0..63 : h[b] = f[64 - b]
  <2> TAKE b \in 0..63
  <2>1. Nat \subseteq T
    BY <1>8, <1>9, Induction
  <2>2. b \in Nat /\ b <= 63
    OBVIOUS
  <2>3. h[b] = g[b]
    BY <2>1, <2>2 DEF T
  <2>4. g[b] = f[64 - b]
    BY DEF g
  <2> QED BY <2>3, <2>4
<1>11. Bits(c) = x
  <2>1. ASSUME NEW b \in 0..63 PROVE h[b] % 2 = 1 <=> b \in x
    <3>1. h[b] = f[64 - b]
      BY <1>10
    <3>2. f[64 - b] % 2 = 1 <=> b \in x
      BY <1>4
    <3> QED BY ONLY <3>1, <3>2
  <2> DEFINE D == 0..63
  <2> HIDE DEF D
  <2>2. Bits(c) = {b \in D : h[b] % 2 = 1} /\ x \subseteq D
    BY <1>7 DEF D
  <2>3. \A b \in D : h[b] % 2 = 1 <=> b \in x
    BY <2>1 DEF D
  <2> QED BY ONLY <2>2, <2>3
<1>12. Value(x) \in Nat
  BY <1>2
<1> QED BY <1>11, <1>12 DEF c

\* The powers of two double.
LEMMA Powers ==
  /\ TwoTo(0) = 1
  /\ \A n \in 1..64 : TwoTo(n) = 2 * TwoTo(n - 1)
  /\ \A n \in 0..64 : TwoTo(n) \in Nat
<1> DEFINE N == 64
           S == Nat
           F == [m \in 1..N |-> [a \in S |-> 2 * a]]
           E(h, m) == IF m = 0 THEN 1 ELSE 2 * h[m - 1]
           h == CHOOSE h : h = [m \in 0..64 |-> E(h, m)]
<1>1. N \in Nat /\ 1 \in S /\ F \in [1..N -> [S -> S]]
  OBVIOUS
<1>2. PICK f \in [0..N -> S] : Listed(f, N, 1, F)
  <2> HIDE DEF F, N, S
  <2> QED BY <1>1, Recursion
<1>3. f[0] = 1 /\ \A m \in 1..N : f[m] = F[m][f[m - 1]]
  <2> HIDE DEF F, N, S
  <2> QED BY <1>2 DEF Listed, X!Listed
<1>4. \A m \in 0..64 : f[m] = E(f, m)
  <2> TAKE m \in 0..64
  <2>1. CASE m = 0
    BY <2>1, <1>3
  <2>2. CASE m # 0
    <3>1. m - 1 \in 0..64 /\ m \in 1..64
      BY <2>2
    <3>2. f[m - 1] \in Nat
      BY <3>1
    <3> QED BY <1>3, <2>2, <3>1, <3>2
  <2> QED BY <2>1, <2>2
<1>5. h = [m \in 0..64 |-> E(h, m)]
  <2> HIDE DEF E
  <2>1. f = [m \in 0..64 |-> E(f, m)]
    BY <1>4
  <2> QED BY <2>1
<1>6. \A n : TwoTo(n) = h[n]
  BY DEF TwoTo
<1> HIDE DEF h
<1>7. \A m \in 0..64 : h[m] = E(h, m)
  <2> HIDE DEF E
  <2> QED BY <1>5
<1> DEFINE T == {n \in Nat : n <= 64 => h[n] \in Nat}
<1>8. 0 \in T
  BY <1>7
<1>9. ASSUME NEW n \in Nat, n \in T PROVE n + 1 \in T
  <2> SUFFICES ASSUME n + 1 <= 64 PROVE h[n + 1] \in Nat
    OBVIOUS
  <2>1. n + 1 \in 0..64 /\ n + 1 # 0 /\ (n + 1) - 1 = n /\ n <= 64
    OBVIOUS
  <2> QED BY <2>1, <1>7, <1>9
<1> HIDE DEF T
<1>10. Nat \subseteq T
  BY <1>8, <1>9, Induction
<1>11. \A n \in 0..64 : TwoTo(n) \in Nat
  BY <1>6, <1>10 DEF T
<1> QED BY <1>6, <1>7, <1>11

\* No carry comes into bit 0, and one comes out of bit b if two of the bits
\* and the carry into it are one.
LEMMA CarryStep ==
  ASSUME NEW x, NEW y, NEW b \in Nat
  PROVE  /\ ~carry(x, y, 0)
         /\ carry(x, y, b + 1) <=> \/ b \in x /\ b \in y
                                   \/ (b \in x \/ b \in y) /\ carry(x, y, b)
<1>1. ~carry(x, y, 0)
  BY DEF carry
<1>2. (b + 1) - 1 = b
  OBVIOUS
<1>3. ASSUME carry(x, y, b + 1), ~(b \in x /\ b \in y)
      PROVE  (b \in x \/ b \in y) /\ carry(x, y, b)
  <2>1. PICK j \in 0..b : /\ j \in x /\ j \in y
                          /\ \A i \in (j + 1)..b : i \in x \/ i \in y
    BY <1>2, <1>3 DEF carry
  <2>2. j \in 0..(b - 1) /\ b \in (j + 1)..b
    BY <1>3, <2>1
  <2>3. \A i \in (j + 1)..(b - 1) : i \in (j + 1)..b
    OBVIOUS
  <2> QED BY <2>1, <2>2, <2>3 DEF carry
<1>4. ASSUME b \in x /\ b \in y PROVE carry(x, y, b + 1)
  <2>1. b \in 0..b /\ (b + 1)..b = {}
    OBVIOUS
  <2> QED BY <1>2, <1>4, <2>1 DEF carry
<1>5. ASSUME b \in x \/ b \in y, carry(x, y, b) PROVE carry(x, y, b + 1)
  <2>1. PICK j \in 0..(b - 1) : /\ j \in x /\ j \in y
                                /\ \A i \in (j + 1)..(b - 1) : i \in x \/ i \in y
    BY <1>5 DEF carry
  <2>2. j \in 0..b /\ \A i \in (j + 1)..b : i \in (j + 1)..(b - 1) \/ i = b
    OBVIOUS
  <2>3. \A i \in (j + 1)..b : i \in x \/ i \in y
    BY <1>5, <2>1, <2>2
  <2> QED BY <1>2, <2>1, <2>2, <2>3 DEF carry
<1> QED BY <1>1, <1>3, <1>4, <1>5

\* The sum of two words is the sum of the numbers, but for the carry out.
LEMMA Sum ==
  ASSUME NEW x, NEW y
  PROVE  Value(x) + Value(y)
           = Value(plus(x, y)) + (IF carry(x, y, 64) THEN TwoTo(64) ELSE 0)
<1> DEFINE z == plus(x, y)
           C(b) == IF carry(x, y, b) THEN 1 ELSE 0
           K(m) == IF carry(x, y, 64) THEN TwoTo(m) ELSE 0
<1>1. PICK f \in [0..64 -> Nat] : Tops(x, f)
  BY TopsExist
<1>2. PICK g \in [0..64 -> Nat] : Tops(y, g)
  BY TopsExist
<1>3. PICK h \in [0..64 -> Nat] : Tops(z, h)
  BY TopsExist
<1>4. Value(x) = f[64] /\ Value(y) = g[64] /\ Value(z) = h[64]
  BY <1>1, <1>2, <1>3, ValueTop
<1>5. \A b \in 0..63 : Digit(x, b) + Digit(y, b) + C(b) = Digit(z, b) + 2 * C(b + 1)
  <2> TAKE b \in 0..63
  <2>1. b \in z <=> \/ b \in x /\ b \in y /\ carry(x, y, b)
                    \/ b \in x /\ b \notin y /\ ~carry(x, y, b)
                    \/ b \notin x /\ b \in y /\ ~carry(x, y, b)
                    \/ b \notin x /\ b \notin y /\ carry(x, y, b)
    <3>1. b \in z <=> ((b \in x) # ((b \in y) # carry(x, y, b)))
      BY DEF plus
    <3>2. carry(x, y, b) \in BOOLEAN
      BY DEF carry
    <3> HIDE DEF z
    <3> QED BY ONLY <3>1, <3>2
  <2>2. carry(x, y, b + 1) <=> \/ b \in x /\ b \in y
                               \/ (b \in x \/ b \in y) /\ carry(x, y, b)
    BY CarryStep
  <2>3. /\ carry(x, y, b) => C(b) = 1
        /\ ~carry(x, y, b) => C(b) = 0
        /\ carry(x, y, b + 1) => C(b + 1) = 1
        /\ ~carry(x, y, b + 1) => C(b + 1) = 0
    OBVIOUS
  <2>4. /\ b \in x => Digit(x, b) = 1
        /\ b \notin x => Digit(x, b) = 0
        /\ b \in y => Digit(y, b) = 1
        /\ b \notin y => Digit(y, b) = 0
        /\ b \in z => Digit(z, b) = 1
        /\ b \notin z => Digit(z, b) = 0
    BY DEF Digit
  <2> HIDE DEF z, C
  <2> QED BY ONLY <2>1, <2>2, <2>3, <2>4
<1> HIDE DEF z
<1>6. /\ K(0) = C(64)
      /\ \A m \in 1..64 : K(m) = 2 * K(m - 1)
      /\ \A m \in 0..64 : K(m) \in Nat
  BY Powers
<1>7. \A b : C(b) \in 0..1 /\ Digit(x, b) \in 0..1 /\ Digit(y, b) \in 0..1 /\ Digit(z, b) \in 0..1
  BY DEF Digit
<1> HIDE DEF C, K
<1> DEFINE T == {n \in Nat : n <= 64 => f[n] + g[n] + C(64 - n) = h[n] + K(n)}
<1>8. 0 \in T
  <2>1. f[0] = 0 /\ g[0] = 0 /\ h[0] = 0
    BY <1>1, <1>2, <1>3 DEF Tops
  <2> QED BY <2>1, <1>6, <1>7
<1>9. ASSUME NEW n \in Nat, n \in T PROVE n + 1 \in T
  <2> SUFFICES ASSUME n + 1 <= 64
               PROVE  f[n + 1] + g[n + 1] + C(64 - (n + 1)) = h[n + 1] + K(n + 1)
    OBVIOUS
  <2> DEFINE b == 63 - n
  <2>1. /\ n + 1 \in 1..64 /\ (n + 1) - 1 = n /\ n <= 64 /\ n \in 0..64
        /\ b \in 0..63 /\ 64 - (n + 1) = b /\ 64 - n = b + 1
    OBVIOUS
  <2> HIDE DEF b
  <2>2. /\ f[n + 1] = 2 * f[n] + Digit(x, b)
        /\ g[n + 1] = 2 * g[n] + Digit(y, b)
        /\ h[n + 1] = 2 * h[n] + Digit(z, b)
    BY <1>1, <1>2, <1>3, <2>1 DEF Tops
  <2>3. f[n] + g[n] + C(b + 1) = h[n] + K(n)
    BY <1>9, <2>1
  <2>4. Digit(x, b) + Digit(y, b) + C(b) = Digit(z, b) + 2 * C(b + 1)
    BY <1>5, <2>1
  <2>5. K(n + 1) = 2 * K(n) /\ K(n) \in Nat
    BY <1>6, <2>1
  <2>6. f[n] \in Nat /\ g[n] \in Nat /\ h[n] \in Nat
    BY <2>1
  <2>7. /\ C(b) \in Nat /\ C(b + 1) \in Nat /\ Digit(x, b) \in Nat
        /\ Digit(y, b) \in Nat /\ Digit(z, b) \in Nat
    BY <1>7
  <2> QED BY ONLY <2>1, <2>2, <2>3, <2>4, <2>5, <2>6, <2>7
<1> HIDE DEF T
<1>10. 64 \in T
  BY <1>8, <1>9, Induction
<1>11. ~carry(x, y, 0) /\ C(0) = 0
  BY CarryStep DEF C
<1>12. f[64] + g[64] = h[64] + K(64)
  BY <1>10, <1>11 DEF T
<1> QED BY <1>4, <1>12 DEF K, z

LEMMA ValueNat == \A x : Value(x) \in Nat
<1> TAKE x
<1>1. PICK f \in [0..64 -> Nat] : Tops(x, f)
  BY TopsExist
<1>2. f[64] \in Nat
  OBVIOUS
<1> QED BY <1>1, <1>2, ValueTop

\* Where the sum is a word, no carry is lost.
LEMMA SumFits ==
  ASSUME NEW x, NEW y, Value(x) + Value(y) < TwoTo(64)
  PROVE  Value(plus(x, y)) = Value(x) + Value(y)
<1>1. Value(x) \in Nat /\ Value(y) \in Nat /\ Value(plus(x, y)) \in Nat
  BY ValueNat
<1>2. TwoTo(64) \in Nat
  BY Powers
<1> QED BY <1>1, <1>2, Sum

\* Words of three bits.
LEMMA SmallValue ==
  ASSUME NEW x, x \subseteq 0..2
  PROVE  Value(x) = 4 * Digit(x, 2) + 2 * Digit(x, 1) + Digit(x, 0)
<1>1. PICK f \in [0..64 -> Nat] : Tops(x, f)
  BY TopsExist
<1> DEFINE T == {n \in Nat : n <= 61 => f[n] = 0}
<1>2. 0 \in T
  BY <1>1 DEF Tops
<1>3. ASSUME NEW n \in Nat, n \in T PROVE n + 1 \in T
  <2> SUFFICES ASSUME n + 1 <= 61 PROVE f[n + 1] = 0
    OBVIOUS
  <2>1. n + 1 \in 1..64 /\ (n + 1) - 1 = n /\ n <= 61 /\ 64 - (n + 1) \notin 0..2
    OBVIOUS
  <2>2. f[n] = 0 /\ Digit(x, 64 - (n + 1)) = 0
    BY <2>1, <1>3 DEF Digit
  <2> QED BY <2>1, <2>2, <1>1 DEF Tops
<1> HIDE DEF T
<1>4. 61 \in T
  BY <1>2, <1>3, Induction
<1>5. f[61] = 0
  BY <1>4 DEF T
<1>6. f[62] = 2 * f[61] + Digit(x, 2)
  BY <1>1 DEF Tops
<1>7. f[63] = 2 * f[62] + Digit(x, 1)
  BY <1>1 DEF Tops
<1>8. f[64] = 2 * f[63] + Digit(x, 0)
  BY <1>1 DEF Tops
<1>9. Digit(x, 0) \in Nat /\ Digit(x, 1) \in Nat /\ Digit(x, 2) \in Nat
  BY DEF Digit
<1>10. Value(x) = f[64]
  BY <1>1, ValueTop
<1> QED BY ONLY <1>5, <1>6, <1>7, <1>8, <1>9, <1>10

\* Counters are no longer than a word.
LEMMA CounterFits == CtrMod \in Nat /\ 1 <= CtrMod /\ CtrMod <= TwoTo(64)
<1>1. CtrBits \in Nat /\ CtrBits \in 0..64
  BY CounterAssumption
<1>2. \A n \in Nat : n + 1 <= 64 => TwoTo(n + 1) = 2 * TwoTo(n) /\ TwoTo(n) \in Nat
  <2> TAKE n \in Nat
  <2>1. n + 1 <= 64 => n + 1 \in 1..64 /\ n \in 0..64 /\ (n + 1) - 1 = n
    OBVIOUS
  <2> QED BY <2>1, Powers
<1> DEFINE U == {n \in Nat : n <= 64 => 1 <= TwoTo(n)}
           T == {n \in Nat : CtrBits + n <= 64 => TwoTo(CtrBits) <= TwoTo(CtrBits + n)}
<1>3. 0 \in U
  BY Powers
<1>4. ASSUME NEW n \in Nat, n \in U PROVE n + 1 \in U
  BY <1>2, <1>4
<1>5. 0 \in T
  <2>1. CtrBits + 0 = CtrBits /\ TwoTo(CtrBits) \in Nat
    BY <1>1, Powers
  <2> QED BY <2>1
<1>6. ASSUME NEW n \in Nat, n \in T PROVE n + 1 \in T
  <2> SUFFICES ASSUME CtrBits + (n + 1) <= 64
               PROVE  TwoTo(CtrBits) <= TwoTo(CtrBits + (n + 1))
    OBVIOUS
  <2> DEFINE m == CtrBits + n
  <2>1. m \in Nat /\ m + 1 <= 64 /\ CtrBits + (n + 1) = m + 1 /\ CtrBits + n <= 64
    BY <1>1
  <2>2. TwoTo(CtrBits) <= TwoTo(m)
    BY <2>1, <1>6
  <2>3. TwoTo(m + 1) = 2 * TwoTo(m) /\ TwoTo(m) \in Nat /\ TwoTo(CtrBits) \in Nat
    BY <2>1, <1>1, <1>2, Powers
  <2> HIDE DEF m
  <2> QED BY <2>1, <2>2, <2>3
<1> HIDE DEF T, U
<1>7. Nat \subseteq T /\ Nat \subseteq U
  BY <1>3, <1>4, <1>5, <1>6, Induction
<1>8. 64 - CtrBits \in Nat /\ CtrBits + (64 - CtrBits) = 64 /\ CtrBits <= 64
  BY <1>1
<1>9. TwoTo(CtrBits) <= TwoTo(64)
  BY <1>7, <1>8 DEF T
<1>10. 1 <= TwoTo(CtrBits)
  BY <1>1, <1>7, <1>8 DEF U
<1>11. TwoTo(CtrBits) \in Nat
  BY <1>1, Powers
<1> QED BY <1>9, <1>10, <1>11 DEF CtrMod

-----------------------------------------------------------------------------
(* Lanes                                                                   *)

\* Computing a value once does not change it.
LEMMA HeldIsSame ==
  ASSUME NEW r
  PROVE  Held(r) = r /\ Kernel!Held(r) = r
BY DEF Held, Kernel!Held

\* Where a bit of a word is in the vector, and back.
LEMMA BitPlaces ==
  ASSUME NEW q \in 0..15, NEW b \in 0..63
  PROVE  /\ 8 * q + b \div 8 \in Vector
         /\ (8 * q + b \div 8) \div 8 = q
         /\ (8 * q + b \div 8) % 8 = b \div 8
         /\ 8 * (b \div 8) + (b % 8) = b
         /\ b % 8 \in 0..7
<1>1. PICK c \in 0..7, r \in 0..7 : b = 8 * c + r
  <2>1. b \div 8 \in 0..7 /\ b % 8 \in 0..7 /\ b = 8 * (b \div 8) + (b % 8)
    OBVIOUS
  <2> QED BY <2>1
<1>2. b \div 8 = c /\ b % 8 = r
  BY <1>1
<1> HIDE <1>1
<1>3. (8 * q + c) \div 8 = q /\ (8 * q + c) % 8 = c /\ 8 * q + c \in 0..127
  OBVIOUS
<1> QED BY <1>1, <1>2, <1>3 DEF Vector

\* The same, from the byte.
LEMMA BytePlaces ==
  ASSUME NEW j \in Vector, NEW b \in 0..7
  PROVE  /\ j \div 8 \in 0..15 /\ 8 * (j % 8) + b \in 0..63
         /\ 8 * (j \div 8) + (j % 8) = j
         /\ (8 * (j % 8) + b) % 8 = b
         /\ (8 * (j % 8) + b) \div 8 = j % 8
<1>1. j \div 8 \in 0..15 /\ j % 8 \in 0..7 /\ 8 * (j \div 8) + (j % 8) = j
  BY DEF Vector
<1> DEFINE c == j % 8
<1>2. c \in 0..7
  BY <1>1
<1> HIDE DEF c
<1>3. 8 * c + b \in 0..63 /\ (8 * c + b) % 8 = b /\ (8 * c + b) \div 8 = c
  BY <1>2
<1> QED BY <1>1, <1>3 DEF c

\* A byte is the part of its word that it came from.
LEMMA ByteOfWord ==
  ASSUME NEW v \in [Vector -> Byte], NEW j \in Vector
  PROVE  v[j] = {b \in 0..7 : 8 * (j % 8) + b \in word(v, j \div 8)}
<1>1. v[j] \subseteq 0..7
  BY StreamTableAssumption DEF Byte
<1>2. ASSUME NEW b \in 0..7
      PROVE  b \in v[j] <=> 8 * (j % 8) + b \in word(v, j \div 8)
  <2> DEFINE p == 8 * (j % 8) + b
  <2>1. p \in 0..63 /\ p % 8 = b /\ 8 * (j \div 8) + p \div 8 = j
    BY BytePlaces
  <2> HIDE DEF p
  <2>2. p \in word(v, j \div 8) <=> p % 8 \in v[8 * (j \div 8) + p \div 8]
    BY <2>1 DEF word
  <2> QED BY <2>1, <2>2 DEF p
<1> QED BY <1>1, <1>2

\* *nc + increment adds word by word.
LEMMA AddedWords ==
  ASSUME NEW v \in [Vector -> Byte]
  PROVE  /\ added(v) \in [Vector -> Byte]
         /\ \A q \in 0..15 : word(added(v), q) = plus(word(v, q), increment[q])
<1> DEFINE sums == [q \in 0..15 |-> plus(word(v, q), increment[q])]
           byte(j) == {b \in 0..7 : 8 * (j % 8) + b \in sums[j \div 8]}
<1>1. added(v) = [j \in Vector |-> byte(j)]
  <2> DEFINE bytes(h) == [j \in Vector |->
                            {b \in 0..7 : 8 * (j % 8) + b \in h[j \div 8]}]
  <2>1. added(v) = Held(bytes(Held(sums)))
    BY DEF added
  <2>2. bytes(sums) = [j \in Vector |-> byte(j)]
    OBVIOUS
  <2> HIDE DEF sums, byte, bytes
  <2> QED BY ONLY <2>1, <2>2, HeldIsSame
<1>2. added(v) \in [Vector -> Byte]
  BY <1>1, StreamTableAssumption DEF Byte
<1>3. ASSUME NEW q \in 0..15
      PROVE  word(added(v), q) = sums[q]
  <2>1. sums[q] \subseteq 0..63
    BY DEF plus
  <2>2. ASSUME NEW b \in 0..63
        PROVE  b % 8 \in added(v)[8 * q + b \div 8] <=> b \in sums[q]
    <3> DEFINE j == 8 * q + b \div 8
    <3>1. j \in Vector /\ j \div 8 = q /\ 8 * (j % 8) + (b % 8) = b /\ b % 8 \in 0..7
      BY BitPlaces
    <3> HIDE DEF j, sums
    <3>2. added(v)[j] = byte(j)
      BY <3>1, <1>1
    <3> QED BY <3>1, <3>2 DEF j
  <2> HIDE DEF sums
  <2> QED BY <2>1, <2>2 DEF word
<1> QED BY <1>2, <1>3

\* So the nonces stay where they are, and each counter grows by four.
LEMMA LaneAdded ==
  ASSUME NEW v \in [Vector -> Byte], NEW l \in 0..3,
         LaneOf(v, l).c + 4 < TwoTo(64)
  PROVE  LaneOf(added(v), l) = [n |-> LaneOf(v, l).n, c |-> LaneOf(v, l).c + 4]
<1>1. ASSUME NEW k \in 0..23
      PROVE  added(v)[32 * l + k] = v[32 * l + k]
  <2> DEFINE j == 32 * l + k
             q == j \div 8
  <2>1. j \in Vector /\ q \in 0..15 /\ q % 4 # 3
    BY DEF Vector
  <2> HIDE DEF j, q
  <2>2. word(added(v), q) = plus(word(v, q), {})
    BY <2>1, AddedWords DEF increment
  <2>3. plus(word(v, q), {}) = word(v, q)
    <3>1. \A b : ~carry(word(v, q), {}, b)
      BY DEF carry
    <3>2. ASSUME NEW b \in 0..63
          PROVE  ((b \in word(v, q)) # ((b \in {}) # carry(word(v, q), {}, b)))
                   <=> b \in word(v, q)
      <4>1. carry(word(v, q), {}, b) = FALSE
        BY <3>1 DEF carry
      <4> HIDE DEF q
      <4>2. (b \in {}) = FALSE /\ (b \in word(v, q)) \in BOOLEAN
        OBVIOUS
      <4> QED BY <4>1, <4>2, Zenon
    <3>3. word(v, q) \subseteq 0..63
      BY DEF word
    <3>4. plus(word(v, q), {}) \subseteq 0..63
      BY DEF plus
    <3>5. ASSUME NEW b \in 0..63
          PROVE  b \in plus(word(v, q), {}) <=> b \in word(v, q)
      BY <3>2 DEF plus
    <3> QED BY <3>3, <3>4, <3>5
  <2>4. word(added(v), q) = word(v, q)
    BY <2>2, <2>3
  <2>5. added(v)[j] = v[j]
    <3>1. added(v) \in [Vector -> Byte]
      BY AddedWords
    <3>2. /\ v[j] = {b \in 0..7 : 8 * (j % 8) + b \in word(v, q)}
          /\ added(v)[j] = {b \in 0..7 : 8 * (j % 8) + b \in word(added(v), q)}
      BY ONLY <2>1, <3>1, v \in [Vector -> Byte], ByteOfWord DEF q
    <3> QED BY ONLY <2>4, <3>2
  <2> QED BY <2>5 DEF j
<1>2. LaneOf(added(v), l).n = LaneOf(v, l).n
  BY <1>1 DEF LaneOf, CRYPTO_NONCEBYTES
<1>3. LaneOf(added(v), l).c = LaneOf(v, l).c + 4
  <2> DEFINE q == 4 * l + 3
  <2>1. q \in 0..15 /\ q % 4 = 3
    OBVIOUS
  <2>2. LaneOf(v, l).c = Value(word(v, q)) /\ LaneOf(added(v), l).c = Value(word(added(v), q))
    BY DEF LaneOf
  <2> HIDE DEF q
  <2>3. word(added(v), q) = plus(word(v, q), {2})
    BY <2>1, AddedWords DEF increment
  <2>4. Value({2}) = 4
    BY SmallValue DEF Digit
  <2> QED BY <2>2, <2>3, <2>4, SumFits
<1> QED BY <1>2, <1>3 DEF LaneOf

\* The four vectors that a call starts with.
LEMMA LaneCounters ==
  ASSUME NEW n \in Nonces
  PROVE  /\ counters(n) \in [Vector -> Byte]
         /\ \A l \in 0..3 : LaneOf(counters(n), l) = [n |-> n, c |-> l]
<1> DEFINE v == counters(n)
           byte(j) == CASE j % 32 < 24 -> n[j % 32]
                        [] j % 32 = 24 -> small(j \div 32)
                        [] OTHER -> Zero
<1>1. v = [j \in Vector |-> byte(j)]
  BY DEF counters
<1>2. n \in [0..23 -> Byte]
  BY StreamKeyAssumption DEF CRYPTO_NONCEBYTES
<1>3. \A c : small(c) \in Byte /\ small(c) \subseteq 0..2
  BY StreamTableAssumption DEF small, Byte
<1>4. Zero \in Byte
  BY DEF Zero, Byte
<1>5. \A j \in Vector : j % 32 \in 0..31
  BY DEF Vector
<1>6. \A j \in Vector : byte(j) \in Byte
  BY <1>2, <1>3, <1>4, <1>5
<1>7. v \in [Vector -> Byte]
  BY <1>1, <1>6
<1>8. ASSUME NEW l \in 0..3
      PROVE  LaneOf(v, l) = [n |-> n, c |-> l]
  <2>1. ASSUME NEW k \in 0..31
        PROVE  /\ 32 * l + k \in Vector
               /\ (32 * l + k) % 32 = k /\ (32 * l + k) \div 32 = l
    BY DEF Vector
  <2>2. ASSUME NEW k \in 0..23 PROVE v[32 * l + k] = n[k]
    <3>1. 32 * l + k \in Vector /\ (32 * l + k) % 32 = k /\ k < 24
      BY <2>1
    <3> HIDE DEF v
    <3> QED BY <3>1, <1>1
  <2>3. LaneOf(v, l).n = n
    BY <2>2, <1>2 DEF LaneOf, CRYPTO_NONCEBYTES
  <2>4. v[32 * l + 24] = small(l)
    <3>1. /\ 32 * l + 24 \in Vector /\ (32 * l + 24) % 32 = 24
          /\ (32 * l + 24) \div 32 = l
      BY <2>1
    <3> HIDE DEF v
    <3> QED BY <3>1, <1>1
  <2>5. ASSUME NEW k \in 25..31 PROVE v[32 * l + k] = Zero
    <3>1. 32 * l + k \in Vector /\ (32 * l + k) % 32 = k /\ ~(k < 24) /\ k # 24
      BY <2>1
    <3> HIDE DEF v
    <3> QED BY <3>1, <1>1
  <2>6. word(v, 4 * l + 3) = small(l)
    <3> DEFINE q == 4 * l + 3
    <3>1. \A b \in 0..63 : 8 * q + b \div 8 = 32 * l + (24 + b \div 8)
      OBVIOUS
    <3>2. \A b \in 0..63 : /\ b \div 8 = 0 => b % 8 = b
                           /\ b \div 8 # 0 => b > 7 /\ 24 + b \div 8 \in 25..31
      OBVIOUS
    <3>3. \A b \in 0..63 : (b % 8) \in v[8 * q + b \div 8] <=> b \in small(l)
      <4> SUFFICES ASSUME NEW b \in 0..63
                   PROVE  (b % 8) \in v[8 * q + b \div 8] <=> b \in small(l)
        OBVIOUS
      <4>1. CASE b \div 8 = 0
        BY <4>1, <3>1, <3>2, <2>4
      <4>2. CASE b \div 8 # 0
        <5>1. v[8 * q + b \div 8] = Zero
          BY <4>2, <3>1, <3>2, <2>5
        <5>2. b \notin small(l)
          BY <4>2, <3>2 DEF small
        <5> QED BY <5>1, <5>2 DEF Zero
      <4> QED BY <4>1, <4>2
    <3> HIDE DEF v
    <3> QED BY <3>3, <1>3 DEF word
  <2>7. Value(small(l)) = l
    <3>1. Value(small(l)) = 4 * Digit(small(l), 2) + 2 * Digit(small(l), 1)
                              + Digit(small(l), 0)
      BY <1>3, SmallValue
    <3>2. /\ 0 \in small(l) <=> (l \div 1) % 2 = 1
          /\ 1 \in small(l) <=> (l \div 2) % 2 = 1
          /\ 2 \notin small(l)
      BY DEF small
    <3>3. l = 0 \/ l = 1 \/ l = 2 \/ l = 3
      OBVIOUS
    <3> QED BY <3>1, <3>2, <3>3 DEF Digit
  <2>8. LaneOf(v, l).c = l
    BY <2>6, <2>7 DEF LaneOf
  <2> HIDE DEF v
  <2> QED BY <2>3, <2>8 DEF LaneOf
<1> QED BY <1>7, <1>8

\* A block of the vector is the one packed from its nonce and its counter.
LEMMA BlockIsQQQQ ==
  ASSUME NEW v \in [Vector -> Byte], NEW l \in 0..3
  PROVE  /\ Kernel!BlockAt(v, 0, l) = QQQQ(LaneOf(v, l).n, LaneOf(v, l).c)
         /\ Kernel!BlockAt(v, 0, l) \in [0..31 -> Byte]
<1> DEFINE x == word(v, 4 * l + 3)
           a == LaneOf(v, l)
<1>1. x \in SUBSET (0..63)
  BY DEF word
<1>2. Bits(a.c) = x
  BY <1>1, BitsOfValue DEF LaneOf
<1>3. ASSUME NEW j \in 0..31
      PROVE  v[32 * l + j] = IF j < 24 THEN a.n[j]
                             ELSE {b \in 0..7 : 8 * (j - 24) + b \in x}
  <2>1. CASE j < 24
    <3>1. j \in 0..23
      BY <2>1
    <3> QED BY <2>1, <3>1 DEF LaneOf, CRYPTO_NONCEBYTES
  <2>2. CASE ~(j < 24)
    <3> DEFINE i == 32 * l + j
    <3>1. i \in Vector /\ i % 8 = j - 24 /\ i \div 8 = 4 * l + 3
      BY <2>2 DEF Vector
    <3> HIDE DEF i
    <3>2. v[i] = {b \in 0..7 : 8 * (j - 24) + b \in x}
      BY <3>1, ByteOfWord
    <3> QED BY <3>2, <2>2 DEF i
  <2> QED BY <2>1, <2>2
<1>4. \A j \in 0..31 : 0 + 32 * l + j = 32 * l + j /\ 32 * l + j \in Vector
  BY DEF Vector
<1>5. Kernel!BlockAt(v, 0, l) = [j \in 0..31 |-> v[32 * l + j]]
  BY <1>4 DEF Kernel!BlockAt
<1>6. QQQQ(a.n, a.c) = [j \in 0..31 |-> IF j < 24 THEN a.n[j]
                                       ELSE {b \in 0..7 : 8 * (j - 24) + b \in x}]
  BY <1>2 DEF QQQQ, CRYPTO_NONCEBYTES
<1> HIDE DEF x, a
<1>7. Kernel!BlockAt(v, 0, l) = QQQQ(a.n, a.c)
  BY <1>3, <1>5, <1>6
<1>8. Kernel!BlockAt(v, 0, l) \in [0..31 -> Byte]
  BY <1>4, <1>5
<1> QED BY <1>7, <1>8 DEF a

-----------------------------------------------------------------------------
(* The cipher                                                              *)

KeyArray == [0..31 -> Byte]
KsArray == [0..479 -> Byte]
State == [0..31 -> Byte]

LEMMA XorByte == /\ Zero \in Byte
                 /\ \A a, b \in Byte : Kernel!(+)(a, b) \in Byte
BY DEF Byte, Zero, Kernel!(+)

\* The key, the rounds and the last round make states of states.
LEMMA RoundsTyped ==
  ASSUME NEW ke \in KsArray, NEW p \in State
  PROVE  /\ Kernel!first(p, ke) \in State
         /\ \A r \in 1..13 : Kernel!round(p, ke, r) \in State
         /\ Kernel!last(p, ke) \in State
<1>1. ASSUME NEW r \in 0..14, NEW n \in 0..31
      PROVE  Kernel!RoundKey(ke, n, r) \in Byte
  <2>1. 32 * r + n \in 0..479
    OBVIOUS
  <2> QED BY <2>1 DEF Kernel!RoundKey, KsArray
<1>2. ASSUME NEW i \in 0..7, NEW j \in 0..3
      PROVE  Kernel!shifted(p, i, j) \in Byte
  <2> DEFINE c == (i + Kernel!shift(j)) % 8
  <2>1. c \in 0..7
    BY DEF Kernel!shift
  <2> HIDE DEF c
  <2>2. 4 * c + j \in 0..31
    BY <2>1
  <2> QED BY <2>2 DEF Kernel!shifted, Kernel!BC, State, c
<1>3. ASSUME NEW j, NEW k, NEW b \in Byte
      PROVE  Kernel!TBox(j, b, k) \in Byte
  <2>1. Sbox[b] \in Byte /\ Mul2[Sbox[b]] \in Byte
    BY StreamTableAssumption
  <2>2. Kernel!G(j, k) \in {1, 2, 3}
    BY DEF Kernel!G
  <2> QED BY <2>1, <2>2, XorByte DEF Kernel!TBox, Kernel!times
<1>4. \A n \in 0..31 : n \div 4 \in 0..7 /\ n % 4 \in 0..3
  OBVIOUS
<1>5. Kernel!first(p, ke) \in State
  <2>1. \A n \in 0..31 : Kernel!(+)(p[n], Kernel!RoundKey(ke, n, 0)) \in Byte
    BY <1>1, XorByte DEF State
  <2> QED BY <2>1 DEF Kernel!first, State
<1>6. ASSUME NEW r \in 1..13 PROVE Kernel!round(p, ke, r) \in State
  <2> DEFINE T(n, j) == Kernel!TBox(j, Kernel!shifted(p, n \div 4, j), n % 4)
             sum(n) == Kernel!(+)(Kernel!(+)(T(n, 0), T(n, 1)), Kernel!(+)(T(n, 2), T(n, 3)))
  <2>1. \A n \in 0..31, j \in 0..3 : T(n, j) \in Byte
    BY <1>2, <1>3, <1>4
  <2> HIDE DEF T
  <2>2. \A n \in 0..31 : sum(n) \in Byte
    BY <2>1, XorByte
  <2>3. \A n \in 0..31 : Kernel!RoundKey(ke, n, r) \in Byte
    BY <1>1
  <2> HIDE DEF sum
  <2>4. \A n \in 0..31 : Kernel!(+)(sum(n), Kernel!RoundKey(ke, n, r)) \in Byte
    BY <2>2, <2>3, XorByte
  <2>5. Kernel!round(p, ke, r)
          = [n \in 0..31 |-> Kernel!(+)(sum(n), Kernel!RoundKey(ke, n, r))]
    BY DEF Kernel!round, sum, T
  <2> QED BY <2>4, <2>5 DEF State
<1>7. Kernel!last(p, ke) \in State
  <2> DEFINE sub(n) == Sbox[Kernel!shifted(p, n \div 4, n % 4)]
  <2>1. \A n \in 0..31 : sub(n) \in Byte
    BY <1>2, <1>4, StreamTableAssumption
  <2>2. \A n \in 0..31 : Kernel!RoundKey(ke, n, 14) \in Byte
    BY <1>1
  <2> HIDE DEF sub
  <2>3. \A n \in 0..31 : Kernel!(+)(sub(n), Kernel!RoundKey(ke, n, 14)) \in Byte
    BY <2>1, <2>2, XorByte
  <2>4. Kernel!last(p, ke)
          = [n \in 0..31 |-> Kernel!(+)(sub(n), Kernel!RoundKey(ke, n, 14))]
    BY DEF Kernel!last, Kernel!ROUNDS, sub
  <2> QED BY <2>3, <2>4 DEF State
<1> QED BY <1>5, <1>6, <1>7

\* The states of a block, as a list.
StatesOf(ke, p, f) ==
  f = [n \in 0..(Kernel!ROUNDS - 1) |->
         IF n = 0 THEN Kernel!Held(Kernel!first(p, ke))
         ELSE Kernel!Held(Kernel!round(f[n - 1], ke, n))]

\* A block is enciphered to a block.
LEMMA EncryptedTyped ==
  ASSUME NEW ke \in KsArray, NEW p \in State
  PROVE  Kernel!Encrypted(ke, p) \in State
<1> DEFINE F == [r \in 1..13 |-> [a \in State |-> Kernel!round(a, ke, r)]]
           base == Kernel!first(p, ke)
<1>1. base \in State /\ \A a \in State, r \in 1..13 : Kernel!round(a, ke, r) \in State
  BY RoundsTyped
<1> HIDE DEF base
<1>2. F \in [1..13 -> [State -> State]]
  BY <1>1
<1>3. Kernel!ROUNDS - 1 = 13
  BY DEF Kernel!ROUNDS
<1>4. PICK g \in [0..13 -> State] : Listed(g, 13, base, F)
  <2> HIDE DEF F
  <2> QED BY <1>1, <1>2, Recursion
<1>5. ASSUME NEW r \in 1..13
      PROVE  g[r] = Kernel!round(g[r - 1], ke, r)
  <2>1. g[r] = F[r][g[r - 1]] /\ r - 1 \in 0..13
    BY <1>4 DEF Listed, X!Listed
  <2> QED BY <2>1
<1>6. g[0] = base
  BY <1>4 DEF Listed, X!Listed
<1> HIDE DEF F
<1>7. StatesOf(ke, p, g)
  <2>1. ASSUME NEW r \in 0..13
        PROVE  g[r] = IF r = 0 THEN Kernel!Held(Kernel!first(p, ke))
                      ELSE Kernel!Held(Kernel!round(g[r - 1], ke, r))
    BY <1>5, <1>6, HeldIsSame DEF base
  <2>2. g = [r \in 0..13 |-> g[r]]
    OBVIOUS
  <2> QED BY <2>1, <2>2, <1>3 DEF StatesOf
<1> DEFINE f == CHOOSE f : StatesOf(ke, p, f)
<1>8. StatesOf(ke, p, f)
  BY <1>7
<1>9. Kernel!States(ke, p) = f
  BY DEF Kernel!States, StatesOf
<1> HIDE DEF f
<1>10. /\ f[0] = Kernel!first(p, ke)
       /\ \A r \in 1..13 : f[r] = Kernel!round(f[r - 1], ke, r)
  BY <1>3, <1>8, HeldIsSame DEF StatesOf
<1> DEFINE T == {n \in Nat : n <= 13 => f[n] \in State}
<1>11. 0 \in T
  BY <1>1, <1>10 DEF base
<1>12. ASSUME NEW n \in Nat, n \in T PROVE n + 1 \in T
  <2> SUFFICES ASSUME n + 1 <= 13 PROVE f[n + 1] \in State
    OBVIOUS
  <2>1. n + 1 \in 1..13 /\ (n + 1) - 1 = n /\ f[n] \in State
    BY <1>12
  <2>2. f[n + 1] = Kernel!round(f[n], ke, n + 1)
    BY <2>1, <1>10
  <2> QED BY <2>1, <2>2, <1>1
<1> HIDE DEF T
<1>13. 13 \in T
  BY <1>11, <1>12, Induction
<1>14. Kernel!States(ke, p)[13] \in State
  BY <1>9, <1>13 DEF T
<1> QED BY <1>3, <1>14, RoundsTyped DEF Kernel!Encrypted

-----------------------------------------------------------------------------
(* The schedule                                                            *)

\* The key expansion fills the schedule that the lemmas are about.
LEMMA SameSchedule == \A k : Rijndael_k32b32_expandkey(k) = X!Aes!ScheduleOf(k, 120)
BY DEF Rijndael_k32b32_expandkey, Words!ScheduleOf, X!Aes!ScheduleOf,
       Words!ScheduleByte, X!Aes!ScheduleByte, Words!Feedback, X!Aes!Feedback,
       Words!(+), X!Aes!(+), Words!Zero, X!Aes!Zero, Words!KeyWords, X!Aes!KeyWords

\* It is 480 bytes, of which the first 32 are the key, and never all zero: the
\* first byte of word 8 of an all-zero key's is the S-box of zero and a constant
\* that the second has not.
LEMMA ScheduleTyped ==
  ASSUME NEW k \in KeyArray
  PROVE  /\ Rijndael_k32b32_expandkey(k) \in KsArray
         /\ \A a \in 0..31 : Rijndael_k32b32_expandkey(k)[a] = k[a]
         /\ Rijndael_k32b32_expandkey(k) # Zeros(480)
<1> DEFINE s == Rijndael_k32b32_expandkey(k)
           N == 120
<1>1. N \in 8..120 /\ N = 120 /\ 4 * N - 1 = 479
  OBVIOUS
<1> HIDE DEF N
<1>2. /\ X!Aes!ScheduleOf(k, N) \in [0..(4 * N - 1) -> X!Byte]
      /\ X!IsSchedule(k, X!Aes!ScheduleOf(k, N), N)
  <2>1. k \in [0..31 -> X!Byte]
    BY DEF KeyArray, Byte, X!Byte
  <2>2. N \in 8..120
    BY <1>1
  <2> HIDE DEF s
  <2> QED BY ONLY <2>1, <2>2, Tables, X!FilledSchedule
<1>3. s \in KsArray
  BY <1>1, <1>2, SameSchedule DEF KsArray, Byte, X!Byte
<1>4. \A i \in 0..119, b \in 0..3 : s[4 * i + b] = X!ScheduleByte(k, s, i, b)
  BY <1>1, <1>2, SameSchedule DEF X!IsSchedule, X!W!IsSchedule, X!ScheduleByte
<1> HIDE DEF s
<1>5. ASSUME NEW a \in 0..31 PROVE s[a] = k[a]
  <2> DEFINE i == a \div 4
             b == a % 4
  <2>1. i \in 0..7 /\ b \in 0..3 /\ 4 * i + b = a
    OBVIOUS
  <2> HIDE DEF i, b
  <2>2. s[4 * i + b] = X!ScheduleByte(k, s, i, b)
    BY <1>4, <2>1
  <2> QED BY <2>1, <2>2 DEF X!ScheduleByte, X!W!ScheduleByte, X!W!KeyWords
<1>6. ASSUME s = Zeros(480) PROVE FALSE
  <2>1. \A a \in 0..479 : s[a] = Zero
    BY <1>6 DEF Zeros
  <2>2. s[4 * 8 + 1] = X!ScheduleByte(k, s, 8, 1)
    BY <1>4
  <2>3. X!ScheduleByte(k, s, 8, 1)
          = X!W!(+)(s[4 * (8 - 8) + 1], X!W!(+)(Sbox[s[4 * (8 - 1) + 2]], X!W!Zero))
    BY DEF X!ScheduleByte, X!W!ScheduleByte, X!W!KeyWords, X!W!Feedback
  <2>4. s[33] = X!W!(+)(s[1], X!W!(+)(Sbox[s[30]], X!W!Zero))
    BY <2>2, <2>3
  <2>5. Zero = X!W!(+)(Zero, X!W!(+)(Sbox[Zero], X!W!Zero))
    BY <2>1, <2>4
  <2> QED BY <2>5, StreamTableAssumption DEF X!W!(+), X!W!Zero, Zero
<1> QED BY <1>3, <1>5, <1>6 DEF s

\* The array of zeros is no key, and of the right size.
LEMMA ZeroArray == Zeros(480) \in KsArray /\ Zeros(480) \notin KeyArray
<1>1. Zeros(480) = [j \in 0..479 |-> Zero]
  <2>1. 480 - 1 = 479
    OBVIOUS
  <2> QED BY <2>1 DEF Zeros
<1>2. Zeros(480) \in KsArray
  BY <1>1, XorByte DEF KsArray
<1>3. DOMAIN Zeros(480) = 0..479
  BY <1>1
<1>4. ASSUME Zeros(480) \in KeyArray PROVE FALSE
  <2>1. DOMAIN Zeros(480) = 0..31
    BY <1>4 DEF KeyArray
  <2> DEFINE D == DOMAIN Zeros(480)
  <2>2. D = 0..479 /\ D = 0..31
    BY <1>3, <2>1
  <2> HIDE DEF D
  <2> QED BY <2>2
<1> QED BY <1>2, <1>4

\* The key is found again in its schedule, and none in the array of zeros.
LEMMA KeyFound ==
  /\ \A k \in Keys : /\ k \in KeyArray
                     /\ Schedules[k] = Rijndael_k32b32_expandkey(k)
                     /\ Schedules[k] \in KsArray
                     /\ KeyOf(Schedules[k]) = k
  /\ KeyOf(Zeros(480)) = Zeros(480)
  /\ Zeros(480) \notin Keys
<1>1. Keys \subseteq KeyArray
  BY StreamKeyAssumption DEF KeyArray, CRYPTO_KEYBYTES
<1>2. Schedules = [k \in Keys |-> Rijndael_k32b32_expandkey(k)]
  BY HeldIsSame DEF Schedules
<1>3. \A k \in Keys : Schedules[k] = Rijndael_k32b32_expandkey(k)
  BY <1>2
<1>4. \A k \in Keys : /\ Schedules[k] \in KsArray /\ Schedules[k] # Zeros(480)
                      /\ \A a \in 0..31 : Schedules[k][a] = k[a]
  BY <1>1, <1>3, ScheduleTyped
<1>5. ASSUME NEW k \in Keys, NEW l \in Keys, Schedules[k] = Schedules[l]
      PROVE  k = l
  <2>1. \A a \in 0..31 : k[a] = l[a]
    BY <1>4, <1>5
  <2>2. k \in [0..31 -> Byte] /\ l \in [0..31 -> Byte]
    BY <1>1 DEF KeyArray
  <2> QED BY <2>1, <2>2
<1>6. ASSUME NEW k \in Keys PROVE KeyOf(Schedules[k]) = k
  <2>1. KeyOf(Schedules[k]) = CHOOSE l \in Keys : Schedules[k] = Schedules[l]
    BY DEF KeyOf
  <2> QED BY <2>1, <1>5
<1>7. KeyOf(Zeros(480)) = Zeros(480)
  BY <1>4 DEF KeyOf
<1>8. Zeros(480) \notin Keys
  BY <1>1, ZeroArray
<1> QED BY <1>1, <1>3, <1>4, <1>6, <1>7, <1>8

\* The cipher gives a block for each schedule, nonce and counter.
LEMMA CipherTyped ==
  /\ Cipher \in [(Keys \cup {Zeros(480)}) \X Nonces \X (0..(CtrMod - 1))
                   -> [0..31 -> Byte]]
  /\ \A k \in Keys, n \in Nonces, c \in 0..(CtrMod - 1) :
       Cipher[<<k, n, c>>] = Kernel!Encrypted(Schedules[k], QQQQ(n, c))
<1> DEFINE D == (Keys \cup {Zeros(480)}) \X Nonces \X (0..(CtrMod - 1))
           ke(s) == IF s \in Keys THEN Schedules[s] ELSE s
           E(d) == Kernel!Encrypted(ke(d[1]), QQQQ(d[2], d[3]))
<1>1. Cipher = [d \in D |-> E(d)]
  BY HeldIsSame DEF Cipher
<1>2. ASSUME NEW n \in Nonces, NEW c PROVE QQQQ(n, c) \in State
  <2> DEFINE bits == Bits(c)
             byte(j) == IF j < 24 THEN n[j] ELSE {b \in 0..7 : 8 * (j - 24) + b \in bits}
  <2>1. QQQQ(n, c) = [j \in 0..31 |-> byte(j)]
    BY DEF QQQQ, CRYPTO_NONCEBYTES
  <2>2. n \in [0..23 -> Byte]
    BY StreamKeyAssumption DEF CRYPTO_NONCEBYTES
  <2> HIDE DEF bits
  <2>3. \A j \in 0..31 : {b \in 0..7 : 8 * (j - 24) + b \in bits} \in Byte
    BY StreamTableAssumption DEF Byte
  <2>4. \A j \in 0..31 : j < 24 => j \in 0..23
    OBVIOUS
  <2>5. \A j \in 0..31 : byte(j) \in Byte
    BY <2>2, <2>3, <2>4
  <2> HIDE DEF byte
  <2> QED BY <2>1, <2>5 DEF State
<1>3. \A s \in Keys \cup {Zeros(480)} : ke(s) \in KsArray
  BY KeyFound, ZeroArray
<1>4. ASSUME NEW d \in D PROVE E(d) \in State
  <2>1. d[1] \in Keys \cup {Zeros(480)} /\ d[2] \in Nonces
    OBVIOUS
  <2> HIDE DEF ke, D
  <2>2. ke(d[1]) \in KsArray /\ QQQQ(d[2], d[3]) \in State
    BY <2>1, <1>2, <1>3
  <2> QED BY <2>2, EncryptedTyped
<1> HIDE DEF E
<1>5. Cipher \in [D -> State]
  BY <1>1, <1>4
<1>6. ASSUME NEW k \in Keys, NEW n \in Nonces, NEW c \in 0..(CtrMod - 1)
      PROVE  Cipher[<<k, n, c>>] = Kernel!Encrypted(Schedules[k], QQQQ(n, c))
  <2>1. <<k, n, c>> \in D
    OBVIOUS
  <2> HIDE DEF D
  <2>2. Cipher[<<k, n, c>>] = E(<<k, n, c>>)
    BY <1>1, <2>1
  <2> QED BY <2>2 DEF E
<1> QED BY <1>5, <1>6 DEF State

\* Four blocks of keystream, on bytes, are those of the driver's cipher.
LEMMA KeystreamBytes ==
  ASSUME NEW k \in Keys, NEW v \in [Vector -> Byte],
         \A l \in 0..3 : LaneOf(v, l).n \in Nonces /\ LaneOf(v, l).c \in 0..(CtrMod - 1)
  PROVE  /\ Rijndael_k32b32_encrypt_x4(Schedules[k], v) \in [Vector -> Byte]
         /\ \A j \in Vector :
              /\ j \div 32 \in 0..3 /\ j % 32 \in 0..31
              /\ Rijndael_k32b32_encrypt_x4(Schedules[k], v)[j]
                   = Cipher[<<k, LaneOf(v, j \div 32).n, LaneOf(v, j \div 32).c>>][j % 32]
<1> DEFINE block(l) == Kernel!Encrypted(Schedules[k], Kernel!BlockAt(v, 0, l))
           out == [l \in 0..3 |-> block(l)]
<1>1. ASSUME NEW l \in 0..3
      PROVE  /\ block(l) = Cipher[<<k, LaneOf(v, l).n, LaneOf(v, l).c>>]
             /\ block(l) \in [0..31 -> Byte]
  <2>1. Kernel!BlockAt(v, 0, l) = QQQQ(LaneOf(v, l).n, LaneOf(v, l).c)
        /\ Kernel!BlockAt(v, 0, l) \in State
    BY BlockIsQQQQ DEF State
  <2>2. block(l) = Cipher[<<k, LaneOf(v, l).n, LaneOf(v, l).c>>]
    BY <2>1, CipherTyped
  <2>3. block(l) \in State
    BY <2>1, EncryptedTyped, KeyFound
  <2> QED BY <2>2, <2>3 DEF State
<1>2. Rijndael_k32b32_encrypt_x4(Schedules[k], v)
        = [j \in Vector |-> out[j \div 32][j % 32]]
  <2> DEFINE held == [l \in 0..3 |-> Held(Kernel!Encrypted(Schedules[k],
                                                Held(Kernel!BlockAt(v, 0, l))))]
             bytes(o) == [j \in Vector |-> o[j \div 32][j % 32]]
  <2>1. Rijndael_k32b32_encrypt_x4(Schedules[k], v) = Held(bytes(Held(held)))
    BY DEF Rijndael_k32b32_encrypt_x4
  <2>2. \A l \in 0..3 : Held(Kernel!Encrypted(Schedules[k],
                                            Held(Kernel!BlockAt(v, 0, l)))) = block(l)
    BY HeldIsSame
  <2> HIDE DEF block
  <2>3. held = out
    BY <2>2
  <2> HIDE DEF held, out, bytes
  <2>4. Held(held) = held /\ Held(bytes(held)) = bytes(held)
    BY HeldIsSame
  <2> QED BY <2>1, <2>3, <2>4 DEF bytes
<1> HIDE DEF block
<1>3. \A j \in Vector : j \div 32 \in 0..3 /\ j % 32 \in 0..31
  BY DEF Vector
<1>4. \A j \in Vector : out[j \div 32][j % 32] = block(j \div 32)[j % 32]
                        /\ block(j \div 32)[j % 32] \in Byte
  BY <1>1, <1>3
<1> QED BY <1>1, <1>2, <1>3, <1>4

-----------------------------------------------------------------------------
(* The invariant                                                           *)

\* Vectors in the request, and vectors done.
Q == req.len \div 128
P == at \div 128

\* From its set-up on a call has its key's schedule in ks, in nc its nonce with
\* the counters after those of the vectors done, and in the byte loop the
\* keystream of both in buf.
LoopInv ==
  /\ pc # "idle" => calls > 0
  /\ pc = "entry" => at = 0
  /\ pc \in {"full", "rest", "bytes", "trapped"} =>
       /\ req.len # 0 /\ ks = Schedules[req.k]
       /\ at = 128 * P
       /\ \A l \in 0..3 : LaneOf(nc, l) = [n |-> req.n, c |-> 4 * P + l]
  /\ pc = "full" => P + nblocks = Q
  /\ pc \in {"rest", "bytes"} => P = Q
  /\ pc = "bytes" => /\ rest # 0 /\ off <= rest
                     /\ buf = Rijndael_k32b32_encrypt_x4(ks, nc)

IInv == TypeOK /\ LoopInv

LEMMA RequestFacts ==
  ASSUME req \in Requests
  PROVE  /\ req.len \in Nat /\ req.out \in Nat /\ req.in \in Nat
         /\ req.fn \in {"xor", "stream"} /\ req.k \in Keys /\ req.n \in Nonces
         /\ req.out + req.len <= MemSize
         /\ req.fn = "xor" => req.in + req.len <= MemSize
         /\ Q \in Nat /\ done = 128 * Q /\ rest \in 0..127 /\ req.len = 128 * Q + rest
         /\ 4 * Q + 4 <= CtrMod
<1>1. req \in Driver!Request /\ Driver!Admissible(req)
  BY CallerAssumption
<1>2. /\ req.len \in Nat /\ req.out \in Nat /\ req.in \in Nat
      /\ req.fn \in {"xor", "stream"} /\ req.k \in Keys /\ req.n \in Nonces
  BY <1>1 DEF Driver!Request
<1>3. Driver!Chunk = 128
  BY DEF Driver!Chunk
<1>4. /\ req.out + req.len <= MemSize
      /\ req.fn = "xor" => req.in + req.len <= MemSize
      /\ (Q + 1) * 4 <= CtrMod
  BY <1>1, <1>3 DEF Driver!Admissible, Q
<1>5. /\ Q \in Nat /\ done = 128 * Q /\ rest \in 0..127
      /\ req.len = 128 * Q + rest
  BY <1>2 DEF Q, done, rest
<1>6. 4 * Q + 4 <= CtrMod
  BY <1>4, <1>5, CounterFits
<1> QED BY <1>2, <1>4, <1>5, <1>6

\* Where a call is in its loop, in numbers.
LEMMA LoopFacts ==
  ASSUME IInv, pc \in {"full", "rest", "bytes"}
  PROVE  /\ P \in 0..Q /\ at = 128 * P /\ at <= req.len
         /\ ks = Schedules[req.k]
         /\ \A l \in 0..3 : /\ LaneOf(nc, l) = [n |-> req.n, c |-> 4 * P + l]
                            /\ 4 * P + l \in 0..(CtrMod - 1)
         /\ Rijndael_k32b32_encrypt_x4(ks, nc) \in [Vector -> Byte]
         /\ \A j \in Vector :
              /\ j \div 32 \in 0..3 /\ j % 32 \in 0..31
              /\ Rijndael_k32b32_encrypt_x4(ks, nc)[j]
                   = Cipher[<<req.k, req.n, 4 * P + (j \div 32)>>][j % 32]
<1>1. /\ Q \in Nat /\ 4 * Q + 4 <= CtrMod /\ req.k \in Keys /\ req.n \in Nonces
      /\ req.len \in Nat /\ rest \in 0..127 /\ req.len = 128 * Q + rest
  BY RequestFacts DEF IInv, TypeOK
<1>2. /\ ks = Schedules[req.k] /\ at = 128 * P
      /\ \A l \in 0..3 : LaneOf(nc, l) = [n |-> req.n, c |-> 4 * P + l]
      /\ nc \in [Vector -> Byte]
  BY DEF IInv, TypeOK, LoopInv
<1>3. P \in 0..Q /\ at <= req.len
  <2>1. at \in Nat /\ nblocks \in Nat
    BY StreamMemAssumption DEF IInv, TypeOK
  <2>2. P \in Nat
    BY <2>1 DEF P
  <2>3. pc = "full" => P + nblocks = Q
    BY DEF IInv, LoopInv
  <2>4. pc # "full" => P = Q
    BY DEF IInv, LoopInv
  <2> QED BY <1>1, <1>2, <2>1, <2>2, <2>3, <2>4
<1>4. \A l \in 0..3 : 4 * P + l \in 0..(CtrMod - 1)
  BY <1>1, <1>3, CounterFits
<1>5. \A l \in 0..3 : LaneOf(nc, l).n = req.n /\ LaneOf(nc, l).c = 4 * P + l
  BY <1>2
<1>6. /\ Rijndael_k32b32_encrypt_x4(Schedules[req.k], nc) \in [Vector -> Byte]
      /\ \A j \in Vector :
           /\ j \div 32 \in 0..3 /\ j % 32 \in 0..31
           /\ Rijndael_k32b32_encrypt_x4(Schedules[req.k], nc)[j]
                = Cipher[<<req.k, LaneOf(nc, j \div 32).n, LaneOf(nc, j \div 32).c>>][j % 32]
  <2>1. \A l \in 0..3 : LaneOf(nc, l).n \in Nonces /\ LaneOf(nc, l).c \in 0..(CtrMod - 1)
    BY <1>1, <1>4, <1>5
  <2> QED BY <1>1, <1>2, <2>1, KeystreamBytes
<1>7. ASSUME NEW j \in Vector
      PROVE  /\ j \div 32 \in 0..3 /\ j % 32 \in 0..31
             /\ Rijndael_k32b32_encrypt_x4(ks, nc)[j]
                  = Cipher[<<req.k, req.n, 4 * P + (j \div 32)>>][j % 32]
  BY <1>2, <1>5, <1>6
<1> QED BY <1>2, <1>3, <1>4, <1>6, <1>7

\* memset_s is called with the value for the length, which is 0: it sets nothing.
LEMMA NothingSet ==
  ASSUME NEW D \in SUBSET Nat, NEW dst \in [D -> Byte], NEW len
  PROVE  memset_s(dst, len, 0, len) = dst
<1>1. \A byte : memset(dst, byte, 0) = dst
  BY DEF memset
<1> QED BY <1>1, Zenon DEF memset_s

LEMMA InitInv == Init => IInv
<1> SUFFICES ASSUME Init PROVE IInv
  OBVIOUS
<1>1. req \in Requests
  BY CallerAssumption DEF Init
<1>2. Zeros(480) \in [0..479 -> Byte] /\ Zeros(128) \in [Vector -> Byte]
  <2>1. Zeros(128) = [j \in 0..127 |-> Zero]
    <3>1. 128 - 1 = 127
      OBVIOUS
    <3> QED BY <3>1 DEF Zeros
  <2> QED BY <2>1, ZeroArray, XorByte DEF KsArray, Vector
<1>3. 0 \in 0..MemSize /\ 0 \in Vector /\ 0 \in 0..MaxCalls
  BY StreamMemAssumption DEF Vector
<1>4. mem \in [Addr -> Byte] /\ mem0 \in [Addr -> Byte]
  BY StreamMemAssumption DEF Init, Addr
<1>5. TypeOK
  <2> HIDE DEF Vector
  <2> QED BY <1>1, <1>2, <1>3, <1>4 DEF Init, TypeOK
<1> QED BY <1>5 DEF Init, IInv, LoopInv

LEMMA CallInv ==
  ASSUME IInv, NEW q \in Requests, Call(q)
  PROVE  IInv'
<1>1. TypeOK'
  <2>1. 0 \in 0..MemSize /\ 0 \in Vector
    BY StreamMemAssumption DEF Vector
  <2>2. calls' \in 0..MaxCalls
    <3>1. calls \in 0..MaxCalls /\ calls < MaxCalls /\ calls' = calls + 1
      BY DEF Call, IInv, TypeOK
    <3> QED BY <3>1, StreamMemAssumption
  <2> QED BY <2>1, <2>2 DEF Call, IInv, TypeOK
<1>2. LoopInv'
  BY DEF Call, IInv, TypeOK, LoopInv
<1> QED BY <1>1, <1>2 DEF IInv

LEMMA ReturnEmptyInv ==
  ASSUME IInv, ReturnEmpty
  PROVE  IInv'
<1>1. TypeOK' /\ LoopInv'
  BY DEF ReturnEmpty, IInv, TypeOK, LoopInv
<1> QED BY <1>1 DEF IInv

LEMMA SetupInv ==
  ASSUME IInv, Setup
  PROVE  IInv'
<1>1. /\ req \in Requests /\ req.k \in Keys /\ req.n \in Nonces /\ req.len \in Nat
      /\ Q \in Nat /\ rest \in 0..127 /\ req.len = 128 * Q + rest /\ at = 0
  BY RequestFacts DEF Setup, IInv, TypeOK, LoopInv
<1>2. ks' = Schedules[req.k] /\ Schedules[req.k] \in [0..479 -> Byte]
  BY <1>1, KeyFound DEF Setup, KsArray
<1>3. /\ nc' \in [Vector -> Byte]
      /\ \A l \in 0..3 : LaneOf(nc', l) = [n |-> req.n, c |-> l]
  BY <1>1, LaneCounters DEF Setup
<1>4. /\ at' = 0 /\ req' = req /\ nblocks' = Q /\ P' = 0
      /\ pc' = IF Q = 0 THEN "rest" ELSE "full"
  BY <1>1 DEF Setup, Q, P
<1>5. TypeOK'
  <2>1. TypeOK /\ UNCHANGED <<mem, buf, off, calls, mem0>>
    BY DEF Setup, IInv
  <2>2. 128 * Q <= req.len /\ ks' \in [0..479 -> Byte]
    BY <1>1, <1>2
  <2>3. 0 \in 0..MemSize
    BY StreamMemAssumption
  <2> QED BY ONLY <1>1, <1>3, <1>4, <2>1, <2>2, <2>3 DEF TypeOK
<1>6. LoopInv'
  <2>1. pc' # "idle" /\ pc' # "entry" /\ pc' # "bytes" /\ calls' > 0
    BY <1>4 DEF Setup, IInv, LoopInv
  <2>2. /\ req'.len # 0 /\ ks' = Schedules[req'.k] /\ at' = 128 * P'
        /\ \A l \in 0..3 : LaneOf(nc', l) = [n |-> req'.n, c |-> 4 * P' + l]
    BY <1>2, <1>3, <1>4 DEF Setup
  <2>3. Q' = Q
    BY <1>4 DEF Q
  <2>4. pc' = "full" => P' + nblocks' = Q'
    BY <1>1, <1>4, <2>3
  <2>5. pc' = "rest" => P' = Q'
    BY <1>4, <2>3
  <2> QED BY <2>1, <2>2, <2>4, <2>5 DEF LoopInv
<1> QED BY <1>5, <1>6 DEF IInv

LEMMA TrapInv ==
  ASSUME IInv, Trap
  PROVE  IInv'
<1>1. TypeOK' /\ LoopInv'
  BY DEF Trap, IInv, TypeOK, LoopInv, P, Q
<1> QED BY <1>1 DEF IInv

LEMMA FullEndInv ==
  ASSUME IInv, FullEnd
  PROVE  IInv'
<1>1. P \in 0..Q /\ Q \in Nat
  BY LoopFacts, RequestFacts DEF FullEnd, IInv, TypeOK
<1>2. TypeOK' /\ LoopInv'
  BY <1>1 DEF FullEnd, IInv, TypeOK, LoopInv, P, Q
<1> QED BY <1>2 DEF IInv

LEMMA PartialInv ==
  ASSUME IInv, Partial
  PROVE  IInv'
<1>1. /\ Rijndael_k32b32_encrypt_x4(ks, nc) \in [Vector -> Byte]
      /\ rest \in 0..127
  BY LoopFacts, RequestFacts DEF Partial, IInv, TypeOK
<1>2. TypeOK'
  BY <1>1 DEF Partial, IInv, TypeOK, Vector
<1>3. LoopInv'
  BY <1>1 DEF Partial, IInv, TypeOK, LoopInv, P, Q, rest, done
<1> QED BY <1>2, <1>3 DEF IInv

LEMMA StutterInv ==
  ASSUME IInv, UNCHANGED vars
  PROVE  IInv'
<1>1. TypeOK' /\ LoopInv'
  BY DEF vars, IInv, TypeOK, LoopInv, P, Q, rest, done
<1> QED BY <1>1 DEF IInv

LEMMA CleanupKeeps ==
  ASSUME IInv, Cleanup
  PROVE  ks' = ks /\ nc' = nc
<1>1. ks' = ks /\ nc' = nc
  <2> DEFINE D == 0..479
  <2>1. D \in SUBSET Nat /\ Vector \in SUBSET Nat
    BY DEF Vector
  <2>2. ks \in [D -> Byte] /\ nc \in [Vector -> Byte]
    BY DEF IInv, TypeOK
  <2> HIDE DEF D
  <2>3. memset_s(ks, 480, 0, 480) = ks
    BY <2>1, <2>2, NothingSet
  <2>4. memset_s(nc, 128, 0, 128) = nc
    BY <2>1, <2>2, NothingSet
  <2> QED BY <2>3, <2>4 DEF Cleanup
<1> QED BY <1>1

LEMMA CleanupInv ==
  ASSUME IInv, Cleanup
  PROVE  IInv'
<1>1. ks' = ks /\ nc' = nc
  BY CleanupKeeps
<1>2. TypeOK' /\ LoopInv'
  BY <1>1 DEF Cleanup, IInv, TypeOK, LoopInv
<1> QED BY <1>2 DEF IInv

\* A round of either vector loop, with the input the driver's function reads.
input(x) == IF req.fn = "xor" THEN mem[req.in + x] ELSE Zero

FullVector == \/ req.fn = "xor" /\ _full_xor
              \/ req.fn = "stream" /\ _full_stream

LEMMA VectorStep ==
  ASSUME FullVector
  PROVE  /\ pc = "full" /\ nblocks # 0
         /\ mem' = [a \in Addr |->
                      IF a \in (req.out + at)..(req.out + at + 127)
                      THEN input(a - req.out)
                             (+) Rijndael_k32b32_encrypt_x4(ks, nc)[a - req.out - at]
                      ELSE mem[a]]
         /\ at' = at + 128 /\ nblocks' = nblocks - 1 /\ nc' = added(nc)
         /\ UNCHANGED <<pc, req, ks, buf, off, calls, mem0>>
<1>1. CASE req.fn = "xor" /\ _full_xor
  BY <1>1 DEF _full_xor, NextVector, input
<1>2. CASE req.fn = "stream" /\ _full_stream
  BY <1>2 DEF _full_stream, NextVector, input
<1> QED BY <1>1, <1>2 DEF FullVector

\* And a step of the remaining bytes.
PartialBytes == \/ req.fn = "xor" /\ _partial_xor
                \/ req.fn = "stream" /\ _partial_stream

LEMMA ByteStep ==
  ASSUME PartialBytes
  PROVE  \/ Partial
         \/ /\ pc = "bytes" /\ off < rest
            /\ mem' = [mem EXCEPT ![req.out + done + off] =
                         input(done + off) (+) buf[off]]
            /\ off' = off + 1
            /\ UNCHANGED <<pc, req, ks, nc, buf, nblocks, at, calls, mem0>>
<1>1. CASE req.fn = "xor" /\ _partial_xor
  BY <1>1 DEF _partial_xor, NextByte, input
<1>2. CASE req.fn = "stream" /\ _partial_stream
  BY <1>2 DEF _partial_stream, NextByte, input
<1> QED BY <1>1, <1>2 DEF PartialBytes

\* What is read of the input within the request is a byte.
LEMMA InputTyped ==
  ASSUME IInv, NEW x \in 0..(req.len - 1)
  PROVE  input(x) \in Byte
<1>1. req.fn = "xor" => req.in + x \in Addr
  <2>1. /\ req.len \in Nat /\ req.in \in Nat
        /\ req.fn = "xor" => req.in + req.len <= MemSize
    BY RequestFacts DEF IInv, TypeOK
  <2> QED BY <2>1, StreamMemAssumption DEF Addr
<1> QED BY <1>1, XorByte DEF input, IInv, TypeOK

LEMMA BytesXor == \A a, b \in Byte : a (+) b \in Byte
BY DEF Byte, (+)

LEMMA VectorInv ==
  ASSUME IInv, FullVector
  PROVE  IInv'
<1> DEFINE b == Rijndael_k32b32_encrypt_x4(ks, nc)
<1>1. /\ pc = "full" /\ nblocks # 0
      /\ mem' = [a \in Addr |->
                   IF a \in (req.out + at)..(req.out + at + 127)
                   THEN input(a - req.out) (+) b[a - req.out - at]
                   ELSE mem[a]]
      /\ at' = at + 128 /\ nblocks' = nblocks - 1 /\ nc' = added(nc)
      /\ UNCHANGED <<pc, req, ks, buf, off, calls, mem0>>
  BY VectorStep
<1>2. /\ P \in 0..Q /\ at = 128 * P /\ ks = Schedules[req.k]
      /\ \A l \in 0..3 : LaneOf(nc, l) = [n |-> req.n, c |-> 4 * P + l]
      /\ b \in [Vector -> Byte]
  BY <1>1, LoopFacts
<1>3. /\ req \in Requests /\ req.len \in Nat /\ req.out \in Nat
      /\ req.out + req.len <= MemSize /\ Q \in Nat /\ rest \in 0..127
      /\ req.len = 128 * Q + rest /\ 4 * Q + 4 <= CtrMod
  BY RequestFacts DEF IInv, TypeOK
<1>4. P + nblocks = Q /\ nblocks \in Nat /\ MemSize \in Nat /\ P \in Nat
  BY <1>1, <1>2, StreamMemAssumption DEF IInv, TypeOK, LoopInv
<1>5. P + 1 <= Q /\ at + 128 <= req.len /\ at + 128 = 128 * (P + 1)
  BY <1>1, <1>2, <1>3, <1>4
<1>6. P' = P + 1 /\ Q' = Q
  <2>1. P' = (128 * (P + 1)) \div 128
    BY <1>1, <1>5 DEF P
  <2>2. Q' = Q
    BY <1>1 DEF Q
  <2> QED BY <2>1, <2>2, <1>4
<1> HIDE DEF b
<1>7. mem' \in [Addr -> Byte]
  <2>1. ASSUME NEW a \in Addr PROVE mem'[a] \in Byte
    <3>1. CASE a \in (req.out + at)..(req.out + at + 127)
      <4>1. a - req.out \in 0..(req.len - 1) /\ a - req.out - at \in Vector
        BY <3>1, <1>2, <1>3, <1>4, <1>5 DEF Addr, Vector
      <4>2. input(a - req.out) \in Byte
        BY <4>1, InputTyped
      <4>3. b[a - req.out - at] \in Byte
        BY <4>1, <1>2
      <4>4. mem'[a] = input(a - req.out) (+) b[a - req.out - at]
        BY <3>1, <1>1
      <4> QED BY <4>2, <4>3, <4>4, BytesXor
    <3>2. CASE a \notin (req.out + at)..(req.out + at + 127)
      BY <3>2, <1>1 DEF IInv, TypeOK
    <3> QED BY <3>1, <3>2
  <2> QED BY <2>1, <1>1
<1>8. nc \in [Vector -> Byte]
  BY DEF IInv, TypeOK
<1>9. nc' \in [Vector -> Byte]
  BY <1>1, <1>8, AddedWords
<1>10. ASSUME NEW l \in 0..3
       PROVE  LaneOf(nc', l) = [n |-> req.n, c |-> 4 * (P + 1) + l]
  <2>1. LaneOf(nc, l).n = req.n /\ LaneOf(nc, l).c = 4 * P + l
    BY <1>2
  <2>2. TwoTo(64) \in Nat
    <3>1. 64 \in 0..64
      OBVIOUS
    <3> QED BY <3>1, Powers
  <2>3. 4 * P + l + 4 < TwoTo(64)
    BY <1>3, <1>4, <1>5, <2>2, CounterFits
  <2>4. LaneOf(added(nc), l) = [n |-> req.n, c |-> (4 * P + l) + 4]
    BY <1>8, <2>1, <2>3, LaneAdded
  <2>5. (4 * P + l) + 4 = 4 * (P + 1) + l
    BY <1>4
  <2> QED BY <1>1, <2>4, <2>5
<1>11. TypeOK'
  <2>1. at' \in 0..MemSize /\ nblocks' \in Nat
    BY <1>1, <1>2, <1>3, <1>4, <1>5
  <2>2. at' + 128 * nblocks' <= req.len
    BY <1>1, <1>2, <1>3, <1>4
  <2> QED BY <1>1, <1>7, <1>9, <2>1, <2>2 DEF IInv, TypeOK
<1>12. LoopInv'
  <2>1. /\ pc' = "full" /\ calls' > 0 /\ req'.len # 0 /\ ks' = Schedules[req'.k]
    BY <1>1 DEF IInv, LoopInv
  <2>2. at' = 128 * P' /\ P' + nblocks' = Q'
    BY <1>1, <1>2, <1>4, <1>5, <1>6
  <2>3. \A l \in 0..3 : LaneOf(nc', l) = [n |-> req'.n, c |-> 4 * P' + l]
    BY <1>1, <1>6, <1>10
  <2> QED BY <2>1, <2>2, <2>3 DEF LoopInv
<1> QED BY <1>11, <1>12 DEF IInv

LEMMA ByteInv ==
  ASSUME IInv, PartialBytes
  PROVE  IInv'
<1>1. CASE Partial
  BY <1>1, PartialInv
<1>2. CASE /\ pc = "bytes" /\ off < rest
           /\ mem' = [mem EXCEPT ![req.out + done + off] =
                        input(done + off) (+) buf[off]]
           /\ off' = off + 1
           /\ UNCHANGED <<pc, req, ks, nc, buf, nblocks, at, calls, mem0>>
  <2>1. /\ req.len \in Nat /\ rest \in 0..127 /\ done \in Nat /\ Q \in Nat
        /\ done = 128 * Q /\ req.len = 128 * Q + rest
    BY RequestFacts DEF IInv, TypeOK
  <2>2. off \in 0..127 /\ off < rest
    BY <1>2 DEF IInv, TypeOK, Vector
  <2>3. input(done + off) \in Byte
    <3>1. done + off \in 0..(req.len - 1)
      BY <2>1, <2>2
    <3> QED BY <3>1, InputTyped
  <2>4. buf[off] \in Byte
    BY DEF IInv, TypeOK
  <2>5. input(done + off) (+) buf[off] \in Byte
    BY <2>3, <2>4, BytesXor
  <2>6. mem' \in [Addr -> Byte]
    BY <1>2, <2>5 DEF IInv, TypeOK
  <2>7. off' \in Vector /\ off' <= rest
    BY <1>2, <2>1, <2>2 DEF Vector
  <2>8. TypeOK'
    BY <1>2, <2>6, <2>7 DEF IInv, TypeOK
  <2>9. rest' = rest /\ P' = P /\ Q' = Q
    BY <1>2 DEF rest, done, P, Q
  <2>10. LoopInv'
    BY <1>2, <2>7, <2>9 DEF IInv, LoopInv
  <2> QED BY <2>8, <2>10 DEF IInv
<1> QED BY <1>1, <1>2, ByteStep

LEMMA NextInv ==
  ASSUME IInv, [Next]_vars
  PROVE  IInv'
<1>1. CASE \E q \in Requests : Call(q)
  BY <1>1, CallInv
<1>2. CASE ReturnEmpty
  BY <1>2, ReturnEmptyInv
<1>3. CASE Setup
  BY <1>3, SetupInv
<1>4. CASE FullVector
  BY <1>4, VectorInv
<1>5. CASE Trap
  BY <1>5, TrapInv
<1>6. CASE FullEnd
  BY <1>6, FullEndInv
<1>7. CASE PartialBytes
  BY <1>7, ByteInv
<1>8. CASE Cleanup
  BY <1>8, CleanupInv
<1>9. CASE UNCHANGED vars
  BY <1>9, StutterInv
<1> QED BY <1>1, <1>2, <1>3, <1>4, <1>5, <1>6, <1>7, <1>8, <1>9
     DEF Next, crypto_stream_rijn256ctr_gil_xor, crypto_stream_rijn256ctr_gil,
         Stopped, FullVector, PartialBytes

\* The invariant holds throughout.
THEOREM Invariance == Spec => []IInv
BY InitInv, NextInv, PTL DEF Spec

\* Every variable keeps its type, so that no index of either array, of the
\* buffer or of the caller's memory is out of bounds.
THEOREM TypeCorrect == Spec => []TypeOK
BY Invariance, PTL DEF IInv

-----------------------------------------------------------------------------
(* The driver                                                              *)

\* What the driver is instantiated with is what it assumes.
LEMMA DriverAssumptions ==
  /\ Driver!SizeAssumption /\ Driver!KeyAssumption /\ Driver!CipherAssumption
  /\ Driver!MemAssumption /\ Driver!RequestAssumption
<1>1. Driver!SizeAssumption
  BY StreamMemAssumption, CounterFits DEF Driver!SizeAssumption
<1>2. Driver!KeyAssumption
  BY KeyFound, CallerAssumption DEF Driver!KeyAssumption
<1>3. Driver!CipherAssumption
  <2>1. 32 - 1 = 31
    OBVIOUS
  <2> QED BY <2>1, CipherTyped DEF Driver!CipherAssumption, Driver!Byte, Byte
<1>4. Driver!MemAssumption
  BY StreamMemAssumption DEF Driver!MemAssumption, Driver!Byte, Byte
<1>5. Driver!RequestAssumption
  BY CallerAssumption DEF Driver!RequestAssumption
<1> QED BY <1>1, <1>2, <1>3, <1>4, <1>5

\* The driver's quantities are those of the bytes.
LEMMA SameQuantities ==
  /\ Driver!Chunk = 128 /\ Driver!Lane = 0..3 /\ Driver!Addr = Addr
  /\ Driver!done = done /\ Driver!rest = rest
  /\ \A x : Driver!input(x) = input(x)
  /\ \A a, b : Driver!(+)(a, b) = a (+) b
<1>1. Driver!Chunk = 128
  BY DEF Driver!Chunk
<1>2. Driver!Lane = 0..3
  <2>1. 4 - 1 = 3
    OBVIOUS
  <2> QED BY <2>1 DEF Driver!Lane
<1>3. Driver!Addr = Addr
  BY DEF Driver!Addr, Addr
<1>4. Driver!done = done /\ Driver!rest = rest
  BY <1>1 DEF Driver!done, Driver!rest, done, rest
<1>5. \A x : Driver!input(x) = input(x)
  BY DEF Driver!input, input, Driver!Zero, Zero
<1>6. \A a, b : Driver!(+)(a, b) = a (+) b
  BY DEF Driver!(+), (+)
<1> QED BY <1>1, <1>2, <1>3, <1>4, <1>5, <1>6

\* The array of zeros as lanes.
LEMMA ZeroLanes ==
  ASSUME NEW l \in 0..3
  PROVE  LaneOf(Zeros(128), l) = [n |-> Zeros(CRYPTO_NONCEBYTES), c |-> 0]
<1> DEFINE v == Zeros(128)
<1>1. v = [j \in Vector |-> Zero]
  <2>1. 128 - 1 = 127
    OBVIOUS
  <2> QED BY <2>1 DEF Zeros, Vector
<1> HIDE DEF v
<1>2. \A j \in 0..23 : 32 * l + j \in Vector
  BY DEF Vector
<1>3. LaneOf(v, l).n = Zeros(CRYPTO_NONCEBYTES)
  BY <1>1, <1>2 DEF LaneOf, Zeros, CRYPTO_NONCEBYTES
<1>4. word(v, 4 * l + 3) = {}
  <2>1. \A b \in 0..63 : 8 * (4 * l + 3) + b \div 8 \in Vector
    BY DEF Vector
  <2> QED BY <2>1, <1>1 DEF word, Zero
<1>5. Value({}) = 0
  BY SmallValue DEF Digit
<1> QED BY <1>3, <1>4, <1>5 DEF LaneOf, v

LEMMA DriverInit == Init => Driver!Init
<1> SUFFICES ASSUME Init PROVE Driver!Init
  OBVIOUS
<1>1. req \in Requests
  BY CallerAssumption DEF Init
<1>2. KeyOf(ks) = Zeros(480)
  BY KeyFound DEF Init
<1>3. [l \in 0..3 |-> LaneOf(nc, l)] = Driver!ZeroNc
  BY ZeroLanes, SameQuantities DEF Init, Driver!ZeroNc
<1>4. {<<req.n, c>> : c \in 0..(4 * Chunks - 1)} = {}
  BY DEF Init, Chunks
<1> QED BY <1>1, <1>2, <1>3, <1>4 DEF Init, Driver!Init

\* What the driver's variables stand for.
MapKs == KeyOf(ks)
MapNc == [l \in 0..3 |-> LaneOf(nc, l)]
MapSpent == {<<req.n, c>> : c \in 0..(4 * Chunks - 1)}

\* A step that changes none of the arrays and makes no keystream.
LEMMA SameArrays ==
  ASSUME UNCHANGED <<ks, nc>>
  PROVE  MapKs' = MapKs /\ MapNc' = MapNc
BY DEF MapKs, MapNc

LEMMA SameSpent ==
  ASSUME req' = req, Chunks' = Chunks
  PROVE  MapSpent' = MapSpent
BY DEF MapSpent

LEMMA CallStep ==
  ASSUME IInv, NEW q \in Requests, Call(q)
  PROVE  Driver!Call(q)
<1>1. Chunks' = 0
  BY DEF Call, Chunks
<1>2. MapSpent' = {}
  <2>1. 0..(4 * 0 - 1) = {}
    OBVIOUS
  <2> QED BY <1>1, <2>1 DEF MapSpent
<1>3. MapKs' = MapKs /\ MapNc' = MapNc
  BY SameArrays DEF Call
<1> QED BY <1>2, <1>3 DEF Call, Driver!Call, MapKs, MapNc, MapSpent

LEMMA ReturnEmptyStep ==
  ASSUME IInv, ReturnEmpty
  PROVE  Driver!ReturnEmpty
<1>1. Chunks' = 0 /\ Chunks = 0
  <2>1. calls' > 0 /\ req'.len = 0
    BY DEF ReturnEmpty, IInv, LoopInv
  <2>2. (0 + 127) \div 128 = 0 /\ ~(calls' = 0)
    BY <2>1
  <2> QED BY <2>1, <2>2 DEF ReturnEmpty, Chunks
<1>2. MapSpent' = MapSpent
  BY <1>1, SameSpent DEF ReturnEmpty
<1>3. MapKs' = MapKs /\ MapNc' = MapNc
  BY SameArrays DEF ReturnEmpty
<1> QED BY <1>2, <1>3 DEF ReturnEmpty, Driver!ReturnEmpty, MapKs, MapNc, MapSpent

LEMMA SetupStep ==
  ASSUME IInv, Setup
  PROVE  Driver!Setup
<1>1. /\ req.k \in Keys /\ req.n \in Nonces /\ req.len \in Nat /\ at = 0
  BY RequestFacts DEF Setup, IInv, TypeOK, LoopInv
<1>2. MapKs' = req.k
  BY <1>1, KeyFound DEF Setup, MapKs
<1>3. MapNc' = [l \in Driver!Lane |-> [n |-> req.n, c |-> l]]
  BY <1>1, LaneCounters, SameQuantities DEF Setup, MapNc
<1>4. Chunks' = 0 /\ Chunks = 0
  <2>1. 0 \div 128 = 0 /\ at' = 0
    BY <1>1 DEF Setup
  <2> QED BY <2>1 DEF Setup, Chunks
<1>5. MapSpent' = MapSpent
  BY <1>4, SameSpent DEF Setup
<1>6. nblocks' = IF req.len >= 128 THEN req.len \div 128 ELSE 0
  BY <1>1 DEF Setup
<1> QED BY <1>2, <1>3, <1>5, <1>6, SameQuantities
     DEF Setup, Driver!Setup, MapKs, MapNc, MapSpent

LEMMA TrapStep ==
  ASSUME IInv, Trap
  PROVE  Driver!Trap
<1>1. MapKs' = MapKs /\ MapNc' = MapNc
  BY SameArrays DEF Trap
<1>2. MapSpent' = MapSpent
  <2>1. Chunks' = Chunks
    BY DEF Trap, Chunks
  <2> QED BY <2>1, SameSpent DEF Trap
<1>3. ~Driver!Aligned
  BY SameQuantities DEF Trap, Driver!Aligned
<1> QED BY <1>1, <1>2, <1>3 DEF Trap, Driver!Trap, MapKs, MapNc, MapSpent

LEMMA FullEndStep ==
  ASSUME IInv, FullEnd
  PROVE  Driver!FullEnd
<1>1. MapKs' = MapKs /\ MapNc' = MapNc
  BY SameArrays DEF FullEnd
<1>2. MapSpent' = MapSpent
  <2>1. Chunks' = Chunks
    BY DEF FullEnd, Chunks
  <2> QED BY <2>1, SameSpent DEF FullEnd
<1> QED BY <1>1, <1>2 DEF FullEnd, Driver!FullEnd, MapKs, MapNc, MapSpent

\* Both ways of leaving the loop of bytes round the request up to vectors.
LEMMA CleanupStep ==
  ASSUME IInv, Cleanup
  PROVE  Driver!Cleanup
<1>1. pc \in {"rest", "bytes"} /\ calls > 0 /\ calls' = calls /\ pc' = "idle"
      /\ req' = req /\ at = 128 * P /\ P = Q
  BY DEF Cleanup, IInv, LoopInv
<1>2. ks' = ks /\ nc' = nc
  BY CleanupKeeps
<1>3. MapKs' = MapKs /\ MapNc' = MapNc
  BY <1>2, SameArrays
<1>4. /\ req.len \in Nat /\ rest \in 0..127 /\ Q \in Nat
      /\ req.len = 128 * Q + rest
  BY RequestFacts DEF IInv, TypeOK
<1>5. Chunks' = (req.len + 127) \div 128
  <2>1. ~(calls' = 0)
    BY <1>1
  <2> QED BY <1>1, <2>1 DEF Chunks
<1>6. Chunks' = Chunks
  <2>1. CASE pc = "rest"
    <3>1. rest = 0
      BY <2>1 DEF Cleanup
    <3>2. (req.len + 127) \div 128 = Q
      BY <1>4, <3>1
    <3> QED BY <2>1, <3>2, <1>1, <1>5 DEF Chunks, P
  <2>2. CASE pc = "bytes"
    <3>1. rest # 0
      BY <2>2 DEF IInv, LoopInv
    <3>2. (req.len + 127) \div 128 = Q + 1
      BY <1>4, <3>1
    <3> QED BY <2>2, <3>2, <1>1, <1>5 DEF Chunks, P
  <2> QED BY <1>1, <2>1, <2>2
<1>7. MapSpent' = MapSpent
  BY <1>1, <1>6, SameSpent
<1> QED BY <1>3, <1>7, SameQuantities
     DEF Cleanup, Driver!Cleanup, Driver!memset_s, Driver!memset, MapKs, MapNc, MapSpent

\* A byte of keystream is the driver's.
LEMMA SameKeystream ==
  ASSUME IInv, pc \in {"full", "rest", "bytes"}, NEW j \in Vector
  PROVE  Rijndael_k32b32_encrypt_x4(ks, nc)[j] = Driver!encrypt_x4(MapKs, MapNc, j)
<1>1. req.k \in Keys
  BY RequestFacts DEF IInv, TypeOK
<1>2. /\ ks = Schedules[req.k]
      /\ \A l \in 0..3 : LaneOf(nc, l) = [n |-> req.n, c |-> 4 * P + l]
      /\ j \div 32 \in 0..3
      /\ Rijndael_k32b32_encrypt_x4(ks, nc)[j]
           = Cipher[<<req.k, req.n, 4 * P + (j \div 32)>>][j % 32]
  BY LoopFacts
<1>3. MapKs = req.k
  BY <1>1, <1>2, KeyFound DEF MapKs
<1>4. MapNc[j \div 32] = [n |-> req.n, c |-> 4 * P + (j \div 32)]
  BY <1>2 DEF MapNc
<1> QED BY <1>2, <1>3, <1>4 DEF Driver!encrypt_x4

\* The blocks it comes from, with those before, are those of one more vector.
LEMMA SpentGrows ==
  ASSUME IInv, pc \in {"full", "rest"}, req' = req, Chunks' = Chunks + 1
  PROVE  MapSpent' = MapSpent \cup {<<MapNc[l].n, MapNc[l].c>> : l \in Driver!Lane}
<1>1. P \in Nat /\ Chunks = P
  <2>1. P \in 0..Q
    BY LoopFacts
  <2> QED BY <2>1 DEF Chunks, P
<1>2. \A l \in 0..3 : MapNc[l].n = req.n /\ MapNc[l].c = 4 * P + l
  BY LoopFacts DEF MapNc
<1>3. {<<MapNc[l].n, MapNc[l].c>> : l \in Driver!Lane} = {<<req.n, 4 * P + l>> : l \in 0..3}
  BY <1>2, SameQuantities
<1>4. MapSpent = {<<req.n, c>> : c \in 0..(4 * P - 1)}
  BY <1>1 DEF MapSpent
<1>5. MapSpent' = {<<req.n, c>> : c \in 0..(4 * (P + 1) - 1)}
  BY <1>1 DEF MapSpent
<1>6. ASSUME NEW c PROVE c \in 0..(4 * (P + 1) - 1)
                          <=> c \in 0..(4 * P - 1) \/ \E l \in 0..3 : c = 4 * P + l
  <2>1. ASSUME c \in 0..(4 * (P + 1) - 1), c \notin 0..(4 * P - 1)
        PROVE  \E l \in 0..3 : c = 4 * P + l
    <3>1. c - 4 * P \in 0..3 /\ c = 4 * P + (c - 4 * P)
      BY <1>1, <2>1
    <3> QED BY <3>1
  <2>2. ASSUME c \in 0..(4 * P - 1) PROVE c \in 0..(4 * (P + 1) - 1)
    BY <1>1, <2>2
  <2>3. ASSUME NEW l \in 0..3, c = 4 * P + l PROVE c \in 0..(4 * (P + 1) - 1)
    BY <1>1, <2>3
  <2> QED BY <2>1, <2>2, <2>3
<1> QED BY <1>3, <1>4, <1>5, <1>6

LEMMA FullStep ==
  ASSUME IInv, FullVector
  PROVE  Driver!FullChunk
<1> DEFINE b == Rijndael_k32b32_encrypt_x4(ks, nc)
           V == (req.out + at)..(req.out + at + 127)
<1>1. /\ pc = "full" /\ nblocks # 0
      /\ mem' = [a \in Addr |->
                   IF a \in V THEN input(a - req.out) (+) b[a - req.out - at] ELSE mem[a]]
      /\ at' = at + 128 /\ nblocks' = nblocks - 1 /\ nc' = added(nc)
      /\ UNCHANGED <<pc, req, ks, buf, off, calls, mem0>>
  BY VectorStep
<1>2. /\ req.out \in Nat /\ Q \in Nat /\ 4 * Q + 4 <= CtrMod
  BY RequestFacts DEF IInv, TypeOK
<1>3. /\ P \in 0..Q /\ at = 128 * P
      /\ \A l \in 0..3 : /\ LaneOf(nc, l) = [n |-> req.n, c |-> 4 * P + l]
                         /\ 4 * P + l \in 0..(CtrMod - 1)
  BY <1>1, LoopFacts
<1> HIDE DEF b, V
<1>4. mem' = [a \in Driver!Addr |->
                IF a \in (req.out + at)..(req.out + at + Driver!Chunk - 1)
                THEN Driver!(+)(Driver!input(a - req.out),
                                Driver!encrypt_x4(MapKs, MapNc, a - req.out - at))
                ELSE mem[a]]
  <2>1. (req.out + at)..(req.out + at + Driver!Chunk - 1) = V
    <3>1. req.out + at + 128 - 1 = req.out + at + 127
      BY <1>2, <1>3
    <3> QED BY <3>1, SameQuantities DEF V
  <2>2. ASSUME NEW a \in Addr, a \in V
        PROVE  b[a - req.out - at] = Driver!encrypt_x4(MapKs, MapNc, a - req.out - at)
    <3>1. a - req.out - at \in Vector
      BY <2>2, <1>2, <1>3 DEF V, Addr, Vector
    <3> QED BY <3>1, <1>1, SameKeystream DEF b
  <2> QED BY <1>1, <2>1, <2>2, SameQuantities
<1>5. P + 1 \in 0..Q /\ P' = P + 1 /\ Chunks' = Chunks + 1
  <2>1. P + nblocks = Q /\ nblocks \in Nat
    BY <1>1 DEF IInv, TypeOK, LoopInv
  <2>2. P + 1 \in 0..Q /\ at + 128 = 128 * (P + 1)
    BY <1>1, <1>2, <1>3, <2>1
  <2>3. (128 * (P + 1)) \div 128 = P + 1
    BY <1>3
  <2>4. P' = P + 1
    BY <1>1, <2>2, <2>3 DEF P
  <2> QED BY <1>1, <2>2, <2>4 DEF Chunks, P
<1>6. MapSpent' = MapSpent \cup {<<MapNc[l].n, MapNc[l].c>> : l \in Driver!Lane}
  BY <1>1, <1>5, SpentGrows
<1>7. MapKs' = MapKs
  BY <1>1 DEF MapKs
<1>8. MapNc' = Driver!increment(MapNc)
  <2>1. IInv'
    BY VectorInv
  <2>2. \A l \in 0..3 : LaneOf(nc', l) = [n |-> req.n, c |-> 4 * (P + 1) + l]
    BY <1>1, <1>5, <2>1 DEF IInv, LoopInv
  <2>3. ASSUME NEW l \in 0..3
        PROVE  /\ MapNc[l].n = req.n /\ (MapNc[l].c + 4) % CtrMod = 4 * (P + 1) + l
    <3>1. MapNc[l].n = req.n /\ MapNc[l].c = 4 * P + l
      BY <1>3 DEF MapNc
    <3>2. /\ (4 * P + l) + 4 = 4 * (P + 1) + l
          /\ 4 * (P + 1) + l \in 0..(CtrMod - 1)
      BY <1>2, <1>3, <1>5, CounterFits
    <3>3. \A x \in 0..(CtrMod - 1) : x % CtrMod = x
      BY CounterFits
    <3> QED BY <3>1, <3>2, <3>3
  <2>4. Driver!increment(MapNc)
          = [l \in 0..3 |-> [n |-> MapNc[l].n, c |-> (MapNc[l].c + 4) % CtrMod]]
    BY SameQuantities DEF Driver!increment
  <2>5. MapNc' = [l \in 0..3 |-> LaneOf(nc', l)]
    BY DEF MapNc
  <2> QED BY <2>2, <2>3, <2>4, <2>5
<1> QED BY <1>1, <1>4, <1>6, <1>7, <1>8, SameQuantities
     DEF Driver!FullChunk, Driver!Enciphered, MapKs, MapNc, MapSpent

LEMMA PartialStep ==
  ASSUME IInv, Partial
  PROVE  Driver!Partial
<1>1. MapKs' = MapKs /\ MapNc' = MapNc
  BY SameArrays DEF Partial
<1>2. Chunks' = Chunks + 1
  BY DEF Partial, Chunks
<1>3. MapSpent' = MapSpent \cup {<<MapNc[l].n, MapNc[l].c>> : l \in Driver!Lane}
  BY <1>2, SpentGrows DEF Partial
<1> QED BY <1>1, <1>3, SameQuantities
     DEF Partial, Driver!Partial, Driver!Enciphered, MapKs, MapNc, MapSpent

LEMMA RemainingStep ==
  ASSUME IInv, PartialBytes
  PROVE  Driver!Partial \/ Driver!PartialByte
<1>1. CASE Partial
  BY <1>1, PartialStep
<1>2. CASE /\ pc = "bytes" /\ off < rest
           /\ mem' = [mem EXCEPT ![req.out + done + off] =
                        input(done + off) (+) buf[off]]
           /\ off' = off + 1
           /\ UNCHANGED <<pc, req, ks, nc, buf, nblocks, at, calls, mem0>>
  <2>1. MapKs' = MapKs /\ MapNc' = MapNc
    BY <1>2, SameArrays
  <2>2. MapSpent' = MapSpent
    <3>1. Chunks' = Chunks
      BY <1>2 DEF Chunks
    <3> QED BY <1>2, <3>1, SameSpent
  <2>3. buf[off] = Driver!encrypt_x4(MapKs, MapNc, off)
    <3>1. buf = Rijndael_k32b32_encrypt_x4(ks, nc) /\ off \in Vector
      BY <1>2 DEF IInv, TypeOK, LoopInv
    <3> QED BY <3>1, <1>2, SameKeystream
  <2>4. Driver!PartialByte
    BY <1>2, <2>1, <2>2, <2>3, SameQuantities
       DEF Driver!PartialByte, MapKs, MapNc, MapSpent
  <2> QED BY <2>4
<1> QED BY <1>1, <1>2, ByteStep

LEMMA DriverStep ==
  ASSUME IInv, [Next]_vars
  PROVE  [Driver!Next]_(Driver!vars)
<1> USE DEF Driver!Next, Driver!Function
<1>1. CASE \E q \in Requests : Call(q)
  BY <1>1, CallStep
<1>2. CASE ReturnEmpty
  BY <1>2, ReturnEmptyStep
<1>3. CASE Setup
  BY <1>3, SetupStep
<1>4. CASE FullVector
  BY <1>4, FullStep
<1>5. CASE Trap
  BY <1>5, TrapStep
<1>6. CASE FullEnd
  BY <1>6, FullEndStep
<1>7. CASE PartialBytes
  BY <1>7, RemainingStep
<1>8. CASE Cleanup
  BY <1>8, CleanupStep
<1>9. CASE UNCHANGED vars
  <2>1. MapKs' = MapKs /\ MapNc' = MapNc
    BY <1>9, SameArrays DEF vars
  <2>2. MapSpent' = MapSpent
    <3>1. Chunks' = Chunks
      BY <1>9 DEF vars, Chunks
    <3> QED BY <1>9, <3>1, SameSpent DEF vars
  <2> QED BY <1>9, <2>1, <2>2 DEF vars, Driver!vars, MapKs, MapNc, MapSpent
<1> HIDE DEF Driver!Next, Driver!Function
<1> QED BY <1>1, <1>2, <1>3, <1>4, <1>5, <1>6, <1>7, <1>8, <1>9
     DEF Next, crypto_stream_rijn256ctr_gil_xor, crypto_stream_rijn256ctr_gil,
         Stopped, FullVector, PartialBytes

\* On bytes the code is the driver: each of its steps is the driver's step of
\* the same name, whatever the keys, nonces, memories and requests.
THEOREM Implementation == Spec => ImplementsDriver
BY DriverInit, DriverStep, Invariance, PTL DEF Spec, ImplementsDriver

-----------------------------------------------------------------------------
(* The stream                                                              *)

\* The theorems about the driver, of the driver that the bytes are.
R == INSTANCE RijnCtr_proof
       WITH BlockBytes <- 32, Lanes <- 4,
            ZeroNonce <- Zeros(CRYPTO_NONCEBYTES), NoKey <- Zeros(480), E <- Cipher,
            ks <- KeyOf(ks), nc <- [l \in 0..3 |-> LaneOf(nc, l)], i <- off,
            spent <- {<<req.n, c>> : c \in 0..(4 * Chunks - 1)}

LEMMA RAssumptions ==
  /\ R!SizeAssumption /\ R!KeyAssumption /\ R!CipherAssumption
  /\ R!MemAssumption /\ R!RequestAssumption
<1>1. /\ \A q : Driver!Admissible(q) <=> R!Admissible(q)
      /\ Driver!Request = R!Request
  BY DEF Driver!Admissible, R!Admissible, Driver!Request, R!Request,
         Driver!Chunk, R!Chunk
<1> QED BY <1>1, DriverAssumptions
     DEF Driver!SizeAssumption, Driver!KeyAssumption, Driver!CipherAssumption,
         Driver!MemAssumption, Driver!RequestAssumption,
         R!SizeAssumption, R!KeyAssumption, R!CipherAssumption,
         R!MemAssumption, R!RequestAssumption, Driver!Byte, R!Byte

\* It is one driver: the same initial states and steps.
LEMMA SameDriver ==
  /\ Driver!Init <=> R!Init
  /\ [Driver!Next]_(Driver!vars) <=> [R!Next]_(R!vars)
  /\ Driver!OutputSoFar <=> R!OutputSoFar
<1>1. Driver!Init <=> R!Init
  BY
     DEF Driver!Init, R!Init, Driver!ZeroNc, R!ZeroNc, Driver!Lane, R!Lane
<1>2. Driver!Next <=> R!Next
  BY
     DEF Driver!Next, R!Next, Driver!Function, R!Function, Driver!Call, R!Call,
         Driver!ReturnEmpty, R!ReturnEmpty, Driver!Setup, R!Setup, Driver!FullChunk,
         R!FullChunk, Driver!Trap, R!Trap, Driver!FullEnd, R!FullEnd, Driver!Partial,
         R!Partial, Driver!PartialByte, R!PartialByte, Driver!Cleanup, R!Cleanup,
         Driver!Chunk, R!Chunk, Driver!Lane, R!Lane, Driver!Addr, R!Addr,
         Driver!ZeroNc, R!ZeroNc, Driver!encrypt_x4, R!encrypt_x4, Driver!increment,
         R!increment, Driver!input, R!input, Driver!done, R!done, Driver!rest, R!rest,
         Driver!Enciphered, R!Enciphered, Driver!Aligned, R!Aligned, Driver!memset,
         R!memset, Driver!memset_s, R!memset_s, Driver!Zero, R!Zero, Driver!(+), R!(+)
<1>3. UNCHANGED Driver!vars <=> UNCHANGED R!vars
  BY DEF Driver!vars, R!vars
<1>4. Driver!OutputSoFar <=> R!OutputSoFar
  BY
     DEF Driver!OutputSoFar, R!OutputSoFar, Driver!Addr, R!Addr, Driver!Progress,
         R!Progress, Driver!done, R!done, Driver!Chunk, R!Chunk, Driver!Stream!Crypt,
         R!Stream!Crypt, Driver!Stream!MemAddr, R!Stream!MemAddr, Driver!Stream!Source,
         R!Stream!Source, Driver!Stream!Keystream, R!Stream!Keystream,
         Driver!Stream!(+), R!Stream!(+), Driver!Stream!Zero, R!Stream!Zero
<1> QED BY <1>1, <1>2, <1>3, <1>4

LEMMA SameStream ==
  /\ Driver!Stream!Init <=> R!Stream!Init
  /\ [Driver!Stream!Next]_(Driver!Stream!vars) <=> [R!Stream!Next]_(R!Stream!vars)
<1>1. Driver!Stream!Init <=> R!Stream!Init
  BY
     DEF Driver!Stream!Init, R!Stream!Init, Driver!Stream!MemAddr, R!Stream!MemAddr,
         Driver!Stream!Byte, R!Stream!Byte
<1>2. Driver!Stream!Next <=> R!Stream!Next
  BY
     DEF Driver!Stream!Next, R!Stream!Next, Driver!Stream!Call, R!Stream!Call,
         Driver!Stream!Crypt, R!Stream!Crypt, Driver!Stream!MemAddr, R!Stream!MemAddr,
         Driver!Stream!Source, R!Stream!Source, Driver!Stream!Keystream,
         R!Stream!Keystream, Driver!Stream!(+), R!Stream!(+), Driver!Stream!Zero,
         R!Stream!Zero
<1>3. UNCHANGED Driver!Stream!vars <=> UNCHANGED R!Stream!vars
  BY DEF Driver!Stream!vars, R!Stream!vars
<1> QED BY <1>1, <1>2, <1>3

\* The driver's invariant holds of the bytes too.
LEMMA DriverInitInv == Init => R!IInv
BY DriverInit, SameDriver, RAssumptions, R!InitInv

LEMMA DriverNextInv ==
  ASSUME IInv, [Next]_vars, R!IInv
  PROVE  R!IInv'
<1>1. [R!Next]_(R!vars)
  BY DriverStep, SameDriver
<1> QED BY <1>1, RAssumptions, R!NextInv

THEOREM DriverInvariance == Spec => []R!IInv
BY DriverInitInv, DriverNextInv, Invariance, PTL DEF Spec

\* At every moment of every call the output up to there is what the abstract
\* stream makes of the memory the call began with, with the Rijndael-256 of the
\* reference on 64-bit counters, and every other byte is as it was.
THEOREM KeystreamIsCorrect == Spec => []KeystreamSoFar
<1>1. R!IInv => KeystreamSoFar
  BY SameDriver DEF R!IInv, KeystreamSoFar
<1> QED BY <1>1, DriverInvariance, PTL

\* A call on bytes that returns has done one step of the abstract stream, and
\* no other step of the code is seen there.
THEOREM StreamImplementation == Spec => ImplementsStream
<1>1. Init => Driver!Stream!Init
  BY DriverInit, SameDriver, SameStream, RAssumptions, R!StreamInit
<1>2. ASSUME IInv, [Next]_vars, R!IInv, R!IInv'
      PROVE  [Driver!Stream!Next]_(Driver!Stream!vars)
  <2>1. [R!Next]_(R!vars)
    BY <1>2, DriverStep, SameDriver
  <2> QED BY <1>2, <2>1, RAssumptions, SameStream, R!StreamStep
<1> QED BY <1>1, <1>2, Invariance, DriverInvariance, PTL
     DEF Spec, ImplementsStream, Driver!ImplementsStream, Driver!Stream!Spec
=============================================================================
