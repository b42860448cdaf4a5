-------------------------- MODULE InlineCtr_proof --------------------------
(***************************************************************************)
(* Proofs about InlineCtr: for every S-box, every doubling, every key and  *)
(* every counter block, each round of each branch finds its round key in   *)
(* the register it names, the eight counters are those of the reference,   *)
(* however each is made, and a call writes its output and nothing else.    *)
(***************************************************************************)
EXTENDS InlineCtrCorrect, Expansion_proof

-----------------------------------------------------------------------------
(* The round keys                                                          *)

LEMMA KeyConstant == ConstantOn(rc, Columns, Rcon[1])
<1>1. Hex(1) \in Byte /\ Zero \in Byte
  BY Registers, XorByte
<1>2. \A i \in Lane : i % 4 = 0 <=> i \in Columns
  BY DEF Lane, Columns
<1>3. \A i \in Lane : rc[i] = IF i \in Columns THEN Hex(1) ELSE Zero
  BY <1>2 DEF rc
<1>4. rc \in Reg
  BY <1>1 DEF rc, Reg
<1> QED BY <1>3, <1>4, CtrShiftAssumption DEF ConstantOn, PowersOfTwo

\* The instructions are those of the shared lemmas.
LEMMA SameInstructions ==
  ASSUME NEW r, NEW t
  PROVE  /\ linearmix(r, t) = Summed(r, t)
         /\ RotSub(r, t) = RotatedFirst(r, t)
         /\ SubLast(r) = SpreadLast(r)
<1>1. \A a : Held(VPSLLDQ4(a)) = VPSLLDQ4(a)
  BY HeldIsSame DEF VPSLLDQ4
<1>2. \A a, b : Held(VPXOR(a, b)) = VPXOR(a, b)
  BY HeldIsSame DEF VPXOR
<1>3. linearmix(r, t) = Summed(r, t)
  BY <1>1, <1>2 DEF linearmix, Summed
<1>4. RotSub(r, t) = RotatedFirst(r, t)
  BY <1>2 DEF RotSub, RotatedFirst, VAESENCLAST, SHUF_2, Shuf3
<1>5. SubLast(r) = SpreadLast(r)
  BY <1>2 DEF SubLast, SpreadLast, VAESENCLAST
<1> QED BY <1>3, <1>4, <1>5

\* The keys that callers pass have schedules.
LEMMA SchedulesTyped ==
  \A k \in Keys : /\ Schedules[k] \in [Aes!Buffer -> Byte]
                  /\ IsSchedule(k, Schedules[k], 60)
BY KeyAssumption, AesSchedule DEF Schedules

\* The next even round key, and with it the next odd one.
LEMMA EvenKey ==
  ASSUME NEW k \in Keys, NEW s, s = Schedules[k], NEW j \in 1..7,
         NEW r1, IsKey(r1, s, 2 * j - 2), NEW r2, IsKey(r2, s, 2 * j - 1),
         NEW v, ConstantOn(v, Columns, Rcon[j])
  PROVE  IsKey(linearmix(r1, RotSub(r2, v)), s, 2 * j)
<1>1. IsSchedule(k, s, 60)
  BY SchedulesTyped
<1>2. r1 \in Reg /\ r2 \in Reg /\ Rcon[j] \in Byte
  BY Registers DEF IsKey
<1> DEFINE t == RotSub(r2, v)
<1>3. Rotated(t, r2, Rcon[j])
  BY <1>2, RotatedFirstWords, SameInstructions
<1> HIDE DEF t
<1>4. t \in Reg /\ \A i \in Lane : i >= 4 => t[i] = t[i - 4]
  BY <1>3, FourFold
<1>5. Grows(linearmix(r1, t), r1, t)
  BY <1>2, <1>4, SummedWords, SameInstructions
<1>6. IsKey(linearmix(r1, t), s, 2 * j)
  BY <1>1, <1>3, <1>5, NextEvenKey
<1> QED BY <1>6 DEF t

LEMMA OddKey ==
  ASSUME NEW k \in Keys, NEW s, s = Schedules[k], NEW j \in 1..6,
         NEW r1, IsKey(r1, s, 2 * j - 1), NEW r2, IsKey(r2, s, 2 * j)
  PROVE  IsKey(linearmix(r1, SubLast(r2)), s, 2 * j + 1)
<1>1. IsSchedule(k, s, 60)
  BY SchedulesTyped
<1>2. r1 \in Reg /\ r2 \in Reg
  BY DEF IsKey
<1> DEFINE t == SubLast(r2)
<1>3. Repeated(t, r2)
  BY <1>2, SpreadLastWords, SameInstructions
<1> HIDE DEF t
<1>4. t \in Reg /\ \A i \in Lane : i >= 4 => t[i] = t[i - 4]
  BY <1>3, FourFold
<1>5. Grows(linearmix(r1, t), r1, t)
  BY <1>2, <1>4, SummedWords, SameInstructions
<1>6. IsKey(linearmix(r1, t), s, 2 * j + 1)
  BY <1>1, <1>3, <1>5, NextOddKey
<1> QED BY <1>6 DEF t

-----------------------------------------------------------------------------
(* The counters                                                            *)

Bits == 0..31

\* The bits from m below n are all one.
Ones(x, m, n) == n >= m /\ \A j \in m..(n - 1) : j \in x

\* A number of 32 bits and two to the m more: the bit m turns over, and each
\* above it that only ones lie between.
Up(x, m) == {n \in Bits : ~(n \in x <=> Ones(x, m, n))}

LEMMA SuccessorIsUp ==
  ASSUME NEW x \in SUBSET Bits PROVE Aes!Successor(x) = Up(x, 0)
<1>1. ASSUME NEW n \in Bits PROVE n \in Aes!Successor(x) <=> n \in Up(x, 0)
  <2> DEFINE P == n \in x
             Q == \A j \in 0..(n - 1) : j \in x
  <2>1. P \in BOOLEAN /\ Q \in BOOLEAN
    OBVIOUS
  <2>2. n \in Aes!Successor(x) <=> P # Q
    BY DEF Aes!Successor, Bits
  <2>3. Ones(x, 0, n) <=> Q
    BY DEF Ones, Bits
  <2>4. n \in Up(x, 0) <=> ~(P <=> Ones(x, 0, n))
    BY DEF Up
  <2> HIDE DEF P, Q
  <2>5. (P # Q) <=> ~(P <=> Q)
    BY <2>1
  <2> QED BY <2>2, <2>3, <2>4, <2>5
<1>2. Aes!Successor(x) \subseteq Bits /\ Up(x, 0) \subseteq Bits
  BY DEF Aes!Successor, Up, Bits
<1> QED BY <1>1, <1>2

\* Twice two to the m is two to the m + 1.
LEMMA UpTwice ==
  ASSUME NEW x \in SUBSET Bits, NEW m \in 0..2
  PROVE  Up(Up(x, m), m) = Up(x, m + 1)
<1> DEFINE y == Up(x, m)
<1>1. \A z : \A n \in Bits, l \in Nat : n \in Up(z, l) <=> ~(n \in z <=> Ones(z, l, n))
  BY DEF Up
<1>2. \A n \in Bits : n \in y <=> ~(n \in x <=> Ones(x, m, n))
  BY <1>1
<1> HIDE DEF y
<1>3. m \in Bits /\ m \in Nat /\ m + 1 \in Nat
  BY DEF Bits
<1>4. m \in y <=> m \notin x
  <2>1. Ones(x, m, m)
    BY DEF Ones
  <2> QED BY <1>2, <1>3, <2>1
<1>5. ASSUME NEW n \in Bits
      PROVE  n \in Up(y, m) <=> n \in Up(x, m + 1)
  <2>1. n \in Up(y, m) <=> ~(n \in y <=> Ones(y, m, n))
    BY <1>1, <1>3
  <2>2. n \in Up(x, m + 1) <=> ~(n \in x <=> Ones(x, m + 1, n))
    BY <1>1, <1>3
  <2>3. n \in y <=> ~(n \in x <=> Ones(x, m, n))
    BY <1>2
  <2>4. CASE n < m
    <3>1. \A z : ~Ones(z, m, n) /\ ~Ones(z, m + 1, n)
      BY <2>4 DEF Ones, Bits
    <3> QED BY <2>1, <2>2, <2>3, <3>1
  <2>5. CASE n = m
    <3>1. \A z : Ones(z, m, n) /\ ~Ones(z, m + 1, n)
      BY <2>5 DEF Ones, Bits
    <3> QED BY <2>1, <2>2, <2>3, <3>1
  <2>6. CASE n > m
    <3>0. \A j : j \in m..(n - 1) <=> j = m \/ j \in (m + 1)..(n - 1)
      BY <2>6 DEF Bits
    <3>1. \A z : Ones(z, m, n) <=> m \in z /\ Ones(z, m + 1, n)
      BY <3>0, <2>6 DEF Ones, Bits
    <3>2. CASE m \in x
      BY <1>4, <2>1, <2>2, <2>3, <3>1, <3>2
    <3>3. CASE m \notin x
      <4>1. \A i \in Bits : i > m => (i \in y <=> i \in x)
        <5> SUFFICES ASSUME NEW i \in Bits, i > m PROVE i \in y <=> i \in x
          OBVIOUS
        <5>1. m \in m..(i - 1)
          BY DEF Bits
        <5>2. ~Ones(x, m, i)
          BY <3>3, <5>1 DEF Ones
        <5> QED BY <1>2, <5>2
      <4>2. \A j \in (m + 1)..(n - 1) : j \in Bits /\ j > m
        BY <2>6 DEF Bits
      <4>3. Ones(y, m + 1, n) <=> Ones(x, m + 1, n)
        BY <4>1, <4>2 DEF Ones
      <4> QED BY <1>4, <2>1, <2>2, <2>3, <3>1, <3>3, <4>3
    <3> QED BY <3>2, <3>3
  <2> QED BY <2>4, <2>5, <2>6 DEF Bits
<1>6. Up(y, m) \subseteq Bits /\ Up(x, m + 1) \subseteq Bits
  BY DEF Up
<1> QED BY <1>5, <1>6 DEF y

\* The carries of a sum, as the recursion has them.
Carried(x, y, n, b) ==
  /\ n > 0
  /\ \/ n - 1 \in x /\ n - 1 \in y
     \/ (n - 1 \in x \/ n - 1 \in y) /\ b

CarriesOf(x, y, c) == c = [n \in 0..31 |-> Carried(x, y, n, c[n - 1])]

Carry(x, y) == CHOOSE c : CarriesOf(x, y, c)

LEMMA SumByCarries ==
  ASSUME NEW x \in SUBSET Bits, NEW y \in SUBSET Bits
  PROVE  /\ ADD(x, y) \subseteq Bits
         /\ \A n \in Bits : n \in ADD(x, y) <=> ~(n \in x <=> ~(n \in y <=> Carry(x, y)[n]))
         /\ ~Carry(x, y)[0]
         /\ \A n \in 1..31 : Carry(x, y)[n] <=> \/ n - 1 \in x /\ n - 1 \in y
                                                \/ /\ n - 1 \in x \/ n - 1 \in y
                                                   /\ Carry(x, y)[n - 1]
<1> DEFINE F == [n \in 1..31 |-> [b \in BOOLEAN |-> Carried(x, y, n, b)]]
<1>1. \A n, b : Carried(x, y, n, b) \in BOOLEAN
  BY DEF Carried
<1>2. F \in [1..31 -> [BOOLEAN -> BOOLEAN]]
  BY <1>1
<1>3. PICK f \in [0..31 -> BOOLEAN] : Listed(f, 31, FALSE, F)
  <2> HIDE DEF F
  <2> QED BY <1>2, Recursion
<1>4. ASSUME NEW n \in 0..31 PROVE f[n] = Carried(x, y, n, f[n - 1])
  <2>1. CASE n = 0
    <3>1. f[0] = FALSE
      BY <1>3 DEF Listed
    <3>2. ~Carried(x, y, 0, f[0 - 1])
      BY DEF Carried
    <3> QED BY <2>1, <3>1, <3>2, <1>1
  <2>2. CASE n # 0
    <3>1. n \in 1..31 /\ n - 1 \in 0..31
      BY <2>2
    <3>2. f[n] = F[n][f[n - 1]] /\ f[n - 1] \in BOOLEAN
      BY <3>1, <1>3 DEF Listed
    <3> QED BY <3>1, <3>2
  <2> QED BY <2>1, <2>2
<1>5. CarriesOf(x, y, f)
  <2>1. f = [n \in 0..31 |-> f[n]]
    OBVIOUS
  <2> QED BY <1>4, <2>1 DEF CarriesOf
<1>6. CarriesOf(x, y, Carry(x, y))
  BY <1>5 DEF Carry
<1>7. ADD(x, y) = {n \in Bits : (n \in x) # ((n \in y) # Carry(x, y)[n])}
  BY DEF ADD, Carry, CarriesOf, Carried, Bits
<1> DEFINE c == Carry(x, y)
<1> HIDE DEF c
<1>8. \A n \in 0..31 : c[n] = Carried(x, y, n, c[n - 1])
  BY <1>6 DEF CarriesOf, c
<1>9. c[0] = FALSE
  <2>1. ~Carried(x, y, 0, c[0 - 1])
    BY DEF Carried
  <2> QED BY <2>1, <1>1, <1>8
<1>10. ASSUME NEW n \in 1..31
       PROVE  c[n] <=> \/ n - 1 \in x /\ n - 1 \in y
                       \/ (n - 1 \in x \/ n - 1 \in y) /\ c[n - 1]
  <2>1. c[n] = Carried(x, y, n, c[n - 1])
    BY <1>8
  <2> QED BY <2>1 DEF Carried
<1>11. ASSUME NEW n \in Bits
       PROVE  n \in ADD(x, y) <=> ~(n \in x <=> ~(n \in y <=> c[n]))
  <2> DEFINE P == n \in x
             Q == n \in y
  <2>1. P \in BOOLEAN /\ Q \in BOOLEAN /\ c[n] \in BOOLEAN
    BY <1>1, <1>8 DEF Bits
  <2>2. n \in ADD(x, y) <=> P # (Q # c[n])
    BY <1>7 DEF c
  <2> HIDE DEF P, Q
  <2>3. \A p, q, r \in BOOLEAN : (p # (q # r)) <=> ~(p <=> ~(q <=> r))
    OBVIOUS
  <2>4. (P # (Q # c[n])) <=> ~(P <=> ~(Q <=> c[n]))
    BY <2>1, <2>3
  <2> QED BY <2>2, <2>4 DEF P, Q
<1> QED BY <1>7, <1>9, <1>10, <1>11 DEF c

\* Above the bits of y a carry goes as far as the ones of x.
LEMMA CarryOn ==
  ASSUME NEW x \in SUBSET Bits, NEW m \in 0..3, NEW y, y \subseteq 0..(m - 1),
         NEW n \in Bits, n >= m
  PROVE  Carry(x, y)[n] <=> Carry(x, y)[m] /\ Ones(x, m, n)
<1> DEFINE c == Carry(x, y)
           T == {d \in Nat : m + d <= 31 => (c[m + d] <=> c[m] /\ Ones(x, m, m + d))}
<1>1. \A i \in 1..31 : c[i] <=> \/ i - 1 \in x /\ i - 1 \in y
                                \/ (i - 1 \in x \/ i - 1 \in y) /\ c[i - 1]
  <2>1. y \in SUBSET Bits
    BY DEF Bits
  <2> QED BY <2>1, SumByCarries
<1> HIDE DEF c
<1>2. 0 \in T
  <2>1. Ones(x, m, m) /\ m + 0 = m
    BY DEF Ones
  <2> QED BY <2>1
<1>3. ASSUME NEW d \in Nat, d \in T PROVE d + 1 \in T
  <2> SUFFICES ASSUME m + (d + 1) <= 31
               PROVE  c[m + (d + 1)] <=> c[m] /\ Ones(x, m, m + (d + 1))
    OBVIOUS
  <2> DEFINE i == m + d
  <2>1. i \in Nat /\ i <= 31 /\ i >= m /\ m + (d + 1) = i + 1 /\ i + 1 \in 1..31 /\ (i + 1) - 1 = i
    OBVIOUS
  <2>2. c[i] <=> c[m] /\ Ones(x, m, i)
    BY <1>3, <2>1
  <2> HIDE DEF i
  <2>3. i \notin y
    BY <2>1
  <2>4. c[i + 1] <=> i \in x /\ c[i]
    BY <1>1, <2>1, <2>3
  <2>5. Ones(x, m, i + 1) <=> i \in x /\ Ones(x, m, i)
    <3>1. \A j : j \in m..((i + 1) - 1) <=> j = i \/ j \in m..(i - 1)
      BY <2>1
    <3>2. i + 1 >= m
      BY <2>1
    <3> QED BY <2>1, <3>1, <3>2 DEF Ones
  <2> QED BY <2>1, <2>2, <2>4, <2>5
<1> HIDE DEF T
<1>4. Nat \subseteq T
  BY <1>2, <1>3, Induction
<1>5. n - m \in Nat /\ m + (n - m) = n /\ n <= 31
  BY DEF Bits
<1>6. n - m \in T
  BY <1>4, <1>5
<1> QED BY <1>5, <1>6 DEF T, c

\* One more bit in the second number is one more turned over in the sum.
LEMMA AddBit ==
  ASSUME NEW x \in SUBSET Bits, NEW m \in 0..2, NEW y \in SUBSET (0..(m - 1))
  PROVE  ADD(x, y \cup {m}) = Up(ADD(x, y), m)
<1> DEFINE c == Carry(x, y)
           w == y \cup {m}
           e == Carry(x, w)
           s == ADD(x, y)
<1>1. y \in SUBSET Bits /\ w \in SUBSET Bits /\ w \in SUBSET (0..((m + 1) - 1))
  BY DEF Bits
<1>2. /\ s \subseteq Bits /\ ~c[0]
      /\ \A n \in Bits : n \in s <=> ~(n \in x <=> ~(n \in y <=> c[n]))
      /\ \A n \in 1..31 : c[n] <=> \/ n - 1 \in x /\ n - 1 \in y
                                   \/ (n - 1 \in x \/ n - 1 \in y) /\ c[n - 1]
  BY <1>1, SumByCarries
<1>3. /\ ADD(x, w) \subseteq Bits /\ ~e[0]
      /\ \A n \in Bits : n \in ADD(x, w) <=> ~(n \in x <=> ~(n \in w <=> e[n]))
      /\ \A n \in 1..31 : e[n] <=> \/ n - 1 \in x /\ n - 1 \in w
                                   \/ (n - 1 \in x \/ n - 1 \in w) /\ e[n - 1]
  <2> HIDE DEF w
  <2> QED BY <1>1, SumByCarries
<1>4. ASSUME NEW n \in Bits, n >= m PROVE c[n] <=> c[m] /\ Ones(x, m, n)
  <2>1. m \in 0..3 /\ y \subseteq 0..(m - 1)
    OBVIOUS
  <2> QED BY <1>4, <2>1, CarryOn
<1>5. \A n \in Bits : n >= m + 1 => (e[n] <=> e[m + 1] /\ Ones(x, m + 1, n))
  <2>1. m + 1 \in 0..3
    OBVIOUS
  <2> HIDE DEF w
  <2> QED BY <1>1, <2>1, CarryOn
<1>6. m \in w /\ m \notin y /\ \A i : i # m => (i \in w <=> i \in y)
  OBVIOUS
<1> HIDE DEF c, e, s, w
<1>7. \A n \in 0..m : e[n] <=> c[n]
  <2>1. e[0] <=> c[0]
    BY <1>2, <1>3
  <2>2. m >= 1 => (e[1] <=> c[1])
    <3>1. m >= 1 => (0 \in w <=> 0 \in y)
      BY <1>6
    <3>2. 1 \in 1..31 /\ 1 - 1 = 0
      OBVIOUS
    <3> QED BY <1>2, <1>3, <2>1, <3>1, <3>2
  <2>3. m >= 2 => (e[2] <=> c[2])
    <3>1. m >= 2 => (1 \in w <=> 1 \in y)
      BY <1>6
    <3>2. 2 \in 1..31 /\ 2 - 1 = 1
      OBVIOUS
    <3> QED BY <1>2, <1>3, <2>2, <3>1, <3>2
  <2>4. \A n \in 0..m : n = 0 \/ (n = 1 /\ m >= 1) \/ (n = 2 /\ m >= 2)
    OBVIOUS
  <2> QED BY <2>1, <2>2, <2>3, <2>4
<1>8. m \in Bits /\ m + 1 \in Bits
  BY DEF Bits
<1>9. m \in s <=> ~(m \in x <=> c[m])
  BY <1>2, <1>6, <1>8
<1>10. e[m + 1] <=> m \in x \/ c[m]
  <2>1. m + 1 \in 1..31 /\ (m + 1) - 1 = m /\ m \in 0..m
    OBVIOUS
  <2> QED BY <1>3, <1>6, <1>7, <2>1
<1>11. ASSUME NEW n \in Bits
       PROVE  n \in ADD(x, w) <=> n \in Up(s, m)
  <2>1. n \in ADD(x, w) <=> ~(n \in x <=> ~(n \in w <=> e[n]))
    BY <1>3
  <2>2. n \in s <=> ~(n \in x <=> ~(n \in y <=> c[n]))
    BY <1>2
  <2>3. n \in Up(s, m) <=> ~(n \in s <=> Ones(s, m, n))
    BY DEF Up
  <2>4. CASE n < m
    <3>1. ~Ones(s, m, n)
      BY <2>4 DEF Ones, Bits
    <3>2. n \in w <=> n \in y
      BY <1>6, <2>4 DEF Bits
    <3>3. e[n] <=> c[n]
      BY <1>7, <2>4 DEF Bits
    <3> QED BY <2>1, <2>2, <2>3, <3>1, <3>2, <3>3
  <2>5. CASE n = m
    <3>1. Ones(s, m, n)
      BY <2>5 DEF Ones
    <3>2. e[n] <=> c[n]
      BY <1>7, <2>5
    <3> QED BY <1>6, <2>1, <2>2, <2>3, <2>5, <3>1, <3>2
  <2>6. CASE n > m
    <3>0. \A j : j \in m..(n - 1) <=> j = m \/ j \in (m + 1)..(n - 1)
      BY <2>6 DEF Bits
    <3>1. \A z : Ones(z, m, n) <=> m \in z /\ Ones(z, m + 1, n)
      BY <3>0, <2>6 DEF Ones, Bits
    <3>2. n \notin w /\ n \notin y
      BY <1>1, <1>6, <2>6 DEF Bits
    <3>3. c[n] <=> c[m] /\ m \in x /\ Ones(x, m + 1, n)
      BY <1>4, <2>6, <3>1 DEF Bits
    <3>4. e[n] <=> (m \in x \/ c[m]) /\ Ones(x, m + 1, n)
      BY <1>5, <1>10, <2>6 DEF Bits
    <3>5. ~(c[m] /\ m \in x) => (Ones(s, m + 1, n) <=> Ones(x, m + 1, n))
      <4> SUFFICES ASSUME ~(c[m] /\ m \in x)
                   PROVE  Ones(s, m + 1, n) <=> Ones(x, m + 1, n)
        OBVIOUS
      <4>1. \A j \in (m + 1)..(n - 1) : j \in Bits /\ j > m /\ j >= m
        BY <2>6 DEF Bits
      <4>2. ASSUME NEW j \in (m + 1)..(n - 1) PROVE j \in s <=> j \in x
        <5>1. Ones(x, m, j) => m \in x
          <6>1. m \in m..(j - 1)
            OBVIOUS
          <6> QED BY <6>1 DEF Ones
        <5>2. ~c[j]
          BY <1>4, <4>1, <5>1
        <5>3. j \notin y
          BY <4>1
        <5> QED BY <1>2, <4>1, <5>2, <5>3
      <4> QED BY <4>2 DEF Ones
    <3> QED BY <1>9, <2>1, <2>2, <2>3, <3>1, <3>2, <3>3, <3>4, <3>5
  <2> QED BY <2>4, <2>5, <2>6 DEF Bits
<1>12. ADD(x, w) \subseteq Bits /\ Up(s, m) \subseteq Bits
  BY <1>3 DEF Up
<1> QED BY <1>11, <1>12 DEF s, w

\* The numbers that are added.
LEMMA Sums ==
  ASSUME NEW x \in SUBSET Bits
  PROVE  /\ ADD(x, {}) = x
         /\ ADD(x, {0}) = Up(x, 0)
         /\ ADD(x, {1}) = Up(x, 1)
         /\ ADD(x, {0, 1, 2}) = Up(Up(Up(x, 0), 1), 2)
<1>1. ADD(x, {}) = x
  <2>1. {} \in SUBSET Bits /\ {} \in SUBSET (0..(0 - 1))
    OBVIOUS
  <2>2. ASSUME NEW n \in Bits PROVE ~Carry(x, {})[n]
    <3>1. n >= 0
      BY DEF Bits
    <3>2. ~Carry(x, {})[0]
      BY <2>1, SumByCarries
    <3>3. 0 \in 0..3 /\ {} \subseteq 0..(0 - 1)
      OBVIOUS
    <3>4. Carry(x, {})[n] <=> Carry(x, {})[0] /\ Ones(x, 0, n)
      BY <3>1, <3>3, CarryOn
    <3> QED BY <3>2, <3>4
  <2>3. \A n \in Bits : n \in ADD(x, {}) <=> n \in x
    <3> SUFFICES ASSUME NEW n \in Bits PROVE n \in ADD(x, {}) <=> n \in x
      OBVIOUS
    <3>1. n \in ADD(x, {}) <=> ~(n \in x <=> ~(n \in {} <=> Carry(x, {})[n]))
      BY <2>1, SumByCarries
    <3> QED BY <2>2, <3>1
  <2> QED BY <2>1, <2>3, SumByCarries
<1>2. ADD(x, {0}) = Up(x, 0)
  <2>1. {} \cup {0} = {0} /\ {} \in SUBSET (0..(0 - 1))
    OBVIOUS
  <2> QED BY <1>1, <2>1, AddBit
<1>3. ADD(x, {1}) = Up(x, 1)
  <2>1. {} \cup {1} = {1} /\ {} \in SUBSET (0..(1 - 1))
    OBVIOUS
  <2> QED BY <1>1, <2>1, AddBit
<1>4. ADD(x, {0, 1}) = Up(Up(x, 0), 1)
  <2>1. {0} \cup {1} = {0, 1} /\ {0} \in SUBSET (0..(1 - 1))
    OBVIOUS
  <2> QED BY <1>2, <2>1, AddBit
<1>5. ADD(x, {0, 1, 2}) = Up(Up(Up(x, 0), 1), 2)
  <2>1. {0, 1} \cup {2} = {0, 1, 2} /\ {0, 1} \in SUBSET (0..(2 - 1))
    OBVIOUS
  <2> QED BY <1>4, <2>1, AddBit
<1> QED BY <1>1, <1>2, <1>3, <1>5

\* The numbers of the blocks after nc.
Counts(nc, u) ==
  /\ u \in [0..7 -> SUBSET Bits]
  /\ u[0] = Aes!Number(nc)
  /\ \A n \in 1..7 : u[n] = Up(u[n - 1], 0)
  /\ \A c \in Block : Aes!CounterBlock(nc, c) = Aes!Numbered(nc, u[c])

NumbersOf(nc, c, f) ==
  f = [n \in 0..c |-> IF n = 0 THEN Aes!Number(nc) ELSE Aes!Successor(f[n - 1])]

LEMMA Counting == ASSUME NEW nc PROVE \E u : Counts(nc, u)
<1> DEFINE F == [n \in 1..7 |-> [x \in SUBSET Bits |-> Up(x, 0)]]
<1>1. Aes!Number(nc) \in SUBSET Bits /\ \A x : Up(x, 0) \in SUBSET Bits
  BY DEF Aes!Number, Up, Bits
<1>2. F \in [1..7 -> [SUBSET Bits -> SUBSET Bits]]
  BY <1>1
<1>3. PICK u \in [0..7 -> SUBSET Bits] : Listed(u, 7, Aes!Number(nc), F)
  <2> HIDE DEF F
  <2> QED BY <1>1, <1>2, Recursion
<1>4. u[0] = Aes!Number(nc)
  BY <1>3 DEF Listed
<1>5. \A n \in 1..7 : u[n] = Up(u[n - 1], 0) /\ u[n] = Aes!Successor(u[n - 1])
  <2> SUFFICES ASSUME NEW n \in 1..7
               PROVE  u[n] = Up(u[n - 1], 0) /\ u[n] = Aes!Successor(u[n - 1])
    OBVIOUS
  <2>1. n - 1 \in 0..7
    OBVIOUS
  <2>2. u[n] = F[n][u[n - 1]] /\ u[n - 1] \in SUBSET Bits
    BY <2>1, <1>3 DEF Listed
  <2>3. u[n] = Up(u[n - 1], 0)
    BY <2>2
  <2> QED BY <2>2, <2>3, SuccessorIsUp
<1>6. ASSUME NEW c \in Block
      PROVE  Aes!CounterBlock(nc, c) = Aes!Numbered(nc, u[c])
  <2> DEFINE g == CHOOSE f : NumbersOf(nc, c, f)
  <2>1. \E f : NumbersOf(nc, c, f)
    <3> DEFINE f == [n \in 0..c |-> u[n]]
    <3>1. ASSUME NEW n \in 0..c
          PROVE  f[n] = IF n = 0 THEN Aes!Number(nc) ELSE Aes!Successor(f[n - 1])
      <4>1. CASE n = 0
        BY <1>4, <4>1
      <4>2. CASE n # 0
        <5>1. n \in 1..7 /\ n - 1 \in 0..c
          BY <4>2 DEF Block
        <5>2. f[n] = u[n] /\ f[n - 1] = u[n - 1]
          BY <5>1
        <5> HIDE DEF f
        <5> QED BY <1>5, <4>2, <5>1, <5>2
      <4> QED BY <4>1, <4>2
    <3>2. f = [n \in 0..c |-> f[n]]
      OBVIOUS
    <3> HIDE DEF f
    <3>3. NumbersOf(nc, c, f)
      BY <3>1, <3>2 DEF NumbersOf
    <3> QED BY <3>3
  <2>2. NumbersOf(nc, c, g)
    BY <2>1
  <2>3. Aes!CounterBlock(nc, c) = Aes!Numbered(nc, g[c])
    BY DEF Aes!CounterBlock, NumbersOf
  <2> HIDE DEF g
  <2> DEFINE T == {n \in Nat : n <= c => g[n] = u[n]}
  <2>4. 0 \in T
    BY <2>2, <1>4 DEF NumbersOf, Block
  <2>5. ASSUME NEW n \in Nat, n \in T PROVE n + 1 \in T
    <3> SUFFICES ASSUME n + 1 <= c PROVE g[n + 1] = u[n + 1]
      OBVIOUS
    <3>1. n + 1 \in 1..7 /\ n + 1 \in 0..c /\ (n + 1) - 1 = n /\ n + 1 # 0
      BY DEF Block
    <3>2. g[n] = u[n]
      <4>1. n <= c
        BY DEF Block
      <4> QED BY <2>5, <4>1
    <3>3. g[n + 1] = Aes!Successor(g[n])
      BY <2>2, <3>1 DEF NumbersOf
    <3> QED BY <1>5, <3>1, <3>2, <3>3
  <2> HIDE DEF T
  <2>6. c \in T
    <3>1. c \in Nat
      BY DEF Block
    <3> QED BY <2>4, <2>5, <3>1, Induction
  <2> QED BY <2>3, <2>6 DEF T, Block
<1> QED BY <1>3, <1>4, <1>5, <1>6 DEF Counts

\* Two numbers further on.
LEMMA CountsByTwo ==
  ASSUME NEW nc, NEW u, Counts(nc, u)
  PROVE  /\ \A n \in 0..5 : u[n + 2] = Up(u[n], 1)
         /\ u[7] = Up(u[3], 2)
<1>1. \A n \in 0..7 : u[n] \in SUBSET Bits
  BY DEF Counts
<1>2. ASSUME NEW n \in 0..5 PROVE u[n + 2] = Up(u[n], 1)
  <2>1. n + 1 \in 1..7 /\ n + 2 \in 1..7 /\ (n + 1) - 1 = n /\ (n + 2) - 1 = n + 1
    OBVIOUS
  <2>2. u[n + 2] = Up(Up(u[n], 0), 0)
    BY <2>1 DEF Counts
  <2>3. u[n] \in SUBSET Bits /\ 0 \in 0..2 /\ 0 + 1 = 1
    BY <1>1
  <2>4. Up(Up(u[n], 0), 0) = Up(u[n], 0 + 1)
    BY <2>3, UpTwice
  <2> QED BY <2>2, <2>3, <2>4
<1>3. u[7] = Up(u[3], 2)
  <2>1. u[3 + 2] = Up(u[3], 1) /\ u[5 + 2] = Up(u[5], 1)
    <3>1. 3 \in 0..5 /\ 5 \in 0..5
      OBVIOUS
    <3> QED BY <1>2, <3>1
  <2>2. u[7] = Up(Up(u[3], 1), 1)
    BY <2>1
  <2>3. u[3] \in SUBSET Bits /\ 1 \in 0..2 /\ 1 + 1 = 2
    BY <1>1
  <2>4. Up(Up(u[3], 1), 1) = Up(u[3], 1 + 1)
    BY <2>3, UpTwice
  <2> QED BY <2>2, <2>3, <2>4
<1> QED BY <1>2, <1>3

\* A counter block with its last word reversed, as the vector sums have it.
Swapped(nc, x) == [i \in Lane |-> IF i < 12 THEN nc[i] ELSE DwordByte(x, i - 12)]

LEMMA BitIndex ==
  \A n \in Bits : /\ n \div 8 \in 0..3 /\ n % 8 \in 0..7
                  /\ 8 * (n \div 8) + (n % 8) = n
BY DEF Bits

LEMMA BitOf ==
  \A j \in 0..3, b \in 0..7 : /\ 8 * j + b \in Bits
                              /\ (8 * j + b) \div 8 = j /\ (8 * j + b) % 8 = b
BY DEF Bits

LEMMA SwapIn ==
  ASSUME NEW nc \in Reg
  PROVE  VPSHUFB(nc, ctrswap) = Swapped(nc, Aes!Number(nc))
<1>1. ASSUME NEW i \in Lane
      PROVE  VPSHUFB(nc, ctrswap)[i] = Swapped(nc, Aes!Number(nc))[i]
  <2>1. VPSHUFB(nc, ctrswap)[i] = IF ctrswap[i] >= 128 THEN Zero ELSE nc[ctrswap[i] % 16]
    BY DEF VPSHUFB
  <2>2. CASE i < 12
    <3>1. ctrswap[i] = i /\ ~(i >= 128) /\ i % 16 = i
      BY <2>2 DEF ctrswap, Lane
    <3>2. Swapped(nc, Aes!Number(nc))[i] = nc[i]
      BY <2>2 DEF Swapped
    <3> QED BY <2>1, <3>1, <3>2
  <2>3. CASE i >= 12
    <3> DEFINE j == i - 12
    <3>1. ctrswap[i] = 27 - i /\ ~(27 - i >= 128) /\ (27 - i) % 16 = 27 - i
          /\ 27 - i \in Lane /\ j \in 0..3 /\ 15 - j = 27 - i
      BY <2>3 DEF ctrswap, Lane
    <3>2. Swapped(nc, Aes!Number(nc))[i] = DwordByte(Aes!Number(nc), j)
      BY <2>3 DEF Swapped, Lane
    <3> HIDE DEF j
    <3>3. nc[27 - i] \subseteq 0..7
      BY <3>1, BitAssumption DEF Reg, Byte
    <3>4. \A b \in 0..7 : 8 * j + b \in Aes!Number(nc) <=> b \in nc[15 - j]
      BY <3>1, BitOf DEF Aes!Number, Bits
    <3>5. DwordByte(Aes!Number(nc), j) = nc[27 - i]
      BY <3>1, <3>3, <3>4, BitAssumption DEF DwordByte
    <3> QED BY <2>1, <3>1, <3>2, <3>5
  <2> QED BY <2>2, <2>3 DEF Lane
<1> QED BY <1>1 DEF VPSHUFB, Swapped

\* The other way, to a counter block.
LEMMA SwapOut ==
  ASSUME NEW nc \in Reg, NEW x \in SUBSET Bits
  PROVE  VPSHUFB(Swapped(nc, x), ctrswap) = Aes!Numbered(nc, x)
<1> DEFINE s == Swapped(nc, x)
<1>1. ASSUME NEW i \in Lane PROVE VPSHUFB(s, ctrswap)[i] = Aes!Numbered(nc, x)[i]
  <2>1. VPSHUFB(s, ctrswap)[i] = IF ctrswap[i] >= 128 THEN Zero ELSE s[ctrswap[i] % 16]
    BY DEF VPSHUFB
  <2>2. CASE i < 12
    <3>1. ctrswap[i] = i /\ ~(i >= 128) /\ i % 16 = i
      BY <2>2 DEF ctrswap, Lane
    <3>2. s[i] = nc[i] /\ Aes!Numbered(nc, x)[i] = nc[i]
      BY <2>2 DEF Swapped, Aes!Numbered, Lane
    <3> QED BY <2>1, <3>1, <3>2
  <2>3. CASE i >= 12
    <3>1. ctrswap[i] = 27 - i /\ ~(27 - i >= 128) /\ (27 - i) % 16 = 27 - i
          /\ 27 - i \in Lane /\ ~(27 - i < 12) /\ (27 - i) - 12 = 15 - i
      BY <2>3 DEF ctrswap, Lane
    <3>2. s[27 - i] = DwordByte(x, 15 - i)
      BY <3>1 DEF Swapped
    <3>3. Aes!Numbered(nc, x)[i] = {b \in 0..7 : 8 * (15 - i) + b \in x}
      BY <2>3 DEF Aes!Numbered, Lane
    <3>4. DwordByte(x, 15 - i) = {b \in 0..7 : 8 * (15 - i) + b \in x}
      BY BitAssumption DEF DwordByte
    <3> QED BY <2>1, <3>1, <3>2, <3>3, <3>4
  <2> QED BY <2>2, <2>3 DEF Lane
<1> QED BY <1>1 DEF VPSHUFB, Aes!Numbered, Lane

\* A register's last doubleword and the bits of the small numbers.
LEMMA DwordOf ==
  /\ \A nc, x : x \in SUBSET Bits => Dword(Swapped(nc, x), 3) = x
  /\ Dword(lastDword(1), 3) = {0} /\ Dword(lastDword(2), 3) = {1}
  /\ \A n : \A d \in 0..2 : Dword(lastDword(n), d) = {}
<1>0. \A a, d : Dword(a, d) = {n \in Bits : (n % 8) \in a[4 * d + n \div 8]}
  BY DEF Dword, Bits
<1>1. ASSUME NEW nc, NEW x \in SUBSET Bits PROVE Dword(Swapped(nc, x), 3) = x
  <2> DEFINE s == Swapped(nc, x)
  <2>1. ASSUME NEW n \in Bits PROVE (n % 8) \in s[4 * 3 + n \div 8] <=> n \in x
    <3> DEFINE j == n \div 8
               b == n % 8
    <3>1. j \in 0..3 /\ b \in 0..7 /\ 8 * j + b = n
      BY BitIndex
    <3> HIDE DEF j, b
    <3>2. 4 * 3 + j \in Lane /\ ~(4 * 3 + j < 12) /\ (4 * 3 + j) - 12 = j
      BY <3>1 DEF Lane
    <3>3. s[4 * 3 + j] = DwordByte(x, j)
      BY <3>2 DEF Swapped
    <3>4. b \in DwordByte(x, j) <=> 8 * j + b \in x
      BY <3>1, BitAssumption DEF DwordByte
    <3> QED BY <3>1, <3>3, <3>4 DEF j, b
  <2> HIDE DEF s
  <2> QED BY <1>0, <2>1 DEF s
<1>2. /\ Hex(1) = {0} /\ Hex(2) = {1}
  <2>1. 2^0 = 1 /\ 2^1 = 2 /\ 2^2 = 4 /\ 2^3 = 8 /\ 2^4 = 16 /\ 2^5 = 32
        /\ 2^6 = 64 /\ 2^7 = 128
    OBVIOUS
  <2>2. \A m \in 1..2 : /\ (m \div 4) % 2 # 1 /\ (m \div 8) % 2 # 1
                        /\ (m \div 16) % 2 # 1 /\ (m \div 32) % 2 # 1
                        /\ (m \div 64) % 2 # 1 /\ (m \div 128) % 2 # 1
    OBVIOUS
  <2>3. /\ (1 \div 1) % 2 = 1 /\ (1 \div 2) % 2 # 1
        /\ (2 \div 1) % 2 # 1 /\ (2 \div 2) % 2 = 1
    OBVIOUS
  <2> DEFINE P(m, i) == (m \div 2^i) % 2 = 1
  <2>4. \A m \in 1..2 : ~P(m, 2) /\ ~P(m, 3) /\ ~P(m, 4) /\ ~P(m, 5) /\ ~P(m, 6) /\ ~P(m, 7)
    BY <2>1, <2>2
  <2>5. P(1, 0) /\ ~P(1, 1) /\ ~P(2, 0) /\ P(2, 1)
    BY <2>1, <2>3
  <2>6. \A m : Hex(m) = {i \in 0..7 : P(m, i)}
    BY BitAssumption DEF Hex
  <2> HIDE DEF P
  <2>7. \A m \in 1..2, i \in 0..7 : P(m, i) <=> (m = 1 /\ i = 0) \/ (m = 2 /\ i = 1)
    <3> SUFFICES ASSUME NEW m \in 1..2, NEW i \in 0..7
                 PROVE  P(m, i) <=> (m = 1 /\ i = 0) \/ (m = 2 /\ i = 1)
      OBVIOUS
    <3>1. m = 1 \/ m = 2
      OBVIOUS
    <3>2. i = 0 \/ i = 1 \/ i = 2 \/ i = 3 \/ i = 4 \/ i = 5 \/ i = 6 \/ i = 7
      OBVIOUS
    <3> QED BY <2>4, <2>5, <3>1, <3>2
  <2> QED BY <2>6, <2>7
<1>3. ASSUME NEW m \in 1..2 PROVE Dword(lastDword(m), 3) = {m - 1}
  <2>1. Hex(m) = {m - 1} /\ m - 1 \in Bits
    BY <1>2 DEF Bits
  <2>2. ASSUME NEW n \in Bits
        PROVE  (n % 8) \in lastDword(m)[4 * 3 + n \div 8] <=> n = m - 1
    <3> DEFINE j == n \div 8
               b == n % 8
    <3>1. j \in 0..3 /\ b \in 0..7 /\ 8 * j + b = n
      BY BitIndex
    <3> HIDE DEF j, b
    <3>2. 4 * 3 + j \in Lane /\ (4 * 3 + j = 12 <=> j = 0)
      BY <3>1 DEF Lane
    <3>3. lastDword(m)[4 * 3 + j] = IF j = 0 THEN Hex(m) ELSE Zero
      BY <3>2 DEF lastDword
    <3>4. (j = 0 /\ b = m - 1) <=> n = m - 1
      BY <3>1
    <3> QED BY <2>1, <3>3, <3>4 DEF j, b, Zero
  <2> QED BY <1>0, <2>1, <2>2
<1>4. ASSUME NEW m, NEW d \in 0..2 PROVE Dword(lastDword(m), d) = {}
  <2>1. ASSUME NEW n \in Bits PROVE (n % 8) \notin lastDword(m)[4 * d + n \div 8]
    <3> DEFINE j == n \div 8
    <3>1. j \in 0..3
      BY BitIndex
    <3> HIDE DEF j
    <3>2. 4 * d + j \in Lane /\ 4 * d + j # 12
      BY <3>1 DEF Lane
    <3>3. lastDword(m)[4 * d + j] = Zero
      BY <3>2 DEF lastDword
    <3> QED BY <3>3 DEF j, Zero
  <2> QED BY <1>0, <2>1
<1>5. 1 \in 1..2 /\ 2 \in 1..2 /\ 1 - 1 = 0 /\ 2 - 1 = 1
  OBVIOUS
<1> QED BY <1>1, <1>3, <1>4, <1>5

\* A vector sum of a small number adds to the last doubleword only.
LEMMA SwappedSum ==
  ASSUME NEW nc \in Reg, NEW x \in SUBSET Bits, NEW n \in 1..2
  PROVE  Held(VPADDD(Swapped(nc, x), lastDword(n))) = Swapped(nc, Up(x, n - 1))
<1> DEFINE s == Swapped(nc, x)
           t == lastDword(n)
           z == VPADDD(s, t)
           sum == [d \in 0..3 |-> ADD(Dword(s, d), Dword(t, d))]
<1>1. Held(z) = z
  BY HeldIsSame DEF VPADDD
<1>2. \A i \in Lane : z[i] = DwordByte(sum[i \div 4], i % 4)
  BY DEF VPADDD
<1>3. sum[3] = Up(x, n - 1)
  <2>1. Dword(s, 3) = x
    BY DwordOf
  <2>2. sum[3] = ADD(x, Dword(t, 3))
    BY <2>1
  <2> HIDE DEF sum
  <2>3. CASE n = 1
    <3>1. Dword(t, 3) = {0} /\ n - 1 = 0
      BY <2>3, DwordOf
    <3> QED BY <2>2, <3>1, Sums
  <2>4. CASE n = 2
    <3>1. Dword(t, 3) = {1} /\ n - 1 = 1
      BY <2>4, DwordOf
    <3> QED BY <2>2, <3>1, Sums
  <2> QED BY <2>3, <2>4
<1>4. ASSUME NEW d \in 0..2 PROVE sum[d] = Dword(s, d)
  <2>1. Dword(s, d) \in SUBSET Bits
    BY DEF Dword, Bits
  <2>2. Dword(t, d) = {} /\ d \in 0..3
    BY DwordOf
  <2> QED BY <2>1, <2>2, Sums
<1>5. ASSUME NEW i \in Lane PROVE z[i] = Swapped(nc, Up(x, n - 1))[i]
  <2>1. CASE i < 12
    <3> DEFINE d == i \div 4
               j == i % 4
    <3>1. d \in 0..2 /\ j \in 0..3 /\ 4 * d + j = i
      BY <2>1 DEF Lane
    <3> HIDE DEF d, j
    <3>2. s[i] = nc[i] /\ Swapped(nc, Up(x, n - 1))[i] = nc[i]
      BY <2>1 DEF Swapped
    <3>3. nc[i] \subseteq 0..7
      BY BitAssumption DEF Reg, Byte
    <3>4. \A b \in 0..7 : 8 * j + b \in Dword(s, d) <=> b \in s[i]
      <4> SUFFICES ASSUME NEW b \in 0..7
                   PROVE  8 * j + b \in Dword(s, d) <=> b \in s[i]
        OBVIOUS
      <4> DEFINE m == 8 * j + b
      <4>1. m \in 0..31 /\ m \div 8 = j /\ m % 8 = b
        BY <3>1, BitOf DEF Bits
      <4> HIDE DEF m, s
      <4>2. m \in Dword(s, d) <=> (m % 8) \in s[4 * d + m \div 8]
        BY <4>1 DEF Dword
      <4> QED BY <3>1, <4>1, <4>2 DEF m
    <3> HIDE DEF s, z, sum
    <3>5. DwordByte(Dword(s, d), j) = nc[i]
      BY <3>2, <3>3, <3>4, BitAssumption DEF DwordByte
    <3>6. z[i] = DwordByte(sum[d], j)
      BY <1>2 DEF d, j
    <3> QED BY <1>4, <3>1, <3>2, <3>5, <3>6
  <2>2. CASE i >= 12
    <3>1. i \div 4 = 3 /\ i % 4 = i - 12 /\ ~(i < 12)
      BY <2>2 DEF Lane
    <3>2. Swapped(nc, Up(x, n - 1))[i] = DwordByte(Up(x, n - 1), i - 12)
      BY <3>1 DEF Swapped
    <3> HIDE DEF s, z, sum
    <3> QED BY <1>2, <1>3, <3>1, <3>2
  <2> QED BY <2>1, <2>2 DEF Lane
<1> QED BY <1>1, <1>5 DEF VPADDD, Swapped

\* The last counter, made in integer registers with both swaps.
LEMMA LastCounter ==
  ASSUME NEW nc \in Reg, NEW k0 \in Reg, NEW r9, r9 \in SUBSET Bits
  PROVE  VPINSRD(VPXOR(nc, k0), 3, {n \in 0..31 : (n \in BSWAP(r9)) # (n \in Dword(k0, 3))})
           = VPXOR(Aes!Numbered(nc, r9), k0)
<1> DEFINE x0 == VPXOR(nc, k0)
           w == {n \in 0..31 : (n \in BSWAP(r9)) # (n \in Dword(k0, 3))}
           x7 == VPINSRD(x0, 3, w)
           y == VPXOR(Aes!Numbered(nc, r9), k0)
<1>1. \A i \in Lane : x7[i] = IF i \div 4 = 3 THEN DwordByte(w, i % 4) ELSE x0[i]
  BY DEF VPINSRD
<1>2. \A i \in Lane : /\ x0[i] = nc[i] (+) k0[i]
                      /\ y[i] = Aes!Numbered(nc, r9)[i] (+) k0[i]
  BY DEF VPXOR
<1> HIDE DEF x0, w
<1>3. ASSUME NEW i \in Lane PROVE x7[i] = y[i]
  <2>1. CASE i < 12
    <3>1. i \div 4 # 3
      BY <2>1 DEF Lane
    <3>2. Aes!Numbered(nc, r9)[i] = nc[i]
      BY <2>1 DEF Aes!Numbered, Lane
    <3> HIDE DEF x7, y
    <3> QED BY <1>1, <1>2, <3>1, <3>2
  <2>2. CASE i >= 12
    <3> DEFINE j == i % 4
    <3>1. i \div 4 = 3 /\ j \in 0..3 /\ i = 12 + j /\ 15 - i = 3 - j /\ ~(i < 12)
      BY <2>2 DEF Lane
    <3> HIDE DEF j
    <3>2. Aes!Numbered(nc, r9)[i] = {b \in 0..7 : 8 * (3 - j) + b \in r9}
      BY <3>1 DEF Aes!Numbered, Lane
    <3>3. k0[i] \subseteq 0..7
      BY BitAssumption DEF Reg, Byte
    <3>4. ASSUME NEW b \in 0..7
          PROVE  8 * j + b \in w <=> ~(8 * (3 - j) + b \in r9 <=> b \in k0[i])
      <4> DEFINE m == 8 * j + b
      <4>1. m \in 0..31 /\ m \div 8 = j /\ m % 8 = b
        BY <3>1, BitOf DEF Bits
      <4> HIDE DEF m
      <4> DEFINE P == m \in BSWAP(r9)
                 Q == m \in Dword(k0, 3)
      <4>2. P <=> 8 * (3 - j) + b \in r9
        BY <4>1 DEF BSWAP
      <4>3. Q <=> b \in k0[i]
        BY <3>1, <4>1 DEF Dword
      <4>4. m \in w <=> P # Q
        BY <4>1 DEF w
      <4>5. P \in BOOLEAN /\ Q \in BOOLEAN
        OBVIOUS
      <4> HIDE DEF P, Q
      <4>6. (P # Q) <=> ~(P <=> Q)
        BY <4>5
      <4> QED BY <4>2, <4>3, <4>4, <4>6 DEF m
    <3>5. DwordByte(w, j) = {b \in 0..7 : 8 * j + b \in w}
      BY BitAssumption DEF DwordByte
    <3>6. DwordByte(w, j) = {b \in 0..7 : 8 * (3 - j) + b \in r9} (+) k0[i]
      BY <3>3, <3>4, <3>5 DEF (+)
    <3> HIDE DEF x7, y
    <3> QED BY <1>1, <1>2, <3>1, <3>2, <3>6 DEF j
  <2> QED BY <2>1, <2>2 DEF Lane
<1> QED BY <1>3 DEF VPINSRD, VPXOR, w, x0

LEMMA SwappedNumber ==
  ASSUME NEW nc \in Reg PROVE BSWAP(Dword(nc, 3)) = Aes!Number(nc)
<1>1. ASSUME NEW n \in Bits PROVE n \in BSWAP(Dword(nc, 3)) <=> n \in Aes!Number(nc)
  <2> DEFINE j == n \div 8
             b == n % 8
  <2>1. j \in 0..3 /\ b \in 0..7 /\ 3 - j \in 0..3
    BY BitIndex
  <2> DEFINE m == 8 * (3 - j) + b
  <2>2. n \in BSWAP(Dword(nc, 3)) <=> m \in Dword(nc, 3)
    BY DEF BSWAP, Bits
  <2>3. n \in Aes!Number(nc) <=> b \in nc[15 - j]
    BY DEF Aes!Number, Bits
  <2> HIDE DEF j, b, m
  <2>4. m \in 0..31 /\ m \div 8 = 3 - j /\ m % 8 = b
    BY <2>1, BitOf DEF m, Bits
  <2>5. m \in Dword(nc, 3) <=> b \in nc[4 * 3 + (3 - j)]
    BY <2>4 DEF Dword
  <2>6. 4 * 3 + (3 - j) = 15 - j
    BY <2>1
  <2> QED BY <2>2, <2>3, <2>5, <2>6
<1>2. BSWAP(Dword(nc, 3)) \subseteq Bits /\ Aes!Number(nc) \subseteq Bits
  BY DEF BSWAP, Aes!Number, Bits
<1> QED BY <1>1, <1>2

\* Every counter is the reference's, wherever it is made, and whitened.
LEMMA CountersAreCounters ==
  ASSUME NEW nc \in Reg, NEW k0 \in Reg, NEW c \in Block
  PROVE  /\ counters(nc, k0)[c] = VPXOR(Aes!CounterBlock(nc, c), k0)
         /\ counters(nc, k0) = [b \in Block |-> counters(nc, k0)[b]]
<1>1. PICK u : Counts(nc, u)
  BY Counting
<1>2. \A n \in 0..7 : u[n] \in SUBSET Bits
  BY <1>1 DEF Counts
<1>3. \A n \in 0..5 : u[n + 2] = Up(u[n], 1)
  BY <1>1, CountsByTwo
<1>4. u[1] = Up(u[0], 0)
  BY <1>1 DEF Counts
<1> DEFINE swapped == Held(VPSHUFB(nc, ctrswap))
           plus(a, n) == Held(VPADDD(a, lastDword(n)))
           y1 == <<plus(swapped, 1), plus(swapped, 2)>>
           y3 == <<plus(y1[1], 2), plus(y1[2], 2)>>
           y5 == <<plus(y3[1], 2), plus(y3[2], 2)>>
           ready(y) == VPXOR(VPSHUFB(y, ctrswap), k0)
           r9 == ADD(BSWAP(Dword(nc, 3)), {0, 1, 2})
           x0 == VPXOR(nc, k0)
           x7 == VPINSRD(x0, 3, {n \in 0..31 : (n \in BSWAP(r9)) # (n \in Dword(k0, 3))})
           S(n) == Swapped(nc, u[n])
           made(b) == CASE b = 0 -> x0
                        [] b \in 1..2 -> ready(y1[b])
                        [] b \in 3..4 -> ready(y3[b - 2])
                        [] b \in 5..6 -> ready(y5[b - 4])
                        [] b = 7 -> x7
<1>5. counters(nc, k0)[c] = made(c) /\ counters(nc, k0) = [b \in Block |-> counters(nc, k0)[b]]
  <2>1. counters(nc, k0) = [b \in Block |-> made(b)]
    BY DEF counters
  <2> HIDE DEF made
  <2> QED BY <2>1
<1>6. swapped = S(0)
  <2>1. Held(VPSHUFB(nc, ctrswap)) = VPSHUFB(nc, ctrswap)
    BY HeldIsSame DEF VPSHUFB
  <2> QED BY <1>1, <2>1, SwapIn DEF Counts
<1>7. /\ plus(S(0), 1) = S(1)
      /\ \A n \in 0..5 : plus(S(n), 2) = S(n + 2)
  <2>1. plus(S(0), 1) = Swapped(nc, Up(u[0], 1 - 1))
    BY <1>2, SwappedSum
  <2>2. ASSUME NEW n \in 0..5 PROVE plus(S(n), 2) = S(n + 2)
    <3>1. u[n] \in SUBSET Bits /\ 2 \in 1..2 /\ 2 - 1 = 1
      BY <1>2
    <3>2. plus(S(n), 2) = Swapped(nc, Up(u[n], 2 - 1))
      BY <3>1, SwappedSum
    <3> QED BY <1>3, <3>1, <3>2
  <2> QED BY <1>4, <2>1, <2>2
<1> HIDE DEF swapped, plus, S
<1>8. /\ y1[1] = S(1) /\ y1[2] = S(2)
      /\ y3[1] = S(3) /\ y3[2] = S(4)
      /\ y5[1] = S(5) /\ y5[2] = S(6)
  <2>1. y1[1] = S(1) /\ y1[2] = S(2)
    BY <1>6, <1>7
  <2>2. y3[1] = S(3) /\ y3[2] = S(4)
    BY <1>7, <2>1
  <2>3. y5[1] = S(5) /\ y5[2] = S(6)
    BY <1>7, <2>2
  <2> QED BY <2>1, <2>2, <2>3
<1>9. \A n \in 0..7 : ready(S(n)) = VPXOR(Aes!CounterBlock(nc, n), k0)
  BY <1>1, <1>2, SwapOut DEF Counts, Block, S
<1>10. x0 = VPXOR(Aes!CounterBlock(nc, 0), k0)
  <2>1. nc = VPSHUFB(S(0), ctrswap)
    <3>1. Aes!Numbered(nc, Aes!Number(nc)) = nc
      <4>1. ASSUME NEW i \in Lane PROVE Aes!Numbered(nc, Aes!Number(nc))[i] = nc[i]
        <5>1. CASE i < 12
          BY <5>1 DEF Aes!Numbered, Lane
        <5>2. CASE i >= 12
          <6> DEFINE j == 15 - i
          <6>1. j \in 0..3 /\ 15 - j = i /\ ~(i < 12)
            BY <5>2 DEF Lane
          <6>2. nc[i] \subseteq 0..7
            BY BitAssumption DEF Reg, Byte
          <6> HIDE DEF j
          <6>3. \A b \in 0..7 : 8 * j + b \in Aes!Number(nc) <=> b \in nc[15 - j]
            BY <6>1, BitOf DEF Aes!Number, Bits
          <6>4. Aes!Numbered(nc, Aes!Number(nc))[i]
                  = {b \in 0..7 : 8 * j + b \in Aes!Number(nc)}
            BY <6>1 DEF Aes!Numbered, Lane, j
          <6> QED BY <6>1, <6>2, <6>3, <6>4
        <5> QED BY <5>1, <5>2 DEF Lane
      <4> QED BY <4>1 DEF Aes!Numbered, Reg, Lane
    <3> QED BY <1>1, <1>2, <3>1, SwapOut DEF Counts, S
  <2> QED BY <1>1, <1>2, <2>1, <1>9
<1>11. x7 = VPXOR(Aes!CounterBlock(nc, 7), k0)
  <2>1. r9 = u[7]
    <3>1. r9 = Up(Up(Up(u[0], 0), 1), 2)
      BY <1>1, <1>2, Sums, SwappedNumber DEF Counts
    <3>2. Up(u[1], 1) = u[3]
      BY <1>3
    <3>3. u[7] = Up(u[3], 2)
      BY <1>1, CountsByTwo
    <3> QED BY <1>4, <3>1, <3>2, <3>3
  <2> HIDE DEF r9
  <2>2. r9 \in SUBSET Bits /\ 7 \in Block
    BY <1>2, <2>1 DEF Block
  <2>3. x7 = VPXOR(Aes!Numbered(nc, r9), k0)
    BY <2>2, LastCounter
  <2> QED BY <1>1, <2>1, <2>2, <2>3 DEF Counts
<1> HIDE DEF x0, x7, ready, y1, y3, y5
<1>12. c = 0 \/ c = 1 \/ c = 2 \/ c = 3 \/ c = 4 \/ c = 5 \/ c = 6 \/ c = 7
  BY DEF Block
<1> DEFINE z == counters(nc, k0)[c]
<1>13. CASE c = 0
  <2>1. z = x0
    BY <1>5, <1>13
  <2> QED BY <1>5, <1>10, <1>13, <2>1
<1>14. CASE c \in 1..2
  <2>1. z = ready(y1[c])
    BY <1>5, <1>14
  <2> QED BY <1>5, <1>8, <1>9, <1>14, <2>1
<1>15. CASE c \in 3..4
  <2>1. z = ready(y3[c - 2])
    BY <1>5, <1>15
  <2> QED BY <1>5, <1>8, <1>9, <1>15, <2>1
<1>16. CASE c \in 5..6
  <2>1. z = ready(y5[c - 4])
    BY <1>5, <1>16
  <2> QED BY <1>5, <1>8, <1>9, <1>16, <2>1
<1>17. CASE c = 7
  <2>1. z = x7
    BY <1>5, <1>17
  <2> QED BY <1>5, <1>11, <1>17, <2>1
<1> QED BY <1>5, <1>12, <1>13, <1>14, <1>15, <1>16, <1>17

-----------------------------------------------------------------------------
(* The cipher                                                              *)

Text(q, c) == Aes!CounterBlock(q.n, c)

State(q, c, r) == Aes!States(Schedules[q.k], Text(q, c))[r]

\* What Held leaves of the cipher: a function of key, nonce and block.
LEMMA CipherFunction ==
  Cipher = [c \in Keys \X Nonces \X Block |->
              Held(Aes!Encrypted(Schedules[c[1]], Held(Aes!CounterBlock(c[2], c[3]))))]
BY DEF Cipher, Held

\* The cipher is the reference's, and its blocks fill a register.
LEMMA CipherBlocks ==
  ASSUME NEW k \in Keys, NEW n \in Nonces, NEW c \in Block
  PROVE  /\ Aes!CounterBlock(n, c) \in Reg
         /\ Cipher[<<k, n, c>>] = Aes!Encrypted(Schedules[k], Aes!CounterBlock(n, c))
         /\ Cipher[<<k, n, c>>] \in Reg
<1> DEFINE s == Schedules[k]
           text == Aes!CounterBlock(n, c)
           a == Aes!States(s, text)[13]
<1>1. s \in [Aes!Buffer -> Byte] /\ n \in Reg
  BY SchedulesTyped, NonceAssumption DEF Reg, Lane
<1>2. text \in Reg
  <2>1. PICK u : Counts(n, u)
    BY Counting
  <2>2. text = Aes!Numbered(n, u[c])
    BY <2>1 DEF Counts
  <2>3. \A i \in Lane : text[i] \in Byte /\ text = [j \in Lane |-> text[j]]
    BY <1>1, <2>2, BitAssumption DEF Aes!Numbered, Lane, Byte, Reg
  <2> HIDE DEF text
  <2>4. 0 \in Lane
    BY DEF Lane
  <2> QED BY <2>3, <2>4 DEF Reg
<1> HIDE DEF s, text
<1>3. a \in Reg
  BY <1>1, <1>2, StateByState
<1> HIDE DEF a
<1>4. IsKey(Load(s, 16 * 14), s, 14)
  BY <1>1, KeyLoaded
<1>5. Aes!last(a, s) \in Reg
  BY <1>3, <1>4, LastIsLast
<1>6. Aes!Encrypted(s, text) = Aes!last(a, s)
  BY DEF Aes!Encrypted, a
<1>7. \A r \in Reg : Held(r) = r
  BY HeldIsSame DEF Reg
<1>8. Cipher[<<k, n, c>>] = Aes!Encrypted(s, text)
  <2>1. Cipher[<<k, n, c>>] = Held(Aes!Encrypted(s, Held(text)))
    BY CipherFunction DEF s, text
  <2>2. Held(text) = text
    BY <1>2, <1>7
  <2> QED BY <1>5, <1>6, <1>7, <2>1, <2>2
<1> QED BY <1>2, <1>5, <1>6, <1>8 DEF s, text

LEMMA CipherTyped == Cipher \in [Keys \X Nonces \X Block -> Reg]
<1>1. ASSUME NEW p \in Keys \X Nonces \X Block PROVE Cipher[p] \in Reg
  <2>1. p = <<p[1], p[2], p[3]>> /\ p[1] \in Keys /\ p[2] \in Nonces /\ p[3] \in Block
    OBVIOUS
  <2> QED BY <2>1, CipherBlocks
<1>2. Cipher = [p \in Keys \X Nonces \X Block |-> Cipher[p]]
  BY CipherFunction
<1> QED BY <1>1, <1>2

-----------------------------------------------------------------------------
(* The inductive invariant                                                 *)

\* Where a call is, and what is left of it.
Counted ==
  /\ pc # "idle" => calls > 0
  /\ pc \in {"entry", "fly", "round2", "ctr", "half", "last", "store"} => LEN = req.len
  /\ pc \notin {"idle", "entry", "undefined"} => req.len \in 1..128
  /\ pc = "half" => I # 0
  /\ pc \in {"fly", "round2", "ctr", "half", "last"} => block = 0
  /\ pc = "store" => 16 * block < req.len
  /\ pc = "mopup" => LEN >= 1 /\ rcx = 16 * block /\ rcx + LEN = req.len

\* The round constant that the next even round key needs.
Constants ==
  /\ pc \in {"fly", "round2"} => ConstantOn(RC, Columns, Rcon[2])
  /\ pc = "fly" => T0 = SubLast(KEY1)
  /\ pc = "ctr" => ConstantOn(RC, Columns, Rcon[7 - I])
  /\ pc = "half" => ConstantOn(RC, Columns, Rcon[8 - I])

\* The branch's blocks are in the states of the reference, round by round.
Blocks(r) == \A c \in Block : c < fly(req.len) => X[c] = State(req, c, r)

Rounds == /\ pc = "fly" => Blocks(0)
          /\ pc = "round2" => Blocks(1)
          /\ pc = "ctr" => Blocks(12 - 2 * I)
          /\ pc = "half" => Blocks(13 - 2 * I)
          /\ pc = "last" => Blocks(13)

\* Byte o of a call's keystream, and memory m when p bytes are written.
KeyByte(q, o) == Cipher[<<q.k, q.n, o \div 16>>][o % 16]

Output(m, m0, q, p) ==
  \A a \in MemAddr : m[a] = IF a \in q.out..(q.out + p - 1)
                            THEN m0[q.in + (a - q.out)] (+) KeyByte(q, a - q.out)
                            ELSE m0[a]

\* The keystream is where the stores take it from.
Ready ==
  /\ pc = "store" => \A c \in Block : c < fly(req.len) => X[c] = Cipher[<<req.k, req.n, c>>]
  /\ pc = "mopup" => /\ X[0] = Cipher[<<req.k, req.n, block>>]
                     /\ \A i \in 0..7 : rax[i] = X[0][i]
  /\ pc = "loop" => \A i \in 0..7 : i < LEN => rax[i] = KeyByte(req, rcx + i)

IInv == /\ TypeOK /\ KeysInStep /\ OutputSoFar
        /\ Counted /\ Constants /\ Rounds /\ Ready

\* The keys in step, as the round keys of the shared lemmas.
InStep ==
  LET s == Schedules[req.k]
  IN  /\ pc = "fly"    => IsKey(KEY1, s, 2) /\ IsKey(KEY2, s, 1)
      /\ pc = "round2" => IsKey(KEY1, s, 2) /\ IsKey(KEY2, s, 3)
      /\ pc = "ctr"    => IsKey(KEY1, s, 12 - 2 * I) /\ IsKey(KEY2, s, 13 - 2 * I)
      /\ pc = "half"   => IsKey(KEY1, s, 14 - 2 * I) /\ IsKey(KEY2, s, 13 - 2 * I)
      /\ pc = "last"   => IsKey(KEY1, s, 14)

LEMMA StepKeys ==
  /\ KEY1 \in Reg /\ KEY2 \in Reg => (KeysInStep <=> InStep)
  /\ KEY1' \in Reg /\ KEY2' \in Reg => (KeysInStep' <=> InStep')
BY DEF KeysInStep, InStep, IsKey

LEMMA ProgressIs ==
  /\ pc \in {"entry", "fly", "round2", "ctr", "half", "last"} => Progress = 0
  /\ pc = "store" => Progress = 16 * block
  /\ pc \in {"mopup", "loop"} => Progress = rcx
  /\ pc \in {"idle", "undefined"} => Progress = IF req.len > 128 THEN 0 ELSE req.len
BY DEF Progress

LEMMA ProgressNext ==
  /\ pc' \in {"entry", "fly", "round2", "ctr", "half", "last"} => Progress' = 0
  /\ pc' = "store" => Progress' = 16 * block'
  /\ pc' \in {"mopup", "loop"} => Progress' = rcx'
  /\ pc' \in {"idle", "undefined"} => Progress' = IF req'.len > 128 THEN 0 ELSE req'.len
BY DEF Progress

LEMMA OutputIs ==
  /\ OutputSoFar <=> (calls > 0 => Output(mem, mem0, req, Progress))
  /\ OutputSoFar' <=> (calls' > 0 => Output(mem', mem0', req', Progress'))
BY DEF OutputSoFar, Output, KeyByte

\* What callers ask for.
LEMMA Asked ==
  ASSUME TypeOK
  PROVE  /\ req.k \in Keys /\ req.n \in Nonces
         /\ req.out \in Nat /\ req.in \in Nat /\ req.len \in Nat
         /\ Admissible(req)
BY RequestAssumption DEF TypeOK, Request

LEMMA Branch ==
  ASSUME NEW len \in 1..128
  PROVE  /\ fly(len) \in 1..8 /\ len <= 16 * fly(len)
         /\ \A c \in Block : c < fly(len) <=> 16 * c < len
<1>1. /\ fly(len) = (len + 15) \div 16 /\ (len + 15) \div 16 \in 1..8
      /\ len <= 16 * ((len + 15) \div 16)
  BY DEF fly
<1>2. ASSUME NEW c \in Block PROVE c < (len + 15) \div 16 <=> 16 * c < len
  BY DEF Block
<1> QED BY <1>1, <1>2

LEMMA StateReg ==
  ASSUME TypeOK
  PROVE  /\ Schedules[req.k] \in [Aes!Buffer -> Byte]
         /\ \A c \in Block : Text(req, c) \in Reg
         /\ \A c \in Block, r \in 0..13 : State(req, c, r) \in Reg
<1>1. req.k \in Keys /\ req.n \in Nonces
  BY Asked
<1>2. Schedules[req.k] \in [Aes!Buffer -> Byte]
  BY <1>1, SchedulesTyped
<1>3. \A c \in Block : Text(req, c) \in Reg
  BY <1>1, CipherBlocks DEF Text
<1> QED BY <1>2, <1>3, StateByState DEF State

\* A round of a branch.
LEMMA RoundOn ==
  ASSUME TypeOK, NEW r \in 0..12, Blocks(r), NEW key, IsKey(key, Schedules[req.k], r + 1),
         NEW xs, xs = enc(fly(req.len), key, X)
  PROVE  /\ xs \in [Block -> Reg]
         /\ \A c \in Block : c < fly(req.len) => xs[c] = State(req, c, r + 1)
<1>1. ASSUME NEW c \in Block, c < fly(req.len)
      PROVE  xs[c] = State(req, c, r + 1) /\ xs[c] \in Reg
  <2> DEFINE a == State(req, c, r)
  <2>1. a \in Reg /\ Text(req, c) \in Reg /\ Schedules[req.k] \in [Aes!Buffer -> Byte]
    BY StateReg
  <2>2. xs[c] = VAESENC(a, key)
    BY <1>1 DEF Blocks, enc
  <2>3. r + 1 \in 1..13 /\ r + 1 \in Nat /\ (r + 1) - 1 = r
    OBVIOUS
  <2>4. State(req, c, r + 1) = Aes!round(a, Schedules[req.k], r + 1)
    BY <2>1, <2>3, StateByState DEF State
  <2> HIDE DEF a
  <2> QED BY <2>1, <2>2, <2>3, <2>4, RoundIsRound
<1>2. \A c \in Block : ~(c < fly(req.len)) => xs[c] = X[c]
  BY DEF enc
<1>3. X \in [Block -> Reg]
  BY DEF TypeOK
<1>4. xs = [c \in Block |-> xs[c]]
  BY DEF enc
<1>5. \A c \in Block : xs[c] \in Reg
  BY <1>1, <1>2, <1>3
<1> QED BY <1>1, <1>4, <1>5

-----------------------------------------------------------------------------
(* Initially, and in each step                                             *)

LEMMA InitInv == Init => IInv
<1> SUFFICES ASSUME Init PROVE IInv
  OBVIOUS
<1>1. TypeOK
  <2>1. req \in Requests
    BY RequestAssumption DEF Init
  <2>2. /\ ZeroReg \in Reg /\ InitMem \in [MemAddr -> Byte] /\ Zero \in Byte
        /\ MaxCalls \in Nat
    BY Registers, XorByte, MemAssumption, CallsAssumption
  <2> QED BY <2>1, <2>2, CipherTyped DEF Init, TypeOK, Block
<1>2. OutputSoFar
  BY DEF Init, OutputSoFar
<1>3. KeysInStep /\ Counted /\ Constants /\ Rounds /\ Ready
  BY DEF Init, KeysInStep, Counted, Constants, Rounds, Ready
<1> QED BY <1>1, <1>2, <1>3 DEF IInv

LEMMA CallInv ==
  ASSUME IInv, NEW q \in Requests, Call(q) PROVE IInv'
<1> USE DEF Call, keys, tail
<1>1. TypeOK'
  <2>1. q.len \in Nat
    BY RequestAssumption DEF Request
  <2>2. MaxCalls \in Nat
    BY CallsAssumption
  <2> QED BY <2>1, <2>2, CipherTyped DEF IInv, TypeOK
<1>2. OutputSoFar'
  <2>1. Progress' = 0
    BY ProgressNext
  <2>2. q.out \in Nat
    BY RequestAssumption DEF Request
  <2>3. \A a \in MemAddr : a \notin q.out..(q.out + 0 - 1)
    BY <2>2 DEF MemAddr
  <2>4. Output(mem', mem0', req', Progress')
    BY <2>1, <2>3 DEF Output
  <2> QED BY <2>4, OutputIs
<1>3. Counted'
  BY DEF IInv, TypeOK, Counted
<1>4. KeysInStep' /\ Constants' /\ Rounds' /\ Ready'
  BY DEF KeysInStep, Constants, Rounds, Ready
<1> QED BY <1>1, <1>2, <1>3, <1>4 DEF IInv

\* A step that writes nothing and leaves the progress leaves the output.
LEMMA Silent ==
  ASSUME IInv, Progress' = Progress, UNCHANGED <<req, mem, mem0, calls>>
  PROVE  OutputSoFar'
BY OutputIs DEF IInv

LEMMA ReturnEmptyInv == ASSUME IInv, ReturnEmpty PROVE IInv'
<1> USE DEF ReturnEmpty, keys, tail
<1>1. TypeOK'
  BY DEF IInv, TypeOK
<1>2. OutputSoFar'
  <2>1. req.len = 0
    BY DEF IInv, Counted
  <2>2. Progress = 0 /\ Progress' = 0
    BY <2>1, ProgressIs, ProgressNext
  <2> QED BY <2>2, Silent
<1>3. KeysInStep' /\ Counted' /\ Constants' /\ Rounds' /\ Ready'
  BY DEF KeysInStep, Counted, Constants, Rounds, Ready
<1> QED BY <1>1, <1>2, <1>3 DEF IInv

LEMMA TooLongInv == ASSUME IInv, TooLong PROVE IInv'
<1> USE DEF TooLong, keys, tail
<1>1. TypeOK'
  BY DEF IInv, TypeOK
<1>2. OutputSoFar'
  <2>1. req.len > 128
    BY DEF IInv, Counted
  <2>2. Progress = 0 /\ Progress' = 0
    BY <2>1, ProgressIs, ProgressNext
  <2> QED BY <2>2, Silent
<1>3. KeysInStep' /\ Counted' /\ Constants' /\ Rounds' /\ Ready'
  BY DEF IInv, KeysInStep, Counted, Constants, Rounds, Ready
<1> QED BY <1>1, <1>2, <1>3 DEF IInv

\* The instructions of the expansion stay within registers.
LEMMA RegisterOps ==
  /\ \A r : r \in Reg => SubLast(r) \in Reg /\ VPSLLD1(r) \in Reg
  /\ rc \in Reg
<1>1. \A r : VPSLLD1(r) \in Reg
  BY DEF VPSLLD1, Reg, Byte
<1>2. \A r : r \in Reg => SubLast(r) \in Reg
  BY SpreadLastWords, SameInstructions DEF Repeated
<1> QED BY <1>1, <1>2, KeyConstant DEF ConstantOn

LEMMA SetupInv == ASSUME IInv, Setup PROVE IInv'
<1> USE DEF Setup
<1> DEFINE s == Schedules[req.k]
           k0 == Load(req.k, 0)
           k1 == Load(req.k, 16)
<1>1. /\ TypeOK /\ req' = req /\ LEN' = LEN /\ pc = "entry" /\ pc' = "fly"
      /\ UNCHANGED <<I, rcx, rax, mem, calls, mem0>> /\ block' = 0
      /\ LEN = req.len /\ LEN \in 1..128 /\ calls > 0
  BY DEF IInv, Counted, tail
<1>2. req.k \in Keys /\ req.n \in Nonces /\ req.n \in Reg /\ req.k \in [0..31 -> Byte]
  BY <1>1, Asked, NonceAssumption, KeyAssumption DEF Reg, Lane
<1>3. IsKey(k0, s, 0) /\ IsKey(k1, s, 1)
  <2>1. s \in [Aes!Buffer -> Byte] /\ IsSchedule(req.k, s, 60)
    BY <1>2, SchedulesTyped
  <2>2. ASSUME NEW a \in 0..31 PROVE s[a] = req.k[a]
    <3> DEFINE i == a \div 4
               b == a % 4
    <3>1. i \in 0..7 /\ i \in 0..59 /\ b \in 0..3 /\ 4 * i + b = a /\ i < 8
      OBVIOUS
    <3> HIDE DEF i, b, s
    <3>2. s[4 * i + b] = ScheduleByte(req.k, s, i, b)
      BY <2>1, <3>1 DEF IsSchedule, W!IsSchedule, ScheduleByte
    <3> QED BY <3>1, <3>2 DEF ScheduleByte, W!ScheduleByte, W!KeyWords
  <2> HIDE DEF s
  <2>3. \A i \in Lane : /\ 0 + i \in 0..31 /\ 16 + i \in 0..31
                        /\ 16 * 0 + i = 0 + i /\ 16 * 1 + i = 16 + i
    BY DEF Lane
  <2>4. k0 \in Reg /\ k1 \in Reg
    BY <1>2, <2>3 DEF Load, Reg
  <2>5. \A i \in Lane : k0[i] = req.k[0 + i] /\ k1[i] = req.k[16 + i]
    BY DEF Load
  <2> QED BY <2>2, <2>3, <2>4, <2>5 DEF IsKey
<1>4. IsKey(KEY1', s, 2)
  <2>1. KEY1' = linearmix(k0, RotSub(k1, rc))
    OBVIOUS
  <2>2. 1 \in 1..7 /\ 2 * 1 - 2 = 0 /\ 2 * 1 - 1 = 1 /\ 2 * 1 = 2
    OBVIOUS
  <2> HIDE DEF k0, k1
  <2>3. IsKey(linearmix(k0, RotSub(k1, rc)), s, 2 * 1)
    BY <1>2, <1>3, <2>2, KeyConstant, EvenKey
  <2> QED BY <2>1, <2>2, <2>3
<1>5. KEY2' = k1 /\ T0' = SubLast(KEY1') /\ RC' = VPSLLD1(rc)
      /\ X' = counters(req.n, k0)
  OBVIOUS
<1>6. ConstantOn(RC', Columns, Rcon[2])
  <2>1. 1 \in 1..6 /\ 1 + 1 = 2
    OBVIOUS
  <2>2. ConstantOn(VPSLLD1(rc), Columns, Rcon[1 + 1])
    BY <2>1, KeyConstant, CtrShiftAssumption, NextConstant
  <2> QED BY <1>5, <2>1, <2>2
<1>7. ASSUME NEW c \in Block PROVE X'[c] = State(req, c, 0) /\ X'[c] \in Reg
  <2> HIDE DEF k0, k1, s
  <2>1. X'[c] = VPXOR(Text(req, c), k0)
    BY <1>2, <1>3, <1>5, CountersAreCounters DEF IsKey, Text
  <2>2. Text(req, c) \in Reg /\ s \in [Aes!Buffer -> Byte]
    BY <1>1, StateReg DEF s
  <2>3. State(req, c, 0) = Aes!first(Text(req, c), s)
    BY <2>2, StateByState DEF State, s
  <2> QED BY <1>3, <2>1, <2>2, <2>3, FirstIsFirst
<1>8. X' \in [Block -> Reg]
  <2>1. 0 \in Block /\ k0 \in Reg
    BY <1>3 DEF Block, IsKey
  <2> HIDE DEF k0
  <2>2. X' = [c \in Block |-> X'[c]]
    BY <1>2, <1>5, <2>1, CountersAreCounters
  <2> QED BY <1>7, <2>2
<1> HIDE DEF s, k0, k1
<1>9. KEY1' \in Reg /\ KEY2' \in Reg /\ RC' \in Reg /\ T0' \in Reg
  BY <1>3, <1>4, <1>5, <1>6, RegisterOps DEF IsKey, ConstantOn
<1> HIDE DEF Setup
<1>10. TypeOK'
  BY <1>1, <1>8, <1>9, CipherTyped DEF TypeOK, Block
<1>11. OutputSoFar'
  <2>1. Progress = 0 /\ Progress' = 0
    BY <1>1, ProgressIs, ProgressNext
  <2> QED BY <1>1, <2>1, Silent
<1>12. KeysInStep'
  <2>1. InStep'
    BY <1>1, <1>3, <1>4, <1>5 DEF InStep, s
  <2> QED BY <1>9, <2>1, StepKeys
<1>13. Counted' /\ Constants' /\ Ready'
  BY <1>1, <1>5, <1>6 DEF Counted, Constants, Ready
<1>14. Rounds'
  <2>1. \A c \in Block : X'[c] = State(req', c, 0)
    BY <1>1, <1>7
  <2> QED BY <1>1, <2>1 DEF Rounds, Blocks, State, Text
<1> QED BY <1>10, <1>11, <1>12, <1>13, <1>14 DEF IInv

\* What a round of the branch leaves, whatever it does to the keys.
LEMMA RoundInv ==
  ASSUME IInv, NEW r \in 0..12, Blocks(r),
         NEW key, IsKey(key, Schedules[req.k], r + 1), X' = enc(fly(LEN), key, X),
         pc \in {"fly", "round2", "ctr", "half"},
         pc' \in {"round2", "ctr", "half", "last"},
         UNCHANGED <<req, block, LEN, rcx, rax, mem, calls, mem0>>,
         KEY1' \in Reg, KEY2' \in Reg, RC' \in Reg, T0' \in Reg, I' \in 0..5,
         InStep', pc' = "half" => I' # 0
  PROVE  /\ TypeOK' /\ OutputSoFar' /\ KeysInStep' /\ Counted' /\ Ready'
         /\ \A c \in Block : c < fly(req'.len) => X'[c] = State(req', c, r + 1)
<1>1. TypeOK /\ LEN = req.len /\ req.len \in 1..128 /\ calls > 0 /\ block = 0
  BY DEF IInv, Counted
<1>2. X' \in [Block -> Reg] /\ \A c \in Block : c < fly(req.len) => X'[c] = State(req, c, r + 1)
  BY <1>1, RoundOn
<1>3. TypeOK'
  BY <1>1, <1>2, CipherTyped DEF TypeOK
<1>4. OutputSoFar'
  <2>1. Progress = 0 /\ Progress' = 0
    BY ProgressIs, ProgressNext
  <2> QED BY <2>1, Silent
<1>5. Counted' /\ Ready'
  BY <1>1 DEF Counted, Ready
<1> QED BY <1>2, <1>3, <1>4, <1>5, StepKeys

LEMMA Round1Inv == ASSUME IInv, Round1 PROVE IInv'
<1> DEFINE s == Schedules[req.k]
<1>1. /\ TypeOK /\ pc = "fly" /\ pc' = "round2"
      /\ X' = enc(fly(LEN), KEY2, X) /\ KEY2' = linearmix(KEY2, T0)
      /\ UNCHANGED <<req, KEY1, RC, T0, I, block, LEN, rcx, rax, mem, calls, mem0>>
  BY DEF Round1, IInv, tail
<1>2. IsKey(KEY1, s, 2) /\ IsKey(KEY2, s, 1)
      /\ {KEY1, KEY2, RC, T0} \subseteq Reg /\ I \in 0..5 /\ req.k \in Keys
  BY <1>1, StepKeys, Asked DEF IInv, TypeOK, InStep
<1>3. T0 = SubLast(KEY1) /\ ConstantOn(RC, Columns, Rcon[2]) /\ Blocks(0)
  BY <1>1 DEF IInv, Constants, Rounds
<1>4. IsKey(KEY2', s, 3)
  <2>1. 1 \in 1..6 /\ 2 * 1 - 1 = 1 /\ 2 * 1 = 2 /\ 2 * 1 + 1 = 3
    OBVIOUS
  <2> HIDE DEF s
  <2>2. IsKey(linearmix(KEY2, SubLast(KEY1)), s, 2 * 1 + 1)
    BY <1>2, <2>1, OddKey DEF s
  <2> QED BY <1>1, <1>3, <2>1, <2>2
<1>5. InStep'
  BY <1>1, <1>2, <1>4 DEF InStep
<1>6. KEY2' \in Reg /\ 0 \in 0..12 /\ 0 + 1 = 1
  BY <1>4 DEF IsKey
<1>7. /\ TypeOK' /\ OutputSoFar' /\ KeysInStep' /\ Counted' /\ Ready'
      /\ \A c \in Block : c < fly(req'.len) => X'[c] = State(req', c, 0 + 1)
  BY <1>1, <1>2, <1>3, <1>5, <1>6, RoundInv
<1>8. Constants'
  BY <1>1, <1>3 DEF Constants
<1>9. Rounds'
  BY <1>1, <1>6, <1>7 DEF Rounds, Blocks, State, Text
<1> QED BY <1>7, <1>8, <1>9 DEF IInv

LEMMA Round2Inv == ASSUME IInv, Round2 PROVE IInv'
<1> DEFINE s == Schedules[req.k]
<1>1. /\ TypeOK /\ pc = "round2" /\ pc' = "ctr" /\ I' = 5
      /\ X' = enc(fly(LEN), KEY1, X)
      /\ UNCHANGED <<req, KEY1, KEY2, RC, T0, block, LEN, rcx, rax, mem, calls, mem0>>
  BY DEF Round2, IInv, tail, keys
<1>2. IsKey(KEY1, s, 2) /\ IsKey(KEY2, s, 3) /\ {KEY1, KEY2, RC, T0} \subseteq Reg
  BY <1>1, StepKeys DEF IInv, TypeOK, InStep
<1>3. ConstantOn(RC, Columns, Rcon[2]) /\ Blocks(1)
  BY <1>1 DEF IInv, Constants, Rounds
<1>4. 12 - 2 * 5 = 2 /\ 13 - 2 * 5 = 3 /\ 7 - 5 = 2 /\ 1 + 1 = 2 /\ 1 \in 0..12 /\ 5 \in 0..5
  OBVIOUS
<1>5. InStep'
  BY <1>1, <1>2, <1>4 DEF InStep
<1>6. /\ TypeOK' /\ OutputSoFar' /\ KeysInStep' /\ Counted' /\ Ready'
      /\ \A c \in Block : c < fly(req'.len) => X'[c] = State(req', c, 1 + 1)
  BY <1>1, <1>2, <1>3, <1>4, <1>5, RoundInv
<1>7. Constants'
  BY <1>1, <1>3, <1>4 DEF Constants
<1>8. Rounds'
  BY <1>1, <1>4, <1>6 DEF Rounds, Blocks, State, Text
<1> QED BY <1>6, <1>7, <1>8 DEF IInv

\* The first half of the loop and the last round have the same expansion.
LEMMA Expand1Keys ==
  ASSUME IInv, pc = "ctr", expand1
  PROVE  /\ IsKey(KEY1', Schedules[req.k], 14 - 2 * I)
         /\ KEY2' = KEY2 /\ IsKey(KEY2, Schedules[req.k], 13 - 2 * I)
         /\ T0' \in Reg /\ RC' \in Reg
         /\ I # 0 => ConstantOn(RC', Columns, Rcon[8 - I])
<1> DEFINE s == Schedules[req.k]
<1>1. /\ IsKey(KEY1, s, 12 - 2 * I) /\ IsKey(KEY2, s, 13 - 2 * I)
      /\ ConstantOn(RC, Columns, Rcon[7 - I])
      /\ {KEY1, KEY2, RC, T0} \subseteq Reg /\ I \in 0..5 /\ req.k \in Keys
  BY StepKeys, Asked DEF IInv, TypeOK, InStep, Constants
<1>2. KEY1' = linearmix(KEY1, RotSub(KEY2, RC)) /\ T0' = RotSub(KEY2, RC)
      /\ RC' = VPSLLD1(RC) /\ KEY2' = KEY2
  BY DEF expand1
<1> DEFINE j == 7 - I
<1>3. /\ j \in 1..7 /\ 2 * j - 2 = 12 - 2 * I /\ 2 * j - 1 = 13 - 2 * I /\ 2 * j = 14 - 2 * I
      /\ I # 0 => j \in 1..6 /\ j + 1 = 8 - I
  BY <1>1
<1> HIDE DEF j, s
<1>4. IsKey(KEY1', s, 2 * j)
  <2>1. IsKey(KEY1, s, 2 * j - 2) /\ IsKey(KEY2, s, 2 * j - 1) /\ ConstantOn(RC, Columns, Rcon[j])
    BY <1>1, <1>3 DEF j
  <2> QED BY <1>1, <1>2, <1>3, <2>1, EvenKey DEF s
<1>5. T0' \in Reg
  <2>1. Rcon[j] \in Byte
    BY <1>3, Registers
  <2>2. Rotated(RotSub(KEY2, RC), KEY2, Rcon[j])
    BY <1>1, <2>1, RotatedFirstWords, SameInstructions DEF j
  <2> QED BY <1>2, <2>2 DEF Rotated
<1>6. I # 0 => ConstantOn(RC', Columns, Rcon[8 - I])
  <2> SUFFICES ASSUME I # 0 PROVE ConstantOn(RC', Columns, Rcon[8 - I])
    OBVIOUS
  <2>1. j \in 1..6 /\ j + 1 = 8 - I /\ ConstantOn(RC, Columns, Rcon[j])
    BY <1>1, <1>3 DEF j
  <2>2. ConstantOn(VPSLLD1(RC), Columns, Rcon[j + 1])
    BY <2>1, CtrShiftAssumption, NextConstant
  <2> QED BY <1>2, <2>1, <2>2
<1>7. RC' \in Reg
  BY <1>1, <1>2, RegisterOps
<1> QED BY <1>1, <1>2, <1>3, <1>4, <1>5, <1>6, <1>7 DEF s

LEMMA OddRoundInv == ASSUME IInv, OddRound PROVE IInv'
<1> DEFINE s == Schedules[req.k]
<1>1. /\ pc = "ctr" /\ I # 0 /\ pc' = "half" /\ expand1
      /\ X' = enc(fly(LEN), KEY2, X)
      /\ UNCHANGED <<req, I, block, LEN, rcx, rax, mem, calls, mem0>>
  BY DEF OddRound, tail
<1>2. /\ IsKey(KEY1', s, 14 - 2 * I) /\ KEY2' = KEY2 /\ IsKey(KEY2, s, 13 - 2 * I)
      /\ T0' \in Reg /\ RC' \in Reg /\ ConstantOn(RC', Columns, Rcon[8 - I])
  BY <1>1, Expand1Keys
<1>3. KEY1' \in Reg /\ KEY2' \in Reg /\ I \in 0..5 /\ Blocks(12 - 2 * I)
  BY <1>1, <1>2 DEF IsKey, IInv, TypeOK, Rounds
<1>4. InStep'
  BY <1>1, <1>2 DEF InStep
<1> DEFINE r == 12 - 2 * I
<1>5. r \in 0..12 /\ r + 1 = 13 - 2 * I
  BY <1>3
<1> HIDE DEF r
<1>6. /\ TypeOK' /\ OutputSoFar' /\ KeysInStep' /\ Counted' /\ Ready'
      /\ \A c \in Block : c < fly(req'.len) => X'[c] = State(req', c, r + 1)
  <2>1. Blocks(r) /\ IsKey(KEY2, s, r + 1)
    BY <1>2, <1>3, <1>5 DEF r
  <2> HIDE DEF s
  <2> QED BY <1>1, <1>2, <1>3, <1>4, <1>5, <2>1, RoundInv DEF s
<1>7. Constants'
  BY <1>1, <1>2 DEF Constants
<1>8. Rounds'
  <2>1. \A c \in Block : c < fly(req'.len) => X'[c] = State(req', c, 13 - 2 * I')
    BY <1>1, <1>5, <1>6
  <2> QED BY <1>1, <2>1 DEF Rounds, Blocks, State, Text
<1> QED BY <1>6, <1>7, <1>8 DEF IInv

LEMMA EvenRoundInv == ASSUME IInv, EvenRound PROVE IInv'
<1> DEFINE s == Schedules[req.k]
<1>1. /\ pc = "half" /\ pc' = "ctr" /\ I' = I - 1
      /\ T0' = SubLast(KEY1) /\ KEY2' = linearmix(KEY2, SubLast(KEY1))
      /\ X' = enc(fly(LEN), KEY1, X)
      /\ UNCHANGED <<req, KEY1, RC, block, LEN, rcx, rax, mem, calls, mem0>>
  BY DEF EvenRound, expand2, tail
<1>2. /\ IsKey(KEY1, s, 14 - 2 * I) /\ IsKey(KEY2, s, 13 - 2 * I)
      /\ ConstantOn(RC, Columns, Rcon[8 - I]) /\ Blocks(13 - 2 * I)
      /\ {KEY1, KEY2, RC, T0} \subseteq Reg /\ I \in 1..5 /\ req.k \in Keys
  BY <1>1, StepKeys, Asked DEF IInv, TypeOK, InStep, Constants, Rounds, Counted
<1> DEFINE j == 7 - I
           r == 13 - 2 * I
<1>3. /\ j \in 1..6 /\ 2 * j - 1 = 13 - 2 * I /\ 2 * j = 14 - 2 * I
      /\ 2 * j + 1 = 13 - 2 * (I - 1) /\ 14 - 2 * I = 12 - 2 * (I - 1)
      /\ r \in 0..12 /\ r + 1 = 14 - 2 * I /\ 7 - (I - 1) = 8 - I /\ I - 1 \in 0..5
  BY <1>2
<1> HIDE DEF j, r
<1>4. IsKey(KEY2', s, 13 - 2 * (I - 1))
  <2>1. IsKey(KEY2, s, 2 * j - 1) /\ IsKey(KEY1, s, 2 * j)
    BY <1>2, <1>3
  <2> HIDE DEF s
  <2>2. IsKey(linearmix(KEY2, SubLast(KEY1)), s, 2 * j + 1)
    BY <1>2, <1>3, <2>1, OddKey DEF s
  <2> QED BY <1>1, <1>3, <2>2
<1>5. KEY1' \in Reg /\ KEY2' \in Reg /\ RC' \in Reg /\ T0' \in Reg /\ I' \in 0..5
  BY <1>1, <1>2, <1>3, <1>4, RegisterOps DEF IsKey
<1>6. InStep'
  <2>1. IsKey(KEY1', s, 12 - 2 * I') /\ IsKey(KEY2', s, 13 - 2 * I')
    BY <1>1, <1>2, <1>3, <1>4
  <2> QED BY <1>1, <2>1 DEF InStep
<1>7. /\ TypeOK' /\ OutputSoFar' /\ KeysInStep' /\ Counted' /\ Ready'
      /\ \A c \in Block : c < fly(req'.len) => X'[c] = State(req', c, r + 1)
  <2>1. Blocks(r) /\ IsKey(KEY1, s, r + 1)
    BY <1>2, <1>3 DEF r
  <2> HIDE DEF s
  <2> QED BY <1>1, <1>2, <1>3, <1>5, <1>6, <2>1, RoundInv DEF s
<1>8. Constants'
  <2>1. ConstantOn(RC', Columns, Rcon[7 - I'])
    BY <1>1, <1>2, <1>3
  <2> QED BY <1>1, <2>1 DEF Constants
<1>9. Rounds'
  <2>1. \A c \in Block : c < fly(req'.len) => X'[c] = State(req', c, 12 - 2 * I')
    BY <1>1, <1>3, <1>7
  <2> QED BY <1>1, <2>1 DEF Rounds, Blocks, State, Text
<1> QED BY <1>7, <1>8, <1>9 DEF IInv

LEMMA Round13Inv == ASSUME IInv, Round13 PROVE IInv'
<1> DEFINE s == Schedules[req.k]
<1>1. /\ pc = "ctr" /\ I = 0 /\ pc' = "last" /\ expand1
      /\ X' = enc(fly(LEN), KEY2, X)
      /\ UNCHANGED <<req, I, block, LEN, rcx, rax, mem, calls, mem0>>
  BY DEF Round13, tail
<1>2. 14 - 2 * 0 = 14 /\ 13 - 2 * 0 = 13 /\ 12 - 2 * 0 = 12 /\ 12 + 1 = 13 /\ 12 \in 0..12
      /\ 0 \in 0..5
  OBVIOUS
<1>3. /\ IsKey(KEY1', s, 14) /\ KEY2' = KEY2 /\ IsKey(KEY2, s, 13)
      /\ T0' \in Reg /\ RC' \in Reg
  BY <1>1, <1>2, Expand1Keys
<1>4. KEY1' \in Reg /\ KEY2' \in Reg /\ Blocks(12)
  BY <1>1, <1>2, <1>3 DEF IsKey, IInv, TypeOK, Rounds
<1>5. InStep'
  BY <1>1, <1>3 DEF InStep
<1>6. /\ TypeOK' /\ OutputSoFar' /\ KeysInStep' /\ Counted' /\ Ready'
      /\ \A c \in Block : c < fly(req'.len) => X'[c] = State(req', c, 12 + 1)
  BY <1>1, <1>2, <1>3, <1>4, <1>5, RoundInv
<1>7. Constants'
  BY <1>1 DEF Constants
<1>8. Rounds'
  BY <1>1, <1>2, <1>6 DEF Rounds, Blocks, State, Text
<1> QED BY <1>6, <1>7, <1>8 DEF IInv

LEMMA Round14Inv == ASSUME IInv, Round14 PROVE IInv'
<1> DEFINE s == Schedules[req.k]
<1>1. /\ pc = "last" /\ pc' = "store" /\ LEN = req.len /\ req.len \in 1..128 /\ TypeOK
      /\ UNCHANGED <<req, KEY1, KEY2, RC, T0, I, block, LEN, rcx, rax, mem, calls, mem0>>
      /\ X' = [c \in Block |-> IF c < fly(LEN) THEN VAESENCLAST(X[c], KEY1) ELSE X[c]]
      /\ calls > 0
  BY DEF Round14, keys, tail, IInv, Counted
<1>2. IsKey(KEY1, s, 14) /\ Blocks(13)
  BY <1>1, StepKeys DEF IInv, TypeOK, InStep, Rounds
<1>3. ASSUME NEW c \in Block, c < fly(req.len)
      PROVE  X'[c] = Cipher[<<req.k, req.n, c>>] /\ X'[c] \in Reg
  <2> DEFINE a == State(req, c, 13)
  <2>1. a \in Reg
    BY <1>1, StateReg
  <2>2. X'[c] = VAESENCLAST(a, KEY1)
    BY <1>1, <1>2, <1>3 DEF Blocks
  <2>3. Aes!Encrypted(s, Text(req, c)) = Aes!last(a, s)
    BY DEF Aes!Encrypted, State
  <2>4. Cipher[<<req.k, req.n, c>>] = Aes!Encrypted(s, Text(req, c))
    BY <1>1, Asked, CipherBlocks DEF Text
  <2> HIDE DEF a, s
  <2>5. VAESENCLAST(a, KEY1) = Aes!last(a, s) /\ VAESENCLAST(a, KEY1) \in Reg
    BY <1>2, <2>1, LastIsLast
  <2> QED BY <2>2, <2>3, <2>4, <2>5
<1>4. X' \in [Block -> Reg]
  <2>1. \A c \in Block : ~(c < fly(req.len)) => X'[c] \in Reg
    BY <1>1 DEF TypeOK
  <2>2. X' = [c \in Block |-> X'[c]]
    BY <1>1
  <2> QED BY <1>3, <2>1, <2>2
<1>5. TypeOK'
  BY <1>1, <1>4, CipherTyped DEF TypeOK
<1>6. OutputSoFar'
  <2>1. Progress = 0 /\ Progress' = 0
    BY <1>1, ProgressIs, ProgressNext DEF IInv, Counted
  <2> QED BY <1>1, <2>1, Silent
<1>7. Counted'
  BY <1>1 DEF IInv, Counted
<1>8. KeysInStep' /\ Constants' /\ Rounds'
  BY <1>1 DEF KeysInStep, Constants, Rounds
<1>9. Ready'
  BY <1>1, <1>3, CipherTyped DEF Ready
<1> QED BY <1>5, <1>6, <1>7, <1>8, <1>9 DEF IInv

\* A store of the next n bytes of the output, whatever the distance between
\* output and input: they are not yet overwritten when they are read.
LEMMA Stored ==
  ASSUME IInv, calls > 0, NEW o \in Nat, NEW n \in Nat, o = Progress, o + n <= req.len,
         NEW s, \A j \in 0..(n - 1) : s[j] = KeyByte(req, o + j) /\ s[j] \in Byte,
         NEW m, m = xored(mem, o, n, s)
  PROVE  m \in [MemAddr -> Byte] /\ Output(m, mem0, req, o + n)
<1> DEFINE out == req.out
           in == req.in
           len == req.len
<1>1. /\ out \in Nat /\ in \in Nat /\ len \in Nat /\ MemSize \in Nat
      /\ out + len <= MemSize /\ in + len <= MemSize
      /\ out <= in \/ in + len <= out
      /\ o + n <= len
  BY Asked, MemAssumption DEF IInv, Admissible
<1>2. mem \in [MemAddr -> Byte] /\ mem0 \in [MemAddr -> Byte]
  BY DEF IInv, TypeOK
<1>3. \A a \in MemAddr : mem[a] = IF a \in out..(out + o - 1)
                                  THEN mem0[in + (a - out)] (+) KeyByte(req, a - out)
                                  ELSE mem0[a]
  BY OutputIs DEF IInv, Output
<1>4. \A a \in MemAddr : m[a] = IF a \in (out + o)..(out + o + n - 1)
                                THEN mem[in + (a - out)] (+) s[a - out - o]
                                ELSE mem[a]
  BY DEF xored
<1>5. m = [a \in MemAddr |-> m[a]]
  BY DEF xored
<1> HIDE DEF out, in, len
<1>6. ASSUME NEW a \in MemAddr, a \in (out + o)..(out + o + n - 1)
      PROVE  /\ m[a] = mem0[in + (a - out)] (+) KeyByte(req, a - out)
             /\ m[a] \in Byte
  <2> DEFINE j == a - out - o
             b == in + (a - out)
  <2>1. j \in 0..(n - 1) /\ o + j = a - out
    BY <1>1, <1>6 DEF MemAddr
  <2>2. b \in MemAddr /\ b \notin out..(out + o - 1)
    BY <1>1, <1>6 DEF MemAddr
  <2>3. m[a] = mem[b] (+) s[j]
    BY <1>4, <1>6
  <2> HIDE DEF j, b
  <2>4. mem[b] = mem0[b] /\ mem[b] \in Byte
    BY <1>2, <1>3, <2>2
  <2>5. s[j] = KeyByte(req, a - out) /\ s[j] \in Byte
    BY <2>1
  <2> QED BY <2>3, <2>4, <2>5, XorByte DEF b
<1>7. ASSUME NEW a \in MemAddr, a \notin (out + o)..(out + o + n - 1)
      PROVE  m[a] = mem[a] /\ m[a] \in Byte
  BY <1>2, <1>4, <1>7
<1>8. ASSUME NEW a \in MemAddr
      PROVE  /\ m[a] = IF a \in out..(out + (o + n) - 1)
                       THEN mem0[in + (a - out)] (+) KeyByte(req, a - out)
                       ELSE mem0[a]
             /\ m[a] \in Byte
  <2>1. a \in Nat
    BY DEF MemAddr
  <2>2. CASE a \in (out + o)..(out + o + n - 1)
    <3>1. a \in out..(out + (o + n) - 1)
      BY <1>1, <2>1, <2>2
    <3> QED BY <1>6, <2>2, <3>1
  <2>3. CASE a \notin (out + o)..(out + o + n - 1)
    <3>1. a \in out..(out + (o + n) - 1) <=> a \in out..(out + o - 1)
      BY <1>1, <2>1, <2>3
    <3> QED BY <1>3, <1>7, <2>3, <3>1
  <2> QED BY <2>2, <2>3
<1>9. Output(m, mem0, req, o + n)
  BY <1>8 DEF Output, out, in
<1> QED BY <1>5, <1>8, <1>9

\* The bytes of a block are sixteen of the keystream.
LEMMA BlockBytes ==
  ASSUME TypeOK, NEW c \in Block, NEW i \in Lane
  PROVE  /\ KeyByte(req, 16 * c + i) = Cipher[<<req.k, req.n, c>>][i]
         /\ Cipher[<<req.k, req.n, c>>] \in Reg /\ KeyByte(req, 16 * c + i) \in Byte
<1>1. (16 * c + i) \div 16 = c /\ (16 * c + i) % 16 = i
  BY DEF Block, Lane
<1>2. Cipher[<<req.k, req.n, c>>] \in Reg
  BY Asked, CipherBlocks
<1> QED BY <1>1, <1>2 DEF KeyByte, Reg

LEMMA Cleared ==
  ASSUME cleared
  PROVE  /\ {KEY1', KEY2', RC', T0'} \subseteq Reg /\ X' \in [Block -> Reg]
         /\ LEN' \in Nat /\ rcx' \in 0..127 /\ rax' \in [0..7 -> Byte]
BY Registers, XorByte DEF cleared

\* The next block, if all of it is asked for.
LEMMA NextBlock ==
  ASSUME IInv, pc = "store", 16 * block + 16 <= req.len,
         NEW m, m = xored(mem, 16 * block, 16, X[block])
  PROVE  m \in [MemAddr -> Byte] /\ Output(m, mem0, req, 16 * block + 16)
<1>1. block \in Block /\ calls > 0 /\ req.len \in 1..128 /\ TypeOK
  BY DEF IInv, TypeOK, Counted
<1>2. block < fly(req.len)
  BY <1>1, Branch DEF Block
<1>3. \A j \in 0..(16 - 1) : X[block][j] = KeyByte(req, 16 * block + j) /\ X[block][j] \in Byte
  <2> SUFFICES ASSUME NEW j \in 0..15
               PROVE  X[block][j] = KeyByte(req, 16 * block + j) /\ X[block][j] \in Byte
    OBVIOUS
  <2>1. X[block] = Cipher[<<req.k, req.n, block>>]
    BY <1>1, <1>2 DEF IInv, Ready
  <2>2. j \in Lane
    BY DEF Lane
  <2> QED BY <1>1, <2>1, <2>2, BlockBytes
<1>4. 16 * block = Progress /\ 16 * block \in Nat /\ 16 \in Nat
  BY <1>1, ProgressIs DEF Block
<1> DEFINE o == 16 * block
           s == X[block]
<1> HIDE DEF o, s
<1>5. o \in Nat /\ o = Progress /\ o + 16 <= req.len /\ m = xored(mem, o, 16, s)
      /\ \A j \in 0..(16 - 1) : s[j] = KeyByte(req, o + j) /\ s[j] \in Byte
  BY <1>3, <1>4 DEF o, s
<1>6. m \in [MemAddr -> Byte] /\ Output(m, mem0, req, o + 16)
  BY <1>1, <1>4, <1>5, Stored
<1> QED BY <1>6 DEF o

LEMMA StoreBlockInv == ASSUME IInv, StoreBlock PROVE IInv'
<1>1. /\ pc = "store" /\ pc' = pc /\ block < fly(LEN) - 1 /\ block' = block + 1
      /\ mem' = xored(mem, 16 * block, 16, X[block])
      /\ UNCHANGED <<req, KEY1, KEY2, RC, T0, X, I, LEN, rcx, rax, calls, mem0>>
  BY DEF StoreBlock, keys, tail
<1>2. LEN = req.len /\ req.len \in 1..128 /\ calls > 0 /\ TypeOK /\ block \in Block
  BY <1>1 DEF IInv, Counted, TypeOK
<1>3. block + 1 \in Block /\ block + 1 < fly(req.len)
  BY <1>1, <1>2, Branch DEF Block
<1>4. 16 * (block + 1) < req.len /\ 16 * (block + 1) = 16 * block + 16
  BY <1>2, <1>3, Branch DEF Block
<1>5. mem' \in [MemAddr -> Byte] /\ Output(mem', mem0, req, 16 * block + 16)
  <2>1. 16 * block + 16 <= req.len
    BY <1>2, <1>4 DEF Block
  <2> QED BY <1>1, <2>1, NextBlock
<1>6. TypeOK'
  BY <1>1, <1>2, <1>3, <1>5, CipherTyped DEF TypeOK
<1>7. OutputSoFar'
  <2>1. Progress' = 16 * block + 16
    BY <1>1, <1>4, ProgressNext
  <2> QED BY <1>1, <1>5, <2>1, OutputIs
<1>8. Counted'
  BY <1>1, <1>2, <1>4 DEF Counted
<1>9. Ready'
  <2>1. \A c \in Block : c < fly(req'.len) => X'[c] = Cipher[<<req'.k, req'.n, c>>]
    BY <1>1 DEF IInv, Ready
  <2> QED BY <1>1, <2>1 DEF Ready
<1>10. KeysInStep' /\ Constants' /\ Rounds'
  BY <1>1 DEF KeysInStep, Constants, Rounds
<1> QED BY <1>6, <1>7, <1>8, <1>9, <1>10 DEF IInv

LEMMA LastBlockInv == ASSUME IInv, LastBlock PROVE IInv'
<1>1. /\ pc = "store" /\ pc' = "idle" /\ block = fly(LEN) - 1 /\ LEN - 16 * block >= 16
      /\ mem' = xored(mem, 16 * block, 16, X[block]) /\ cleared
      /\ UNCHANGED <<req, I, block, calls, mem0>>
  BY DEF LastBlock
<1>2. LEN = req.len /\ req.len \in 1..128 /\ calls > 0 /\ TypeOK /\ block \in Block
  BY <1>1 DEF IInv, Counted, TypeOK
<1>3. 16 * block + 16 = req.len
  <2> DEFINE l == req.len
             f == fly(l)
  <2>1. f \in 1..8 /\ l <= 16 * f /\ block = f - 1 /\ l - 16 * block >= 16 /\ l \in 1..128
    BY <1>1, <1>2, Branch
  <2> HIDE DEF l, f
  <2>2. 16 * block + 16 = l
    BY <2>1
  <2> QED BY <2>2 DEF l
<1>4. mem' \in [MemAddr -> Byte] /\ Output(mem', mem0, req, req.len)
  <2>1. 16 * block + 16 <= req.len
    BY <1>2, <1>3 DEF Block
  <2> QED BY <1>1, <1>3, <2>1, NextBlock
<1>5. TypeOK'
  BY <1>1, <1>2, <1>4, Cleared, CipherTyped DEF TypeOK
<1>6. OutputSoFar'
  <2>1. Progress' = req.len
    BY <1>1, <1>2, ProgressNext
  <2> QED BY <1>1, <1>4, <2>1, OutputIs
<1>7. KeysInStep' /\ Counted' /\ Constants' /\ Rounds' /\ Ready'
  BY <1>1 DEF KeysInStep, Counted, Constants, Rounds, Ready
<1> QED BY <1>5, <1>6, <1>7 DEF IInv

LEMMA ToMopupInv == ASSUME IInv, ToMopup PROVE IInv'
<1>1. /\ pc = "store" /\ pc' = "mopup" /\ block = fly(LEN) - 1 /\ LEN - 16 * block < 16
      /\ X' = [X EXCEPT ![0] = X[block]]
      /\ rcx' = 16 * block /\ LEN' = LEN - 16 * block
      /\ rax' = [i \in 0..7 |-> X[block][i]]
      /\ UNCHANGED <<req, KEY1, KEY2, RC, T0, I, block, mem, calls, mem0>>
  BY DEF ToMopup, keys
<1>2. /\ LEN = req.len /\ req.len \in 1..128 /\ calls > 0 /\ TypeOK /\ block \in Block
      /\ 16 * block < req.len
  BY <1>1 DEF IInv, Counted, TypeOK
<1>3. /\ LEN' \in 1..15 /\ LEN' \in Nat /\ LEN' < 16 /\ rcx' \in 0..127 /\ rcx' + LEN' = req.len
      /\ LEN' >= 1
  BY <1>1, <1>2 DEF Block
<1>4. block < fly(req.len) /\ 0 \in Block
  BY <1>2, Branch DEF Block
<1>5. X[block] = Cipher[<<req.k, req.n, block>>] /\ X[block] \in Reg
  BY <1>1, <1>2, <1>4, Asked, CipherBlocks DEF IInv, Ready
<1>6. /\ X' \in [Block -> Reg] /\ rax' \in [0..7 -> Byte] /\ X'[0] = X[block]
      /\ \A i \in 0..7 : rax'[i] = X[block][i]
  <2>1. X \in [Block -> Reg] /\ 0..7 \subseteq Lane
    BY <1>2 DEF TypeOK, Lane
  <2> QED BY <1>1, <1>4, <1>5, <2>1 DEF Reg
<1>7. TypeOK'
  BY <1>1, <1>2, <1>3, <1>6, CipherTyped DEF TypeOK
<1>8. OutputSoFar'
  <2>1. Progress = 16 * block /\ Progress' = 16 * block
    BY <1>1, ProgressIs, ProgressNext
  <2> QED BY <1>1, <2>1, Silent
<1>9. Counted'
  BY <1>1, <1>2, <1>3 DEF Counted
<1>10. Ready'
  BY <1>1, <1>5, <1>6 DEF Ready
<1>11. KeysInStep' /\ Constants' /\ Rounds'
  BY <1>1 DEF KeysInStep, Constants, Rounds
<1> QED BY <1>7, <1>8, <1>9, <1>10, <1>11 DEF IInv

LEMMA MopupInv == ASSUME IInv, Mopup PROVE IInv'
<1> DEFINE last8 == [i \in Lane |-> X[0][IF i < 8 THEN 8 + i ELSE i % 4]]
<1>1. /\ pc = "mopup" /\ LEN >= 8 /\ X' = [X EXCEPT ![0] = last8]
      /\ mem' = xored(mem, rcx, 8, rax) /\ rcx' = rcx + 8 /\ LEN' = LEN - 8
      /\ UNCHANGED <<req, KEY1, KEY2, RC, T0, I, block, calls, mem0>>
  BY DEF Mopup, keys
<1>2. /\ LEN' = 0 => /\ pc' = "undefined"
                     /\ rax' = [i \in 0..7 |-> mem[req.in + rcx + i] (+) rax[i]]
      /\ LEN' # 0 => pc' = "loop" /\ rax' = [i \in 0..7 |-> X'[0][i]]
  BY DEF Mopup
<1>3. /\ TypeOK /\ calls > 0 /\ req.len \in 1..128 /\ LEN < 16 /\ LEN \in Nat
      /\ block \in Block /\ rcx = 16 * block /\ rcx + LEN = req.len
      /\ X[0] = Cipher[<<req.k, req.n, block>>] /\ \A i \in 0..7 : rax[i] = X[0][i]
  BY <1>1 DEF IInv, TypeOK, Counted, Ready
<1>4. rcx \in Nat /\ rcx <= 112 /\ LEN' \in 0..7 /\ rcx' + LEN' = req.len /\ rcx' \in 0..127
  BY <1>1, <1>3 DEF Block
<1>5. X[0] \in Reg /\ \A i \in Lane : X[0][i] = KeyByte(req, rcx + i)
  <2>1. ASSUME NEW i \in Lane PROVE X[0][i] = KeyByte(req, rcx + i)
    BY <1>3, BlockBytes
  <2>2. X[0] \in Reg
    BY <1>3, Asked, CipherBlocks
  <2> QED BY <2>1, <2>2
<1>6. \A i \in 0..7 : rax[i] = KeyByte(req, rcx + i) /\ rax[i] \in Byte
  <2>1. \A i \in 0..7 : i \in Lane
    BY DEF Lane
  <2> QED BY <1>3, <1>5, <2>1 DEF Reg
<1>7. mem' \in [MemAddr -> Byte] /\ Output(mem', mem0, req, rcx + 8)
  <2>1. rcx = Progress
    BY <1>1, ProgressIs
  <2>2. rcx + 8 <= req.len /\ 8 \in Nat
    BY <1>1, <1>3, <1>4
  <2>3. \A j \in 0..(8 - 1) : rax[j] = KeyByte(req, rcx + j) /\ rax[j] \in Byte
    BY <1>6
  <2> QED BY <1>1, <1>3, <1>4, <2>1, <2>2, <2>3, Stored
<1>8. /\ last8 \in Reg /\ \A i \in 0..7 : last8[i] = X[0][8 + i]
  <2>1. \A i \in Lane : (IF i < 8 THEN 8 + i ELSE i % 4) \in Lane
    BY DEF Lane
  <2>2. last8 \in Reg
    BY <1>5, <2>1 DEF Reg
  <2> QED BY <2>2 DEF Lane
<1> HIDE DEF last8
<1>9. X' \in [Block -> Reg] /\ X'[0] = last8
  BY <1>1, <1>3, <1>8 DEF TypeOK, Block
<1>10. CASE LEN' = 0
  <2>1. req.len = rcx + 8
    BY <1>1, <1>3, <1>4, <1>10
  <2>2. \A i \in 0..7 : req.in + rcx + i \in MemAddr
    <3> DEFINE in == req.in
               len == req.len
    <3>1. in \in Nat /\ MemSize \in Nat /\ in + len <= MemSize /\ len = rcx + 8
      BY <1>3, <2>1, Asked, MemAssumption DEF Admissible
    <3> HIDE DEF in, len
    <3>2. \A i \in 0..7 : in + rcx + i \in MemAddr
      BY <1>4, <3>1 DEF MemAddr
    <3> QED BY <3>2 DEF in
  <2>3. rax' \in [0..7 -> Byte]
    <3>1. \A i \in 0..7 : mem[req.in + rcx + i] \in Byte
      BY <1>3, <2>2 DEF TypeOK
    <3> QED BY <1>2, <1>6, <1>10, <3>1, XorByte
  <2>4. TypeOK'
    BY <1>1, <1>2, <1>3, <1>4, <1>7, <1>9, <1>10, <2>3, CipherTyped DEF TypeOK
  <2>5. OutputSoFar'
    <3>1. Progress' = req.len
      BY <1>1, <1>2, <1>3, <1>10, ProgressNext
    <3> QED BY <1>1, <1>7, <2>1, <3>1, OutputIs
  <2>6. KeysInStep' /\ Counted' /\ Constants' /\ Rounds' /\ Ready'
    BY <1>1, <1>2, <1>3, <1>10 DEF KeysInStep, Counted, Constants, Rounds, Ready
  <2> QED BY <2>4, <2>5, <2>6 DEF IInv
<1>11. CASE LEN' # 0
  <2>1. \A i \in 0..7 : rax'[i] = KeyByte(req, rcx' + i) /\ rax'[i] \in Byte
    <3> SUFFICES ASSUME NEW i \in 0..7
                 PROVE  rax'[i] = KeyByte(req, rcx' + i) /\ rax'[i] \in Byte
      OBVIOUS
    <3>1. 8 + i \in Lane /\ rcx + (8 + i) = rcx' + i
      BY <1>1, <1>4 DEF Lane
    <3>2. rax'[i] = X[0][8 + i]
      BY <1>2, <1>8, <1>9, <1>11
    <3> QED BY <1>5, <3>1, <3>2 DEF Reg
  <2>2. rax' \in [0..7 -> Byte]
    BY <1>2, <1>11, <2>1
  <2>3. TypeOK'
    <3>1. LEN' \in 1..7 /\ LEN' \in Nat
      BY <1>4, <1>11
    <3> QED BY <1>1, <1>2, <1>3, <1>4, <1>7, <1>9, <1>11, <2>2, <3>1, CipherTyped DEF TypeOK
  <2>4. OutputSoFar'
    <3>1. Progress' = rcx + 8
      BY <1>1, <1>2, <1>11, ProgressNext
    <3> QED BY <1>1, <1>7, <3>1, OutputIs
  <2>5. KeysInStep' /\ Counted' /\ Constants' /\ Rounds'
    BY <1>1, <1>2, <1>3, <1>11 DEF KeysInStep, Counted, Constants, Rounds
  <2>6. Ready'
    <3>1. \A i \in 0..7 : rax'[i] = KeyByte(req', rcx' + i)
      BY <1>1, <2>1
    <3> QED BY <1>2, <1>11, <3>1 DEF Ready, KeyByte
  <2> QED BY <2>3, <2>4, <2>5, <2>6 DEF IInv
<1> QED BY <1>10, <1>11

LEMMA SkipMopupInv == ASSUME IInv, SkipMopup PROVE IInv'
<1>1. /\ pc = "mopup" /\ LEN < 8 /\ pc' = "loop"
      /\ UNCHANGED <<req, KEY1, KEY2, RC, T0, X, I, block, LEN, rcx, rax, mem, calls, mem0>>
  BY DEF SkipMopup, keys, tail
<1>2. /\ TypeOK /\ calls > 0 /\ req.len \in 1..128 /\ LEN \in Nat /\ LEN >= 1
      /\ block \in Block /\ rcx = 16 * block /\ rcx + LEN = req.len
      /\ X[0] = Cipher[<<req.k, req.n, block>>] /\ \A i \in 0..7 : rax[i] = X[0][i]
  BY <1>1 DEF IInv, TypeOK, Counted, Ready
<1>3. TypeOK'
  <2>1. LEN \in 1..7
    BY <1>1, <1>2
  <2> QED BY <1>1, <1>2, <2>1, CipherTyped DEF TypeOK
<1>4. OutputSoFar'
  <2>1. Progress = rcx /\ Progress' = rcx
    BY <1>1, ProgressIs, ProgressNext
  <2> QED BY <1>1, <2>1, Silent
<1>5. KeysInStep' /\ Counted' /\ Constants' /\ Rounds'
  BY <1>1, <1>2 DEF KeysInStep, Counted, Constants, Rounds
<1>6. Ready'
  <2>1. \A i \in 0..7 : rax[i] = KeyByte(req, rcx + i)
    <3>1. \A i \in 0..7 : i \in Lane
      BY DEF Lane
    <3> QED BY <1>2, <3>1, BlockBytes
  <2> QED BY <1>1, <2>1 DEF Ready, KeyByte
<1> QED BY <1>3, <1>4, <1>5, <1>6 DEF IInv

LEMMA MopupLoopInv == ASSUME IInv, MopupLoop PROVE IInv'
<1>1. /\ pc = "loop" /\ mem' = xored(mem, rcx, 1, rax)
      /\ UNCHANGED <<req, I, block, calls, mem0>>
      /\ LEN = 1 => cleared /\ pc' = "idle"
      /\ LEN # 1 => /\ rax' = [i \in 0..7 |-> IF i < 7 THEN rax[i + 1]
                                             ELSE mem[req.in + rcx] (+) rax[0]]
                    /\ rcx' = rcx + 1 /\ LEN' = LEN - 1
                    /\ UNCHANGED <<pc, KEY1, KEY2, RC, T0, X>>
  BY DEF MopupLoop, keys
<1>2. /\ TypeOK /\ calls > 0 /\ req.len \in 1..128 /\ LEN \in 1..7
      /\ rcx \in 0..127 /\ rcx + LEN = req.len /\ rax \in [0..7 -> Byte]
      /\ \A i \in 0..7 : i < LEN => rax[i] = KeyByte(req, rcx + i)
  BY <1>1 DEF IInv, TypeOK, Counted, Ready
<1>3. mem' \in [MemAddr -> Byte] /\ Output(mem', mem0, req, rcx + 1)
  <2>1. rcx = Progress /\ rcx \in Nat /\ 1 \in Nat /\ rcx + 1 <= req.len
    BY <1>1, <1>2, ProgressIs
  <2>2. \A j \in 0..(1 - 1) : rax[j] = KeyByte(req, rcx + j) /\ rax[j] \in Byte
    BY <1>2
  <2> QED BY <1>1, <1>2, <2>1, <2>2, Stored
<1>4. CASE LEN = 1
  <2>1. TypeOK'
    BY <1>1, <1>2, <1>3, <1>4, Cleared, CipherTyped DEF TypeOK
  <2>2. OutputSoFar'
    <3>1. Progress' = req.len /\ req.len = rcx + 1
      BY <1>1, <1>2, <1>4, ProgressNext
    <3> QED BY <1>1, <1>3, <3>1, OutputIs
  <2>3. KeysInStep' /\ Counted' /\ Constants' /\ Rounds' /\ Ready'
    BY <1>1, <1>4 DEF KeysInStep, Counted, Constants, Rounds, Ready
  <2> QED BY <2>1, <2>2, <2>3 DEF IInv
<1>5. CASE LEN # 1
  <2>1. /\ LEN' \in 1..6 /\ LEN' \in Nat /\ rcx' \in 0..127 /\ rcx' + LEN' = req.len
        /\ pc' = "loop"
    BY <1>1, <1>2, <1>5
  <2>2. req.in + rcx \in MemAddr
    <3> DEFINE in == req.in
               len == req.len
    <3>1. in \in Nat /\ MemSize \in Nat /\ in + len <= MemSize /\ len = rcx + LEN
      BY <1>2, Asked, MemAssumption DEF Admissible
    <3> HIDE DEF in, len
    <3>2. in + rcx \in MemAddr
      BY <1>2, <3>1 DEF MemAddr
    <3> QED BY <3>2 DEF in
  <2>3. rax' \in [0..7 -> Byte]
    <3>1. mem[req.in + rcx] (+) rax[0] \in Byte
      BY <1>2, <2>2, XorByte DEF TypeOK
    <3>2. \A i \in 0..7 : i < 7 => rax[i + 1] \in Byte
      BY <1>2
    <3> QED BY <1>1, <1>5, <3>1, <3>2
  <2>4. TypeOK'
    BY <1>1, <1>2, <1>3, <1>5, <2>1, <2>3, CipherTyped DEF TypeOK
  <2>5. OutputSoFar'
    <3>1. Progress' = rcx + 1
      BY <1>1, <1>5, <2>1, ProgressNext
    <3> QED BY <1>1, <1>3, <3>1, OutputIs
  <2>6. KeysInStep' /\ Counted' /\ Constants' /\ Rounds'
    BY <1>1, <1>2, <1>5, <2>1 DEF KeysInStep, Counted, Constants, Rounds
  <2>7. Ready'
    <3>1. \A i \in 0..7 : i < LEN' => rax'[i] = KeyByte(req', rcx' + i)
      <4> SUFFICES ASSUME NEW i \in 0..7, i < LEN' PROVE rax'[i] = KeyByte(req, rcx' + i)
        BY <1>1
      <4>1. i < 7 /\ i + 1 \in 0..7 /\ i + 1 < LEN /\ rcx + (i + 1) = rcx' + i
        BY <1>1, <1>2, <1>5, <2>1
      <4>2. rax'[i] = rax[i + 1]
        BY <1>1, <1>5, <4>1
      <4> QED BY <1>2, <4>1, <4>2
    <3> QED BY <2>1, <3>1 DEF Ready, KeyByte
  <2> QED BY <2>4, <2>5, <2>6, <2>7 DEF IInv
<1> QED BY <1>4, <1>5

LEMMA StutterInv == ASSUME IInv, UNCHANGED vars PROVE IInv'
<1>1. UNCHANGED <<pc, req, KEY1, KEY2, RC, T0, X, I, block, LEN, rcx, rax, mem, calls, mem0>>
  BY DEF vars, keys, tail
<1>2. TypeOK' /\ KeysInStep'
  BY <1>1, CipherTyped DEF IInv, TypeOK, KeysInStep
<1>3. OutputSoFar'
  BY <1>1, ProgressIs, ProgressNext, Silent DEF IInv, TypeOK
<1>4. Counted' /\ Constants'
  BY <1>1 DEF IInv, Counted, Constants
<1>5. Rounds' /\ Ready'
  BY <1>1 DEF IInv, Rounds, Blocks, State, Text, Ready, KeyByte
<1> QED BY <1>2, <1>3, <1>4, <1>5 DEF IInv

-----------------------------------------------------------------------------
(* The theorems                                                            *)

\* The inductive invariant holds in every state.
THEOREM Invariance == Spec => []IInv
<1>1. IInv /\ [Next]_vars => IInv'
  <2> SUFFICES ASSUME IInv, [Next]_vars PROVE IInv'
    OBVIOUS
  <2>1. ASSUME NEW q \in Requests, Call(q) PROVE IInv'
    BY <2>1, CallInv
  <2>2. CASE Routine
    BY <2>2, ReturnEmptyInv, TooLongInv, SetupInv, Round1Inv, Round2Inv, OddRoundInv,
       EvenRoundInv, Round13Inv, Round14Inv, StoreBlockInv, LastBlockInv, ToMopupInv,
       MopupInv, SkipMopupInv, MopupLoopInv DEF Routine
  <2>3. CASE Stopped \/ UNCHANGED vars
    BY <2>3, StutterInv DEF Stopped
  <2> QED BY <2>1, <2>2, <2>3 DEF Next
<1> QED BY <1>1, InitInv, PTL DEF Spec

\* aes256_ctr keeps its offsets and lengths in range and its registers whole,
\* and the reference's keystream fills them.
THEOREM TypeCorrect == Spec => []TypeOK
BY Invariance, PTL DEF IInv

\* Each round of each branch finds its round key in the register it names,
\* though nothing but two registers is kept of the schedule.
THEOREM KeysAreInStep == Spec => []KeysInStep
BY Invariance, PTL DEF IInv

\* At every moment the output so far is the one promised, of the memory that
\* the call began with, and every other byte is untouched: in place, apart or
\* trailing, for every length, over every carry of the counter.
THEOREM OutputIsCorrect == Spec => []OutputSoFar
BY Invariance, PTL DEF IInv

\* The request the abstract stream is given for a call of the routine.
Asking(q) == [fn |-> "xor", out |-> q.out, in |-> q.in, len |-> q.len, k |-> q.k, n |-> q.n]

\* What the stream promises is the output when a call is over.
LEMMA Promised ==
  ASSUME NEW m \in [MemAddr -> Byte], NEW m0 \in [MemAddr -> Byte], NEW q,
         Output(m, m0, q, q.len)
  PROVE  m = Stream!Crypt(m0, Asking(q))
<1> DEFINE z == Asking(q)
<1>1. /\ z.fn = "xor" /\ z.out = q.out /\ z.in = q.in /\ z.len = q.len
      /\ z.k = q.k /\ z.n = q.n
  BY DEF Asking
<1> HIDE DEF z
<1>2. \A a, b : Stream!(+)(a, b) = a (+) b
  BY DEF Stream!(+), (+)
<1>3. \A i : Stream!Source(m0, z, i) = m0[q.in + i] /\ Stream!Keystream(z, i) = KeyByte(q, i)
  BY <1>1 DEF Stream!Source, Stream!Keystream, KeyByte
<1>4. Stream!MemAddr = MemAddr
  BY DEF Stream!MemAddr, MemAddr
<1>5. Stream!Crypt(m0, z) =
        [a \in MemAddr |-> IF a \in q.out..(q.out + q.len - 1)
                           THEN m0[q.in + (a - q.out)] (+) KeyByte(q, a - q.out)
                           ELSE m0[a]]
  BY <1>1, <1>2, <1>3, <1>4 DEF Stream!Crypt
<1>6. \A a \in MemAddr : m[a] = Stream!Crypt(m0, z)[a]
  BY <1>5 DEF Output
<1> QED BY <1>5, <1>6 DEF z

\* The routine is the abstract stream: a call that returns has done in memory
\* what one step of the stream does, whatever it overwrote and in whatever
\* order, and until it returns nothing has happened.
THEOREM Implementation == Spec => ImplementsStream
<1>1. Init => Stream!Init
  BY MemAssumption
  DEF Init, Returned, Stream!Init, Stream!MemAddr, MemAddr, Stream!Byte, Byte
<1>2. IInv /\ IInv' /\ [Next]_vars => [Stream!Next]_Stream!vars
  <2> SUFFICES ASSUME IInv, IInv', [Next]_vars PROVE [Stream!Next]_Stream!vars
    OBVIOUS
  <2>1. ASSUME NEW q \in Requests, Call(q) PROVE UNCHANGED Stream!vars
    <3>1. calls \in Nat /\ calls' = calls + 1 /\ mem0' = mem /\ pc = "idle" /\ pc' = "entry"
      BY <2>1, CallsAssumption DEF Call, IInv, TypeOK
    <3>2. calls' - 1 = calls
      BY <3>1
    <3> QED BY <3>1, <3>2 DEF Returned, Stream!vars
  <2>2. CASE Routine /\ pc' = "idle"
    <3>1. /\ pc # "idle" /\ UNCHANGED <<req, calls, mem0>> /\ req.len <= 128
      <4>1. ReturnEmpty \/ LastBlock \/ MopupLoop
        BY <2>2 DEF Routine, TooLong, Setup, Round1, Round2, OddRound, EvenRound, Round13,
           Round14, StoreBlock, ToMopup, Mopup, SkipMopup
      <4>2. UNCHANGED <<req, calls, mem0>> /\ pc \in {"entry", "store", "loop"}
        BY <4>1 DEF ReturnEmpty, LastBlock, MopupLoop
      <4>3. pc = "entry" => req.len = 0
        BY <4>1 DEF ReturnEmpty, LastBlock, MopupLoop, IInv, Counted
      <4>4. pc # "entry" => req.len \in 1..128
        BY <4>2 DEF IInv, Counted
      <4> QED BY <4>2, <4>3, <4>4
    <3>2. calls > 0 /\ calls \in Nat /\ MaxCalls \in Nat /\ calls <= MaxCalls
          /\ req \in Requests /\ req.len \in Nat /\ mem' \in [MemAddr -> Byte]
          /\ mem0 \in [MemAddr -> Byte]
      BY <3>1, Asked, CallsAssumption DEF IInv, TypeOK, Counted
    <3>3. mem' = Stream!Crypt(mem0, Asking(req))
      <4>1. Progress' = req.len
        BY <2>2, <3>1, <3>2, ProgressNext
      <4>2. Output(mem', mem0, req, req.len)
        BY <3>1, <3>2, <4>1, OutputIs DEF IInv
      <4> QED BY <3>2, <4>2, Promised
    <3>4. Asking(req) \in Answered
      BY <3>1, <3>2 DEF Asking, Answered
    <3>5. calls - 1 < MaxCalls /\ calls = (calls - 1) + 1
      BY <3>2
    <3>6. Stream!Call(Asking(req))
      BY <2>2, <3>1, <3>3, <3>5 DEF Stream!Call, Returned
    <3> QED BY <3>4, <3>6 DEF Stream!Next
  <2>3. CASE Routine /\ pc' # "idle"
    <3>1. pc # "idle" /\ UNCHANGED <<mem0, calls>>
      BY <2>3 DEF Routine, ReturnEmpty, TooLong, Setup, Round1, Round2, OddRound, EvenRound,
         Round13, Round14, StoreBlock, LastBlock, ToMopup, Mopup, SkipMopup, MopupLoop
    <3> QED BY <2>3, <3>1 DEF Returned, Stream!vars
  <2>4. CASE Stopped \/ UNCHANGED vars
    BY <2>4 DEF Stopped, vars, Returned, Stream!vars
  <2> QED BY <2>1, <2>2, <2>3, <2>4 DEF Next
<1> QED BY <1>1, <1>2, Invariance, PTL DEF Spec, ImplementsStream, Stream!Spec

=============================================================================
