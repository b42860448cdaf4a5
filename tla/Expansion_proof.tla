-------------------------- MODULE Expansion_proof --------------------------
(***************************************************************************)
(* Lemmas the proofs about the key expansions share: how registers chain   *)
(* words together, what a store changes, how a store of four chained words *)
(* extends the reference schedule, and that AES-256 as the reference has   *)
(* it is the schedule and the rounds that the instructions compute.        *)
(***************************************************************************)
EXTENDS Expansion, TLAPS, WellFoundedInduction

\* The abstract schedule, for its operators on words.
W == INSTANCE KeySchedule WITH Keys <- {}, key <- Zero, ks <- Zero, n <- 0

IsSchedule(k, s, m) == W!IsSchedule(k, s, m)
ScheduleByte(k, s, i, b) == W!ScheduleByte(k, s, i, b)
Feedback(s, i, b) == W!Feedback(s, i, b)

-----------------------------------------------------------------------------
(* Bytes and registers                                                     *)

\* Exclusive-or stays within bytes and has zero as its unit.
LEMMA XorByte == /\ Zero \in Byte
                 /\ \A a, b \in Byte : a (+) b \in Byte /\ a (+) Zero = a
BY DEF Byte, (+), Zero

\* The exclusive-or of the abstract schedule is the one of the registers.
LEMMA SameXor == /\ W!Zero = Zero
                 /\ \A a, b : W!(+)(a, b) = a (+) b
BY DEF W!(+), (+), W!Zero, Zero

\* The bytes of registers, of literals and of the round constants are bytes.
LEMMA Registers ==
  /\ ZeroReg \in Reg
  /\ \A r \in Reg, i \in Lane : r[i] \in Byte
  /\ \A n : Hex(n) \in Byte
  /\ \A i \in 1..14 : Rcon[i] \in Byte
BY RconAssumption, XorByte DEF ZeroReg, Reg, Hex, Byte

\* s1, s2 and s3 are r shifted by one, two and three words, and m is the
\* exclusive-or of all four with t, which is the same in its four words.
Chained(r, t, s1, s2, s3, m) ==
  /\ r \in Reg /\ t \in Reg
  /\ \A i \in Lane : s1[i] = IF i < 4 THEN Zero ELSE r[i - 4]
  /\ \A i \in Lane : s2[i] = IF i < 4 THEN Zero ELSE s1[i - 4]
  /\ \A i \in Lane : s3[i] = IF i < 4 THEN Zero ELSE s2[i - 4]
  /\ \A i \in Lane : i >= 4 => t[i] = t[i - 4]
  /\ m = [i \in Lane |-> m[i]]
  /\ \A i \in Lane : m[i] = t[i] (+) (s3[i] (+) (s2[i] (+) (s1[i] (+) r[i])))

\* Each word of m is the word of r and the word of m before it.
LEMMA ChainedWords ==
  ASSUME NEW r, NEW t, NEW s1, NEW s2, NEW s3, NEW m,
         Chained(r, t, s1, s2, s3, m)
  PROVE  /\ m \in Reg
         /\ \A i \in Lane : m[i] = r[i] (+) (IF i < 4 THEN t[i] ELSE m[i - 4])
<1> USE DEF Chained
<1>2. \A i \in Lane : i >= 4 => i - 4 \in Lane
  BY DEF Lane
<1>5. \A i \in Lane : /\ r[i] \in Byte /\ t[i] \in Byte
                      /\ s1[i] \in Byte /\ s2[i] \in Byte /\ s3[i] \in Byte
  <2>1. \A i \in Lane : r[i] \in Byte /\ t[i] \in Byte
    BY DEF Reg
  <2>2. \A i \in Lane : s1[i] \in Byte
    BY <2>1, <1>2, XorByte DEF Lane
  <2>3. \A i \in Lane : s2[i] \in Byte
    BY <2>2, <1>2, XorByte DEF Lane
  <2>4. \A i \in Lane : s3[i] \in Byte
    BY <2>3, <1>2, XorByte DEF Lane
  <2> QED BY <2>1, <2>2, <2>3, <2>4
<1>6. m \in Reg
  <2>1. \A i \in Lane : m[i] \in Byte
    BY <1>5, XorByte
  <2> QED BY <2>1 DEF Reg
<1>7. ASSUME NEW i \in Lane
      PROVE  m[i] = r[i] (+) (IF i < 4 THEN t[i] ELSE m[i - 4])
  <2>1. CASE i < 4
    <3>1. m[i] = t[i] (+) (Zero (+) (Zero (+) (Zero (+) r[i])))
      BY <2>1
    <3> QED BY <3>1, <2>1 DEF (+), Zero
  <2>2. CASE i >= 4
    <3> DEFINE p == i - 4
    <3>1. p \in Lane /\ t[i] = t[p]
      BY <2>2, <1>2
    <3>2. /\ m[i] = t[p] (+) (s2[p] (+) (s1[p] (+) (r[p] (+) r[i])))
          /\ m[p] = t[p] (+) (s3[p] (+) (s2[p] (+) (s1[p] (+) r[p])))
      BY <3>1, <2>2 DEF Lane
    <3>3. s3[p] = Zero
      \* The shifted copies run out after three words: p is below 12.
      <4>1. p < 12
        BY <2>2 DEF Lane
      <4>2. CASE p < 4
        BY <4>2, <3>1
      <4>3. CASE p >= 4 /\ p < 8
        <5>1. p - 4 \in Lane /\ p - 4 < 4
          BY <4>3 DEF Lane
        <5>2. s2[p - 4] = Zero
          BY <5>1
        <5> QED BY <5>2, <4>3, <3>1
      <4>4. CASE p >= 8
        <5>1. /\ p - 4 \in Lane /\ p - 4 >= 4
              /\ (p - 4) - 4 \in Lane /\ (p - 4) - 4 < 4
          BY <4>4, <4>1 DEF Lane
        <5>2. s1[(p - 4) - 4] = Zero
          BY <5>1
        <5>3. s2[p - 4] = Zero
          BY <5>1, <5>2
        <5> QED BY <5>1, <5>3, <4>4, <3>1
      <4> QED BY <4>2, <4>3, <4>4, <3>1 DEF Lane
    <3>4. m[i] = r[i] (+) m[p]
      BY <3>2, <3>3 DEF (+), Zero
    <3> QED BY <3>4, <2>2 DEF Lane
  <2> QED BY <2>1, <2>2 DEF Lane
<1> QED BY <1>6, <1>7

\* A store changes its sixteen bytes and no other.
LEMMA StoreBytes ==
  ASSUME NEW mem \in [Addr -> Byte], NEW at \in Nat, at + 16 <= 4 * NumWords,
         NEW r \in Reg
  PROVE  /\ Store(mem, at, r) \in [Addr -> Byte]
         /\ \A i \in Lane : Store(mem, at, r)[at + i] = r[i]
         /\ \A a \in Addr : a \notin at..(at + 15)
                             => Store(mem, at, r)[a] = mem[a]
<1>1. \A a \in Addr : a \in at..(at + 15) => a - at \in Lane
  BY AddrAssumption DEF Lane
<1>2. \A i \in Lane : at + i \in Addr /\ at + i \in at..(at + 15)
                      /\ (at + i) - at = i
  BY AddrAssumption DEF Lane
<1>3. \A a \in Addr : Store(mem, at, r)[a] \in Byte
  BY <1>1, Registers DEF Store
<1> QED BY <1>1, <1>2, <1>3 DEF Store

-----------------------------------------------------------------------------
(* The schedule                                                            *)

\* Byte b of word i depends on words before i only, so what agrees on the words
\* before m makes the same words up to m.
LEMMA ScheduleByteLocal ==
  ASSUME NEW k, NEW s, NEW t, NEW m \in Nat, NEW i \in 0..m, NEW b \in 0..3,
         \A a \in 0..(4 * m - 1) : t[a] = s[a]
  PROVE  ScheduleByte(k, t, i, b) = ScheduleByte(k, s, i, b)
<1>1. CASE i < 8
  BY <1>1 DEF ScheduleByte, W!ScheduleByte, W!KeyWords
<1>2. CASE i >= 8
  <2>1. /\ 4 * (i - 8) + b \in 0..(4 * m - 1)
        /\ 4 * (i - 1) + b \in 0..(4 * m - 1)
        /\ 4 * (i - 1) + ((b + 1) % 4) \in 0..(4 * m - 1)
    BY <1>2
  <2> QED BY <2>1, <1>2 DEF ScheduleByte, W!ScheduleByte,
            W!Feedback, W!KeyWords
<1> QED BY <1>1, <1>2

\* Storing a register that holds words m to m + 3 extends the schedule.
LEMMA Extension ==
  ASSUME NEW k, NEW s \in [Addr -> Byte], NEW m \in Nat, m + 4 <= NumWords,
         NEW r \in Reg, IsSchedule(k, s, m),
         \A j \in 0..3, b \in 0..3 :
           r[4 * j + b] = ScheduleByte(k, Store(s, 4 * m, r), m + j, b)
  PROVE  IsSchedule(k, Store(s, 4 * m, r), m + 4)
<1> DEFINE t == Store(s, 4 * m, r)
<1>1. /\ t \in [Addr -> Byte]
      /\ \A i \in Lane : t[4 * m + i] = r[i]
      /\ \A a \in Addr : a \notin (4 * m)..(4 * m + 15) => t[a] = s[a]
  <2>1. 4 * m \in Nat /\ 4 * m + 16 <= 4 * NumWords
    BY AddrAssumption
  <2> QED BY <2>1, StoreBytes
<1> HIDE DEF t
<1>2. \A a \in 0..(4 * m - 1) : t[a] = s[a]
  BY <1>1, AddrAssumption
<1>3. SUFFICES ASSUME NEW i \in 0..(m + 3), NEW b \in 0..3
               PROVE  t[4 * i + b] = ScheduleByte(k, t, i, b)
  BY DEF IsSchedule, W!IsSchedule, ScheduleByte, t
<1>4. CASE i < m
  <2>1. i \in 0..(m - 1) /\ 4 * i + b \in 0..(4 * m - 1)
    BY <1>4
  <2>2. s[4 * i + b] = ScheduleByte(k, s, i, b)
    BY <2>1 DEF IsSchedule, W!IsSchedule, ScheduleByte
  <2>3. ScheduleByte(k, t, i, b) = ScheduleByte(k, s, i, b)
    <3>1. i \in 0..m
      BY <2>1
    <3>2. m \in Nat /\ b \in 0..3
      OBVIOUS
    <3> QED BY ONLY <1>2, <3>1, <3>2, ScheduleByteLocal
  <2> QED BY <1>2, <2>1, <2>2, <2>3
<1>5. CASE i >= m
  <2> DEFINE j == i - m
  <2>1. j \in 0..3 /\ 4 * j + b \in Lane /\ m + j = i
        /\ 4 * m + (4 * j + b) = 4 * i + b
    BY <1>5 DEF Lane
  <2>2. r[4 * j + b] = ScheduleByte(k, t, i, b)
    BY <2>1 DEF t
  <2>3. t[4 * m + (4 * j + b)] = r[4 * j + b]
    BY <1>1, <2>1
  <2> QED BY <2>1, <2>2, <2>3
<1> QED BY <1>4, <1>5

\* Half a round of an expansion: s holds m words, and new is the four words
\* eight before, chained with the feedback t0 of word m.
HalfRound(k, s, m, old, t0, new) ==
  /\ s \in [Addr -> Byte] /\ m \in Nat /\ m >= 8 /\ m + 4 <= NumWords /\ m % 4 = 0
  /\ old \in Reg /\ new \in Reg
  /\ IsSchedule(k, s, m)
  /\ \A i \in Lane : old[i] = s[4 * (m - 8) + i]
  /\ \A b \in 0..3 : t0[b] = Feedback(s, m, b)
  /\ \A i \in Lane :
       new[i] = old[i] (+) (IF i < 4 THEN t0[i] ELSE new[i - 4])

\* Stored after the words so far, it extends the schedule and nothing else.
LEMMA FourWords ==
  ASSUME NEW k, NEW s, NEW m, NEW old, NEW t0, NEW new,
         HalfRound(k, s, m, old, t0, new)
  PROVE  /\ Store(s, 4 * m, new) \in [Addr -> Byte]
         /\ \A i \in Lane : Store(s, 4 * m, new)[4 * m + i] = new[i]
         /\ \A a \in Addr : a \notin (4 * m)..(4 * m + 15)
                             => Store(s, 4 * m, new)[a] = s[a]
         /\ IsSchedule(k, Store(s, 4 * m, new), m + 4)
<1> USE DEF HalfRound
<1> DEFINE t == Store(s, 4 * m, new)
<1>1. /\ t \in [Addr -> Byte]
      /\ \A i \in Lane : t[4 * m + i] = new[i]
      /\ \A a \in Addr : a \notin (4 * m)..(4 * m + 15) => t[a] = s[a]
  <2>1. 4 * m \in Nat /\ 4 * m + 16 <= 4 * NumWords
    BY AddrAssumption
  <2> QED BY <2>1, StoreBytes
<1> HIDE DEF t
<1>2. \A a \in 0..(4 * m - 1) : t[a] = s[a]
  BY <1>1, AddrAssumption
<1>3. ASSUME NEW j \in 0..3, NEW b \in 0..3
      PROVE  new[4 * j + b] = ScheduleByte(k, t, m + j, b)
  <2>1. /\ 4 * j + b \in Lane /\ m + j >= 8 /\ (m + j) - 8 \in Nat
        /\ 4 * ((m + j) - 8) + b = 4 * (m - 8) + (4 * j + b)
        /\ 4 * ((m + j) - 8) + b \in 0..(4 * m - 1)
    BY DEF Lane
  <2>2. old[4 * j + b] = t[4 * ((m + j) - 8) + b]
    BY <2>1, <1>2
  <2>3. ScheduleByte(k, t, m + j, b)
          = t[4 * ((m + j) - 8) + b] (+) Feedback(t, m + j, b)
    BY <2>1, SameXor DEF ScheduleByte, W!ScheduleByte, W!KeyWords, Feedback
  <2>4. CASE j = 0
    <3>1. /\ 4 * j + b = b /\ b < 4 /\ m + j = m
          /\ 4 * (m - 1) + b \in 0..(4 * m - 1)
          /\ 4 * (m - 1) + ((b + 1) % 4) \in 0..(4 * m - 1)
      <4>1. (b + 1) % 4 \in 0..3 /\ m \in Nat /\ m >= 8
        OBVIOUS
      <4> HIDE DEF HalfRound
      <4>2. 4 * j + b = b /\ b < 4 /\ m + j = m
        BY <4>1, <2>4
      <4>3. \A c \in 0..3 : 4 * (m - 1) + c \in 0..(4 * m - 1)
        BY <4>1
      <4> QED BY <4>1, <4>2, <4>3
    <3>2. Feedback(t, m, b) = Feedback(s, m, b)
      BY <3>1, <1>2 DEF Feedback, W!Feedback
    <3>3. new[b] = old[b] (+) t0[b]
      BY <3>1, <2>1
    <3> QED BY <3>1, <3>2, <3>3, <2>2, <2>3
  <2>5. CASE j > 0
    <3>1. /\ ~(4 * j + b < 4) /\ (4 * j + b) - 4 \in Lane
          /\ (m + j) % 8 # 0 /\ (m + j) % 8 # 4
          /\ 4 * m + ((4 * j + b) - 4) = 4 * ((m + j) - 1) + b
      <4>1. ~(4 * j + b < 4) /\ (4 * j + b) - 4 \in Lane
        BY <2>1, <2>5 DEF Lane
      <4>2. m % 8 = 0 \/ m % 8 = 4
        OBVIOUS
      <4>3. (m + j) % 8 # 0 /\ (m + j) % 8 # 4
        BY <4>2, <2>5
      <4>4. 4 * m + ((4 * j + b) - 4) = 4 * ((m + j) - 1) + b
        OBVIOUS
      <4> QED BY <4>1, <4>3, <4>4
    <3>2. new[(4 * j + b) - 4] = t[4 * ((m + j) - 1) + b]
      BY <3>1, <1>1
    <3>3. Feedback(t, m + j, b) = t[4 * ((m + j) - 1) + b]
      BY <3>1 DEF Feedback, W!Feedback
    <3>4. new[4 * j + b] = old[4 * j + b] (+) new[(4 * j + b) - 4]
      BY <3>1, <2>1
    <3> QED BY <3>2, <3>3, <3>4, <2>2, <2>3
  <2> QED BY <2>4, <2>5
<1>4. IsSchedule(k, t, m + 4)
  <2>1. m \in Nat /\ m + 4 <= NumWords
    OBVIOUS
  <2>2. \A j \in 0..3, b \in 0..3 :
          new[4 * j + b] = ScheduleByte(k, Store(s, 4 * m, new), m + j, b)
    BY <1>3 DEF t
  <2> HIDE DEF ScheduleByte, IsSchedule
  <2> QED BY <2>1, <2>2, Extension DEF t
<1> HIDE DEF IsSchedule
<1> QED BY <1>1, <1>4 DEF t

\* The first eight words of a schedule are the key.
LEMMA KeyFirst ==
  ASSUME NEW k, NEW s, \A a \in 0..31 : s[a] = k[a]
  PROVE  IsSchedule(k, s, 8)
<1> SUFFICES ASSUME NEW i \in 0..7, NEW b \in 0..3
             PROVE  s[4 * i + b] = ScheduleByte(k, s, i, b)
  BY DEF IsSchedule, W!IsSchedule, ScheduleByte
<1>1. 4 * i + b \in 0..31 /\ i < 8
  OBVIOUS
<1> QED BY <1>1 DEF ScheduleByte, W!ScheduleByte, W!KeyWords

\* Both routines begin by storing the two halves of the key.
LEMMA KeyStored ==
  ASSUME NEW k \in [0..31 -> Byte], NEW s \in [Addr -> Byte],
         NEW k1, k1 = Load(k, 0), NEW k2, k2 = Load(k, 16),
         NEW t, t = Store(Store(s, 0, k1), 16, k2)
  PROVE  /\ k1 \in Reg /\ k2 \in Reg
         /\ t \in [Addr -> Byte]
         /\ \A i \in Lane : k1[i] = t[i] /\ k2[i] = t[16 + i]
         /\ \A a \in Addr : a \notin 0..31 => t[a] = s[a]
         /\ IsSchedule(k, t, 8)
<1> DEFINE u == Store(s, 0, k1)
<1>1. /\ k1 \in Reg /\ \A i \in Lane : k1[i] = k[i]
      /\ k2 \in Reg /\ \A i \in Lane : k2[i] = k[16 + i]
  BY DEF Load, Reg, Lane
<1>2. /\ u \in [Addr -> Byte]
      /\ \A i \in Lane : u[0 + i] = k1[i]
      /\ \A a \in Addr : a \notin 0..(0 + 15) => u[a] = s[a]
  <2>1. 0 \in Nat /\ 0 + 16 <= 4 * NumWords
    BY AddrAssumption
  <2> QED BY <2>1, <1>1, StoreBytes
<1> HIDE DEF u
<1>3. /\ t \in [Addr -> Byte]
      /\ \A i \in Lane : t[16 + i] = k2[i]
      /\ \A a \in Addr : a \notin 16..(16 + 15) => t[a] = u[a]
  <2> DEFINE v == Store(u, 16, k2)
  <2>1. 16 \in Nat /\ 16 + 16 <= 4 * NumWords
    BY AddrAssumption
  <2>2. /\ v \in [Addr -> Byte]
        /\ \A i \in Lane : v[16 + i] = k2[i]
        /\ \A a \in Addr : a \notin 16..(16 + 15) => v[a] = u[a]
    <3>1. u \in [Addr -> Byte] /\ k2 \in Reg
      BY <1>1, <1>2
    <3> QED BY ONLY <2>1, <3>1, StoreBytes
  <2>3. t = v
    BY DEF u
  <2> HIDE DEF v
  <2> QED BY <2>2, <2>3
<1>4. \A i \in Lane : t[i] = k1[i]
  BY <1>2, <1>3, AddrAssumption DEF Lane
<1>5. \A a \in Addr : a \notin 0..31 => t[a] = s[a]
  BY <1>2, <1>3
<1>6. ASSUME NEW a \in 0..31 PROVE t[a] = k[a]
  <2>1. CASE a < 16
    BY <2>1, <1>1, <1>4 DEF Lane
  <2>2. CASE a >= 16
    <3>1. a - 16 \in Lane /\ 16 + (a - 16) = a
      BY <2>2 DEF Lane
    <3> QED BY <3>1, <1>1, <1>3
  <2> QED BY <2>1, <2>2
<1>7. IsSchedule(k, t, 8)
  BY <1>6, KeyFirst
<1> QED BY <1>1, <1>3, <1>4, <1>5, <1>7

-----------------------------------------------------------------------------
(* Recursive definitions                                                   *)

\* Natural numbers are well founded.
LEMMA Least ==
  ASSUME NEW T, T \subseteq Nat, T # {}
  PROVE  \E x \in T : \A y \in T : ~(y < x)
<1>1. IsWellFoundedOn(OpToRel(<, Nat), Nat)
  BY NatLessThanWellFounded
<1>2. \E x \in T : \A y \in T : ~(<<y, x>> \in OpToRel(<, Nat))
  BY <1>1, WFMin
<1> QED BY <1>2 DEF OpToRel

\* Induction, over a set instead of a predicate.
LEMMA Induction ==
  ASSUME NEW T, 0 \in T, \A n \in Nat : n \in T => n + 1 \in T
  PROVE  Nat \subseteq T
<1> SUFFICES ASSUME Nat \ T # {} PROVE FALSE
  OBVIOUS
<1>1. PICK x \in Nat \ T : \A y \in Nat \ T : ~(y < x)
  BY Least
<1>2. x # 0 /\ x - 1 \in Nat /\ x - 1 < x /\ (x - 1) + 1 = x
  BY <1>1
<1> QED BY <1>1, <1>2

\* A list whose elements come from the ones before them.
Listed(f, n, base, F) ==
  f[0] = base /\ \A i \in 1..n : f[i] = F[i][f[i - 1]]

\* There is such a list of any length.
LEMMA Recursion ==
  ASSUME NEW S, NEW N \in Nat, NEW base \in S, NEW F \in [1..N -> [S -> S]]
  PROVE  \E f \in [0..N -> S] : Listed(f, N, base, F)
<1> DEFINE T == {n \in Nat : n <= N => \E f \in [0..n -> S] : Listed(f, n, base, F)}
<1>1. 0 \in T
  <2> DEFINE f == [i \in 0..0 |-> base]
  <2>1. f \in [0..0 -> S] /\ Listed(f, 0, base, F)
    BY DEF Listed
  <2> QED BY <2>1
<1>2. ASSUME NEW n \in Nat, n \in T PROVE n + 1 \in T
  <2> SUFFICES ASSUME n + 1 <= N
               PROVE  \E g \in [0..(n + 1) -> S] : Listed(g, n + 1, base, F)
    OBVIOUS
  <2>1. PICK f \in [0..n -> S] : Listed(f, n, base, F)
    BY <1>2
  <2> DEFINE g == [i \in 0..(n + 1) |-> IF i <= n THEN f[i] ELSE F[n + 1][f[n]]]
  <2>2. F[n + 1][f[n]] \in S
    <3>1. n + 1 \in 1..N /\ n \in 0..n
      OBVIOUS
    <3> QED BY <3>1
  <2>3. g \in [0..(n + 1) -> S]
    BY <2>2
  <2>4. ASSUME NEW i \in 1..(n + 1) PROVE g[i] = F[i][g[i - 1]]
    <3>1. i - 1 \in 0..n /\ i \in 0..(n + 1) /\ i - 1 \in 0..(n + 1) /\ i - 1 <= n
      OBVIOUS
    <3>2. g[i - 1] = f[i - 1]
      BY <3>1
    <3>3. CASE i <= n
      <4>1. i \in 1..n
        BY <3>3
      <4> QED BY <3>1, <3>2, <3>3, <4>1, <2>1 DEF Listed
    <3>4. CASE i = n + 1
      BY <3>1, <3>2, <3>4
    <3> QED BY <3>3, <3>4
  <2>5. g[0] = base
    BY <2>1 DEF Listed
  <2> QED BY <2>3, <2>4, <2>5 DEF Listed
<1> HIDE DEF T
<1>3. N \in T
  BY <1>1, <1>2, Induction
<1> QED BY <1>3 DEF T

-----------------------------------------------------------------------------
(* The schedule of AES-256                                                 *)

\* AES-256 has the exclusive-or and the schedule's bytes of the other modules.
LEMMA SameBytes == /\ Aes!Zero = Zero
                   /\ \A a, b : Aes!(+)(a, b) = a (+) b
                   /\ \A k, s, i, b :
                        Aes!ScheduleByte(k, s, i, b) = ScheduleByte(k, s, i, b)
<1>1. Aes!Zero = Zero /\ \A a, b : Aes!(+)(a, b) = a (+) b
  BY DEF Aes!(+), (+), Aes!Zero, Zero
<1>2. \A s, i, b : Aes!Feedback(s, i, b) = W!Feedback(s, i, b)
  BY <1>1, SameXor DEF Aes!Feedback, W!Feedback
<1>3. ASSUME NEW k, NEW s, NEW i, NEW b
      PROVE  Aes!ScheduleByte(k, s, i, b) = ScheduleByte(k, s, i, b)
  BY <1>1, <1>2, SameXor
  DEF Aes!ScheduleByte, ScheduleByte, W!ScheduleByte, Aes!KeyWords, W!KeyWords
<1> QED BY <1>1, <1>3

\* Two schedules of one key are the same.
LEMMA OneSchedule ==
  ASSUME NEW k, NEW s, NEW t, NEW n \in Nat, IsSchedule(k, s, n), IsSchedule(k, t, n)
  PROVE  \A a \in 0..(4 * n - 1) : s[a] = t[a]
<1> DEFINE T == {m \in Nat : m <= n => \A a \in 0..(4 * m - 1) : s[a] = t[a]}
<1>1. 0 \in T
  OBVIOUS
<1>2. ASSUME NEW m \in Nat, m \in T PROVE m + 1 \in T
  <2> SUFFICES ASSUME m + 1 <= n, NEW a \in 0..(4 * (m + 1) - 1) PROVE s[a] = t[a]
    OBVIOUS
  <2>1. \A c \in 0..(4 * m - 1) : s[c] = t[c]
    BY <1>2
  <2>2. CASE a < 4 * m
    BY <2>1, <2>2
  <2>3. CASE a >= 4 * m
    <3> DEFINE b == a - 4 * m
    <3>1. b \in 0..3 /\ 4 * m + b = a /\ m \in 0..(n - 1) /\ m \in 0..m
      BY <2>3
    <3> HIDE DEF b
    <3>2. ScheduleByte(k, t, m, b) = ScheduleByte(k, s, m, b)
      BY <2>1, <3>1, ScheduleByteLocal
    <3>3. s[a] = ScheduleByte(k, s, m, b) /\ t[a] = ScheduleByte(k, t, m, b)
      BY <3>1 DEF IsSchedule, W!IsSchedule, ScheduleByte
    <3> QED BY <3>2, <3>3
  <2> QED BY <2>2, <2>3
<1> HIDE DEF T
<1>3. n \in T
  BY <1>1, <1>2, Induction
<1> QED BY <1>3 DEF T

\* The bytes a word is made of are in the schedule, and there is a constant.
LEMMA ScheduleIndex ==
  ASSUME NEW N \in 8..120, NEW i \in 0..(N - 1), NEW b \in 0..3
  PROVE  /\ i < 8 => 4 * i + b \in 0..31
         /\ i >= 8 => /\ 4 * (i - 8) + b \in 0..(4 * N - 1)
                      /\ 4 * (i - 1) + b \in 0..(4 * N - 1)
                      /\ 4 * (i - 1) + ((b + 1) % 4) \in 0..(4 * N - 1)
                      /\ i \div 8 \in 1..14
<1>1. (b + 1) % 4 \in 0..3
  OBVIOUS
<1>2. i >= 8 => i \div 8 \in 1..14
  <2>1. i \in 0..119
    OBVIOUS
  <2> QED BY <2>1
<1> QED BY <1>1, <1>2

\* What a word of the schedule is made of are bytes.
LEMMA ScheduleByteTyped ==
  ASSUME NEW N \in 8..120, NEW k \in [0..31 -> Byte],
         NEW s \in [0..(4 * N - 1) -> Byte], NEW i \in 0..(N - 1), NEW b \in 0..3
  PROVE  ScheduleByte(k, s, i, b) \in Byte
<1>1. ScheduleByte(k, s, i, b) = IF i < 8 THEN k[4 * i + b]
                                 ELSE s[4 * (i - 8) + b] (+) W!Feedback(s, i, b)
  BY SameXor DEF ScheduleByte, W!ScheduleByte, W!KeyWords
<1>2. CASE i < 8
  <2>1. k[4 * i + b] \in Byte
    BY <1>2, ScheduleIndex
  <2> QED BY <1>1, <1>2, <2>1
<1>3. CASE i >= 8
  <2>1. i \div 8 \in 1..14
    BY <1>3, ScheduleIndex
  <2>2. /\ s[4 * (i - 8) + b] \in Byte /\ s[4 * (i - 1) + b] \in Byte
        /\ s[4 * (i - 1) + ((b + 1) % 4)] \in Byte
    BY <1>3, ScheduleIndex
  <2>3. W!Feedback(s, i, b) \in Byte
    <3>1. \A c \in Byte : Sbox[c] \in Byte
      BY SboxAssumption
    <3> QED BY <2>1, <2>2, <3>1, XorByte, SameXor, Registers DEF W!Feedback
  <2>4. ScheduleByte(k, s, i, b) = s[4 * (i - 8) + b] (+) W!Feedback(s, i, b)
    BY <1>1, <1>3
  <2>5. s[4 * (i - 8) + b] (+) W!Feedback(s, i, b) \in Byte
    BY <2>2, <2>3, XorByte
  <2> QED BY <2>4, <2>5
<1>4. i < 8 \/ i >= 8
  OBVIOUS
<1> QED BY <1>2, <1>3, <1>4

\* Word m - 1 of the schedule of k, put after the words before it.
Grown(k, s, m) ==
  [s EXCEPT ![4 * m - 4] = Aes!ScheduleByte(k, s, m - 1, 0),
            ![4 * m - 3] = Aes!ScheduleByte(k, s, m - 1, 1),
            ![4 * m - 2] = Aes!ScheduleByte(k, s, m - 1, 2),
            ![4 * m - 1] = Aes!ScheduleByte(k, s, m - 1, 3)]

KeyOnly(k, m) == [a \in 0..(4 * m - 1) |-> IF a < 32 THEN k[a] ELSE Aes!Zero]

GrownTo(k, m, f) ==
  f = [n \in 8..m |-> IF n = 8 THEN KeyOnly(k, m) ELSE Grown(k, f[n - 1], n)]

\* Bytes before a word are none of its four.
LEMMA BelowWord ==
  \A a, m \in Nat : a <= 4 * m - 5 => /\ a # 4 * m - 4 /\ a # 4 * m - 3
                                     /\ a # 4 * m - 2 /\ a # 4 * m - 1
OBVIOUS

\* That word has the reference's bytes, and the others are left alone.
LEMMA GrownBytes ==
  ASSUME NEW N \in 8..120, NEW k \in [0..31 -> Byte],
         NEW s \in [0..(4 * N - 1) -> Byte], NEW m \in 9..N
  PROVE  /\ Grown(k, s, m) \in [0..(4 * N - 1) -> Byte]
         /\ \A b \in 0..3 : Grown(k, s, m)[4 * (m - 1) + b] = ScheduleByte(k, s, m - 1, b)
         /\ \A a \in 0..(4 * (m - 1) - 1) : Grown(k, s, m)[a] = s[a]
<1> DEFINE B(b) == ScheduleByte(k, s, m - 1, b)
           t == Grown(k, s, m)
           D == 0..(4 * N - 1)
<1>1. m - 1 \in 0..(N - 1) /\ N \in 8..120
  OBVIOUS
<1>2. \A b \in 0..3 : B(b) \in Byte
  BY <1>1, ScheduleByteTyped
<1>3. t = [s EXCEPT ![4 * m - 4] = B(0), ![4 * m - 3] = B(1),
                    ![4 * m - 2] = B(2), ![4 * m - 1] = B(3)]
  BY SameBytes DEF Grown
<1> HIDE DEF B, t
<1>4. /\ 4 * m - 4 \in D /\ 4 * m - 3 \in D
      /\ 4 * m - 2 \in D /\ 4 * m - 1 \in D
  OBVIOUS
<1>5. t \in [D -> Byte]
  <2>1. B(0) \in Byte /\ B(1) \in Byte /\ B(2) \in Byte /\ B(3) \in Byte
    BY <1>2
  <2> QED BY <2>1, <1>3
<1>6. t[4 * m - 4] = B(0) /\ t[4 * m - 3] = B(1) /\ t[4 * m - 2] = B(2) /\ t[4 * m - 1] = B(3)
  BY <1>3, <1>4
<1>7. ASSUME NEW b \in 0..3 PROVE t[4 * (m - 1) + b] = B(b)
  <2>1. /\ 4 * (m - 1) + 0 = 4 * m - 4 /\ 4 * (m - 1) + 1 = 4 * m - 3
        /\ 4 * (m - 1) + 2 = 4 * m - 2 /\ 4 * (m - 1) + 3 = 4 * m - 1
    OBVIOUS
  <2>2. b = 0 \/ b = 1 \/ b = 2 \/ b = 3
    OBVIOUS
  <2> QED BY ONLY <2>1, <2>2, <1>6
<1>8. ASSUME NEW a \in 0..(4 * (m - 1) - 1) PROVE t[a] = s[a]
  <2>1. /\ a \in D /\ a # 4 * m - 4 /\ a # 4 * m - 3
        /\ a # 4 * m - 2 /\ a # 4 * m - 1
    <3>1. m \in Nat /\ N \in Nat /\ a \in Nat /\ m <= N /\ a <= 4 * m - 5
      OBVIOUS
    <3>2. a <= 4 * N - 1
      BY ONLY <3>1
    <3>3. a \in D
      BY ONLY <3>1, <3>2
    <3>4. /\ a # 4 * m - 4 /\ a # 4 * m - 3
          /\ a # 4 * m - 2 /\ a # 4 * m - 1
      BY ONLY <3>1, BelowWord
    <3> QED BY ONLY <3>3, <3>4
  <2>2. s = [x \in D |-> s[x]]
    OBVIOUS
  <2> HIDE DEF D
  <2> QED BY ONLY <2>1, <2>2, <1>3
<1> QED BY <1>5, <1>7, <1>8 DEF t, B

\* Words filled in one by one are the schedule of the abstract specification:
\* each of them is made from the words before it.
LEMMA FilledSchedule ==
  ASSUME NEW N \in 8..120, NEW k \in [0..31 -> Byte]
  PROVE  /\ Aes!ScheduleOf(k, N) \in [0..(4 * N - 1) -> Byte]
         /\ IsSchedule(k, Aes!ScheduleOf(k, N), N)
<1> DEFINE L == N - 8
           S == [0..(4 * N - 1) -> Byte]
           F == [i \in 1..L |-> [s \in S |-> Grown(k, s, i + 8)]]
           only == KeyOnly(k, N)
<1>0. N \in Nat /\ N >= 8 /\ L \in Nat
  OBVIOUS
<1>1. only \in S /\ \A a \in 0..31 : only[a] = k[a]
  <2> DEFINE D == 0..(4 * N - 1)
  <2>1. \A a \in 0..31 : a \in D /\ a < 32
    OBVIOUS
  <2>2. \A a \in D : a < 32 => a \in 0..31
    OBVIOUS
  <2>3. only = [a \in D |-> IF a < 32 THEN k[a] ELSE Zero]
    BY SameBytes DEF KeyOnly
  <2> HIDE DEF D, only
  <2>4. only \in [D -> Byte]
    BY <2>2, <2>3, XorByte
  <2> QED BY <2>1, <2>3, <2>4 DEF D
<1>2. \A s \in S, m \in 9..N : Grown(k, s, m) \in S
  BY GrownBytes
<1> HIDE DEF only
<1>3. F \in [1..L -> [S -> S]]
  <2>1. \A i \in 1..L : i + 8 \in 9..N
    BY <1>0
  <2> HIDE DEF S, L
  <2> QED BY <1>2, <2>1
<1>4. \E f : GrownTo(k, N, f)
  <2>1. PICK g \in [0..L -> S] : Listed(g, L, only, F)
    <3> HIDE DEF S, F, L
    <3> QED BY <1>0, <1>1, <1>3, Recursion
  <2> DEFINE f == [m \in 8..N |-> g[m - 8]]
  <2>2. ASSUME NEW m \in 8..N
        PROVE  f[m] = IF m = 8 THEN only ELSE Grown(k, f[m - 1], m)
    <3>1. CASE m = 8
      BY <2>1, <3>1 DEF Listed
    <3>2. CASE m # 8
      <4>1. /\ m - 8 \in 1..L /\ (m - 8) - 1 \in 0..L /\ (m - 8) + 8 = m
            /\ m - 1 \in 8..N /\ (m - 1) - 8 = (m - 8) - 1
        BY <3>2
      <4> DEFINE p == g[(m - 8) - 1]
      <4>2. g[m - 8] = F[m - 8][p] /\ p \in S
        BY <2>1, <4>1 DEF Listed
      <4> HIDE DEF p, S
      <4>3. F[m - 8][p] = Grown(k, p, m)
        BY <4>1, <4>2
      <4>4. f[m - 1] = p /\ f[m] = g[m - 8]
        BY <4>1 DEF p
      <4> QED BY <4>2, <4>3, <4>4, <3>2
    <3> QED BY <3>1, <3>2
  <2> HIDE DEF f
  <2>3. f = [m \in 8..N |-> f[m]]
    BY DEF f
  <2>4. GrownTo(k, N, f)
    BY <2>2, <2>3 DEF GrownTo, only
  <2> QED BY <2>4
<1> DEFINE f == CHOOSE f : GrownTo(k, N, f)
<1>5. GrownTo(k, N, f)
  BY <1>4
<1>6. Aes!ScheduleOf(k, N) = f[N]
  BY DEF Aes!ScheduleOf, GrownTo, KeyOnly, Grown
<1> HIDE DEF f, F
<1>7. /\ f[8] = only
      /\ \A m \in 9..N : f[m] = Grown(k, f[m - 1], m)
  <2>1. f[8] = only
    BY <1>0, <1>5 DEF GrownTo, only
  <2>2. ASSUME NEW m \in 9..N PROVE f[m] = Grown(k, f[m - 1], m)
    <3>1. m \in 8..N /\ m # 8
      BY <1>0
    <3> QED BY <3>1, <1>5 DEF GrownTo
  <2> QED BY <2>1, <2>2
<1> DEFINE T == {n \in Nat : n <= L => f[n + 8] \in S /\ IsSchedule(k, f[n + 8], n + 8)}
<1>8. 0 \in T
  <2>1. IsSchedule(k, f[8], 8)
    BY <1>1, <1>7, KeyFirst
  <2> HIDE DEF S
  <2> QED BY <1>1, <1>7, <2>1
<1>9. ASSUME NEW n \in Nat, n \in T PROVE n + 1 \in T
  <2> SUFFICES ASSUME n + 1 <= L
               PROVE  f[(n + 1) + 8] \in S /\ IsSchedule(k, f[(n + 1) + 8], (n + 1) + 8)
    <3> HIDE DEF S, L
    <3> QED OBVIOUS
  <2> DEFINE m == n + 9
             s == f[n + 8]
             t == f[n + 9]
  <2>1. m \in 9..N /\ m - 1 = n + 8 /\ (n + 1) + 8 = m /\ n <= L
    OBVIOUS
  <2> HIDE DEF L, S
  <2>2. s \in S /\ IsSchedule(k, s, n + 8)
    BY <1>9, <2>1
  <2>3. t = Grown(k, s, m)
    BY <1>7, <2>1
  <2> HIDE DEF s, t, m
  <2>4. /\ t \in S
        /\ \A b \in 0..3 : t[4 * (m - 1) + b] = ScheduleByte(k, s, m - 1, b)
        /\ \A a \in 0..(4 * (m - 1) - 1) : t[a] = s[a]
    BY <2>1, <2>2, <2>3, GrownBytes DEF S
  <2>5. ASSUME NEW i \in 0..(m - 1), NEW b \in 0..3
        PROVE  t[4 * i + b] = ScheduleByte(k, t, i, b)
    <3>1. ScheduleByte(k, t, i, b) = ScheduleByte(k, s, i, b)
      <4>1. m - 1 \in Nat
        BY <2>1
      <4> QED BY <4>1, <2>4, ScheduleByteLocal
    <3>2. CASE i = m - 1
      BY <3>1, <3>2, <2>4
    <3>3. CASE i # m - 1
      <4>1. i \in 0..((n + 8) - 1) /\ 4 * i + b \in 0..(4 * (m - 1) - 1)
        BY <3>3, <2>1
      <4>2. s[4 * i + b] = ScheduleByte(k, s, i, b)
        BY <4>1, <2>2 DEF IsSchedule, W!IsSchedule, ScheduleByte
      <4> QED BY <3>1, <4>1, <4>2, <2>4
    <3> QED BY <3>2, <3>3
  <2>6. IsSchedule(k, t, m)
    BY <2>5 DEF IsSchedule, W!IsSchedule, ScheduleByte
  <2> QED BY <2>1, <2>4, <2>6 DEF t, m
<1>10. L + 8 = N /\ L <= L
  OBVIOUS
<1> HIDE DEF T, L
<1>11. L \in T
  BY <1>0, <1>8, <1>9, Induction
<1>12. f[L + 8] \in S /\ IsSchedule(k, f[L + 8], L + 8)
  <2> HIDE DEF S
  <2> QED BY <1>10, <1>11 DEF T
<1> QED BY <1>6, <1>10, <1>12

\* The schedule of AES-256 is sixty words of it.
LEMMA AesSchedule ==
  ASSUME NEW k \in [0..31 -> Byte]
  PROVE  /\ Aes!Schedule(k) \in [Aes!Buffer -> Byte]
         /\ IsSchedule(k, Aes!Schedule(k), 60)
<1> DEFINE N == 60
<1>1. N \in 8..120 /\ 4 * N - 1 = 239
  OBVIOUS
<1>2. N = 60
  OBVIOUS
<1> HIDE DEF N
<1>3. /\ Aes!ScheduleOf(k, N) \in [0..(4 * N - 1) -> Byte]
      /\ IsSchedule(k, Aes!ScheduleOf(k, N), N)
  BY <1>1, FilledSchedule
<1> QED BY <1>1, <1>2, <1>3 DEF Aes!Schedule, Aes!Buffer

-----------------------------------------------------------------------------
(* The cipher                                                              *)

\* Exclusive-or is associative and commutative.
LEMMA XorLaws ==
  /\ \A a, b : a (+) b = b (+) a
  /\ \A a, b, c : (a (+) b) (+) c = a (+) (b (+) c)
BY DEF (+)

\* A value computed once is the value.
LEMMA HeldIsSame ==
  ASSUME NEW r
  PROVE  Held(r) = r /\ Aes!Held(r) = r
BY DEF Held, Aes!Held


\* Four products and sums of one column are those of the T-boxes.
LEMMA Column ==
  ASSUME NEW s \in [0..3 -> Byte], NEW k \in 0..3
  PROVE  LET r(n) == s[(k + n) % 4]
             T(j) == Aes!times(Aes!G(j, k), s[j])
         IN  (Mul2[r(0)] (+) (Mul2[r(1)] (+) r(1))) (+) (r(2) (+) r(3))
               = (T(0) (+) T(1)) (+) (T(2) (+) T(3))
<1> DEFINE T(j) == Aes!times(Aes!G(j, k), s[j])
<1>2. /\ \A b : Aes!times(1, b) = b
      /\ \A b : Aes!times(2, b) = Mul2[b]
      /\ \A b : Aes!times(3, b) = Mul2[b] (+) b
  BY SameBytes DEF Aes!times
<1>3. CASE k = 0
  <2>1. T(0) = Mul2[s[0]] /\ T(1) = Mul2[s[1]] (+) s[1] /\ T(2) = s[2] /\ T(3) = s[3]
    BY <1>2, <1>3 DEF Aes!G
  <2> QED BY <2>1, <1>3
<1>4. CASE k = 1
  <2>1. T(0) = s[0] /\ T(1) = Mul2[s[1]] /\ T(2) = Mul2[s[2]] (+) s[2] /\ T(3) = s[3]
    BY <1>2, <1>4 DEF Aes!G
  <2>2. \A a, b, c, d : (b (+) c) (+) (d (+) a) = (a (+) b) (+) (c (+) d)
    BY XorLaws
  <2>3. s[(k + 0) % 4] = s[1] /\ s[(k + 1) % 4] = s[2]
        /\ s[(k + 2) % 4] = s[3] /\ s[(k + 3) % 4] = s[0]
    BY <1>4
  <2>4. (Mul2[s[1]] (+) (Mul2[s[2]] (+) s[2])) (+) (s[3] (+) s[0])
          = (s[0] (+) Mul2[s[1]]) (+) ((Mul2[s[2]] (+) s[2]) (+) s[3])
    BY <2>2
  <2> QED BY <2>1, <2>3, <2>4
<1>5. CASE k = 2
  <2>1. T(0) = s[0] /\ T(1) = s[1] /\ T(2) = Mul2[s[2]] /\ T(3) = Mul2[s[3]] (+) s[3]
    BY <1>2, <1>5 DEF Aes!G
  <2>2. \A a, b, c, d : (c (+) d) (+) (a (+) b) = (a (+) b) (+) (c (+) d)
    BY XorLaws
  <2>3. s[(k + 0) % 4] = s[2] /\ s[(k + 1) % 4] = s[3]
        /\ s[(k + 2) % 4] = s[0] /\ s[(k + 3) % 4] = s[1]
    BY <1>5
  <2>4. (Mul2[s[2]] (+) (Mul2[s[3]] (+) s[3])) (+) (s[0] (+) s[1])
          = (s[0] (+) s[1]) (+) (Mul2[s[2]] (+) (Mul2[s[3]] (+) s[3]))
    BY <2>2
  <2> QED BY <2>1, <2>3, <2>4
<1>6. CASE k = 3
  <2>1. T(0) = Mul2[s[0]] (+) s[0] /\ T(1) = s[1] /\ T(2) = s[2] /\ T(3) = Mul2[s[3]]
    BY <1>2, <1>6 DEF Aes!G
  <2>2. \A a, b, c, d : (d (+) a) (+) (b (+) c) = (a (+) b) (+) (c (+) d)
    BY XorLaws
  <2>3. s[(k + 0) % 4] = s[3] /\ s[(k + 1) % 4] = s[0]
        /\ s[(k + 2) % 4] = s[1] /\ s[(k + 3) % 4] = s[2]
    BY <1>6
  <2>4. (Mul2[s[3]] (+) (Mul2[s[0]] (+) s[0])) (+) (s[1] (+) s[2])
          = ((Mul2[s[0]] (+) s[0]) (+) s[1]) (+) (s[2] (+) Mul2[s[3]])
    BY <2>2
  <2> QED BY <2>1, <2>3, <2>4
<1> QED BY <1>3, <1>4, <1>5, <1>6

\* Index of row n further on, in the column of byte i.
Row(i, n) == 4 * (i \div 4) + ((i + n) % 4)

LEMMA RowIndex ==
  \A i \in Lane, n \in 0..3 : /\ Row(i, n) \in Lane
                              /\ Row(i, n) \div 4 = i \div 4
                              /\ Row(i, n) % 4 = ((i % 4) + n) % 4
BY DEF Row, Lane

\* ShiftRows brings to a byte what the reference's ShiftRow brings to its row.
LEMMA Gathered ==
  ASSUME NEW a \in Reg, NEW i \in Lane
  PROVE  /\ ShiftRows(a)[i] = Aes!shifted(a, i \div 4, i % 4)
         /\ ShiftRows(a)[i] \in Byte
<1>1. i \in {0, 1, 2, 3, 4, 5, 6, 7, 8, 9, 10, 11, 12, 13, 14, 15}
  BY DEF Lane
<1>2. /\ (i + 4 * (i % 4)) % 16 = 4 * (((i \div 4) + (i % 4)) % 4) + (i % 4)
      /\ (i + 4 * (i % 4)) % 16 \in Lane
  BY <1>1 DEF Lane
<1>3. ShiftRows(a)[i] = a[(i + 4 * (i % 4)) % 16]
  BY DEF ShiftRows
<1> QED BY <1>2, <1>3, Registers DEF Aes!shifted

\* VAESENC and VAESENCLAST, byte by byte.
LEMMA AesRound ==
  ASSUME NEW a, NEW k, NEW i \in Lane
  PROVE  /\ VAESENC(a, k)[i] =
              (LET r(n) == Sbox[ShiftRows(a)[Row(i, n)]]
               IN  (Mul2[r(0)] (+) (Mul2[r(1)] (+) r(1))) (+) (r(2) (+) r(3)))
                (+) k[i]
         /\ VAESENCLAST(a, k)[i] = Sbox[ShiftRows(a)[i]] (+) k[i]
<1>1. \A n \in 0..3 : SubBytes(ShiftRows(a))[Row(i, n)]
                         = Sbox[ShiftRows(a)[Row(i, n)]]
  BY RowIndex DEF SubBytes
<1>2. SubBytes(ShiftRows(a))[i] = Sbox[ShiftRows(a)[i]]
  BY DEF SubBytes
<1>3. VAESENC(a, k)[i] = MixColumns(SubBytes(ShiftRows(a)))[i] (+) k[i]
  BY DEF VAESENC, VPXOR
<1>4. VAESENCLAST(a, k)[i] = SubBytes(ShiftRows(a))[i] (+) k[i]
  BY DEF VAESENCLAST, VPXOR
<1>5. MixColumns(SubBytes(ShiftRows(a)))[i] =
        LET r(n) == SubBytes(ShiftRows(a))[Row(i, n)]
        IN  (Mul2[r(0)] (+) (Mul2[r(1)] (+) r(1))) (+) (r(2) (+) r(3))
  BY DEF MixColumns, Row
<1> QED BY <1>1, <1>2, <1>3, <1>4, <1>5

\* The register holds round key r of the schedule.
IsKey(key, s, r) == key \in Reg /\ \A i \in Lane : key[i] = s[16 * r + i]

\* For every S-box and doubling, VAESENC is a round of the reference.
LEMMA RoundIsRound ==
  ASSUME NEW a \in Reg, NEW s, NEW r \in Nat, NEW key, IsKey(key, s, r)
  PROVE  VAESENC(a, key) = Aes!round(a, s, r) /\ VAESENC(a, key) \in Reg
<1> DEFINE T(n, j) == Aes!TBox(j, Aes!shifted(a, n \div 4, j), n % 4)
           sum(n) == (T(n, 0) (+) T(n, 1)) (+) (T(n, 2) (+) T(n, 3))
           row(n, m) == Sbox[ShiftRows(a)[Row(n, m)]]
           mixed(n) == (Mul2[row(n, 0)] (+) (Mul2[row(n, 1)] (+) row(n, 1)))
                         (+) (row(n, 2) (+) row(n, 3))
<1>1. \A n \in Lane : Aes!round(a, s, r)[n] = sum(n) (+) s[16 * r + n]
  BY SameBytes DEF Aes!round, Lane
<1>2. ASSUME NEW n \in Lane, NEW m \in 0..3 PROVE row(n, m) \in Byte
  BY RowIndex, Gathered, SboxAssumption
<1>3. ASSUME NEW n \in Lane PROVE mixed(n) = sum(n)
  <2> DEFINE c == n \div 4
             col == [j \in 0..3 |-> Sbox[Aes!shifted(a, c, j)]]
  <2>1. n % 4 \in 0..3 /\ \A m \in 0..3 : ((n % 4) + m) % 4 \in 0..3
    BY DEF Lane
  <2>2. \A j \in 0..3 : Aes!shifted(a, c, j) \in Byte
    <3>1. \A j \in 0..3 : 4 * ((c + j) % 4) + j \in Lane
      BY DEF Lane
    <3> QED BY <3>1, Registers DEF Aes!shifted
  <2>3. col \in [0..3 -> Byte]
    BY <2>2, SboxAssumption
  <2>4. \A j \in 0..3 : T(n, j) = Aes!times(Aes!G(j, n % 4), col[j])
    BY DEF Aes!TBox
  <2>5. ASSUME NEW m \in 0..3 PROVE row(n, m) = col[((n % 4) + m) % 4]
    <3> DEFINE q == Row(n, m)
    <3>1. q \in Lane /\ q \div 4 = c /\ q % 4 = ((n % 4) + m) % 4
      BY RowIndex
    <3> HIDE DEF q
    <3>2. ShiftRows(a)[q] = Aes!shifted(a, c, ((n % 4) + m) % 4)
      BY <3>1, Gathered
    <3> QED BY <3>2, <2>1 DEF q
  <2> HIDE DEF col, T, row
  <2> QED BY <2>1, <2>3, <2>4, <2>5, Column
<1>4. \A n \in Lane : VAESENC(a, key)[n] = mixed(n) (+) key[n]
  BY AesRound
<1> HIDE DEF mixed, sum
<1>5. \A n \in Lane : VAESENC(a, key)[n] = Aes!round(a, s, r)[n]
  BY <1>1, <1>3, <1>4 DEF IsKey
<1>6. ASSUME NEW n \in Lane PROVE VAESENC(a, key)[n] \in Byte
  <2>1. /\ row(n, 0) \in Byte /\ row(n, 1) \in Byte
        /\ row(n, 2) \in Byte /\ row(n, 3) \in Byte
    BY <1>2
  <2> HIDE DEF row
  <2>2. mixed(n) \in Byte
    BY <2>1, Mul2Assumption, XorByte DEF mixed
  <2>3. key[n] \in Byte
    BY Registers DEF IsKey
  <2> QED BY <2>2, <2>3, <1>4, XorByte
<1>7. VAESENC(a, key) = [n \in Lane |-> VAESENC(a, key)[n]]
  BY DEF VAESENC, VPXOR
<1>8. Aes!round(a, s, r) = [n \in Lane |-> Aes!round(a, s, r)[n]]
  BY DEF Aes!round, Lane
<1> QED BY <1>5, <1>6, <1>7, <1>8 DEF Reg

\* And VAESENCLAST is its last.
LEMMA LastIsLast ==
  ASSUME NEW a \in Reg, NEW s, NEW key, IsKey(key, s, 14)
  PROVE  VAESENCLAST(a, key) = Aes!last(a, s) /\ VAESENCLAST(a, key) \in Reg
<1>1. \A n \in Lane : Aes!last(a, s)[n] = Sbox[Aes!shifted(a, n \div 4, n % 4)]
                                           (+) s[16 * 14 + n]
  BY SameBytes DEF Aes!last, Lane
<1>2. \A n \in Lane : VAESENCLAST(a, key)[n] = Sbox[ShiftRows(a)[n]] (+) key[n]
  BY AesRound
<1>3. \A n \in Lane : VAESENCLAST(a, key)[n] = Aes!last(a, s)[n]
  BY <1>1, <1>2, Gathered DEF IsKey
<1>4. \A n \in Lane : VAESENCLAST(a, key)[n] \in Byte
  BY <1>2, Gathered, Registers, XorByte, SboxAssumption DEF IsKey
<1>5. VAESENCLAST(a, key) = [n \in Lane |-> VAESENCLAST(a, key)[n]]
  BY DEF VAESENCLAST, VPXOR
<1>6. Aes!last(a, s) = [n \in Lane |-> Aes!last(a, s)[n]]
  BY DEF Aes!last, Lane
<1> QED BY <1>3, <1>4, <1>5, <1>6 DEF Reg

\* Round 0.
LEMMA FirstIsFirst ==
  ASSUME NEW a \in Reg, NEW s, NEW key, IsKey(key, s, 0)
  PROVE  VPXOR(a, key) = Aes!first(a, s) /\ VPXOR(a, key) \in Reg
<1>1. \A n \in Lane : VPXOR(a, key)[n] = a[n] (+) s[n]
  <2>1. \A n \in Lane : 16 * 0 + n = n
    BY DEF Lane
  <2> QED BY <2>1 DEF VPXOR, IsKey
<1>2. \A n \in Lane : VPXOR(a, key)[n] \in Byte
  BY Registers, XorByte DEF VPXOR, IsKey
<1>3. Aes!first(a, s) = [n \in Lane |-> a[n] (+) s[n]]
  BY SameBytes DEF Aes!first, Lane
<1>4. VPXOR(a, key) = [n \in Lane |-> VPXOR(a, key)[n]]
  BY DEF VPXOR
<1> QED BY <1>1, <1>2, <1>3, <1>4 DEF Reg

\* A schedule's round keys can be loaded from it.
LEMMA KeyLoaded ==
  ASSUME NEW s \in [Aes!Buffer -> Byte], NEW r \in 0..14
  PROVE  IsKey(Load(s, 16 * r), s, r)
<1>1. \A i \in Lane : 16 * r + i \in Aes!Buffer
  BY DEF Lane, Aes!Buffer
<1> QED BY <1>1 DEF IsKey, Load, Reg

\* The states of the reference, as a list.
StatesOf(s, text, f) ==
  f = [r \in 0..13 |-> IF r = 0 THEN Aes!Held(Aes!first(text, s))
                      ELSE Aes!Held(Aes!round(f[r - 1], s, r))]

\* Each state is made from the one before it, as the recursion says.
LEMMA StateByState ==
  ASSUME NEW s \in [Aes!Buffer -> Byte], NEW text \in Reg
  PROVE  /\ Aes!States(s, text)[0] = Aes!first(text, s)
         /\ \A r \in 1..13 : Aes!States(s, text)[r]
                               = Aes!round(Aes!States(s, text)[r - 1], s, r)
         /\ \A r \in 0..13 : Aes!States(s, text)[r] \in Reg
<1> DEFINE F == [r \in 1..13 |-> [a \in Reg |-> Aes!round(a, s, r)]]
           base == Aes!first(text, s)
<1>1. \A a \in Reg, r \in 1..13 : Aes!round(a, s, r) \in Reg
  <2> SUFFICES ASSUME NEW a \in Reg, NEW r \in 1..13 PROVE Aes!round(a, s, r) \in Reg
    OBVIOUS
  <2>1. IsKey(Load(s, 16 * r), s, r)
    BY KeyLoaded
  <2> QED BY <2>1, RoundIsRound
<1>2. base \in Reg
  <2>1. IsKey(Load(s, 16 * 0), s, 0)
    BY KeyLoaded
  <2> QED BY <2>1, FirstIsFirst
<1>3. \A a \in Reg : Aes!Held(a) = a
  BY HeldIsSame DEF Reg
<1> HIDE DEF base
<1>4. F \in [1..13 -> [Reg -> Reg]]
  BY <1>1
<1>5. \E f : StatesOf(s, text, f)
  <2>1. PICK f \in [0..13 -> Reg] : Listed(f, 13, base, F)
    <3> HIDE DEF F
    <3> QED BY <1>2, <1>4, Recursion
  <2>2. ASSUME NEW r \in 0..13
        PROVE  f[r] = IF r = 0 THEN Aes!Held(base) ELSE Aes!Held(Aes!round(f[r - 1], s, r))
    <3>1. CASE r = 0
      BY <2>1, <3>1, <1>2, <1>3 DEF Listed
    <3>2. CASE r # 0
      <4>1. r \in 1..13 /\ r - 1 \in 0..13
        BY <3>2
      <4>2. f[r] = F[r][f[r - 1]] /\ f[r - 1] \in Reg
        BY <4>1, <2>1 DEF Listed
      <4>3. f[r] = Aes!round(f[r - 1], s, r)
        BY <4>1, <4>2
      <4> QED BY <4>1, <4>2, <4>3, <3>2, <1>1, <1>3
    <3> QED BY <3>1, <3>2
  <2>3. f = [r \in 0..13 |-> f[r]]
    OBVIOUS
  <2>4. StatesOf(s, text, f)
    BY <2>2, <2>3 DEF StatesOf, base
  <2> QED BY <2>4
<1> DEFINE f == CHOOSE f : StatesOf(s, text, f)
<1>6. StatesOf(s, text, f)
  BY <1>5
<1>7. Aes!States(s, text) = f
  BY DEF Aes!States, StatesOf
<1> HIDE DEF f, F
<1>8. f[0] = base
  BY <1>6, <1>2, <1>3 DEF StatesOf, base
<1>9. \A r \in 1..13 : f[r] = Aes!Held(Aes!round(f[r - 1], s, r))
  BY <1>6 DEF StatesOf
<1> DEFINE T == {n \in Nat : n <= 13 => f[n] \in Reg}
<1>10. 0 \in T
  BY <1>2, <1>8
<1>11. ASSUME NEW n \in Nat, n \in T PROVE n + 1 \in T
  <2> SUFFICES ASSUME n + 1 <= 13 PROVE f[n + 1] \in Reg
    OBVIOUS
  <2>1. n + 1 \in 1..13 /\ (n + 1) - 1 = n /\ n <= 13
    OBVIOUS
  <2>2. f[n] \in Reg
    BY <2>1, <1>11
  <2>3. f[n + 1] = Aes!Held(Aes!round(f[n], s, n + 1))
    BY <2>1, <1>9
  <2> QED BY <2>1, <2>2, <2>3, <1>1, <1>3
<1> HIDE DEF T
<1>12. Nat \subseteq T
  BY <1>10, <1>11, Induction
<1>13. \A r \in 0..13 : f[r] \in Reg
  BY <1>12 DEF T
<1>14. ASSUME NEW r \in 1..13 PROVE f[r] = Aes!round(f[r - 1], s, r)
  <2>1. r - 1 \in 0..13
    OBVIOUS
  <2> QED BY <2>1, <1>1, <1>3, <1>9, <1>13
<1> QED BY <1>7, <1>8, <1>13, <1>14 DEF base

-----------------------------------------------------------------------------
(* The key expansions of AES-256                                           *)

\* A round constant on some bytes of a register and nowhere else.
ConstantOn(v, L, rc) ==
  v \in Reg /\ \A i \in Lane : v[i] = IF i \in L THEN rc ELSE Zero

\* A shift of the register makes the next constant of AES-256.
LEMMA NextConstant ==
  ASSUME PowersOfTwo, NEW L, NEW v, NEW j \in 1..6, ConstantOn(v, L, Rcon[j])
  PROVE  ConstantOn(VPSLLD1(v), L, Rcon[j + 1])
<1>1. /\ Rcon[j] \in Byte /\ Rcon[j + 1] \in Byte
      /\ 7 \notin Rcon[j] /\ Rcon[j + 1] = {b + 1 : b \in Rcon[j]}
  BY Registers DEF PowersOfTwo
<1>2. \A i \in Lane : VPSLLD1(v)[i] =
         {b \in Bit : IF b = 0 THEN i % 4 # 0 /\ 7 \in v[i - 1] ELSE b - 1 \in v[i]}
  BY DEF VPSLLD1
<1>3. \A i \in Lane : i % 4 # 0 => i - 1 \in Lane
  BY DEF Lane
<1>4. \A i \in Lane : i % 4 # 0 => 7 \notin v[i - 1]
  BY <1>1, <1>3 DEF ConstantOn, Zero
<1>5. \A i \in Lane : VPSLLD1(v)[i] = {b \in Bit : b # 0 /\ b - 1 \in v[i]}
  BY <1>2, <1>4
<1>6. ASSUME NEW i \in Lane, i \in L PROVE VPSLLD1(v)[i] = Rcon[j + 1]
  <2>1. VPSLLD1(v)[i] = {b \in 0..7 : b # 0 /\ b - 1 \in Rcon[j]}
    BY <1>5, <1>6, BitAssumption DEF ConstantOn
  <2>2. Rcon[j] \subseteq 0..7
    BY <1>1, BitAssumption DEF Byte
  <2>3. \A b \in 0..7 : (b # 0 /\ b - 1 \in Rcon[j]) <=> b \in Rcon[j + 1]
    BY <1>1, <2>2
  <2>4. Rcon[j + 1] \subseteq 0..7
    BY <1>1, BitAssumption DEF Byte
  <2> QED BY <2>1, <2>3, <2>4
<1>7. \A i \in Lane : i \notin L => VPSLLD1(v)[i] = Zero
  BY <1>5 DEF ConstantOn, Zero
<1>8. VPSLLD1(v) \in Reg
  <2>1. \A i \in Lane : VPSLLD1(v)[i] \in Byte
    BY <1>1, <1>6, <1>7, XorByte
  <2>2. VPSLLD1(v) = [i \in Lane |-> VPSLLD1(v)[i]]
    BY DEF VPSLLD1
  <2> QED BY <2>1, <2>2 DEF Reg
<1> QED BY <1>6, <1>7, <1>8 DEF ConstantOn

\* The feedback of an even round key: SubWord(RotWord(.)) of the last word of r
\* in all four words, with a constant on their first bytes or on the first.
Rotated(t, r, rc) ==
  /\ t \in Reg
  /\ \A i \in Lane : t[i] = Sbox[r[12 + ((i + 1) % 4)]]
                              (+) (IF i % 4 = 0 THEN rc ELSE Zero)

\* The feedback of an odd one: SubWord of the last word, in all four.
Repeated(t, r) ==
  t \in Reg /\ \A i \in Lane : t[i] = Sbox[r[12 + (i % 4)]]

\* Four words, each of r and the one before, the first of r and t.
Grows(new, r, t) ==
  /\ new \in Reg
  /\ \A i \in Lane : new[i] = r[i] (+) (IF i < 4 THEN t[i] ELSE new[i - 4])

\* Both feedbacks are the same in their four words.
LEMMA FourFold ==
  ASSUME NEW t, NEW r, NEW rc, Rotated(t, r, rc) \/ Repeated(t, r)
  PROVE  t \in Reg /\ \A i \in Lane : i >= 4 => t[i] = t[i - 4]
<1>1. \A i \in Lane : i >= 4 => /\ i - 4 \in Lane
                                /\ (i - 4) % 4 = i % 4
                                /\ ((i - 4) + 1) % 4 = (i + 1) % 4
  BY DEF Lane
<1>2. CASE Rotated(t, r, rc)
  BY <1>1, <1>2 DEF Rotated
<1>3. CASE Repeated(t, r)
  BY <1>1, <1>3 DEF Repeated
<1> QED BY <1>2, <1>3

\* Four words grown from the eight before them are the next round key.
LEMMA NextKey ==
  ASSUME NEW k, NEW s, IsSchedule(k, s, 60), NEW j \in 2..14,
         NEW r1, IsKey(r1, s, j - 2), NEW t, NEW new, Grows(new, r1, t),
         \A b \in 0..3 : t[b] = Feedback(s, 4 * j, b)
  PROVE  IsKey(new, s, j)
<1> DEFINE word(i) == 4 * j + (i \div 4)
<1>1. \A i \in Lane : /\ word(i) \in 8..59 /\ 4 * word(i) + (i % 4) = 16 * j + i
                      /\ i % 4 \in 0..3
                      /\ 4 * (word(i) - 8) + (i % 4) = 16 * (j - 2) + i
  BY DEF Lane
<1>2. ASSUME NEW i \in Lane
      PROVE  s[16 * j + i] = r1[i] (+) Feedback(s, word(i), i % 4)
  <2>1. s[4 * word(i) + (i % 4)] = ScheduleByte(k, s, word(i), i % 4)
    BY <1>1 DEF IsSchedule, W!IsSchedule, ScheduleByte
  <2>2. ScheduleByte(k, s, word(i), i % 4)
          = s[4 * (word(i) - 8) + (i % 4)] (+) Feedback(s, word(i), i % 4)
    <3>1. ~(word(i) < 8)
      BY <1>1
    <3> HIDE DEF word
    <3> QED BY <3>1, SameXor DEF ScheduleByte, W!ScheduleByte, W!KeyWords, Feedback
  <2> HIDE DEF word
  <2>3. s[4 * (word(i) - 8) + (i % 4)] = r1[i]
    BY <1>1 DEF IsKey
  <2> QED BY <1>1, <2>1, <2>2, <2>3
<1>3. ASSUME NEW i \in Lane, i >= 4
      PROVE  Feedback(s, word(i), i % 4) = s[16 * j + (i - 4)]
  <2>1. /\ word(i) % 8 # 0 /\ word(i) % 8 # 4
        /\ 4 * (word(i) - 1) + (i % 4) = 16 * j + (i - 4)
    BY <1>3 DEF Lane
  <2> HIDE DEF word
  <2> QED BY <2>1 DEF Feedback, W!Feedback
<1>4. ASSUME NEW i \in Lane, i < 4
      PROVE  new[i] = s[16 * j + i]
  <2>1. word(i) = 4 * j /\ i % 4 = i /\ i \in 0..3
    BY <1>4 DEF Lane
  <2>2. t[i] = Feedback(s, word(i), i % 4)
    BY <2>1
  <2> HIDE DEF word
  <2> QED BY <1>2, <1>4, <2>2 DEF Grows
<1> HIDE DEF word
<1>5. \A i \in Lane : i >= 4 => new[i] = r1[i] (+) new[i - 4]
  BY DEF Grows, Lane
<1>6. \A i \in Lane : i >= 4 => s[16 * j + i] = r1[i] (+) s[16 * j + (i - 4)]
  BY <1>2, <1>3
<1> DEFINE same(i) == new[i] = s[16 * j + i]
<1>7. ASSUME NEW i \in Lane, i >= 4, same(i - 4) PROVE same(i)
  BY <1>5, <1>6, <1>7
<1>8. \A i \in 0..3 : same(i)
  BY <1>4 DEF Lane
<1> HIDE DEF same
<1>9. \A i \in 4..7 : same(i)
  <2>1. \A i \in 4..7 : i \in Lane /\ i >= 4 /\ i - 4 \in 0..3
    BY DEF Lane
  <2> QED BY <2>1, <1>7, <1>8
<1>10. \A i \in 8..11 : same(i)
  <2>1. \A i \in 8..11 : i \in Lane /\ i >= 4 /\ i - 4 \in 4..7
    BY DEF Lane
  <2> QED BY <2>1, <1>7, <1>9
<1>11. \A i \in 12..15 : same(i)
  <2>1. \A i \in 12..15 : i \in Lane /\ i >= 4 /\ i - 4 \in 8..11
    BY DEF Lane
  <2> QED BY <2>1, <1>7, <1>10
<1>12. \A i \in Lane : same(i)
  <2>1. \A i \in Lane : i \in 0..3 \/ i \in 4..7 \/ i \in 8..11 \/ i \in 12..15
    BY DEF Lane
  <2> QED BY <2>1, <1>8, <1>9, <1>10, <1>11
<1> QED BY <1>12 DEF IsKey, Grows, same

\* An even round key from the two before it and its constant.
LEMMA NextEvenKey ==
  ASSUME NEW k, NEW s, IsSchedule(k, s, 60), NEW j \in 1..7,
         NEW r1, IsKey(r1, s, 2 * j - 2), NEW r2, IsKey(r2, s, 2 * j - 1),
         NEW t, Rotated(t, r2, Rcon[j]), NEW new, Grows(new, r1, t)
  PROVE  IsKey(new, s, 2 * j)
<1>1. ASSUME NEW b \in 0..3 PROVE t[b] = Feedback(s, 4 * (2 * j), b)
  <2>1. /\ b \in Lane /\ b % 4 = b /\ 12 + ((b + 1) % 4) \in Lane
    BY DEF Lane
  <2>2. /\ 16 * (2 * j - 1) + (12 + ((b + 1) % 4)) = 4 * (4 * (2 * j) - 1) + ((b + 1) % 4)
        /\ (4 * (2 * j)) % 8 = 0 /\ (4 * (2 * j)) \div 8 = j
    OBVIOUS
  <2>3. r2[12 + ((b + 1) % 4)] = s[4 * (4 * (2 * j) - 1) + ((b + 1) % 4)]
    BY <2>1, <2>2 DEF IsKey
  <2>4. t[b] = Sbox[r2[12 + ((b + 1) % 4)]] (+) (IF b = 0 THEN Rcon[j] ELSE Zero)
    BY <2>1 DEF Rotated
  <2> QED BY <2>2, <2>3, <2>4, SameXor DEF Feedback, W!Feedback
<1>2. 2 * j \in 2..14
  OBVIOUS
<1> QED BY <1>1, <1>2, NextKey

\* An odd one.
LEMMA NextOddKey ==
  ASSUME NEW k, NEW s, IsSchedule(k, s, 60), NEW j \in 1..6,
         NEW r1, IsKey(r1, s, 2 * j - 1), NEW r2, IsKey(r2, s, 2 * j),
         NEW t, Repeated(t, r2), NEW new, Grows(new, r1, t)
  PROVE  IsKey(new, s, 2 * j + 1)
<1> DEFINE m == 2 * j + 1
<1>1. ASSUME NEW b \in 0..3 PROVE t[b] = Feedback(s, 4 * m, b)
  <2>1. b \in Lane /\ b % 4 = b /\ 12 + b \in Lane
    BY DEF Lane
  <2>2. /\ 16 * (2 * j) + (12 + b) = 4 * (4 * m - 1) + b
        /\ (4 * m) % 8 = 4
    OBVIOUS
  <2>3. r2[12 + b] = s[4 * (4 * m - 1) + b]
    BY <2>1, <2>2 DEF IsKey
  <2>4. t[b] = Sbox[r2[12 + b]]
    BY <2>1 DEF Repeated
  <2> QED BY <2>2, <2>3, <2>4, SameXor DEF Feedback, W!Feedback
<1>2. m \in 2..14 /\ m - 2 = 2 * j - 1
  OBVIOUS
<1>3. IsKey(r1, s, m - 2)
  BY <1>2
<1> HIDE DEF m
<1>4. IsKey(new, s, m)
  BY <1>1, <1>2, <1>3, NextKey
<1> QED BY <1>4 DEF m

-----------------------------------------------------------------------------
(* The expansion of expansion/expand.s, in both routines that have it      *)

Shuf1 == [i \in Lane |-> 12 + (i % 4)]

Shuf2 == [i \in Lane |-> <<9, 6, 3, 12>>[(i % 4) + 1]]

ShufL == [i \in Lane |-> IF i < 4 THEN 255 ELSE i - 4]

Mixed(r, new) ==
  LET k1 == VPXOR(r, VPSHUFB(r, ShufL))
      k2 == VPXOR(k1, VPSHUFB(k1, ShufL))
      k3 == VPXOR(k2, VPSHUFB(k2, ShufL))
  IN  VPXOR(k3, new)

Unrotate(r, rc) == VPSHUFB(VAESENCLAST(r, rc), Shuf2)

SubShuffled(r) == VAESENCLAST(VPSHUFB(r, Shuf1), ZeroReg)

\* A shuffle through ShufL shifts a register by a word.
LEMMA ShiftedByWord ==
  ASSUME NEW r
  PROVE  \A i \in Lane : VPSHUFB(r, ShufL)[i] = IF i < 4 THEN Zero ELSE r[i - 4]
<1> SUFFICES ASSUME NEW i \in Lane
             PROVE  VPSHUFB(r, ShufL)[i] = IF i < 4 THEN Zero ELSE r[i - 4]
  OBVIOUS
<1>1. VPSHUFB(r, ShufL)[i] =
        IF ShufL[i] >= 128 THEN Zero ELSE r[ShufL[i] % 16]
  BY DEF VPSHUFB
<1>2. CASE i < 4
  BY <1>1, <1>2 DEF ShufL
<1>3. CASE i >= 4
  <2>1. ShufL[i] = i - 4 /\ ~(i - 4 >= 128) /\ (i - 4) % 16 = i - 4
    BY <1>3 DEF ShufL, Lane
  <2> QED BY <2>1, <1>1, <1>3 DEF Lane
<1> QED BY <1>2, <1>3 DEF Lane

\* The register shifted into itself three times is the exclusive-or of its
\* four shifted copies: the doubled ones cancel.
LEMMA MixedWords ==
  ASSUME NEW r \in Reg, NEW t \in Reg,
         \A i \in Lane : i >= 4 => t[i] = t[i - 4]
  PROVE  Grows(Mixed(r, t), r, t)
<1> DEFINE S(x) == VPSHUFB(x, ShufL)
           s1 == S(r)
           s2 == S(s1)
           s3 == S(s2)
           k1 == VPXOR(r, S(r))
           k2 == VPXOR(k1, S(k1))
           k3 == VPXOR(k2, S(k2))
           m == Mixed(r, t)
<1>1. m = VPXOR(k3, t)
  BY DEF Mixed
<1>2. \A x : \A i \in Lane : S(x)[i] = IF i < 4 THEN Zero ELSE x[i - 4]
  BY ShiftedByWord
<1>3. \A x, y : \A i \in Lane : VPXOR(x, y)[i] = x[i] (+) y[i]
  BY DEF VPXOR
<1>4. m = [i \in Lane |-> m[i]]
  BY <1>1 DEF VPXOR
<1>5. \A i \in Lane : i >= 4 => i - 4 \in Lane
  BY DEF Lane
<1> HIDE DEF S, m
<1>6. \A i \in Lane : S(k1)[i] = s1[i] (+) s2[i]
  <2> SUFFICES ASSUME NEW i \in Lane PROVE S(k1)[i] = s1[i] (+) s2[i]
    OBVIOUS
  <2>1. CASE i < 4
    BY <2>1, <1>2 DEF (+), Zero
  <2>2. CASE i >= 4
    <3>1. S(k1)[i] = k1[i - 4] /\ s1[i] = r[i - 4] /\ s2[i] = s1[i - 4]
      BY <2>2, <1>2 DEF Lane
    <3>2. k1[i - 4] = r[i - 4] (+) s1[i - 4]
      BY <2>2, <1>5, <1>3
    <3> QED BY <3>1, <3>2
  <2> QED BY <2>1, <2>2 DEF Lane
<1>7. \A i \in Lane : k2[i] = (r[i] (+) s1[i]) (+) (s1[i] (+) s2[i])
  BY <1>3, <1>6
<1>8. \A i \in Lane : S(k2)[i] = (s1[i] (+) s2[i]) (+) (s2[i] (+) s3[i])
  <2> SUFFICES ASSUME NEW i \in Lane
               PROVE  S(k2)[i] = (s1[i] (+) s2[i]) (+) (s2[i] (+) s3[i])
    OBVIOUS
  <2>1. CASE i < 4
    BY <2>1, <1>2 DEF (+), Zero
  <2>2. CASE i >= 4
    <3>1. /\ S(k2)[i] = k2[i - 4] /\ s1[i] = r[i - 4]
          /\ s2[i] = s1[i - 4] /\ s3[i] = s2[i - 4]
      BY <2>2, <1>2 DEF Lane
    <3>2. i - 4 \in Lane
      BY <2>2, <1>5
    <3> QED BY <3>1, <3>2, <1>7
  <2> QED BY <2>1, <2>2 DEF Lane
<1>9. \A i \in Lane :
        m[i] = (k2[i] (+) ((s1[i] (+) s2[i]) (+) (s2[i] (+) s3[i]))) (+) t[i]
  BY <1>1, <1>3, <1>8
<1>10. \A i \in Lane : m[i] = t[i] (+) (s3[i] (+) (s2[i] (+) (s1[i] (+) r[i])))
  <2>1. \A a, b, c, d, e :
          (((a (+) b) (+) (b (+) c)) (+) ((b (+) c) (+) (c (+) d))) (+) e
            = e (+) (d (+) (c (+) (b (+) a)))
    BY DEF (+)
  <2> HIDE DEF s1, s2, s3, k1, k2, k3
  <2> QED BY <1>7, <1>9, <2>1
<1>11. Chained(r, t, s1, s2, s3, m)
  BY <1>2, <1>4, <1>10 DEF Chained
<1> HIDE DEF s1, s2, s3, k1, k2, k3
<1> QED BY <1>11, ChainedWords DEF m, Grows

\* Where a byte goes that ShiftRows and Shuf2 move.
LEMMA Unrotated ==
  ASSUME NEW i \in Lane
  PROVE  /\ Shuf2[i] \in Lane /\ ~(Shuf2[i] >= 128)
         /\ Shuf2[i] % 16 = Shuf2[i]
         /\ (Shuf2[i] + 4 * (Shuf2[i] % 4)) % 16 = 12 + ((i + 1) % 4)
         /\ Shuf2[i] = 9 <=> i % 4 = 0
<1>1. CASE i % 4 = 0
  <2>1. Shuf2[i] = 9 /\ (i + 1) % 4 = 1
    BY <1>1 DEF Shuf2, Lane
  <2> QED BY <2>1, <1>1 DEF Lane
<1>2. CASE i % 4 = 1
  <2>1. Shuf2[i] = 6 /\ (i + 1) % 4 = 2
    BY <1>2 DEF Shuf2, Lane
  <2> QED BY <2>1, <1>2 DEF Lane
<1>3. CASE i % 4 = 2
  <2>1. Shuf2[i] = 3 /\ (i + 1) % 4 = 3
    BY <1>3 DEF Shuf2, Lane
  <2> QED BY <2>1, <1>3 DEF Lane
<1>4. CASE i % 4 = 3
  <2>1. Shuf2[i] = 12 /\ (i + 1) % 4 = 0
    BY <1>4 DEF Shuf2, Lane
  <2> QED BY <2>1, <1>4 DEF Lane
<1> QED BY <1>1, <1>2, <1>3, <1>4 DEF Lane

\* The first feedback is SubWord(RotWord(.)) of the last word with the
\* round constant on its first byte, in all four words.
LEMMA UnrotateWords ==
  ASSUME NEW r \in Reg, NEW rc \in Byte, NEW v, ConstantOn(v, {9}, rc)
  PROVE  Rotated(Unrotate(r, v), r, rc)
<1>1. ASSUME NEW i \in Lane
      PROVE  Unrotate(r, v)[i] =
               Sbox[r[12 + ((i + 1) % 4)]] (+) (IF i % 4 = 0 THEN rc ELSE Zero)
  <2> DEFINE p == Shuf2[i]
  <2>1. Unrotate(r, v)[i] = VAESENCLAST(r, v)[p]
    BY Unrotated DEF Unrotate, VPSHUFB
  <2>2. p \in Lane
    BY Unrotated
  <2>3. VAESENCLAST(r, v)[p] = Sbox[r[(p + 4 * (p % 4)) % 16]] (+) v[p]
    BY <2>2 DEF VAESENCLAST, VPXOR, SubBytes, ShiftRows
  <2>4. v[p] = IF i % 4 = 0 THEN rc ELSE Zero
    BY <2>2, Unrotated DEF ConstantOn
  <2>5. (p + 4 * (p % 4)) % 16 = 12 + ((i + 1) % 4)
    BY Unrotated
  <2> QED BY <2>1, <2>3, <2>4, <2>5
<1>2. \A i \in Lane : Unrotate(r, v)[i] \in Byte
  <2>1. \A i \in Lane : 12 + ((i + 1) % 4) \in Lane
    BY DEF Lane
  <2>2. \A i \in Lane : Sbox[r[12 + ((i + 1) % 4)]] \in Byte
    BY <2>1, Registers, SboxAssumption
  <2> QED BY <2>2, <1>1, XorByte
<1>3. Unrotate(r, v) = [i \in Lane |-> Unrotate(r, v)[i]]
  BY DEF Unrotate, VPSHUFB
<1> QED BY <1>1, <1>2, <1>3 DEF Reg, Rotated

\* The second feedback is SubWord of the last word, everywhere.
LEMMA SubShuffledWords ==
  ASSUME NEW r \in Reg
  PROVE  Repeated(SubShuffled(r), r)
<1> DEFINE sh == [i \in Lane |-> r[12 + (i % 4)]]
<1>1. VPSHUFB(r, Shuf1) = sh
  <2>1. \A i \in Lane : /\ Shuf1[i] = 12 + (i % 4)
                        /\ ~(Shuf1[i] >= 128)
                        /\ Shuf1[i] % 16 = 12 + (i % 4)
    BY DEF Shuf1, Lane
  <2> QED BY <2>1 DEF VPSHUFB
<1>2. \A i \in Lane : /\ (i + 4 * (i % 4)) % 16 \in Lane
                      /\ ((i + 4 * (i % 4)) % 16) % 4 = i % 4
                      /\ 12 + (i % 4) \in Lane
  BY DEF Lane
<1>3. ShiftRows(sh) = sh
  <2>1. \A i \in Lane : sh[(i + 4 * (i % 4)) % 16] = sh[i]
    BY <1>2
  <2>2. ShiftRows(sh) = [i \in Lane |-> sh[i]]
    BY <2>1 DEF ShiftRows
  <2> QED BY <2>2
<1>4. \A i \in Lane : Sbox[r[12 + (i % 4)]] \in Byte
  BY <1>2, Registers, SboxAssumption
<1>5. \A i \in Lane : SubShuffled(r)[i] = Sbox[r[12 + (i % 4)]]
  <2>1. \A i \in Lane : SubShuffled(r)[i] = Sbox[r[12 + (i % 4)]] (+) Zero
    BY <1>1, <1>3 DEF SubShuffled, VAESENCLAST, VPXOR, SubBytes, ZeroReg
  <2> QED BY <2>1, <1>4, XorByte
<1>6. SubShuffled(r) = [i \in Lane |-> SubShuffled(r)[i]]
  BY DEF SubShuffled, VAESENCLAST, VPXOR
<1> QED BY <1>4, <1>5, <1>6 DEF Reg, Repeated

-----------------------------------------------------------------------------
(* The expansion of Intel's paper, in NSS and in inline64B/inline.s        *)

Summed(r, t) ==
  LET s1 == VPSLLDQ4(r)
      s2 == VPSLLDQ4(s1)
      s3 == VPSLLDQ4(s2)
  IN  VPXOR(VPXOR(VPXOR(VPXOR(r, s1), s2), s3), t)

Shuf3 == [i \in Lane |-> 12 + ((i + 1) % 4)]

RotatedFirst(r, v) == VAESENCLAST(VPSHUFB(r, Shuf3), v)

SpreadLast(r) == VAESENCLAST(VPSHUFD(r, 3), ZeroReg)

\* Where the round constant is: the shuffle has rotated the columns before.
Columns == {0, 4, 8, 12}

\* A register and its three shifted copies summed.
LEMMA SummedWords ==
  ASSUME NEW r \in Reg, NEW t \in Reg,
         \A i \in Lane : i >= 4 => t[i] = t[i - 4]
  PROVE  Grows(Summed(r, t), r, t)
<1> DEFINE s1 == VPSLLDQ4(r)
           s2 == VPSLLDQ4(s1)
           s3 == VPSLLDQ4(s2)
           m == VPXOR(VPXOR(VPXOR(VPXOR(r, s1), s2), s3), t)
<1>3. Summed(r, t) = m
  BY DEF Summed
<1>4. \A a : \A i \in Lane : VPSLLDQ4(a)[i] = IF i < 4 THEN Zero ELSE a[i - 4]
  BY DEF VPSLLDQ4
<1>5. m = [i \in Lane |-> m[i]]
  BY DEF VPXOR
<1>6. \A i \in Lane : m[i] = (((r[i] (+) s1[i]) (+) s2[i]) (+) s3[i]) (+) t[i]
  <2> HIDE DEF s1, s2, s3
  <2> QED BY DEF VPXOR, m
<1>7. \A a, b, c, d, e : (((a (+) b) (+) c) (+) d) (+) e = e (+) (d (+) (c (+) (b (+) a)))
  BY XorLaws
<1>8. \A i \in Lane : m[i] = t[i] (+) (s3[i] (+) (s2[i] (+) (s1[i] (+) r[i])))
  <2> HIDE DEF s1, s2, s3, m
  <2> QED BY <1>6, <1>7
<1>9. /\ \A i \in Lane : s1[i] = IF i < 4 THEN Zero ELSE r[i - 4]
      /\ \A i \in Lane : s2[i] = IF i < 4 THEN Zero ELSE s1[i - 4]
      /\ \A i \in Lane : s3[i] = IF i < 4 THEN Zero ELSE s2[i - 4]
  BY <1>4
<1> HIDE DEF s1, s2, s3, m
<1>10. Chained(r, t, s1, s2, s3, m)
  BY <1>5, <1>8, <1>9 DEF Chained
<1> QED BY <1>3, <1>10, ChainedWords DEF Grows

LEMMA RotatedFirstWords ==
  ASSUME NEW r \in Reg, NEW const \in Byte, NEW v, ConstantOn(v, Columns, const)
  PROVE  Rotated(RotatedFirst(r, v), r, const)
<1> DEFINE u == VPSHUFB(r, Shuf3)
           t == VAESENCLAST(u, v)
<1>1. RotatedFirst(r, v) = t
  BY DEF RotatedFirst
<1>2. ASSUME NEW i \in Lane
      PROVE  t[i] = Sbox[r[12 + ((i + 1) % 4)]] (+) (IF i % 4 = 0 THEN const ELSE Zero)
             /\ t[i] \in Byte
  <2> DEFINE j == (i + 4 * (i % 4)) % 16
  <2>1. j \in Lane /\ (j + 1) % 4 = (i + 1) % 4 /\ 12 + ((i + 1) % 4) \in Lane
    BY DEF Lane
  <2>2. i % 4 = 0 <=> i \in Columns
    BY DEF Lane, Columns
  <2>3. t[i] = Sbox[u[j]] (+) v[i]
    BY DEF VAESENCLAST, VPXOR, SubBytes, ShiftRows
  <2> HIDE DEF j, t
  <2>4. u[j] = r[12 + ((i + 1) % 4)]
    <3>1. Shuf3[j] = 12 + ((j + 1) % 4)
      BY <2>1 DEF Shuf3
    <3>2. ~(12 + ((i + 1) % 4) >= 128) /\ (12 + ((i + 1) % 4)) % 16 = 12 + ((i + 1) % 4)
      BY DEF Lane
    <3>3. u[j] = IF Shuf3[j] >= 128 THEN Zero ELSE r[Shuf3[j] % 16]
      BY <2>1 DEF VPSHUFB
    <3> QED BY <2>1, <3>1, <3>2, <3>3
  <2> HIDE DEF u
  <2>5. v[i] = IF i % 4 = 0 THEN const ELSE Zero
    BY <2>2 DEF ConstantOn
  <2>6. Sbox[r[12 + ((i + 1) % 4)]] \in Byte
    <3>1. r[12 + ((i + 1) % 4)] \in Byte
      BY <2>1 DEF Reg
    <3> QED BY <3>1, SboxAssumption
  <2> QED BY <2>3, <2>4, <2>5, <2>6, XorByte
<1>3. t = [i \in Lane |-> t[i]]
  BY DEF VAESENCLAST, VPXOR
<1> HIDE DEF t
<1>4. t \in Reg
  BY <1>2, <1>3 DEF Reg
<1> QED BY <1>1, <1>2, <1>4 DEF Rotated

LEMMA SpreadLastWords ==
  ASSUME NEW r \in Reg PROVE Repeated(SpreadLast(r), r)
<1> DEFINE u == VPSHUFD(r, 3)
           t == VAESENCLAST(u, ZeroReg)
<1>1. SpreadLast(r) = t
  BY DEF SpreadLast
<1>2. ASSUME NEW i \in Lane PROVE t[i] = Sbox[r[12 + (i % 4)]] /\ t[i] \in Byte
  <2> DEFINE j == (i + 4 * (i % 4)) % 16
  <2>1. j \in Lane /\ j % 4 = i % 4 /\ 12 + (i % 4) \in Lane
    BY DEF Lane
  <2>2. t[i] = Sbox[u[j]] (+) Zero
    BY DEF VAESENCLAST, VPXOR, SubBytes, ShiftRows, ZeroReg
  <2> HIDE DEF j, t
  <2>3. u[j] = r[4 * 3 + (j % 4)] /\ 4 * 3 + (j % 4) = 12 + (i % 4)
    BY <2>1 DEF VPSHUFD
  <2> HIDE DEF u
  <2>4. Sbox[r[12 + (i % 4)]] \in Byte
    <3>1. r[12 + (i % 4)] \in Byte
      BY <2>1 DEF Reg
    <3> QED BY <3>1, SboxAssumption
  <2> QED BY <2>2, <2>3, <2>4, XorByte
<1>3. t = [i \in Lane |-> t[i]]
  BY DEF VAESENCLAST, VPXOR
<1> HIDE DEF t
<1>4. t \in Reg
  BY <1>2, <1>3 DEF Reg
<1> QED BY <1>1, <1>2, <1>4 DEF Repeated

\* Registers stored two by two are the schedule when each is a round key of it.
LEMMA KeysInOrder ==
  ASSUME NEW s \in [0..239 -> Byte], NEW p,
         \A r \in 0..14 : IsKey(p[(r \div 2) + 1][(r % 2) + 1], s, r)
  PROVE  RoundKeys(p) = s
<1>1. ASSUME NEW a \in 0..239 PROVE RoundKeys(p)[a] = s[a]
  <2> DEFINE r == a \div 16
             i == a % 16
  <2>1. r \in 0..14 /\ i \in Lane /\ 16 * r + i = a /\ r \div 2 = a \div 32
    BY DEF Lane
  <2>2. RoundKeys(p)[a] = p[(r \div 2) + 1][(r % 2) + 1][i]
    BY <2>1 DEF RoundKeys
  <2> HIDE DEF r, i
  <2> QED BY <2>1, <2>2 DEF IsKey
<1>2. RoundKeys(p) = [a \in 0..239 |-> RoundKeys(p)[a]]
  BY DEF RoundKeys
<1> QED BY <1>1, <1>2

\* The two keys that a turn of an expansion ends with.
KeyPair(p, s, j) == IsKey(p[1], s, 2 * j) /\ IsKey(p[2], s, 2 * j + 1)

\* The first two are the key itself.
LEMMA FirstPair ==
  ASSUME NEW k \in [0..31 -> Byte], NEW s, IsSchedule(k, s, 60),
         NEW p, p[1] = Load(k, 0), p[2] = Load(k, 16)
  PROVE  KeyPair(p, s, 0)
<1>1. ASSUME NEW a \in 0..31 PROVE s[a] = k[a]
  <2> DEFINE i == a \div 4
             b == a % 4
  <2>1. i \in 0..7 /\ i \in 0..59 /\ b \in 0..3 /\ 4 * i + b = a /\ i < 8
    OBVIOUS
  <2> HIDE DEF i, b
  <2>2. s[4 * i + b] = ScheduleByte(k, s, i, b)
    BY <2>1 DEF IsSchedule, W!IsSchedule, ScheduleByte
  <2> QED BY <2>1, <2>2 DEF ScheduleByte, W!ScheduleByte, W!KeyWords
<1>2. /\ p[1] \in Reg /\ \A i \in Lane : p[1][i] = k[i]
      /\ p[2] \in Reg /\ \A i \in Lane : p[2][i] = k[16 + i]
  BY DEF Load, Reg, Lane
<1>3. \A i \in Lane : i \in 0..31 /\ 16 + i \in 0..31
  BY DEF Lane
<1>4. \A i \in Lane : p[1][i] = s[16 * (2 * 0) + i] /\ p[2][i] = s[16 * (2 * 0 + 1) + i]
  BY <1>1, <1>2, <1>3
<1> QED BY <1>2, <1>4 DEF KeyPair, IsKey

-----------------------------------------------------------------------------
(* OpenSSL's expansion                                                     *)

\* Which word of which register goes where.
LEMMA Shuffled ==
  ASSUME NEW a, NEW b, NEW d0, NEW d1, NEW d2, NEW d3, NEW c \in 0..3
  PROVE  LET t == SHUFPS(a, b, <<d0, d1, d2, d3>>)
         IN  /\ t[c] = a[4 * d0 + c]
             /\ t[c + 4] = a[4 * d1 + c]
             /\ t[c + 8] = b[4 * d2 + c]
             /\ t[c + 12] = b[4 * d3 + c]
<1> DEFINE d == <<d0, d1, d2, d3>>
           t == SHUFPS(a, b, d)
<1>1. \A i \in Lane : t[i] = IF i < 8 THEN a[4 * d[i \div 4 + 1] + (i % 4)]
                                      ELSE b[4 * d[i \div 4 + 1] + (i % 4)]
  BY DEF SHUFPS
<1>2. d[1] = d0 /\ d[2] = d1 /\ d[3] = d2 /\ d[4] = d3
  OBVIOUS
<1> HIDE DEF d, t
<1>3. t[c] = a[4 * d0 + c]
  <2>1. c \in Lane /\ c \div 4 + 1 = 1 /\ c % 4 = c /\ c < 8
    BY DEF Lane
  <2> QED BY <1>1, <1>2, <2>1
<1>4. t[c + 4] = a[4 * d1 + c]
  <2>1. c + 4 \in Lane /\ (c + 4) \div 4 + 1 = 2 /\ (c + 4) % 4 = c /\ c + 4 < 8
    BY DEF Lane
  <2> QED BY <1>1, <1>2, <2>1
<1>5. t[c + 8] = b[4 * d2 + c]
  <2>1. c + 8 \in Lane /\ (c + 8) \div 4 + 1 = 3 /\ (c + 8) % 4 = c /\ ~(c + 8 < 8)
    BY DEF Lane
  <2> QED BY <1>1, <1>2, <2>1
<1>6. t[c + 12] = b[4 * d3 + c]
  <2>1. c + 12 \in Lane /\ (c + 12) \div 4 + 1 = 4 /\ (c + 12) % 4 = c /\ ~(c + 12 < 8)
    BY DEF Lane
  <2> QED BY <1>1, <1>2, <2>1
<1> QED BY <1>3, <1>4, <1>5, <1>6 DEF d, t

\* The two shuffles make of each word the sum of the words up to it.
LEMMA PrefixedGrows ==
  ASSUME NEW r \in Reg, NEW t \in Reg,
         \A i \in Lane : i >= 4 => t[i] = t[i - 4]
  PROVE  Grows(VPXOR(prefixed(r), t), r, t)
<1> DEFINE x4 == SHUFPS(ZeroReg, r, <<0, 0, 1, 0>>)
           sum == VPXOR(r, x4)
           y4 == SHUFPS(x4, sum, <<0, 3, 0, 2>>)
           q == VPXOR(sum, y4)
           m == VPXOR(q, t)
<1>1. prefixed(r) = q
  BY DEF prefixed
<1>2. \A b \in 0..3 : b \in Lane /\ b + 4 \in Lane /\ b + 8 \in Lane /\ b + 12 \in Lane
  BY DEF Lane
<1>3. \A b \in 0..3 : /\ x4[b] = Zero /\ x4[b + 4] = Zero
                      /\ x4[b + 8] = r[b + 4] /\ x4[b + 12] = r[b]
  <2> SUFFICES ASSUME NEW b \in 0..3
               PROVE  /\ x4[b] = Zero /\ x4[b + 4] = Zero
                      /\ x4[b + 8] = r[b + 4] /\ x4[b + 12] = r[b]
    OBVIOUS
  <2>1. /\ x4[b] = ZeroReg[4 * 0 + b] /\ x4[b + 4] = ZeroReg[4 * 0 + b]
        /\ x4[b + 8] = r[4 * 1 + b] /\ x4[b + 12] = r[4 * 0 + b]
    BY Shuffled
  <2>2. 4 * 0 + b = b /\ 4 * 1 + b = b + 4
    OBVIOUS
  <2> HIDE DEF x4
  <2> QED BY <1>2, <2>1, <2>2 DEF ZeroReg
<1>4. \A i \in Lane : sum[i] = r[i] (+) x4[i]
  BY DEF VPXOR
<1>5. \A b \in 0..3 : /\ y4[b] = x4[b] /\ y4[b + 4] = x4[b + 12]
                      /\ y4[b + 8] = sum[b] /\ y4[b + 12] = sum[b + 8]
  <2> SUFFICES ASSUME NEW b \in 0..3
               PROVE  /\ y4[b] = x4[b] /\ y4[b + 4] = x4[b + 12]
                      /\ y4[b + 8] = sum[b] /\ y4[b + 12] = sum[b + 8]
    OBVIOUS
  <2> HIDE DEF x4, sum
  <2>1. /\ y4[b] = x4[4 * 0 + b] /\ y4[b + 4] = x4[4 * 3 + b]
        /\ y4[b + 8] = sum[4 * 0 + b] /\ y4[b + 12] = sum[4 * 2 + b]
    BY Shuffled
  <2>2. 4 * 0 + b = b /\ 4 * 3 + b = b + 12 /\ 4 * 2 + b = b + 8
    OBVIOUS
  <2> HIDE DEF y4
  <2> QED BY <2>1, <2>2
<1>6. \A i \in Lane : m[i] = (sum[i] (+) y4[i]) (+) t[i]
  BY DEF VPXOR
<1>7. m = [i \in Lane |-> m[i]]
  BY DEF VPXOR
<1> HIDE DEF x4, sum, y4, m
<1>8. \A b \in 0..3 :
        /\ m[b] = r[b] (+) t[b]
        /\ m[b + 4] = (r[b + 4] (+) r[b]) (+) t[b + 4]
        /\ m[b + 8] = ((r[b + 8] (+) r[b + 4]) (+) r[b]) (+) t[b + 8]
        /\ m[b + 12] = ((r[b + 12] (+) r[b]) (+) (r[b + 8] (+) r[b + 4])) (+) t[b + 12]
  <2>1. \A a : a (+) Zero = a
    BY DEF (+), Zero
  <2> QED BY <1>2, <1>3, <1>4, <1>5, <1>6, <2>1
<1>9. \A b \in 0..3 : t[b + 4] = t[b] /\ t[b + 8] = t[b] /\ t[b + 12] = t[b]
  <2>1. \A b \in 0..3 : /\ b + 4 >= 4 /\ (b + 4) - 4 = b
                        /\ b + 8 >= 4 /\ (b + 8) - 4 = b + 4
                        /\ b + 12 >= 4 /\ (b + 12) - 4 = b + 8
    OBVIOUS
  <2> QED BY <1>2, <2>1
<1>10. \A b \in 0..3 : /\ m[b + 4] = r[b + 4] (+) m[b]
                       /\ m[b + 8] = r[b + 8] (+) m[b + 4]
                       /\ m[b + 12] = r[b + 12] (+) m[b + 8]
  <2>1. \A a, b, c, d, e : /\ (a (+) b) (+) e = a (+) (b (+) e)
                           /\ ((c (+) a) (+) b) (+) e = c (+) ((a (+) b) (+) e)
                           /\ ((d (+) b) (+) (c (+) a)) (+) e = d (+) (((c (+) a) (+) b) (+) e)
    BY DEF (+)
  <2> QED BY <1>8, <1>9, <2>1
<1>11. \A i \in Lane : \E b \in 0..3 : i = b \/ i = b + 4 \/ i = b + 8 \/ i = b + 12
  <2> SUFFICES ASSUME NEW i \in Lane
               PROVE  \E b \in 0..3 : i = b \/ i = b + 4 \/ i = b + 8 \/ i = b + 12
    OBVIOUS
  <2>1. i % 4 \in 0..3 /\ (i = i % 4 \/ i = (i % 4) + 4 \/ i = (i % 4) + 8 \/ i = (i % 4) + 12)
    BY DEF Lane
  <2> QED BY <2>1
<1>12. \A i \in Lane : m[i] = r[i] (+) (IF i < 4 THEN t[i] ELSE m[i - 4])
  <2> SUFFICES ASSUME NEW i \in Lane
               PROVE  m[i] = r[i] (+) (IF i < 4 THEN t[i] ELSE m[i - 4])
    OBVIOUS
  <2>1. PICK b \in 0..3 : i = b \/ i = b + 4 \/ i = b + 8 \/ i = b + 12
    BY <1>11
  <2>2. CASE i = b
    BY <2>2, <1>8
  <2>3. CASE i = b + 4
    <3>1. ~(i < 4) /\ i - 4 = b
      BY <2>3
    <3> QED BY <2>3, <3>1, <1>10
  <2>4. CASE i = b + 8
    <3>1. ~(i < 4) /\ i - 4 = b + 4
      BY <2>4
    <3> QED BY <2>4, <3>1, <1>10
  <2>5. CASE i = b + 12
    <3>1. ~(i < 4) /\ i - 4 = b + 8
      BY <2>5
    <3> QED BY <2>5, <3>1, <1>10
  <2> QED BY <2>1, <2>2, <2>3, <2>4, <2>5
<1>13. m \in Reg
  <2>1. \A b \in 0..3 : m[b] \in Byte /\ m[b + 4] \in Byte /\ m[b + 8] \in Byte /\ m[b + 12] \in Byte
    <3>1. \A i \in Lane : r[i] \in Byte /\ t[i] \in Byte
      BY DEF Reg
    <3> QED BY <3>1, <1>2, <1>8, XorByte
  <2>2. \A i \in Lane : m[i] \in Byte
    BY <2>1, <1>11
  <2> QED BY <2>2, <1>7 DEF Reg
<1> QED BY <1>1, <1>12, <1>13 DEF Grows, m

\* The last two words of AESKEYGENASSIST, each spread over a register, are the
\* two feedbacks; the constant is not in the last but one.
LEMMA AssistWords ==
  ASSUME NEW r \in Reg, NEW rc \in Byte
  PROVE  /\ Rotated(VPSHUFD(VAESKEYGENASSIST(r, rc), 3), r, rc)
         /\ Repeated(VPSHUFD(VAESKEYGENASSIST(r, rc), 2), r)
<1> DEFINE g == VAESKEYGENASSIST(r, rc)
           t3 == VPSHUFD(g, 3)
           t2 == VPSHUFD(g, 2)
<1>1. ASSUME NEW i \in Lane
      PROVE  /\ t3[i] = Sbox[r[12 + ((i + 1) % 4)]] (+) (IF i % 4 = 0 THEN rc ELSE Zero)
             /\ t2[i] = Sbox[r[12 + (i % 4)]]
  <2>1. t3[i] = g[12 + (i % 4)] /\ t2[i] = g[8 + (i % 4)]
    BY DEF VPSHUFD
  <2>2. /\ 12 + (i % 4) \in Lane /\ ~(12 + (i % 4) < 8)
        /\ ((12 + (i % 4)) \div 4) % 2 = 1 /\ (12 + (i % 4)) % 4 = i % 4
        /\ ((12 + (i % 4)) + 1) % 4 = (i + 1) % 4
        /\ 8 + (i % 4) \in Lane /\ ~(8 + (i % 4) < 8)
        /\ ((8 + (i % 4)) \div 4) % 2 = 0 /\ (8 + (i % 4)) % 4 = i % 4
    BY DEF Lane
  <2> HIDE DEF t3, t2
  <2>3. g[12 + (i % 4)] =
          Sbox[r[12 + ((i + 1) % 4)]] (+) (IF i % 4 = 0 THEN rc ELSE Zero)
    BY <2>2 DEF VAESKEYGENASSIST
  <2>4. g[8 + (i % 4)] = Sbox[r[12 + (i % 4)]]
    BY <2>2 DEF VAESKEYGENASSIST
  <2> QED BY <2>1, <2>3, <2>4
<1>2. \A i \in Lane : t3[i] \in Byte /\ t2[i] \in Byte
  <2>1. \A i \in Lane : 12 + ((i + 1) % 4) \in Lane /\ 12 + (i % 4) \in Lane
    BY DEF Lane
  <2>2. \A i \in Lane : /\ Sbox[r[12 + ((i + 1) % 4)]] \in Byte
                        /\ Sbox[r[12 + (i % 4)]] \in Byte
    BY <2>1, Registers, SboxAssumption
  <2> QED BY <2>2, <1>1, XorByte
<1>3. t3 = [i \in Lane |-> t3[i]] /\ t2 = [i \in Lane |-> t2[i]]
  BY DEF VPSHUFD
<1> HIDE DEF t3, t2
<1>4. t3 \in Reg /\ t2 \in Reg
  BY <1>2, <1>3 DEF Reg
<1>5. Rotated(t3, r, rc) /\ Repeated(t2, r)
  BY <1>1, <1>4 DEF Rotated, Repeated
<1> QED BY <1>5 DEF t3, t2

LEMMA OsslEvenKey ==
  ASSUME NEW k, NEW s, IsSchedule(k, s, 60), NEW j \in 1..7,
         NEW r1, IsKey(r1, s, 2 * j - 2), NEW r2, IsKey(r2, s, 2 * j - 1)
  PROVE  IsKey(key_expansion_256a(r1, r2, Rcon[j]), s, 2 * j)
<1> DEFINE t == VPSHUFD(VAESKEYGENASSIST(r2, Rcon[j]), 3)
<1>1. r1 \in Reg /\ r2 \in Reg /\ Rcon[j] \in Byte
  BY Registers DEF IsKey
<1>2. key_expansion_256a(r1, r2, Rcon[j]) = VPXOR(prefixed(r1), t)
  BY HeldIsSame DEF key_expansion_256a, VPXOR
<1>3. Rotated(t, r2, Rcon[j])
  BY <1>1, AssistWords
<1> HIDE DEF t
<1>4. t \in Reg /\ \A i \in Lane : i >= 4 => t[i] = t[i - 4]
  BY <1>3, FourFold
<1>5. Grows(VPXOR(prefixed(r1), t), r1, t)
  BY <1>1, <1>4, PrefixedGrows
<1>6. IsKey(VPXOR(prefixed(r1), t), s, 2 * j)
  BY <1>3, <1>5, NextEvenKey
<1> QED BY <1>2, <1>6

LEMMA OsslOddKey ==
  ASSUME NEW k, NEW s, IsSchedule(k, s, 60), NEW j \in 1..6,
         NEW r1, IsKey(r1, s, 2 * j - 1), NEW r2, IsKey(r2, s, 2 * j)
  PROVE  IsKey(key_expansion_256b(r2, r1, Rcon[j]), s, 2 * j + 1)
<1> DEFINE t == VPSHUFD(VAESKEYGENASSIST(r2, Rcon[j]), 2)
<1>1. r1 \in Reg /\ r2 \in Reg /\ Rcon[j] \in Byte
  BY Registers DEF IsKey
<1>2. key_expansion_256b(r2, r1, Rcon[j]) = VPXOR(prefixed(r1), t)
  BY HeldIsSame DEF key_expansion_256b, VPXOR
<1>3. Repeated(t, r2)
  BY <1>1, AssistWords
<1> HIDE DEF t
<1>4. t \in Reg /\ \A i \in Lane : i >= 4 => t[i] = t[i - 4]
  BY <1>3, FourFold
<1>5. Grows(VPXOR(prefixed(r1), t), r1, t)
  BY <1>1, <1>4, PrefixedGrows
<1>6. IsKey(VPXOR(prefixed(r1), t), s, 2 * j + 1)
  BY <1>3, <1>5, NextOddKey
<1> QED BY <1>2, <1>6

LEMMA OsslTurn ==
  ASSUME NEW k, NEW s, IsSchedule(k, s, 60), NEW j \in 1..6, NEW p, KeyPair(p, s, j - 1),
         NEW n, Hex(n) = Rcon[j]
  PROVE  KeyPair(key_expansion_256(p, n), s, j)
<1> DEFINE x0 == key_expansion_256a(p[1], p[2], Rcon[j])
           x2 == key_expansion_256b(x0, p[2], Rcon[j])
<1>1. 2 * (j - 1) = 2 * j - 2 /\ 2 * (j - 1) + 1 = 2 * j - 1 /\ j \in 1..7
  OBVIOUS
<1>2. IsKey(p[1], s, 2 * j - 2) /\ IsKey(p[2], s, 2 * j - 1)
  BY <1>1 DEF KeyPair
<1>3. key_expansion_256(p, n) = <<x0, x2>>
  BY DEF key_expansion_256
<1>4. IsKey(x0, s, 2 * j)
  BY <1>1, <1>2, OsslEvenKey
<1> HIDE DEF x0
<1>5. IsKey(x2, s, 2 * j + 1)
  BY <1>2, <1>4, OsslOddKey
<1> HIDE DEF x2
<1> QED BY <1>3, <1>4, <1>5 DEF KeyPair

\* Pairs of round keys and one more, in order, are the schedule.
LEMMA EightTurns ==
  ASSUME NEW s \in [0..239 -> Byte], NEW p, \A j \in 0..6 : KeyPair(p[j + 1], s, j),
         IsKey(p[8][1], s, 14)
  PROVE  RoundKeys(p) = s
<1>1. ASSUME NEW r \in 0..14 PROVE IsKey(p[(r \div 2) + 1][(r % 2) + 1], s, r)
  <2> DEFINE j == r \div 2
  <2>1. CASE r = 14
    BY <2>1
  <2>2. CASE r # 14 /\ r % 2 = 0
    <3>1. j \in 0..6 /\ r = 2 * j
      BY <2>2
    <3> HIDE DEF j
    <3>2. IsKey(p[j + 1][1], s, r)
      BY <3>1 DEF KeyPair
    <3> QED BY <3>2, <2>2 DEF j
  <2>3. CASE r # 14 /\ r % 2 = 1
    <3>1. j \in 0..6 /\ r = 2 * j + 1
      BY <2>3
    <3> HIDE DEF j
    <3>2. IsKey(p[j + 1][2], s, r)
      BY <3>1 DEF KeyPair
    <3> QED BY <3>2, <2>3 DEF j
  <2> QED BY <2>1, <2>2, <2>3
<1> QED BY <1>1, KeysInOrder

\* For every S-box and key, OpenSSL's expansion is the reference's schedule.
LEMMA OsslSchedule ==
  ASSUME PowersOfTwo, NEW k \in [0..31 -> Byte]
  PROVE  aesni_set_encrypt_key(k) = Aes!Schedule(k)
<1> DEFINE s == Aes!Schedule(k)
           p0 == <<Load(k, 0), Load(k, 16)>>
           p1 == key_expansion_256(p0, 1)
           p2 == key_expansion_256(p1, 2)
           p3 == key_expansion_256(p2, 4)
           p4 == key_expansion_256(p3, 8)
           p5 == key_expansion_256(p4, 16)
           p6 == key_expansion_256(p5, 32)
           p7 == <<key_expansion_256a(p6[1], p6[2], Hex(64))>>
           p == <<p0, p1, p2, p3, p4, p5, p6, p7>>
<1>1. s \in [0..239 -> Byte] /\ IsSchedule(k, s, 60)
  BY AesSchedule DEF Aes!Buffer
<1>2. aesni_set_encrypt_key(k) = RoundKeys(p)
  BY DEF aesni_set_encrypt_key
<1>3. /\ Rcon[1] = Hex(1) /\ Rcon[2] = Hex(2) /\ Rcon[3] = Hex(4) /\ Rcon[4] = Hex(8)
      /\ Rcon[5] = Hex(16) /\ Rcon[6] = Hex(32) /\ Rcon[7] = Hex(64)
  BY DEF PowersOfTwo
<1>4. KeyPair(p0, s, 0)
  BY <1>1, FirstPair
<1> HIDE DEF s, p0
<1>5. \A q, n : \A j \in 1..6 : KeyPair(q, s, j - 1) /\ Hex(n) = Rcon[j]
                  => KeyPair(key_expansion_256(q, n), s, j)
  BY <1>1, OsslTurn
<1>6. KeyPair(p1, s, 1)
  BY <1>3, <1>4, <1>5
<1> HIDE DEF p1
<1>7. KeyPair(p2, s, 2)
  BY <1>3, <1>5, <1>6
<1> HIDE DEF p2
<1>8. KeyPair(p3, s, 3)
  BY <1>3, <1>5, <1>7
<1> HIDE DEF p3
<1>9. KeyPair(p4, s, 4)
  BY <1>3, <1>5, <1>8
<1> HIDE DEF p4
<1>10. KeyPair(p5, s, 5)
  BY <1>3, <1>5, <1>9
<1> HIDE DEF p5
<1>11. KeyPair(p6, s, 6)
  BY <1>3, <1>5, <1>10
<1> HIDE DEF p6
<1>12. IsKey(p7[1], s, 14)
  <2>1. IsKey(p6[1], s, 2 * 7 - 2) /\ IsKey(p6[2], s, 2 * 7 - 1)
    BY <1>11 DEF KeyPair
  <2>2. IsKey(key_expansion_256a(p6[1], p6[2], Rcon[7]), s, 2 * 7)
    BY <1>1, <2>1, OsslEvenKey
  <2> QED BY <1>3, <2>2
<1> HIDE DEF p7
<1>13. \A j \in 0..6 : KeyPair(p[j + 1], s, j)
  BY <1>4, <1>6, <1>7, <1>8, <1>9, <1>10, <1>11
<1>14. IsKey(p[8][1], s, 14)
  BY <1>12
<1> HIDE DEF p
<1>15. RoundKeys(p) = s
  BY <1>1, <1>13, <1>14, EightTurns
<1> QED BY <1>2, <1>15 DEF s, p, p0, p1, p2, p3, p4, p5, p6, p7

\* A turn of NSS's loop makes the next two round keys.
LEMMA NssEvenKey ==
  ASSUME NEW k, NEW s, IsSchedule(k, s, 60), NEW j \in 1..7,
         NEW p, KeyPair(p, s, j - 1), ConstantOn(p[3], Columns, Rcon[j])
  PROVE  IsKey(half(p[1], p[2], p[3]), s, 2 * j)
<1> DEFINE t == VAESENCLAST(VPSHUFB(p[2], mask256), p[3])
<1>1. IsKey(p[1], s, 2 * j - 2) /\ IsKey(p[2], s, 2 * j - 1)
  <2>1. 2 * (j - 1) = 2 * j - 2 /\ 2 * (j - 1) + 1 = 2 * j - 1
    OBVIOUS
  <2> QED BY <2>1 DEF KeyPair
<1>2. p[1] \in Reg /\ p[2] \in Reg /\ Rcon[j] \in Byte
  BY <1>1, Registers DEF IsKey
<1>3. half(p[1], p[2], p[3]) = Summed(p[1], t)
  BY HeldIsSame DEF half, summed, Summed, VPXOR
<1>4. t = RotatedFirst(p[2], p[3])
  BY DEF RotatedFirst, mask256, Shuf3
<1> HIDE DEF t
<1>5. Rotated(t, p[2], Rcon[j])
  BY <1>2, <1>4, RotatedFirstWords
<1>6. t \in Reg /\ \A i \in Lane : i >= 4 => t[i] = t[i - 4]
  BY <1>5, FourFold
<1>7. Grows(Summed(p[1], t), p[1], t)
  BY <1>2, <1>6, SummedWords
<1>8. IsKey(Summed(p[1], t), s, 2 * j)
  BY <1>1, <1>5, <1>7, NextEvenKey
<1> QED BY <1>3, <1>8

LEMMA NssTurn ==
  ASSUME NEW k, NEW s, IsSchedule(k, s, 60), NEW j \in 1..6, PowersOfTwo,
         NEW p, KeyPair(p, s, j - 1), ConstantOn(p[3], Columns, Rcon[j])
  PROVE  /\ KeyPair(Lenc_256_ks_loop(p), s, j)
         /\ ConstantOn(Lenc_256_ks_loop(p)[3], Columns, Rcon[j + 1])
<1> DEFINE x1 == half(p[1], p[2], p[3])
           t == VAESENCLAST(VPSHUFD(x1, 3), ZeroReg)
           x3 == summed(p[2], t)
           c == Held(VPSLLD1(p[3]))
<1>1. Lenc_256_ks_loop(p) = <<x1, x3, c>>
  BY DEF Lenc_256_ks_loop
<1>2. IsKey(x1, s, 2 * j)
  BY NssEvenKey
<1>3. c = VPSLLD1(p[3])
  BY HeldIsSame DEF VPSLLD1
<1>4. ConstantOn(c, Columns, Rcon[j + 1])
  BY <1>3, NextConstant
<1>5. IsKey(p[2], s, 2 * j - 1)
  <2>1. 2 * (j - 1) + 1 = 2 * j - 1
    OBVIOUS
  <2> QED BY <2>1 DEF KeyPair
<1> HIDE DEF x1, c
<1>6. x1 \in Reg /\ p[2] \in Reg
  BY <1>2, <1>5 DEF IsKey
<1>7. Repeated(t, x1)
  BY <1>6, SpreadLastWords DEF SpreadLast
<1>8. x3 = Summed(p[2], t)
  BY HeldIsSame DEF summed, Summed, VPXOR
<1> HIDE DEF t, x3
<1>9. t \in Reg /\ \A i \in Lane : i >= 4 => t[i] = t[i - 4]
  BY <1>7, FourFold
<1>10. Grows(Summed(p[2], t), p[2], t)
  BY <1>6, <1>9, SummedWords
<1>11. IsKey(x3, s, 2 * j + 1)
  BY <1>2, <1>5, <1>7, <1>8, <1>10, NextOddKey
<1> QED BY <1>1, <1>2, <1>4, <1>11 DEF KeyPair
=============================================================================
