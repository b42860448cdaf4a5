-------------------------- MODULE EcbInline_proof --------------------------
(***************************************************************************)
(* Proofs about EcbInline: for every S-box, every doubling and every key,  *)
(* each BLOCK of the inlined expansion finds its round key in the register *)
(* it names, and the two routines encipher the eight blocks, in order and  *)
(* wherever output and input are, and change nothing else.                 *)
(***************************************************************************)
EXTENDS EcbInlineCorrect, Expansion_proof, FiniteSetTheorems

-----------------------------------------------------------------------------
(* The program                                                             *)

\* The round keys in xK1 to xK4 before each instruction, 15 for none.
KeyOf ==
  <<<<0, 1, 15, 15>>, <<0, 1, 2, 3>>, <<0, 1, 2, 3>>, <<4, 5, 2, 3>>,
    <<4, 5, 2, 3>>, <<4, 5, 2, 3>>, <<4, 5, 6, 7>>, <<4, 5, 6, 7>>,
    <<4, 5, 6, 7>>, <<8, 9, 6, 7>>, <<8, 9, 6, 7>>, <<8, 9, 6, 7>>,
    <<8, 9, 10, 11>>, <<8, 9, 10, 11>>, <<8, 9, 10, 11>>, <<12, 13, 10, 11>>,
    <<12, 13, 10, 11>>, <<12, 13, 10, 11>>, <<12, 13, 10, 11>>,
    <<12, 13, 10, 11>>, <<14, 13, 10, 11>>>>

\* The calls of DRm before it, and of BLOCK.
Made == <<0, 1, 1, 2, 2, 2, 3, 3, 3, 4, 4, 4, 5, 5, 5, 6, 6, 6, 6, 6, 6>>

Done == <<0, 0, 1, 1, 2, 3, 3, 4, 5, 5, 6, 7, 7, 8, 9, 9, 10, 11, 12, 13, 13>>

Op(n) == Program[n].op
Arg(n, i) == Program[n].k[i]

LEMMA ProgramLength == Len(Program) = 21
BY DEF Program

LEMMA Instructions ==
  /\ Program[1] = DRm(1, 2, 3, 4) /\ Program[2] = BLOCK(2)
  /\ Program[3] = DRm(3, 4, 1, 2) /\ Program[4] = BLOCK(3)
  /\ Program[5] = BLOCK(4) /\ Program[6] = DRm(1, 2, 3, 4)
  /\ Program[7] = BLOCK(1) /\ Program[8] = BLOCK(2)
  /\ Program[9] = DRm(3, 4, 1, 2) /\ Program[10] = BLOCK(3)
  /\ Program[11] = BLOCK(4) /\ Program[12] = DRm(1, 2, 3, 4)
  /\ Program[13] = BLOCK(1) /\ Program[14] = BLOCK(2)
  /\ Program[15] = DRm(3, 4, 1, 2) /\ Program[16] = BLOCK(3)
  /\ Program[17] = BLOCK(4) /\ Program[18] = BLOCK(1)
  /\ Program[19] = BLOCK(2) /\ Program[20] = linearmix_xK1
  /\ Program[21] = BLOCKLAST
BY DEF Program

LEMMA Fields ==
  /\ \A a, b, c, d : /\ DRm(a, b, c, d).op = "DRm"
                     /\ DRm(a, b, c, d).k[1] = a /\ DRm(a, b, c, d).k[2] = b
                     /\ DRm(a, b, c, d).k[3] = c /\ DRm(a, b, c, d).k[4] = d
  /\ \A a : BLOCK(a).op = "BLOCK" /\ BLOCK(a).k[1] = a
  /\ linearmix_xK1.op = "linearmix"
  /\ BLOCKLAST.op = "BLOCKLAST" /\ BLOCKLAST.k[1] = 1
BY DEF DRm, BLOCK, linearmix_xK1, BLOCKLAST

\* A DRm is given the last two round keys and puts two more into the others.
DRmAt(n) ==
  /\ Made[n] \in 0..5 /\ Made[n + 1] = Made[n] + 1 /\ Done[n + 1] = Done[n]
  /\ \A i \in 1..4 : Arg(n, i) \in 1..4
  /\ Arg(n, 3) # Arg(n, 4)
  /\ KeyOf[n][Arg(n, 1)] = 2 * Made[n] /\ KeyOf[n][Arg(n, 2)] = 2 * Made[n] + 1
  /\ \A r \in 1..4 : KeyOf[n + 1][r] = IF r = Arg(n, 3) THEN 2 * Made[n] + 2
                                       ELSE IF r = Arg(n, 4) THEN 2 * Made[n] + 3
                                       ELSE KeyOf[n][r]

\* A BLOCK is given the key of the round it does.
BLOCKAt(n) ==
  /\ Done[n] \in 0..12 /\ Done[n + 1] = Done[n] + 1 /\ Made[n + 1] = Made[n]
  /\ Arg(n, 1) \in 1..4 /\ KeyOf[n][Arg(n, 1)] = Done[n] + 1
  /\ \A r \in 1..4 : KeyOf[n + 1][r] = KeyOf[n][r]

LEMMA ProgramFacts ==
  ASSUME NEW n \in 1..21
  PROVE  /\ Op(n) \in {"DRm", "BLOCK", "linearmix", "BLOCKLAST"}
         /\ Op(n) = "DRm" => n < 20 /\ DRmAt(n)
         /\ Op(n) = "BLOCK" => n < 20 /\ BLOCKAt(n)
         /\ Op(n) = "linearmix" <=> n = 20
         /\ Op(n) = "BLOCKLAST" <=> n = 21
         /\ Made[n] \in 0..6 /\ Done[n] \in 0..13
         /\ \A r \in 1..4 : KeyOf[n][r] \in 0..15
<1>1. \/ n = 1 \/ n = 3 \/ n = 6 \/ n = 9 \/ n = 12 \/ n = 15
      \/ n = 2 \/ n = 4 \/ n = 5 \/ n = 7 \/ n = 8 \/ n = 10 \/ n = 11 \/ n = 13
      \/ n = 14 \/ n = 16 \/ n = 17 \/ n = 18 \/ n = 19
      \/ n = 20 \/ n = 21
  OBVIOUS
<1> USE Instructions, Fields DEF Op, Arg, KeyOf, Made, Done
<1>2. CASE n = 1 BY <1>2 DEF DRmAt
<1>3. CASE n = 2 BY <1>3 DEF BLOCKAt
<1>4. CASE n = 3 BY <1>4 DEF DRmAt
<1>5. CASE n = 4 BY <1>5 DEF BLOCKAt
<1>6. CASE n = 5 BY <1>6 DEF BLOCKAt
<1>7. CASE n = 6 BY <1>7 DEF DRmAt
<1>8. CASE n = 7 BY <1>8 DEF BLOCKAt
<1>9. CASE n = 8 BY <1>9 DEF BLOCKAt
<1>10. CASE n = 9 BY <1>10 DEF DRmAt
<1>11. CASE n = 10 BY <1>11 DEF BLOCKAt
<1>12. CASE n = 11 BY <1>12 DEF BLOCKAt
<1>13. CASE n = 12 BY <1>13 DEF DRmAt
<1>14. CASE n = 13 BY <1>14 DEF BLOCKAt
<1>15. CASE n = 14 BY <1>15 DEF BLOCKAt
<1>16. CASE n = 15 BY <1>16 DEF DRmAt
<1>17. CASE n = 16 BY <1>17 DEF BLOCKAt
<1>18. CASE n = 17 BY <1>18 DEF BLOCKAt
<1>19. CASE n = 18 BY <1>19 DEF BLOCKAt
<1>20. CASE n = 19 BY <1>20 DEF BLOCKAt
<1>21. CASE n = 20 BY <1>21
<1>22. CASE n = 21 BY <1>22
<1> QED BY <1>1, <1>2, <1>3, <1>4, <1>5, <1>6, <1>7, <1>8, <1>9, <1>10, <1>11, <1>12,
         <1>13, <1>14, <1>15, <1>16, <1>17, <1>18, <1>19, <1>20, <1>21, <1>22

\* The rounds done before an instruction, counted.
LEMMA RoundsDone == \A n \in 1..21 : Rounds(n) = Done[n]
<1> DEFINE B(n) == {m \in 1..(n - 1) : Op(m) = "BLOCK"}
           T == {n \in Nat : n <= 20 => /\ IsFiniteSet(B(n + 1))
                                        /\ Cardinality(B(n + 1)) = Done[n + 1]}
<1>1. 0 \in T
  <2>1. B(0 + 1) = {}
    OBVIOUS
  <2>2. Done[0 + 1] = 0
    BY DEF Done
  <2> QED BY <2>1, <2>2, FS_EmptySet
<1>2. ASSUME NEW n \in Nat, n \in T PROVE n + 1 \in T
  <2> SUFFICES ASSUME n + 1 <= 20
               PROVE  /\ IsFiniteSet(B((n + 1) + 1))
                      /\ Cardinality(B((n + 1) + 1)) = Done[(n + 1) + 1]
    OBVIOUS
  <2> DEFINE m == n + 1
  <2>1. IsFiniteSet(B(m)) /\ Cardinality(B(m)) = Done[m] /\ m \in 1..20 /\ m \in 1..21
    BY <1>2
  <2>2. m \notin B(m) /\ Done[m] \in 0..13
    BY <2>1, ProgramFacts
  <2>3. CASE Op(m) = "BLOCK"
    <3>1. B(m + 1) = B(m) \cup {m}
      BY <2>1, <2>3
    <3>2. Done[m + 1] = Done[m] + 1
      BY <2>1, <2>3, ProgramFacts DEF BLOCKAt
    <3> HIDE DEF B, m
    <3> QED BY <2>1, <2>2, <3>1, <3>2, FS_AddElement DEF m
  <2>4. CASE Op(m) # "BLOCK"
    <3>1. B(m + 1) = B(m)
      <4>1. \A i : i \in 1..((m + 1) - 1) <=> i \in 1..(m - 1) \/ i = m
        BY <2>1
      <4> HIDE DEF m
      <4> QED BY <2>4, <4>1
    <3>2. Done[m + 1] = Done[m]
      <4>1. CASE Op(m) = "DRm"
        BY <2>1, <4>1, ProgramFacts DEF DRmAt
      <4>2. CASE m = 20
        BY <4>2 DEF Done
      <4>3. Op(m) = "DRm" \/ m = 20
        BY <2>1, <2>4, ProgramFacts
      <4> QED BY <4>1, <4>2, <4>3
    <3> HIDE DEF B, m
    <3> QED BY <2>1, <3>1, <3>2 DEF m
  <2> QED BY <2>3, <2>4
<1> HIDE DEF T
<1>3. Nat \subseteq T
  BY <1>1, <1>2, Induction
<1>4. ASSUME NEW n \in 1..21 PROVE Rounds(n) = Done[n]
  <2>1. n - 1 \in Nat /\ n - 1 <= 20 /\ (n - 1) + 1 = n
    OBVIOUS
  <2>2. Cardinality(B(n)) = Done[n]
    BY <1>3, <2>1 DEF T
  <2> QED BY <2>2 DEF Rounds, Op
<1> QED BY <1>4

-----------------------------------------------------------------------------
(* The instructions                                                        *)

\* They are those of the shared lemmas, with values computed once.
LEMMA SameInstructions ==
  \A r \in Reg, t \in Reg : /\ linearmix(r, t) = Mixed(r, t)
                            /\ RotSub(r, t) = Unrotate(r, t)
                            /\ SubLast(r) = SubShuffled(r)
<1> SUFFICES ASSUME NEW r \in Reg, NEW t \in Reg
             PROVE  /\ linearmix(r, t) = Mixed(r, t)
                    /\ RotSub(r, t) = Unrotate(r, t)
                    /\ SubLast(r) = SubShuffled(r)
  OBVIOUS
<1>1. __shuf_l = ShufL /\ __shuf_1 = Shuf1 /\ __shuf_2 = Shuf2
  BY DEF __shuf_l, ShufL, __shuf_1, Shuf1, __shuf_2, Shuf2
<1>2. \A a, b : Held(VPXOR(a, b)) = VPXOR(a, b)
  BY HeldIsSame DEF VPXOR
<1>3. linearmix(r, t) = Mixed(r, t)
  BY <1>1, <1>2 DEF linearmix, Mixed
<1>4. RotSub(r, t) = Unrotate(r, t)
  BY <1>1, HeldIsSame DEF RotSub, Unrotate, VPSHUFB
<1>5. SubLast(r) = SubShuffled(r)
  BY <1>1, <1>2 DEF SubLast, SubShuffled, VAESENCLAST
<1> QED BY <1>3, <1>4, <1>5

\* The keys that callers pass have schedules, and the buffer has room for them.
LEMMA SchedulesTyped ==
  \A k \in Keys : /\ Schedules[k] \in [Aes!Buffer -> Byte]
                  /\ IsSchedule(k, Schedules[k], 60)
                  /\ \A a \in 0..31 : Schedules[k][a] = k[a]
<1> SUFFICES ASSUME NEW k \in Keys
             PROVE  /\ Schedules[k] \in [Aes!Buffer -> Byte]
                    /\ IsSchedule(k, Schedules[k], 60)
                    /\ \A a \in 0..31 : Schedules[k][a] = k[a]
  OBVIOUS
<1>1. k \in [0..31 -> Byte]
  BY EcbKeysAssumption
<1>2. Schedules[k] \in [Aes!Buffer -> Byte] /\ IsSchedule(k, Schedules[k], 60)
  BY <1>1, AesSchedule DEF Schedules
<1>3. ASSUME NEW a \in 0..31 PROVE Schedules[k][a] = k[a]
  <2> DEFINE i == a \div 4
             b == a % 4
  <2>1. i \in 0..7 /\ i \in 0..59 /\ b \in 0..3 /\ 4 * i + b = a /\ i < 8
    OBVIOUS
  <2> HIDE DEF i, b
  <2>2. Schedules[k][4 * i + b] = ScheduleByte(k, Schedules[k], i, b)
    BY <1>2, <2>1 DEF IsSchedule, W!IsSchedule, ScheduleByte
  <2> QED BY <2>1, <2>2 DEF ScheduleByte, W!ScheduleByte, W!KeyWords
<1> QED BY <1>2, <1>3

LEMMA Buffers == Aes!Buffer = 0..239 /\ Aes!Buffer \subseteq Addr
BY AddrAssumption, EcbLengthAssumption DEF Aes!Buffer

\* OpenSSL makes the reference's schedule.
LEMMA OsslSchedulesAreSchedules ==
  \A k \in Keys : OsslSchedules[k] = Schedules[k]
<1> SUFFICES ASSUME NEW k \in Keys PROVE OsslSchedules[k] = Schedules[k]
  OBVIOUS
<1>1. aesni_set_encrypt_key(k) = Aes!Schedule(k)
  BY EcbKeysAssumption, EcbShiftAssumption, OsslSchedule
<1> QED BY <1>1, HeldIsSame DEF OsslSchedules, Schedules

\* The first r round keys are in memory, and zeros behind the last.
Holds(m, s, r) == m \in [Addr -> Byte] /\ \A a \in Aes!Buffer : a < 16 * r => m[a] = s[a]
ZeroBeyond(m) == \A a \in Addr : a \notin Aes!Buffer => m[a] = Zero

\* A store of the next round key.
LEMMA KeyInMemory ==
  ASSUME NEW m, NEW s, NEW r \in 0..14, NEW key,
         Holds(m, s, r), ZeroBeyond(m), IsKey(key, s, r)
  PROVE  Holds(Store(m, 16 * r, key), s, r + 1) /\ ZeroBeyond(Store(m, 16 * r, key))
<1> DEFINE t == Store(m, 16 * r, key)
<1>1. /\ t \in [Addr -> Byte]
      /\ \A i \in Lane : t[16 * r + i] = key[i]
      /\ \A a \in Addr : a \notin (16 * r)..(16 * r + 15) => t[a] = m[a]
  <2>1. 16 * r \in Nat /\ 16 * r + 16 <= 4 * NumWords
    BY EcbLengthAssumption
  <2>2. m \in [Addr -> Byte] /\ key \in Reg
    BY DEF Holds, IsKey
  <2> QED BY <2>1, <2>2, StoreBytes
<1> HIDE DEF t
<1>2. ASSUME NEW a \in Aes!Buffer, a < 16 * (r + 1) PROVE t[a] = s[a]
  <2>1. a \in 0..239 /\ a \in Addr
    BY Buffers
  <2>2. CASE a < 16 * r
    BY <1>1, <2>1, <2>2 DEF Holds
  <2>3. CASE a >= 16 * r
    <3>1. a - 16 * r \in Lane /\ 16 * r + (a - 16 * r) = a
      BY <1>2, <2>1, <2>3 DEF Lane
    <3> QED BY <1>1, <3>1 DEF IsKey
  <2> QED BY <2>1, <2>2, <2>3
<1>3. ASSUME NEW a \in Addr, a \notin Aes!Buffer PROVE t[a] = Zero
  <2>1. a \notin (16 * r)..(16 * r + 15)
    BY <1>3, Buffers
  <2> QED BY <1>1, <1>3, <2>1 DEF ZeroBeyond
<1> QED BY <1>1, <1>2, <1>3 DEF Holds, ZeroBeyond, t

\* Two round keys from the two before them, as DRm makes them.
LEMMA TwoKeys ==
  ASSUME NEW k \in Keys, NEW s, s = Schedules[k], NEW j \in 1..6,
         NEW r1, IsKey(r1, s, 2 * j - 2), NEW r2, IsKey(r2, s, 2 * j - 1),
         NEW v, ConstantOn(v, {9}, Rcon[j]),
         NEW k1, k1 = linearmix(r1, RotSub(r2, v)),
         NEW k2, k2 = linearmix(r2, SubLast(k1))
  PROVE  /\ IsKey(k1, s, 2 * j) /\ IsKey(k2, s, 2 * j + 1)
         /\ ConstantOn(VPSLLD1(v), {9}, Rcon[j + 1])
<1>1. IsSchedule(k, s, 60)
  BY SchedulesTyped
<1>2. IsKey(k1, s, 2 * j)
  <2> DEFINE t == Unrotate(r2, v)
  <2>1. Rotated(t, r2, Rcon[j])
    <3>1. r2 \in Reg /\ Rcon[j] \in Byte
      BY Registers DEF IsKey
    <3> QED BY <3>1, UnrotateWords
  <2> HIDE DEF t
  <2>2. t \in Reg /\ \A i \in Lane : i >= 4 => t[i] = t[i - 4]
    BY <2>1, FourFold
  <2>3. r1 \in Reg /\ r2 \in Reg /\ v \in Reg
    BY DEF IsKey, ConstantOn
  <2>4. Grows(Mixed(r1, t), r1, t)
    BY <2>2, <2>3, MixedWords
  <2>5. k1 = Mixed(r1, t)
    BY <2>2, <2>3, SameInstructions DEF t
  <2>6. j \in 1..7
    OBVIOUS
  <2> QED BY <1>1, <2>1, <2>4, <2>5, <2>6, NextEvenKey
<1>3. IsKey(k2, s, 2 * j + 1)
  <2> DEFINE t == SubShuffled(k1)
  <2>1. Repeated(t, k1)
    BY <1>2, SubShuffledWords DEF IsKey
  <2> HIDE DEF t
  <2>2. t \in Reg /\ \A i \in Lane : i >= 4 => t[i] = t[i - 4]
    BY <2>1, FourFold
  <2>3. r2 \in Reg /\ k1 \in Reg
    BY <1>2 DEF IsKey
  <2>4. Grows(Mixed(r2, t), r2, t)
    BY <2>2, <2>3, MixedWords
  <2>5. k2 = Mixed(r2, t)
    BY <2>2, <2>3, SameInstructions DEF t
  <2> QED BY <1>1, <1>2, <2>1, <2>4, <2>5, NextOddKey
<1>4. ConstantOn(VPSLLD1(v), {9}, Rcon[j + 1])
  BY EcbShiftAssumption, NextConstant
<1> QED BY <1>2, <1>3, <1>4

\* The last one, as the final linearmix makes it.
LEMMA LastKey ==
  ASSUME NEW k \in Keys, NEW s, s = Schedules[k],
         NEW r1, IsKey(r1, s, 12), NEW r2, IsKey(r2, s, 13),
         NEW v, ConstantOn(v, {9}, Rcon[7])
  PROVE  IsKey(linearmix(r1, RotSub(r2, v)), s, 14)
<1> DEFINE t == Unrotate(r2, v)
<1>1. IsSchedule(k, s, 60)
  BY SchedulesTyped
<1>2. r1 \in Reg /\ r2 \in Reg /\ v \in Reg /\ Rcon[7] \in Byte
  BY Registers DEF IsKey, ConstantOn
<1>3. Rotated(t, r2, Rcon[7])
  BY <1>2, UnrotateWords
<1> HIDE DEF t
<1>4. t \in Reg /\ \A i \in Lane : i >= 4 => t[i] = t[i - 4]
  BY <1>3, FourFold
<1> DEFINE new == Mixed(r1, t)
<1>5. Grows(new, r1, t)
  BY <1>2, <1>4, MixedWords
<1>6. linearmix(r1, RotSub(r2, v)) = new
  BY <1>2, <1>4, SameInstructions DEF t
<1> HIDE DEF new
<1>7. 7 \in 1..7 /\ 2 * 7 - 2 = 12 /\ 2 * 7 - 1 = 13 /\ 2 * 7 = 14
  OBVIOUS
<1>8. IsKey(new, s, 2 * 7)
  BY <1>1, <1>3, <1>5, <1>7, NextEvenKey
<1> QED BY <1>6, <1>7, <1>8

-----------------------------------------------------------------------------
(* The inductive invariant                                                 *)

Sched == Schedules[req.k]

\* The block the call was given, and its state before round r + 1.
Text(b) == Load(mem0, req.in + 16 * b)
State(b, r) == Aes!States(Sched, Text(b))[r]

\* Between expandkey's instructions: the registers hold the keys the program
\* needs next, those made are stored, and the blocks are as far as the rounds.
Expanding ==
  pc = "run" /\ req.fn = "expandkey" =>
    /\ step \in 1..21 /\ KS = 32 + 32 * Made[step]
    /\ ConstantOn(RC, {9}, Rcon[Made[step] + 1])
    /\ \A r \in 1..4 : KeyOf[step][r] # 15 => IsKey(K[r], Sched, KeyOf[step][r])
    /\ \A b \in Block : x[b] = State(b, Done[step])
    /\ Holds(ks, Sched, IF step = 21 THEN 15 ELSE 2 + 2 * Made[step])

\* Between ecb's rounds.
Loading == pc = "run" /\ req.fn = "ecb" =>
             step \in 1..14 /\ \A b \in Block : x[b] = State(b, step - 1)

\* The schedule is in the buffer before ecb needs it, and when a call is over.
Ready ==
  /\ pc # "idle" /\ req.fn = "ecb" => Holds(ks, Sched, 15)
  /\ pc = "store" \/ (pc = "idle" /\ calls > 0) => Holds(ks, Sched, 15)

Ciphered == pc = "store" => \A b \in Block : x[b] = Aes!Encrypted(Sched, Text(b))

\* Memory is not written before the end.
InCall == /\ pc # "idle" => mem = mem0 /\ calls > 0
          /\ calls > 0 => owner = {req.k}
          /\ calls = 0 => owner = {}

Untouched == pc = "idle" /\ calls > 0 =>
               \A a \in MemAddr : a \notin req.out..(req.out + 127) => mem[a] = mem0[a]

IInv == /\ TypeOK /\ ZeroBeyond(ks)
        /\ Expanding /\ Loading /\ Ready /\ Ciphered /\ InCall
        /\ Enciphered /\ Untouched

LEMMA Texts ==
  ASSUME TypeOK
  PROVE  /\ req \in Request /\ req.k \in Keys /\ Sched \in [Aes!Buffer -> Byte]
         /\ \A b \in Block : Text(b) \in Reg
         /\ \A b \in Block, r \in 0..13 : State(b, r) \in Reg
<1>1. /\ req \in Request /\ req.k \in Keys /\ req.in \in Nat
      /\ req.in + 128 <= MemSize /\ MemSize \in Nat
  BY EcbRequestAssumption, EcbMemAssumption DEF TypeOK, Request
<1>2. Sched \in [Aes!Buffer -> Byte]
  BY <1>1, SchedulesTyped DEF Sched
<1>3. ASSUME NEW b \in Block PROVE Text(b) \in Reg
  <2>1. \A i \in Lane : (req.in + 16 * b) + i \in MemAddr
    BY <1>1 DEF Lane, Block, MemAddr
  <2> QED BY <2>1 DEF Text, Load, Reg, TypeOK
<1> QED BY <1>1, <1>2, <1>3, StateByState DEF State

-----------------------------------------------------------------------------
(* Initially, and in each step                                             *)

LEMMA InitInv == Init => IInv
<1> SUFFICES ASSUME Init PROVE IInv
  OBVIOUS
<1>1. TypeOK
  <2>1. req \in Requests
    BY EcbRequestAssumption DEF Init
  <2>2. /\ ZeroReg \in Reg /\ InitMem \in [MemAddr -> Byte] /\ Zero \in Byte
        /\ MaxCalls \in Nat /\ Len(Program) = 21
    BY Registers, XorByte, EcbMemAssumption, EcbCallsAssumption, ProgramLength
  <2> QED BY <2>1, <2>2 DEF Init, TypeOK
<1>2. ZeroBeyond(ks)
  BY DEF Init, ZeroBeyond
<1>3. Expanding /\ Loading /\ Ready /\ Ciphered /\ InCall /\ Enciphered /\ Untouched
  BY DEF Init, Expanding, Loading, Ready, Ciphered, InCall, Enciphered, Untouched
<1> QED BY <1>1, <1>2, <1>3 DEF IInv

LEMMA CallInv ==
  ASSUME IInv, NEW q \in Requests, Call(q) PROVE IInv'
<1>1. /\ q \in Request /\ q.k \in Keys
      /\ Schedules[q.k] \in [Aes!Buffer -> Byte]
  BY EcbRequestAssumption, SchedulesTyped DEF Request
<1>2. /\ ks' \in [Addr -> Byte] /\ ZeroBeyond(ks')
      /\ q.fn = "ecb" => Holds(ks', Schedules[q.k], 15)
  <2>1. CASE q.fn = "ecb" /\ owner # {q.k}
    <3>1. ks' = [a \in Addr |-> IF a \in Aes!Buffer THEN Schedules[q.k][a] ELSE ks[a]]
      BY <1>1, <2>1, OsslSchedulesAreSchedules, Buffers DEF Call, set_rd_key
    <3> QED BY <1>1, <3>1, Buffers DEF IInv, TypeOK, Holds, ZeroBeyond
  <2>2. CASE ~(q.fn = "ecb" /\ owner # {q.k})
    <3>1. ks' = ks
      BY <2>2 DEF Call
    <3>2. CASE q.fn = "ecb"
      <4>1. calls > 0 /\ req.k = q.k
        <5>1. owner = {q.k} /\ calls \in Nat
          BY <2>2, <3>2, EcbCallsAssumption DEF IInv, TypeOK
        <5>2. calls # 0
          BY <5>1 DEF IInv, InCall
        <5>3. owner = {req.k}
          BY <5>1, <5>2 DEF IInv, InCall
        <5> QED BY <5>1, <5>2, <5>3
      <4> QED BY <3>1, <4>1 DEF IInv, TypeOK, Ready, Call, Sched
    <3>3. CASE q.fn # "ecb"
      BY <3>1, <3>3 DEF IInv, TypeOK
    <3> QED BY <3>2, <3>3
  <2> QED BY <2>1, <2>2
<1>3. TypeOK'
  <2>1. calls' \in 0..MaxCalls
    BY EcbCallsAssumption DEF Call, IInv, TypeOK
  <2> QED BY <1>1, <1>2, <2>1 DEF Call, IInv, TypeOK
<1>4. pc' = "entry" /\ calls' > 0 /\ owner' = {req'.k} /\ mem' = mem0' /\ req' = q
  BY DEF Call, IInv, TypeOK
<1>5. Ready'
  BY <1>2, <1>4 DEF Ready, Sched
<1>6. (Expanding /\ Loading /\ Ciphered /\ InCall /\ Enciphered /\ Untouched)'
  BY <1>4 DEF Expanding, Loading, Ciphered, InCall, Enciphered, Untouched
<1> QED BY <1>2, <1>3, <1>5, <1>6 DEF IInv

\* The first instructions of expandkey.
LEMMA ExpandkeyInv == ASSUME IInv, expandkey PROVE IInv'
<1> DEFINE k0 == Load(req.k, 0)
           k1 == Load(req.k, 16)
           s0 == Store(ks, 0, k0)
           s1 == Store(s0, 16, k1)
<1> USE DEF IInv
<1>1. /\ req.k \in Keys /\ Sched \in [Aes!Buffer -> Byte]
      /\ \A b \in Block : Text(b) \in Reg
      /\ \A a \in 0..31 : Sched[a] = req.k[a]
  BY Texts, SchedulesTyped DEF Sched
<1>2. IsKey(k0, Sched, 0) /\ IsKey(k1, Sched, 1)
  <2>1. \A i \in Lane : /\ 0 + i = i /\ 16 * 0 + i = i /\ 16 * 1 + i = 16 + i
                        /\ i \in 0..31 /\ 16 + i \in 0..31
    BY DEF Lane
  <2>2. \A a \in 0..31 : req.k[a] \in Byte
    BY <1>1, EcbKeysAssumption
  <2> QED BY <1>1, <2>1, <2>2 DEF IsKey, Load, Reg
<1> HIDE DEF k0, k1
<1>3. Holds(s1, Sched, 2) /\ ZeroBeyond(s1)
  <2>1. Holds(ks, Sched, 0) /\ ZeroBeyond(ks)
    BY Buffers DEF Holds, TypeOK
  <2>2. 16 * 0 = 0 /\ 16 * 1 = 16 /\ 0 + 1 = 1 /\ 1 + 1 = 2 /\ 0 \in 0..14 /\ 1 \in 0..14
    OBVIOUS
  <2>3. Holds(Store(ks, 16 * 0, k0), Sched, 0 + 1) /\ ZeroBeyond(Store(ks, 16 * 0, k0))
    BY <1>2, <2>1, <2>2, KeyInMemory
  <2>4. Holds(s0, Sched, 1) /\ ZeroBeyond(s0)
    BY <2>2, <2>3
  <2> HIDE DEF s0
  <2>5. Holds(Store(s0, 16 * 1, k1), Sched, 1 + 1) /\ ZeroBeyond(Store(s0, 16 * 1, k1))
    BY <1>2, <2>2, <2>4, KeyInMemory
  <2> QED BY <2>2, <2>5
<1> HIDE DEF s0, s1
<1>4. /\ pc' = "run" /\ req' = req /\ req'.fn = "expandkey" /\ step' = 1 /\ KS' = 32
      /\ K' = [K EXCEPT ![1] = k0, ![2] = k1] /\ RC' = __rc /\ ks' = s1
      /\ x' = [b \in Block |-> VPXOR(Load(mem, req.in + 16 * b), k0)]
      /\ UNCHANGED <<mem, calls, mem0, owner>>
  BY DEF expandkey, loaded, k0, k1, s0, s1
<1>5. Sched' = Sched /\ \A b : Text(b)' = Text(b)
  BY <1>4 DEF Sched, Text
<1>6. ConstantOn(RC', {9}, Rcon[1])
  <2>1. Rcon[1] = Hex(1)
    BY EcbShiftAssumption DEF PowersOfTwo
  <2>2. __rc \in Reg
    BY Registers, XorByte DEF __rc, Reg
  <2> QED BY <1>4, <2>1, <2>2 DEF ConstantOn, __rc
<1>7. \A b \in Block : x'[b] = State(b, 0)' /\ x'[b] \in Reg
  <2> SUFFICES ASSUME NEW b \in Block PROVE x'[b] = State(b, 0)' /\ x'[b] \in Reg
    OBVIOUS
  <2>1. mem = mem0
    BY DEF InCall, expandkey
  <2>2. x'[b] = VPXOR(Text(b), k0)
    BY <1>4, <2>1 DEF Text
  <2>3. VPXOR(Text(b), k0) = Aes!first(Text(b), Sched) /\ VPXOR(Text(b), k0) \in Reg
    BY <1>1, <1>2, FirstIsFirst
  <2>4. Aes!States(Sched, Text(b))[0] = Aes!first(Text(b), Sched)
    BY <1>1, StateByState
  <2>5. State(b, 0)' = Aes!States(Sched, Text(b))[0]
    BY <1>5 DEF State
  <2> QED BY <2>2, <2>3, <2>4, <2>5
<1>8. \A r \in 1..4 : KeyOf[1][r] # 15 => IsKey(K'[r], Sched, KeyOf[1][r])
  <2>1. /\ KeyOf[1][1] = 0 /\ KeyOf[1][2] = 1 /\ KeyOf[1][3] = 15 /\ KeyOf[1][4] = 15
    BY DEF KeyOf
  <2>2. K'[1] = k0 /\ K'[2] = k1
    BY <1>4 DEF TypeOK
  <2>3. \A r \in 1..4 : r = 1 \/ r = 2 \/ r = 3 \/ r = 4
    OBVIOUS
  <2> QED BY <1>2, <2>1, <2>2, <2>3
<1>9. Expanding'
  <2>1. Made[1] = 0 /\ Done[1] = 0
    BY DEF Made, Done
  <2>2. /\ step' \in 1..21 /\ step' # 21
        /\ KS' = 32 + 32 * Made[step'] /\ 2 = 2 + 2 * Made[step'] /\ Made[step'] + 1 = 1
    BY <1>4, <2>1
  <2>3. Holds(ks', Sched', IF step' = 21 THEN 15 ELSE 2 + 2 * Made[step'])
    BY <1>3, <1>4, <1>5, <2>2
  <2>4. \A b \in Block : x'[b] = State(b, Done[step])'
    BY <1>4, <1>7, <2>1 DEF State
  <2> QED BY <1>4, <1>5, <1>6, <1>8, <2>2, <2>3, <2>4 DEF Expanding
<1>10. TypeOK'
  <2>1. K' \in [1..4 -> Reg] /\ RC' \in Reg /\ x' \in [Block -> Reg]
    <3>1. k0 \in Reg /\ k1 \in Reg
      BY <1>2 DEF IsKey
    <3> QED BY <1>4, <1>6, <1>7, <3>1 DEF TypeOK, ConstantOn
  <2>2. KS' \in {0} \cup {32 * d : d \in 1..7}
    <3>1. 32 = 32 * 1
      OBVIOUS
    <3> QED BY <1>4, <3>1
  <2>3. ks' \in [Addr -> Byte] /\ step' \in 0..Len(Program)
    BY <1>3, <1>4, ProgramLength DEF Holds
  <2> QED BY <1>4, <2>1, <2>2, <2>3 DEF TypeOK
<1>11. (Loading /\ Ready /\ Ciphered /\ InCall /\ Enciphered /\ Untouched)'
  BY <1>4 DEF Loading, Ready, Ciphered, InCall, Enciphered, Untouched, expandkey
<1> QED BY <1>3, <1>4, <1>9, <1>10, <1>11

\* Between instructions, with what the program does next.
LEMMA AtInstruction ==
  ASSUME IInv, pc = "run", req.fn = "expandkey"
  PROVE  /\ step \in 1..21 /\ Made[step] \in 0..6 /\ Done[step] \in 0..13
         /\ \A i : R(i) = Arg(step, i)
         /\ \A op : Doing(op) <=> Op(step) = op
BY ProgramFacts DEF IInv, Expanding, R, Arg, Doing, Op

LEMMA DRmInv == ASSUME IInv, DoDRm PROVE IInv'
<1> DEFINE n == step
           m == Made[step]
           k1 == linearmix(K[R(1)], RotSub(K[R(2)], RC))
           k2 == linearmix(K[R(2)], SubLast(k1))
           s1 == Store(ks, KS, k1)
           s2 == Store(s1, KS + 16, k2)
<1>1. /\ pc = "run" /\ req.fn = "expandkey" /\ n \in 1..21
      /\ \A i : R(i) = Arg(n, i)
      /\ n < 20 /\ DRmAt(n)
  <2>1. pc = "run" /\ req.fn = "expandkey" /\ Doing("DRm")
    BY DEF DoDRm, Doing
  <2> QED BY <2>1, AtInstruction, ProgramFacts
<1>2. /\ m \in 0..5 /\ R(1) \in 1..4 /\ R(2) \in 1..4 /\ R(3) \in 1..4 /\ R(4) \in 1..4
      /\ R(3) # R(4) /\ KeyOf[n][R(1)] = 2 * m /\ KeyOf[n][R(2)] = 2 * m + 1
  BY <1>1 DEF DRmAt
<1>3. /\ pc' = "run" /\ req' = req /\ step' = n + 1 /\ KS' = KS + 32
      /\ K' = [K EXCEPT ![R(3)] = k1, ![R(4)] = k2]
      /\ RC' = VPSLLD1(RC) /\ ks' = s2
      /\ UNCHANGED <<x, mem, calls, mem0, owner>>
  BY <1>1 DEF DoDRm
<1>4. /\ IsKey(K[R(1)], Sched, 2 * m) /\ IsKey(K[R(2)], Sched, 2 * m + 1)
      /\ ConstantOn(RC, {9}, Rcon[m + 1]) /\ KS = 32 + 32 * m
      /\ Holds(ks, Sched, 2 + 2 * m)
  <2>1. 2 * m # 15 /\ 2 * m + 1 # 15 /\ n # 21
    BY <1>1, <1>2
  <2>2. Expanding
    BY DEF IInv
  <2> HIDE DEF m
  <2> QED BY <1>1, <1>2, <2>1, <2>2 DEF Expanding, m
<1> HIDE DEF s1, s2
<1>5. /\ IsKey(k1, Sched, 2 * m + 2) /\ IsKey(k2, Sched, 2 * m + 3)
      /\ ConstantOn(RC', {9}, Rcon[m + 2])
  <2> DEFINE j == m + 1
  <2>1. /\ j \in 1..6 /\ 2 * j - 2 = 2 * m /\ 2 * j - 1 = 2 * m + 1
        /\ 2 * j = 2 * m + 2 /\ 2 * j + 1 = 2 * m + 3 /\ j + 1 = m + 2
    BY <1>2
  <2>2. req.k \in Keys /\ Sched = Schedules[req.k]
    BY Texts DEF IInv, Sched
  <2> HIDE DEF m, k1, k2
  <2>3. k1 = linearmix(K[R(1)], RotSub(K[R(2)], RC)) /\ k2 = linearmix(K[R(2)], SubLast(k1))
    BY DEF k1, k2
  <2>4. /\ IsKey(K[R(1)], Sched, 2 * j - 2) /\ IsKey(K[R(2)], Sched, 2 * j - 1)
        /\ ConstantOn(RC, {9}, Rcon[j])
    BY <1>4, <2>1
  <2> HIDE DEF j
  <2>5. /\ IsKey(k1, Sched, 2 * j) /\ IsKey(k2, Sched, 2 * j + 1)
        /\ ConstantOn(VPSLLD1(RC), {9}, Rcon[j + 1])
    BY <2>1, <2>2, <2>3, <2>4, TwoKeys
  <2> QED BY <1>3, <2>1, <2>5
<1> HIDE DEF k1, k2, m
<1>6. Holds(ks', Sched, 4 + 2 * m) /\ ZeroBeyond(ks')
  <2> DEFINE r == 2 * m + 2
  <2>1. /\ r \in 0..14 /\ r + 1 \in 0..14 /\ 16 * r = KS /\ 16 * (r + 1) = KS + 16
        /\ 2 * m + 3 = r + 1 /\ 4 + 2 * m = (r + 1) + 1 /\ 2 + 2 * m = r
    BY <1>2, <1>4
  <2>2. /\ Holds(ks, Sched, r) /\ ZeroBeyond(ks)
        /\ IsKey(k1, Sched, r) /\ IsKey(k2, Sched, r + 1)
    BY <1>4, <1>5, <2>1 DEF IInv
  <2> HIDE DEF r
  <2>3. Holds(Store(ks, 16 * r, k1), Sched, r + 1) /\ ZeroBeyond(Store(ks, 16 * r, k1))
    BY <2>1, <2>2, KeyInMemory
  <2>4. Holds(s1, Sched, r + 1) /\ ZeroBeyond(s1)
    BY <2>1, <2>3 DEF s1
  <2>5. /\ Holds(Store(s1, 16 * (r + 1), k2), Sched, (r + 1) + 1)
        /\ ZeroBeyond(Store(s1, 16 * (r + 1), k2))
    BY <2>1, <2>2, <2>4, KeyInMemory
  <2> QED BY <1>3, <2>1, <2>5 DEF s2
<1>7. /\ Made[n + 1] = m + 1 /\ Done[n + 1] = Done[n]
      /\ \A r \in 1..4 : KeyOf[n + 1][r] = IF r = R(3) THEN 2 * m + 2
                                           ELSE IF r = R(4) THEN 2 * m + 3
                                           ELSE KeyOf[n][r]
  BY <1>1 DEF DRmAt, m
<1>8. Sched' = Sched /\ \A b, r : State(b, r)' = State(b, r)
  BY <1>3 DEF Sched, State, Text
<1>9. \A r \in 1..4 : KeyOf[n + 1][r] # 15 => IsKey(K'[r], Sched, KeyOf[n + 1][r])
  <2> SUFFICES ASSUME NEW r \in 1..4, KeyOf[n + 1][r] # 15
               PROVE  IsKey(K'[r], Sched, KeyOf[n + 1][r])
    OBVIOUS
  <2>1. K \in [1..4 -> Reg]
    BY DEF IInv, TypeOK
  <2>2. CASE r = R(3)
    <3>1. K'[r] = k1
      BY <1>2, <1>3, <2>1, <2>2
    <3> QED BY <1>5, <1>7, <2>2, <3>1
  <2>3. CASE r = R(4)
    <3>1. K'[r] = k2
      BY <1>2, <1>3, <2>1, <2>3
    <3> QED BY <1>2, <1>5, <1>7, <2>3, <3>1
  <2>4. CASE r # R(3) /\ r # R(4)
    <3>1. K'[r] = K[r] /\ KeyOf[n + 1][r] = KeyOf[n][r]
      BY <1>3, <1>7, <2>1, <2>4
    <3> QED BY <1>1, <3>1 DEF IInv, Expanding
  <2> QED BY <2>2, <2>3, <2>4
<1>10. Expanding'
  <2>1. n + 1 \in 1..21 /\ n + 1 # 21 /\ KS + 32 = 32 + 32 * (m + 1)
        /\ (m + 1) + 1 = m + 2 /\ 2 + 2 * (m + 1) = 4 + 2 * m
    BY <1>1, <1>2, <1>4
  <2>2. \A b \in Block : x'[b] = State(b, Done[n + 1])
    BY <1>1, <1>3, <1>7 DEF IInv, Expanding
  <2>3. step' = n + 1 /\ Made[step'] = m + 1
    BY <1>3, <1>7
  <2>4. Holds(ks', Sched', IF step' = 21 THEN 15 ELSE 2 + 2 * Made[step'])
    BY <1>6, <1>8, <2>1, <2>3
  <2>5. \A b \in Block : x'[b] = State(b, Done[step])'
    BY <1>8, <2>2, <2>3 DEF State
  <2>6. ConstantOn(RC', {9}, Rcon[Made[step'] + 1]) /\ KS' = 32 + 32 * Made[step']
    BY <1>3, <1>5, <2>1, <2>3
  <2>7. step' \in 1..21
    BY <2>1, <2>3
  <2>8. \A r \in 1..4 : KeyOf[step'][r] # 15 => IsKey(K'[r], Sched', KeyOf[step'][r])
    BY <1>8, <1>9, <2>3
  <2> QED BY <2>4, <2>5, <2>6, <2>7, <2>8 DEF Expanding
<1>11. TypeOK'
  <2>1. K' \in [1..4 -> Reg] /\ RC' \in Reg
    <3>1. k1 \in Reg /\ k2 \in Reg
      BY <1>5 DEF IsKey
    <3> QED BY <1>3, <1>5, <3>1 DEF IInv, TypeOK, ConstantOn
  <2>2. KS' \in {0} \cup {32 * d : d \in 1..7}
    <3>1. KS + 32 = 32 * (m + 2) /\ m + 2 \in 1..7
      BY <1>2, <1>4
    <3> QED BY <1>3, <3>1
  <2>3. ks' \in [Addr -> Byte] /\ step' \in 0..Len(Program)
    BY <1>1, <1>3, <1>6, ProgramLength DEF Holds
  <2> QED BY <1>3, <2>1, <2>2, <2>3 DEF IInv, TypeOK
<1>12. (Loading /\ Ready /\ Ciphered /\ InCall /\ Enciphered /\ Untouched)'
  BY <1>1, <1>3
  DEF IInv, Loading, Ready, Ciphered, InCall, Enciphered, Untouched
<1> QED BY <1>6, <1>10, <1>11, <1>12 DEF IInv

\* A round on a state of the reference.
LEMMA RoundOn ==
  ASSUME IInv, NEW r \in 1..13, NEW key, IsKey(key, Sched, r),
         \A b \in Block : x[b] = State(b, r - 1)
  PROVE  \A b \in Block : /\ rounds(VAESENC, key)[b] = State(b, r)
                          /\ rounds(VAESENC, key)[b] \in Reg
<1> SUFFICES ASSUME NEW b \in Block
             PROVE  /\ VAESENC(x[b], key) = State(b, r)
                    /\ VAESENC(x[b], key) \in Reg
  BY DEF rounds
<1>1. /\ Sched \in [Aes!Buffer -> Byte] /\ Text(b) \in Reg
      /\ State(b, r - 1) \in Reg /\ r - 1 \in 0..13 /\ r \in Nat
  BY Texts DEF IInv
<1>2. /\ VAESENC(State(b, r - 1), key) = Aes!round(State(b, r - 1), Sched, r)
      /\ VAESENC(State(b, r - 1), key) \in Reg
  BY <1>1, RoundIsRound
<1>3. State(b, r) = Aes!round(State(b, r - 1), Sched, r)
  BY <1>1, StateByState DEF State
<1> QED BY <1>2, <1>3

\* And the last.
LEMMA LastOn ==
  ASSUME IInv, NEW key, IsKey(key, Sched, 14),
         \A b \in Block : x[b] = State(b, 13)
  PROVE  \A b \in Block : /\ rounds(VAESENCLAST, key)[b] = Aes!Encrypted(Sched, Text(b))
                          /\ rounds(VAESENCLAST, key)[b] \in Reg
<1> SUFFICES ASSUME NEW b \in Block
             PROVE  /\ VAESENCLAST(x[b], key) = Aes!Encrypted(Sched, Text(b))
                    /\ VAESENCLAST(x[b], key) \in Reg
  BY DEF rounds
<1>1. State(b, 13) \in Reg
  BY Texts DEF IInv
<1>2. /\ VAESENCLAST(State(b, 13), key) = Aes!last(State(b, 13), Sched)
      /\ VAESENCLAST(State(b, 13), key) \in Reg
  BY <1>1, LastIsLast
<1> QED BY <1>2 DEF Aes!Encrypted, State

LEMMA BLOCKInv == ASSUME IInv, DoBLOCK PROVE IInv'
<1> DEFINE n == step
<1>1. /\ pc = "run" /\ req.fn = "expandkey" /\ n \in 1..21
      /\ \A i : R(i) = Arg(n, i)
      /\ n < 20 /\ BLOCKAt(n)
  <2>1. pc = "run" /\ req.fn = "expandkey" /\ Doing("BLOCK")
    BY DEF DoBLOCK, Doing
  <2> QED BY <2>1, AtInstruction, ProgramFacts
<1>2. /\ pc' = "run" /\ step' = n + 1 /\ x' = rounds(VAESENC, K[R(1)])
      /\ UNCHANGED <<req, K, RC, KS, ks, mem, calls, mem0, owner>>
  BY <1>1 DEF DoBLOCK
<1>3. Sched' = Sched /\ \A b, r : State(b, r)' = State(b, r)
  BY <1>2 DEF Sched, State, Text
<1>4. /\ Done[n] \in 0..12 /\ Done[n + 1] = Done[n] + 1 /\ Made[n + 1] = Made[n]
      /\ R(1) \in 1..4 /\ KeyOf[n][R(1)] = Done[n] + 1
      /\ \A r \in 1..4 : KeyOf[n + 1][r] = KeyOf[n][r]
  BY <1>1 DEF BLOCKAt
<1>5. /\ IsKey(K[R(1)], Sched, Done[n] + 1)
      /\ \A b \in Block : x[b] = State(b, Done[n])
  <2>1. Done[n] + 1 # 15
    BY <1>4
  <2> QED BY <1>1, <1>4, <2>1 DEF IInv, Expanding
<1>6. \A b \in Block : x'[b] = State(b, Done[n] + 1) /\ x'[b] \in Reg
  <2> DEFINE d == Done[n] + 1
             key == K[R(1)]
  <2>1. d \in 1..13 /\ d - 1 = Done[n]
    BY <1>4
  <2>2. IsKey(key, Sched, d) /\ \A b \in Block : x[b] = State(b, d - 1)
    BY <1>5, <2>1
  <2> HIDE DEF d, key
  <2>3. \A b \in Block : /\ rounds(VAESENC, key)[b] = State(b, d)
                         /\ rounds(VAESENC, key)[b] \in Reg
    BY <2>1, <2>2, RoundOn
  <2> QED BY <1>2, <2>3 DEF d, key
<1>7. Expanding'
  <2>1. step' = n + 1 /\ step' \in 1..21 /\ step' # 21 /\ n # 21
    BY <1>1, <1>2
  <2>2. \A b \in Block : x'[b] = State(b, Done[step])'
    BY <1>3, <1>4, <1>6, <2>1 DEF State
  <2>3. Expanding
    BY DEF IInv
  <2>4. \A r \in 1..4 : KeyOf[step'][r] # 15 => IsKey(K'[r], Sched', KeyOf[step'][r])
    BY <1>1, <1>2, <1>3, <1>4, <2>1, <2>3 DEF Expanding
  <2>5. /\ Made[step'] = Made[n] /\ KS = 32 + 32 * Made[n]
        /\ ConstantOn(RC, {9}, Rcon[Made[n] + 1]) /\ Holds(ks, Sched, 2 + 2 * Made[n])
    BY <1>1, <1>4, <2>1, <2>3 DEF Expanding
  <2>6. /\ KS' = 32 + 32 * Made[step'] /\ ConstantOn(RC', {9}, Rcon[Made[step'] + 1])
        /\ Holds(ks', Sched', IF step' = 21 THEN 15 ELSE 2 + 2 * Made[step'])
    BY <1>2, <1>3, <2>1, <2>5
  <2> QED BY <2>1, <2>2, <2>4, <2>6 DEF Expanding
<1>8. TypeOK'
  <2>1. x' \in [Block -> Reg]
    BY <1>2, <1>6 DEF rounds
  <2>2. step' \in 0..Len(Program)
    BY <1>1, <1>2, ProgramLength
  <2> QED BY <1>1, <1>2, <2>1, <2>2 DEF IInv, TypeOK
<1>9. (Loading /\ Ready /\ Ciphered /\ InCall /\ Enciphered /\ Untouched)'
  BY <1>1, <1>2 DEF IInv, Loading, Ready, Ciphered, InCall, Enciphered, Untouched
<1> QED BY <1>2, <1>7, <1>8, <1>9 DEF IInv

LEMMA LinearmixInv == ASSUME IInv, DoLinearmix PROVE IInv'
<1> DEFINE key == linearmix(K[1], RotSub(K[2], RC))
<1>1. pc = "run" /\ req.fn = "expandkey" /\ step = 20
  <2>1. pc = "run" /\ req.fn = "expandkey" /\ Doing("linearmix")
    BY DEF DoLinearmix, Doing
  <2> QED BY <2>1, AtInstruction, ProgramFacts
<1>2. /\ pc' = "run" /\ step' = 21 /\ K' = [K EXCEPT ![1] = key]
      /\ ks' = Store(ks, KS, K'[1])
      /\ UNCHANGED <<req, RC, x, KS, mem, calls, mem0, owner>>
  BY <1>1 DEF DoLinearmix
<1>3. /\ Made[20] = 6 /\ Made[21] = 6 /\ Done[20] = 13 /\ Done[21] = 13
      /\ KeyOf[20][1] = 12 /\ KeyOf[20][2] = 13 /\ KeyOf[21][1] = 14
      /\ \A r \in 2..4 : KeyOf[21][r] = KeyOf[20][r]
  <2>1. KeyOf[20] = <<12, 13, 10, 11>> /\ KeyOf[21] = <<14, 13, 10, 11>>
    BY DEF KeyOf
  <2>2. \A r \in 2..4 : r = 2 \/ r = 3 \/ r = 4
    OBVIOUS
  <2> QED BY <2>1, <2>2 DEF Made, Done
<1>4. /\ IsKey(K[1], Sched, 12) /\ IsKey(K[2], Sched, 13)
      /\ ConstantOn(RC, {9}, Rcon[7]) /\ KS = 224 /\ Holds(ks, Sched, 14)
      /\ \A b \in Block : x[b] = State(b, 13)
  <2>1. Made[step] = 6 /\ Done[step] = 13 /\ KeyOf[step][1] = 12 /\ KeyOf[step][2] = 13
    BY <1>1, <1>3
  <2>2. 6 + 1 = 7 /\ 32 + 32 * 6 = 224 /\ 2 + 2 * 6 = 14
    OBVIOUS
  <2> QED BY <1>1, <2>1, <2>2 DEF IInv, Expanding
<1> HIDE DEF key
<1>5. IsKey(key, Sched, 14)
  <2>1. req.k \in Keys /\ Sched = Schedules[req.k]
    BY Texts DEF IInv, Sched
  <2> QED BY <1>4, <2>1, LastKey DEF key
<1>6. K'[1] = key /\ \A r \in 2..4 : K'[r] = K[r]
  BY <1>2 DEF IInv, TypeOK
<1>7. Holds(ks', Sched, 15) /\ ZeroBeyond(ks')
  <2>1. 16 * 14 = 224 /\ 14 + 1 = 15 /\ 14 \in 0..14 /\ ZeroBeyond(ks)
    BY DEF IInv
  <2>2. /\ Holds(Store(ks, 16 * 14, key), Sched, 14 + 1)
        /\ ZeroBeyond(Store(ks, 16 * 14, key))
    BY <1>4, <1>5, <2>1, KeyInMemory
  <2> QED BY <1>2, <1>4, <1>6, <2>1, <2>2
<1>8. Sched' = Sched /\ \A b, r : State(b, r)' = State(b, r)
  BY <1>2 DEF Sched, State, Text
<1>9. Expanding'
  <2>1. \A r \in 1..4 : r = 1 \/ r \in 2..4
    OBVIOUS
  <2>2. \A r \in 1..4 : KeyOf[21][r] # 15 => IsKey(K'[r], Sched, KeyOf[21][r])
    <3>1. \A r \in 2..4 : KeyOf[20][r] # 15 => IsKey(K[r], Sched, KeyOf[20][r])
      BY <1>1 DEF IInv, Expanding
    <3> QED BY <1>3, <1>5, <1>6, <2>1, <3>1
  <2>3. \A b \in Block : x'[b] = State(b, Done[step])'
    BY <1>2, <1>3, <1>4, <1>8 DEF State
  <2>4. /\ KS' = 32 + 32 * Made[step'] /\ ConstantOn(RC', {9}, Rcon[Made[step'] + 1])
        /\ step' \in 1..21
    BY <1>2, <1>3, <1>4
  <2>5. Holds(ks', Sched', IF step' = 21 THEN 15 ELSE 2 + 2 * Made[step'])
    BY <1>2, <1>7, <1>8
  <2> QED BY <1>2, <1>8, <2>2, <2>3, <2>4, <2>5 DEF Expanding
<1>10. TypeOK'
  <2>1. K' \in [1..4 -> Reg]
    <3>1. key \in Reg
      BY <1>5 DEF IsKey
    <3> QED BY <1>2, <3>1 DEF IInv, TypeOK
  <2>2. ks' \in [Addr -> Byte] /\ step' \in 0..Len(Program)
    BY <1>2, <1>7, ProgramLength DEF Holds
  <2> QED BY <1>2, <2>1, <2>2 DEF IInv, TypeOK
<1>11. (Loading /\ Ready /\ Ciphered /\ InCall /\ Enciphered /\ Untouched)'
  BY <1>1, <1>2 DEF IInv, Loading, Ready, Ciphered, InCall, Enciphered, Untouched
<1> QED BY <1>7, <1>9, <1>10, <1>11 DEF IInv

LEMMA BLOCKLASTInv == ASSUME IInv, DoBLOCKLAST PROVE IInv'
<1>1. pc = "run" /\ req.fn = "expandkey" /\ step = 21
  <2>1. pc = "run" /\ req.fn = "expandkey" /\ Doing("BLOCKLAST")
    BY DEF DoBLOCKLAST, Doing
  <2> QED BY <2>1, AtInstruction, ProgramFacts
<1>2. /\ pc' = "store" /\ x' = rounds(VAESENCLAST, K[1])
      /\ UNCHANGED <<req, step, K, RC, KS, ks, mem, calls, mem0, owner>>
  BY DEF DoBLOCKLAST
<1>3. /\ IsKey(K[1], Sched, 14) /\ Holds(ks, Sched, 15)
      /\ \A b \in Block : x[b] = State(b, 13)
  <2>1. KeyOf[step][1] = 14 /\ Done[step] = 13
    BY <1>1 DEF KeyOf, Done
  <2> QED BY <1>1, <2>1 DEF IInv, Expanding
<1>4. \A b \in Block : x'[b] = Aes!Encrypted(Sched, Text(b)) /\ x'[b] \in Reg
  BY <1>2, <1>3, LastOn
<1>5. Ciphered' /\ Ready'
  BY <1>2, <1>3, <1>4 DEF Ciphered, Ready, Sched, Text
<1>6. TypeOK'
  <2>1. x' \in [Block -> Reg]
    BY <1>2, <1>4 DEF rounds
  <2> QED BY <1>2, <2>1 DEF IInv, TypeOK
<1>7. (Expanding /\ Loading /\ InCall /\ Enciphered /\ Untouched)'
  BY <1>1, <1>2 DEF IInv, Expanding, Loading, InCall, Enciphered, Untouched
<1> QED BY <1>2, <1>5, <1>6, <1>7 DEF IInv

\* A round key loaded from the buffer.
LEMMA KeyRead ==
  ASSUME NEW m, NEW s \in [Aes!Buffer -> Byte], Holds(m, s, 15), NEW r \in 0..14
  PROVE  IsKey(Load(m, 16 * r), s, r)
<1>1. \A i \in Lane : 16 * r + i \in Aes!Buffer /\ 16 * r + i < 16 * 15
  BY DEF Lane, Aes!Buffer
<1>2. \A i \in Lane : m[16 * r + i] = s[16 * r + i]
  BY <1>1 DEF Holds
<1>3. Load(m, 16 * r) = Load(s, 16 * r)
  BY <1>2 DEF Load
<1> QED BY <1>3, KeyLoaded

LEMMA EcbInv == ASSUME IInv, ecb PROVE IInv'
<1> DEFINE key == Load(ks, 0)
<1>1. /\ pc = "entry" /\ req.fn = "ecb" /\ pc' = "run" /\ step' = 1 /\ KS' = 0
      /\ K' = [K EXCEPT ![1] = key]
      /\ x' = [b \in Block |-> VPXOR(Load(mem, req.in + 16 * b), key)]
      /\ UNCHANGED <<req, RC, ks, mem, calls, mem0, owner>>
  BY DEF ecb, loaded
<1>2. Sched \in [Aes!Buffer -> Byte] /\ \A b \in Block : Text(b) \in Reg
  BY Texts DEF IInv
<1>3. IsKey(key, Sched, 0)
  <2>1. Holds(ks, Sched, 15) /\ 0 \in 0..14 /\ 16 * 0 = 0
    BY <1>1 DEF IInv, Ready
  <2>2. IsKey(Load(ks, 16 * 0), Sched, 0)
    BY <1>2, <2>1, KeyRead
  <2> QED BY <2>1, <2>2
<1> HIDE DEF key
<1>4. \A b \in Block : x'[b] = State(b, 0)' /\ x'[b] \in Reg
  <2> SUFFICES ASSUME NEW b \in Block PROVE x'[b] = State(b, 0)' /\ x'[b] \in Reg
    OBVIOUS
  <2>1. mem = mem0
    BY <1>1 DEF IInv, InCall
  <2>2. x'[b] = VPXOR(Text(b), key)
    BY <1>1, <2>1 DEF Text
  <2>3. VPXOR(Text(b), key) = Aes!first(Text(b), Sched) /\ VPXOR(Text(b), key) \in Reg
    BY <1>2, <1>3, FirstIsFirst
  <2>4. Aes!States(Sched, Text(b))[0] = Aes!first(Text(b), Sched)
    BY <1>2, StateByState
  <2>5. State(b, 0)' = Aes!States(Sched, Text(b))[0]
    BY <1>1 DEF State, Sched, Text
  <2> QED BY <2>2, <2>3, <2>4, <2>5
<1>5. Loading'
  <2>1. step' \in 1..14 /\ step' - 1 = 0
    BY <1>1
  <2>2. \A b \in Block : x'[b] = State(b, step - 1)'
    BY <1>4, <2>1 DEF State
  <2> QED BY <2>1, <2>2 DEF Loading
<1>6. TypeOK'
  <2>1. K' \in [1..4 -> Reg]
    <3>1. key \in Reg
      BY <1>3 DEF IsKey
    <3> QED BY <1>1, <3>1 DEF IInv, TypeOK
  <2>2. x' \in [Block -> Reg]
    BY <1>1, <1>4
  <2>3. step' \in 0..Len(Program)
    BY <1>1, ProgramLength
  <2> QED BY <1>1, <2>1, <2>2, <2>3 DEF IInv, TypeOK
<1>7. Ready' /\ ZeroBeyond(ks')
  BY <1>1 DEF IInv, Ready, Sched
<1>8. (Expanding /\ Ciphered /\ InCall /\ Enciphered /\ Untouched)'
  BY <1>1 DEF IInv, Expanding, Ciphered, InCall, Enciphered, Untouched
<1> QED BY <1>5, <1>6, <1>7, <1>8 DEF IInv

LEMMA EcbRoundInv == ASSUME IInv, ecbRound PROVE IInv'
<1>1. /\ pc = "run" /\ req.fn = "ecb" /\ step \in 1..14
      /\ UNCHANGED <<req, K, RC, KS, ks, mem, calls, mem0, owner>>
      /\ \A b \in Block : x[b] = State(b, step - 1)
      /\ Holds(ks, Sched, 15)
  BY DEF ecbRound, IInv, Loading, Ready
<1>2. Sched \in [Aes!Buffer -> Byte]
  BY Texts DEF IInv
<1>3. Sched' = Sched /\ \A b : Text(b)' = Text(b)
  BY <1>1 DEF Sched, Text
<1>4. CASE step < 14
  <2> DEFINE key == Load(ks, 16 * step)
  <2>1. pc' = "run" /\ step' = step + 1 /\ x' = rounds(VAESENC, key)
    BY <1>1, <1>4 DEF ecbRound
  <2>2. IsKey(key, Sched, step) /\ step \in 1..13
    <3>1. step \in 0..14
      BY <1>1
    <3> QED BY <1>1, <1>2, <1>4, <3>1, KeyRead
  <2> HIDE DEF key
  <2>3. \A b \in Block : x'[b] = State(b, step) /\ x'[b] \in Reg
    BY <1>1, <2>1, <2>2, RoundOn
  <2>4. Loading'
    <3>1. step' \in 1..14 /\ step' - 1 = step
      BY <2>1, <2>2
    <3>2. \A b \in Block : x'[b] = State(b, step - 1)'
      BY <1>3, <2>3, <3>1 DEF State
    <3> QED BY <3>1, <3>2 DEF Loading
  <2>5. TypeOK'
    <3>1. x' \in [Block -> Reg]
      BY <2>1, <2>3 DEF rounds
    <3>2. step' \in 0..Len(Program)
      BY <2>1, <2>2, ProgramLength
    <3> QED BY <1>1, <2>1, <3>1, <3>2 DEF IInv, TypeOK
  <2>6. Ready' /\ ZeroBeyond(ks')
    BY <1>1, <1>3, <2>1 DEF IInv, Ready
  <2>7. (Expanding /\ Ciphered /\ InCall /\ Enciphered /\ Untouched)'
    BY <1>1, <2>1 DEF IInv, Expanding, Ciphered, InCall, Enciphered, Untouched
  <2> QED BY <2>4, <2>5, <2>6, <2>7 DEF IInv
<1>5. CASE step = 14
  <2> DEFINE key == Load(ks, 16 * 14)
  <2>1. pc' = "store" /\ step' = step /\ x' = rounds(VAESENCLAST, key)
    BY <1>1, <1>5 DEF ecbRound
  <2>2. IsKey(key, Sched, 14)
    BY <1>1, <1>2, KeyRead
  <2> HIDE DEF key
  <2>3. \A b \in Block : x'[b] = Aes!Encrypted(Sched, Text(b)) /\ x'[b] \in Reg
    BY <1>1, <1>5, <2>1, <2>2, LastOn
  <2>4. Ciphered' /\ Ready' /\ ZeroBeyond(ks')
    BY <1>1, <1>3, <2>1, <2>3 DEF IInv, Ciphered, Ready
  <2>5. TypeOK'
    <3>1. x' \in [Block -> Reg]
      BY <2>1, <2>3 DEF rounds
    <3> QED BY <1>1, <2>1, <3>1 DEF IInv, TypeOK
  <2>6. (Expanding /\ Loading /\ InCall /\ Enciphered /\ Untouched)'
    BY <1>1, <2>1 DEF IInv, Expanding, Loading, InCall, Enciphered, Untouched
  <2> QED BY <2>4, <2>5, <2>6 DEF IInv
<1> QED BY <1>1, <1>4, <1>5

LEMMA ReturnInv == ASSUME IInv, Return PROVE IInv'
<1>1. /\ pc = "store" /\ pc' = "idle"
      /\ UNCHANGED <<req, step, KS, ks, calls, mem0, owner>>
      /\ K' = [r \in 1..4 |-> ZeroReg] /\ RC' = ZeroReg
      /\ x' = [b \in Block |-> ZeroReg]
  BY DEF Return
<1>2. /\ req.out \in Nat /\ req.out + 128 <= MemSize /\ MemSize \in Nat
      /\ mem \in [MemAddr -> Byte] /\ x \in [Block -> Reg] /\ mem = mem0 /\ calls > 0
  BY <1>1, EcbRequestAssumption, EcbMemAssumption DEF IInv, TypeOK, InCall, Request
<1>3. ASSUME NEW a \in MemAddr, a \in req.out..(req.out + 127)
      PROVE  /\ mem'[a] = x[(a - req.out) \div 16][(a - req.out) % 16]
             /\ mem'[a] \in Byte
  <2>1. (a - req.out) \div 16 \in Block /\ (a - req.out) % 16 \in Lane
    <3> DEFINE o == req.out
    <3>0. o \in Nat /\ a \in 0..(MemSize - 1) /\ MemSize \in Nat /\ a \in o..(o + 127)
      BY <1>2, <1>3 DEF MemAddr
    <3> HIDE DEF o
    <3>1. a - o \in 0..127
      BY <3>0
    <3> DEFINE d == a - o
    <3> HIDE DEF d
    <3>2. d \div 16 \in 0..7 /\ d % 16 \in 0..15
      BY <3>1 DEF d
    <3> QED BY <3>2 DEF d, o, Block, Lane
  <2>2. mem'[a] = x[(a - req.out) \div 16][(a - req.out) % 16]
    BY <1>3 DEF Return
  <2>3. x[(a - req.out) \div 16] \in Reg
    BY <1>2, <2>1
  <2> QED BY <2>1, <2>2, <2>3, Registers
<1>4. \A a \in MemAddr : a \notin req.out..(req.out + 127) => mem'[a] = mem0[a]
  BY <1>2 DEF Return
<1>5. Enciphered'
  <2> SUFFICES ASSUME NEW b \in Block
               PROVE  Load(mem', req.out + 16 * b) = Aes!Encrypted(Sched, Text(b))
    BY <1>1 DEF Enciphered, Sched, Text
  <2>1. x[b] = Aes!Encrypted(Sched, Text(b)) /\ x[b] \in Reg
    BY <1>1, <1>2 DEF IInv, Ciphered
  <2>2. ASSUME NEW i \in Lane PROVE mem'[(req.out + 16 * b) + i] = x[b][i]
    <3> DEFINE a == (req.out + 16 * b) + i
               d == 16 * b + i
    <3>1. d \div 16 = b /\ d % 16 = i
      BY DEF Block, Lane
    <3>2. a \in MemAddr /\ a \in req.out..(req.out + 127) /\ a - req.out = d
      <4> DEFINE o == req.out
      <4>1. o \in Nat /\ o + 128 <= MemSize /\ MemSize \in Nat
        BY <1>2
      <4>2. d \in 0..127
        BY DEF Block, Lane
      <4>3. a = o + d
        BY <4>1 DEF Block, Lane
      <4> HIDE DEF a, d, o
      <4>4. a \in 0..(MemSize - 1) /\ a \in o..(o + 127) /\ a - o = d
        BY <4>1, <4>2, <4>3
      <4> QED BY <4>4 DEF MemAddr, o
    <3> HIDE DEF a, d
    <3>3. mem'[a] = x[b][i]
      BY <1>3, <3>1, <3>2
    <3> QED BY <3>3 DEF a
  <2>3. Load(mem', req.out + 16 * b) = [i \in Lane |-> x[b][i]]
    BY <2>2 DEF Load
  <2>4. x[b] = [i \in Lane |-> x[b][i]]
    BY <2>1 DEF Reg
  <2> QED BY <2>1, <2>3, <2>4
<1>6. Untouched'
  BY <1>1, <1>4 DEF Untouched
<1>7. TypeOK'
  <2>1. mem' \in [MemAddr -> Byte]
    <3>1. \A a \in MemAddr : mem'[a] \in Byte
      BY <1>2, <1>3, <1>4
    <3>2. mem' = [a \in MemAddr |-> mem'[a]]
      BY DEF Return
    <3> QED BY <3>1, <3>2
  <2> QED BY <1>1, <2>1, Registers DEF IInv, TypeOK
<1>8. (Expanding /\ Loading /\ Ready /\ Ciphered /\ InCall)' /\ ZeroBeyond(ks')
  BY <1>1, <1>2 DEF IInv, Expanding, Loading, Ready, Ciphered, InCall, Sched
<1> QED BY <1>5, <1>6, <1>7, <1>8 DEF IInv

LEMMA StepInv == IInv /\ [Next]_vars => IInv'
<1> SUFFICES ASSUME IInv, [Next]_vars PROVE IInv'
  OBVIOUS
<1>1. CASE \E q \in Requests : Call(q)
  BY <1>1, CallInv
<1>2. CASE expandkey
  BY <1>2, ExpandkeyInv
<1>3. CASE DoDRm
  BY <1>3, DRmInv
<1>4. CASE DoBLOCK
  BY <1>4, BLOCKInv
<1>5. CASE DoLinearmix
  BY <1>5, LinearmixInv
<1>6. CASE DoBLOCKLAST
  BY <1>6, BLOCKLASTInv
<1>7. CASE ecb
  BY <1>7, EcbInv
<1>8. CASE ecbRound
  BY <1>8, EcbRoundInv
<1>9. CASE Return
  BY <1>9, ReturnInv
<1>10. CASE UNCHANGED vars
  BY <1>10
  DEF vars, IInv, TypeOK, ZeroBeyond, Expanding, Loading, Ready, Ciphered,
      InCall, Enciphered, Untouched, Sched, Text, State
<1>11. CASE Stopped
  BY <1>10, <1>11 DEF Stopped
<1> QED BY <1>1, <1>2, <1>3, <1>4, <1>5, <1>6, <1>7, <1>8, <1>9, <1>10, <1>11 DEF Next

\* The invariant is inductive: it holds initially, and each step preserves it.
THEOREM Invariance == Spec => []IInv
BY InitInv, StepInv, PTL DEF Spec

-----------------------------------------------------------------------------
(* The properties                                                          *)

\* Types: all registers and both memories stay so, and no instruction is run
\* that the program does not have.
THEOREM TypeCorrect == Spec => []TypeOK
<1>1. IInv => TypeOK
  BY DEF IInv
<1> QED BY <1>1, Invariance, PTL

\* Each round of the inlined expansion finds its key in the register it names:
\* the order of the DRm and BLOCK calls of expand.s is right for every S-box,
\* doubling and key.
THEOREM KeysInRegisters == Spec => []KeyInRegister
<1>1. ASSUME IInv PROVE KeyInRegister
  <2> SUFFICES ASSUME pc = "run", req.fn = "expandkey", Op(step) \in {"BLOCK", "BLOCKLAST"}
               PROVE  \A n \in Lane : K[R(1)][n] = Sched[16 * (Rounds(step) + 1) + n]
    BY DEF KeyInRegister, Sched, Op
  <2>1. /\ step \in 1..21 /\ Done[step] \in 0..13 /\ R(1) = Arg(step, 1)
        /\ Rounds(step) = Done[step]
    BY <1>1, AtInstruction, RoundsDone
  <2>2. R(1) \in 1..4 /\ KeyOf[step][R(1)] = Done[step] + 1
    <3>1. CASE Op(step) = "BLOCK"
      BY <2>1, <3>1, ProgramFacts DEF BLOCKAt
    <3>2. CASE Op(step) = "BLOCKLAST"
      <4>1. step = 21
        BY <2>1, <3>2, ProgramFacts
      <4>2. R(1) = 1
        BY <2>1, <4>1, Instructions, Fields DEF Arg
      <4> QED BY <4>1, <4>2 DEF KeyOf, Done
    <3> QED BY <3>1, <3>2
  <2>3. KeyOf[step][R(1)] # 15
    BY <2>1, <2>2
  <2>4. IsKey(K[R(1)], Sched, Done[step] + 1)
    BY <1>1, <2>2, <2>3 DEF IInv, Expanding
  <2> QED BY <2>1, <2>4 DEF IsKey
<1> QED BY <1>1, Invariance, PTL

\* Both routines encipher: the output is AES-256 of the input as it was when
\* the call began, for every S-box, doubling, key and memory, wherever the two
\* overlap, and whether the keys are made between the rounds or read.
THEOREM OutputIsCipher == Spec => []Enciphered
<1>1. IInv => Enciphered
  BY DEF IInv
<1> QED BY <1>1, Invariance, PTL

\* And change nothing but the output and the schedule, which is left whole.
THEOREM OthersUntouched == Spec => []LeavesTheRest
<1>1. ASSUME IInv PROVE LeavesTheRest
  <2> SUFFICES ASSUME pc = "idle", calls > 0 PROVE
        /\ \A a \in MemAddr : a \notin req.out..(req.out + 127) => mem[a] = mem0[a]
        /\ \A a \in Addr : ks[a] = IF a \in Aes!Buffer THEN Sched[a] ELSE Zero
    BY DEF LeavesTheRest, Sched
  <2>1. \A a \in MemAddr : a \notin req.out..(req.out + 127) => mem[a] = mem0[a]
    BY <1>1 DEF IInv, Untouched
  <2>2. \A a \in Aes!Buffer : ks[a] = Sched[a]
    <3>1. Holds(ks, Sched, 15)
      BY <1>1 DEF IInv, Ready
    <3>2. \A a \in Aes!Buffer : a < 16 * 15
      BY Buffers
    <3> QED BY <3>1, <3>2 DEF Holds
  <2>3. \A a \in Addr : a \notin Aes!Buffer => ks[a] = Zero
    BY <1>1 DEF IInv, ZeroBeyond
  <2> QED BY <2>1, <2>2, <2>3
<1> QED BY <1>1, Invariance, PTL
=============================================================================
