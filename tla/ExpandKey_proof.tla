-------------------------- MODULE ExpandKey_proof --------------------------
(***************************************************************************)
(* Proofs about Expand2 and K32ks, the two Rijndael_k32b32_expandkey: for  *)
(* every S-box, every set of keys and every memory around the buffer, each *)
(* writes the reference schedule and implements the abstract one.          *)
(***************************************************************************)
EXTENDS Expand2, K32ks, Expansion_proof

-----------------------------------------------------------------------------
(* The instructions of expand2.s                                           *)

\* Three shifted copies of a register and T0, the same in its four words:
\* each word is its old value xor the new word before it.
LEMMA LinearmixWords ==
  ASSUME NEW r \in Reg, NEW t \in Reg,
         \A i \in Lane : i >= 4 => t[i] = t[i - 4]
  PROVE  /\ linearmix(r, t) \in Reg
         /\ \A i \in Lane :
              linearmix(r, t)[i] =
                r[i] (+) (IF i < 4 THEN t[i] ELSE linearmix(r, t)[i - 4])
<1> DEFINE s1 == VPSLLDQ4(r)
           s2 == VPSLLDQ4(s1)
           s3 == VPSLLDQ4(s2)
           m == linearmix(r, t)
<1>1. m = VPXOR(t, VPXOR(s3, VPXOR(s2, VPXOR(s1, r))))
  BY DEF linearmix
<1>2. /\ \A i \in Lane : s1[i] = IF i < 4 THEN Zero ELSE r[i - 4]
      /\ \A i \in Lane : s2[i] = IF i < 4 THEN Zero ELSE s1[i - 4]
      /\ \A i \in Lane : s3[i] = IF i < 4 THEN Zero ELSE s2[i - 4]
  BY DEF VPSLLDQ4
<1> HIDE DEF s1, s2, s3, m
<1>3. /\ m = [i \in Lane |-> m[i]]
      /\ \A i \in Lane :
           m[i] = t[i] (+) (s3[i] (+) (s2[i] (+) (s1[i] (+) r[i])))
  BY <1>1 DEF VPXOR
<1>4. Chained(r, t, s1, s2, s3, m)
  BY <1>2, <1>3 DEF Chained
<1> QED BY <1>4, ChainedWords DEF m

\* The first feedback of a `do' is SubWord(RotWord(.)) of the last word of
\* KEY2, with the round constant on its first byte, in all four words.
LEMMA RotSubWords ==
  ASSUME NEW r \in Reg, NEW rc \in Byte
  PROVE  /\ RotSub(r, rc) \in Reg
         /\ \A i \in Lane : RotSub(r, rc)[i] =
              Sbox[r[12 + ((i + 1) % 4)]] (+) (IF i % 4 = 0 THEN rc ELSE Zero)
<1> DEFINE sh == [i \in Lane |-> r[12 + ((i + 1) % 4)]]
<1>1. VPSHUFB(r, SHUF_2) = sh
  <2>1. \A i \in Lane : /\ SHUF_2[i] = 12 + ((i + 1) % 4)
                        /\ ~(SHUF_2[i] >= 128)
                        /\ SHUF_2[i] % 16 = 12 + ((i + 1) % 4)
    BY DEF SHUF_2, Lane
  <2> QED BY <2>1 DEF VPSHUFB
<1>2. \A i \in Lane : /\ (i + 4 * (i % 4)) % 16 \in Lane
                      /\ (((i + 4 * (i % 4)) % 16) + 1) % 4 = (i + 1) % 4
                      /\ 12 + ((i + 1) % 4) \in Lane
  BY DEF Lane
<1>3. ShiftRows(sh) = sh
  <2>1. \A i \in Lane : sh[(i + 4 * (i % 4)) % 16] = sh[i]
    BY <1>2
  <2>2. ShiftRows(sh) = [i \in Lane |-> sh[i]]
    BY <2>1 DEF ShiftRows
  <2> QED BY <2>2
<1>4. \A i \in Lane : RotSub(r, rc)[i] =
         Sbox[r[12 + ((i + 1) % 4)]] (+) (IF i % 4 = 0 THEN rc ELSE Zero)
  BY <1>1, <1>3 DEF RotSub, VAESENCLAST, VPXOR, SubBytes, BroadcastRC
<1>5. \A i \in Lane : RotSub(r, rc)[i] \in Byte
  <2>1. \A i \in Lane : Sbox[r[12 + ((i + 1) % 4)]] \in Byte
    BY <1>2, Registers, SboxAssumption
  <2> QED BY <2>1, <1>4, XorByte
<1>6. RotSub(r, rc) = [i \in Lane |-> RotSub(r, rc)[i]]
  BY DEF RotSub, VAESENCLAST, VPXOR
<1> QED BY <1>4, <1>5, <1>6 DEF Reg

\* The second feedback is SubWord of the last word of KEY1, everywhere.
LEMMA SubLastWords ==
  ASSUME NEW r \in Reg
  PROVE  /\ SubLast(r) \in Reg
         /\ \A i \in Lane : SubLast(r)[i] = Sbox[r[12 + (i % 4)]]
<1> DEFINE sh == [i \in Lane |-> r[12 + (i % 4)]]
<1>1. VPSHUFD(r, 3) = sh
  BY DEF VPSHUFD
<1>2. \A i \in Lane : /\ (i + 4 * (i % 4)) % 16 \in Lane
                      /\ ((i + 4 * (i % 4)) % 16) % 4 = i % 4
                      /\ 12 + (i % 4) \in Lane
  BY DEF Lane
<1>3. ShiftRows(sh) = sh
  <2>1. \A i \in Lane : sh[(i + 4 * (i % 4)) % 16] = sh[i]
    BY <1>2
  <2>2. ShiftRows(sh) = [i \in Lane |-> sh[i]]
    BY <2>1 DEF ShiftRows
  <2> QED BY <2>2
<1>4. \A i \in Lane : Sbox[r[12 + (i % 4)]] \in Byte
  BY <1>2, Registers, SboxAssumption
<1>5. \A i \in Lane : SubLast(r)[i] = Sbox[r[12 + (i % 4)]]
  <2>1. \A i \in Lane : SubLast(r)[i] = Sbox[r[12 + (i % 4)]] (+) Zero
    BY <1>1, <1>3 DEF SubLast, VAESENCLAST, VPXOR, SubBytes, ZeroReg
  <2> QED BY <2>1, <1>4, XorByte
<1>6. SubLast(r) = [i \in Lane |-> SubLast(r)[i]]
  BY DEF SubLast, VAESENCLAST, VPXOR
<1> QED BY <1>4, <1>5, <1>6 DEF Reg

-----------------------------------------------------------------------------
(* Expand2: the inductive invariant                                        *)

\* The schedule of the abstract specification is the one of the lemmas.
LEMMA SameSchedule ==
  \A k, s, m : Schedule!IsSchedule(k, s, m) <=> IsSchedule(k, s, m)
BY DEF Schedule!IsSchedule, IsSchedule, W!IsSchedule,
   Schedule!ScheduleByte, W!ScheduleByte, Schedule!Feedback, W!Feedback,
   Schedule!KeyWords, W!KeyWords, Schedule!(+), W!(+), Schedule!Zero, W!Zero

\* The pointer counts the rounds, and the registers hold the words last
\* written: without this the schedule in memory says nothing about the next
\* four words, which are computed from the registers alone.
InStep == /\ pc = "entry" => c = 1 /\ KS = 0
          /\ pc \in {"do", "half"} => c \in 1..14 /\ KS = 32 * (c - 1)
          /\ pc = "ret" => c = 15 /\ KS = 448
          /\ pc = "returned" => c = 15 /\ KS = 0
          /\ pc = "do" => \A i \in Lane : /\ KEY1[i] = ks[KS + i]
                                        /\ KEY2[i] = ks[KS + 16 + i]
          /\ pc = "half" => \A i \in Lane : /\ KEY1[i] = ks[KS + 32 + i]
                                          /\ KEY2[i] = ks[KS + 16 + i]

IInv == TypeOK /\ InStep /\ ScheduleCorrect

\* What a step of the routine may change of the memory.
Frame == \A a \in Addr : a \notin (4 * Written)..(4 * Written' - 1)
                        => ks'[a] = ks[a]

LEMMA InitInv == Init => IInv
<1> SUFFICES ASSUME Init PROVE IInv
  OBVIOUS
<1>1. TypeOK
  BY Registers, XorByte DEF Init, TypeOK
<1>2. InStep
  BY DEF Init, InStep
<1>3. ScheduleCorrect
  BY DEF Init, ScheduleCorrect, Written, Schedule!IsSchedule
<1> QED BY <1>1, <1>2, <1>3 DEF IInv

LEMMA LoadKeyStep == IInv /\ LoadKey => IInv' /\ Frame
<1> SUFFICES ASSUME IInv, LoadKey PROVE IInv' /\ Frame
  OBVIOUS
<1>1. /\ ks \in [Addr -> Byte] /\ key \in [0..31 -> Byte]
      /\ pc = "entry" /\ c = 1 /\ KS = 0
  BY KeysAssumption DEF IInv, TypeOK, InStep, LoadKey
<1>2. /\ KEY1' \in Reg /\ KEY2' \in Reg
      /\ ks' \in [Addr -> Byte]
      /\ \A i \in Lane : KEY1'[i] = ks'[i] /\ KEY2'[i] = ks'[16 + i]
      /\ \A a \in Addr : a \notin 0..31 => ks'[a] = ks[a]
      /\ IsSchedule(key, ks', 8)
  <2>1. /\ KEY1' = Load(key, 0) /\ KEY2' = Load(key, 16)
        /\ ks' = Store(Store(ks, 0, KEY1'), 16, KEY2')
    BY DEF LoadKey
  <2> QED BY <2>1, <1>1, KeyStored
<1>3. Written = 0 /\ Written' = 8
  BY <1>1 DEF LoadKey, Written
<1>4. Frame
  BY <1>2, <1>3 DEF Frame
<1>5. ScheduleCorrect'
  BY <1>2, <1>3, SameSchedule DEF ScheduleCorrect, LoadKey
<1>6. TypeOK'
  BY <1>1, <1>2 DEF TypeOK, IInv, LoadKey
<1>7. InStep'
  BY <1>1, <1>2 DEF InStep, LoadKey, Lane
<1> QED BY <1>4, <1>5, <1>6, <1>7 DEF IInv

LEMMA DoKey1Step == IInv /\ DoKey1 => IInv' /\ Frame
<1> SUFFICES ASSUME IInv, DoKey1 PROVE IInv' /\ Frame
  OBVIOUS
<1> DEFINE m == 8 * c
           rc == DoConst[c]
           T0 == RotSub(KEY2, rc)
<1>1. /\ ks \in [Addr -> Byte] /\ KEY1 \in Reg /\ KEY2 \in Reg
      /\ pc = "do" /\ c \in 1..14 /\ KS = 32 * (c - 1)
      /\ \A i \in Lane : KEY1[i] = ks[KS + i] /\ KEY2[i] = ks[KS + 16 + i]
  BY DEF IInv, TypeOK, InStep, DoKey1
<1>2. /\ m \in 8..116 /\ m % 8 = 0 /\ m % 4 = 0 /\ m \div 8 = c
      /\ KS = 4 * (m - 8) /\ KS + 32 = 4 * m
      /\ Written = m /\ Written' = m + 4
  BY <1>1 DEF DoKey1, Written
<1>3. rc = Rcon[c] /\ rc \in Byte
  BY <1>1, Registers, ConstAssumption
<1>4. /\ T0 \in Reg
      /\ \A i \in Lane : T0[i] =
           Sbox[KEY2[12 + ((i + 1) % 4)]] (+) (IF i % 4 = 0 THEN rc ELSE Zero)
  BY <1>1, <1>3, RotSubWords
<1>5. \A i \in Lane : i >= 4 => T0[i] = T0[i - 4]
  <2>1. \A i \in Lane : i >= 4 => /\ i - 4 \in Lane
                                /\ (i - 4) % 4 = i % 4
                                /\ ((i - 4) + 1) % 4 = (i + 1) % 4
    BY DEF Lane
  <2> QED BY <2>1, <1>4
<1>6. /\ KEY1' \in Reg
      /\ \A i \in Lane :
           KEY1'[i] = KEY1[i] (+) (IF i < 4 THEN T0[i] ELSE KEY1'[i - 4])
  BY <1>1, <1>4, <1>5, LinearmixWords DEF DoKey1
<1>7. ks' = Store(ks, 4 * m, KEY1')
  BY <1>2 DEF DoKey1
<1> HIDE DEF m, rc, T0
<1>8. ASSUME NEW b \in 0..3 PROVE T0[b] = Feedback(ks, m, b)
  <2>1. /\ b \in Lane /\ b % 4 = b /\ 12 + ((b + 1) % 4) \in Lane
        /\ KS + 16 + (12 + ((b + 1) % 4)) = 4 * (m - 1) + ((b + 1) % 4)
    BY <1>2 DEF Lane
  <2>2. KEY2[12 + ((b + 1) % 4)] = ks[4 * (m - 1) + ((b + 1) % 4)]
    BY <2>1, <1>1
  <2> QED BY <2>1, <2>2, <1>2, <1>3, <1>4, SameXor DEF Feedback, W!Feedback
<1>9. /\ ks' \in [Addr -> Byte]
      /\ \A i \in Lane : ks'[4 * m + i] = KEY1'[i]
      /\ \A a \in Addr : a \notin (4 * m)..(4 * m + 15) => ks'[a] = ks[a]
      /\ IsSchedule(key, ks', m + 4)
  <2>1. IsSchedule(key, ks, m)
    BY <1>2, SameSchedule DEF IInv, ScheduleCorrect
  <2>2. \A i \in Lane : KEY1[i] = ks[4 * (m - 8) + i]
    BY <1>1, <1>2
  <2>3. m \in Nat /\ m >= 8 /\ m + 4 <= NumWords /\ m % 4 = 0
    BY <1>2, LengthAssumption
  <2>4. HalfRound(key, ks, m, KEY1, T0, KEY1')
    BY <2>1, <2>2, <2>3, <1>1, <1>2, <1>6, <1>8 DEF HalfRound
  <2> QED BY <2>4, <1>7, FourWords
<1>10. ScheduleCorrect'
  BY <1>2, <1>9, SameSchedule DEF ScheduleCorrect, DoKey1
<1>11. TypeOK'
  BY <1>1, <1>6, <1>9 DEF TypeOK, IInv, DoKey1
<1>12. InStep'
  <2>1. \A i \in Lane : /\ KEY1'[i] = ks'[KS + 32 + i]
                        /\ KEY2[i] = ks'[KS + 16 + i]
    <3> SUFFICES ASSUME NEW i \in Lane
                 PROVE  /\ KEY1'[i] = ks'[KS + 32 + i]
                        /\ KEY2[i] = ks'[KS + 16 + i]
      OBVIOUS
    <3>1. /\ KS + 32 + i = 4 * m + i
          /\ KS + 16 + i \in 0..479
          /\ KS + 16 + i \notin (4 * m)..(4 * m + 15)
      BY <1>2 DEF Lane
    <3> QED BY <3>1, <1>1, <1>9, AddrAssumption, LengthAssumption
  <2> QED BY <2>1, <1>1 DEF InStep, DoKey1
<1>13. Frame
  BY <1>2, <1>9 DEF Frame
<1> QED BY <1>10, <1>11, <1>12, <1>13 DEF IInv

LEMMA DoKey2Step == IInv /\ DoKey2 => IInv' /\ Frame
<1> SUFFICES ASSUME IInv, DoKey2 PROVE IInv' /\ Frame
  OBVIOUS
<1> DEFINE m == 8 * c + 4
           T0 == SubLast(KEY1)
<1>1. /\ ks \in [Addr -> Byte] /\ KEY1 \in Reg /\ KEY2 \in Reg
      /\ pc = "half" /\ c \in 1..14 /\ KS = 32 * (c - 1)
      /\ \A i \in Lane : KEY1[i] = ks[KS + 32 + i] /\ KEY2[i] = ks[KS + 16 + i]
  BY DEF IInv, TypeOK, InStep, DoKey2
<1>2. /\ m \in 8..116 /\ m % 8 = 4 /\ m % 4 = 0
      /\ KS = 4 * (m - 12) /\ KS + 16 = 4 * (m - 8) /\ KS + 48 = 4 * m
      /\ Written = m /\ Written' = m + 4
  BY <1>1 DEF DoKey2, Written
<1>3. T0 \in Reg /\ \A i \in Lane : T0[i] = Sbox[KEY1[12 + (i % 4)]]
  BY <1>1, SubLastWords
<1>4. \A i \in Lane : i >= 4 => T0[i] = T0[i - 4]
  <2>1. \A i \in Lane : i >= 4 => i - 4 \in Lane /\ (i - 4) % 4 = i % 4
    BY DEF Lane
  <2> QED BY <2>1, <1>3
<1>5. /\ KEY2' \in Reg
      /\ \A i \in Lane :
           KEY2'[i] = KEY2[i] (+) (IF i < 4 THEN T0[i] ELSE KEY2'[i - 4])
  BY <1>1, <1>3, <1>4, LinearmixWords DEF DoKey2
<1>6. ks' = Store(ks, 4 * m, KEY2')
  BY <1>2 DEF DoKey2
<1> HIDE DEF m, T0
<1>7. ASSUME NEW b \in 0..3 PROVE T0[b] = Feedback(ks, m, b)
  <2>1. /\ b \in Lane /\ b % 4 = b /\ 12 + b \in Lane
        /\ KS + 32 + (12 + b) = 4 * (m - 1) + b
    BY <1>2 DEF Lane
  <2>2. KEY1[12 + b] = ks[4 * (m - 1) + b]
    BY <2>1, <1>1
  <2> QED BY <2>1, <2>2, <1>2, <1>3 DEF Feedback, W!Feedback
<1>8. /\ ks' \in [Addr -> Byte]
      /\ \A i \in Lane : ks'[4 * m + i] = KEY2'[i]
      /\ \A a \in Addr : a \notin (4 * m)..(4 * m + 15) => ks'[a] = ks[a]
      /\ IsSchedule(key, ks', m + 4)
  <2>1. IsSchedule(key, ks, m)
    BY <1>2, SameSchedule DEF IInv, ScheduleCorrect
  <2>2. \A i \in Lane : KEY2[i] = ks[4 * (m - 8) + i]
    BY <1>1, <1>2
  <2>3. m \in Nat /\ m >= 8 /\ m + 4 <= NumWords /\ m % 4 = 0
    BY <1>2, LengthAssumption
  <2>4. HalfRound(key, ks, m, KEY2, T0, KEY2')
    BY <2>1, <2>2, <2>3, <1>1, <1>2, <1>5, <1>7 DEF HalfRound
  <2> QED BY <2>4, <1>6, FourWords
<1>9. ScheduleCorrect'
  BY <1>2, <1>8, SameSchedule DEF ScheduleCorrect, DoKey2
<1>10. TypeOK'
  BY <1>1, <1>5, <1>8 DEF TypeOK, IInv, DoKey2
<1>11. InStep'
  <2>1. \A i \in Lane : /\ KEY1[i] = ks'[KS + 32 + i]
                        /\ KEY2'[i] = ks'[KS + 32 + 16 + i]
    <3> SUFFICES ASSUME NEW i \in Lane
                 PROVE  /\ KEY1[i] = ks'[KS + 32 + i]
                        /\ KEY2'[i] = ks'[KS + 32 + 16 + i]
      OBVIOUS
    <3>1. /\ KS + 32 + 16 + i = 4 * m + i
          /\ KS + 32 + i \in 0..479
          /\ KS + 32 + i \notin (4 * m)..(4 * m + 15)
      BY <1>2 DEF Lane
    <3> QED BY <3>1, <1>1, <1>8, AddrAssumption, LengthAssumption
  <2> QED BY <2>1, <1>1 DEF InStep, DoKey2
<1>12. Frame
  BY <1>2, <1>8 DEF Frame
<1> QED BY <1>9, <1>10, <1>11, <1>12 DEF IInv

LEMMA ReturnStep == IInv /\ Return => IInv' /\ Written = 120 /\ Written' = 120
<1> SUFFICES ASSUME IInv, Return
             PROVE  IInv' /\ Written = 120 /\ Written' = 120
  OBVIOUS
<1>1. Written = 120 /\ Written' = 120
  BY DEF Return, Written
<1>2. ScheduleCorrect'
  BY <1>1 DEF IInv, ScheduleCorrect, Schedule!IsSchedule,
     Schedule!ScheduleByte, Schedule!Feedback, Return
<1>3. TypeOK' /\ InStep'
  BY Registers DEF IInv, TypeOK, InStep, Return
<1> QED BY <1>1, <1>2, <1>3 DEF IInv

LEMMA CallStep == IInv /\ Call => IInv' /\ Written = 120 /\ Written' = 0
<1> SUFFICES ASSUME IInv, Call
             PROVE  IInv' /\ Written = 120 /\ Written' = 0
  OBVIOUS
<1>1. Written = 120 /\ Written' = 0
  BY DEF Call, Written
<1>2. ScheduleCorrect'
  BY <1>1 DEF ScheduleCorrect, Schedule!IsSchedule
<1>3. TypeOK' /\ InStep'
  BY DEF IInv, TypeOK, InStep, Call
<1> QED BY <1>1, <1>2, <1>3 DEF IInv

LEMMA StutterStep == IInv /\ UNCHANGED vars => IInv' /\ Written' = Written
<1> SUFFICES ASSUME IInv, UNCHANGED vars PROVE IInv' /\ Written' = Written
  OBVIOUS
<1>1. Written' = Written
  BY DEF vars, Written
<1>2. ScheduleCorrect'
  BY <1>1 DEF IInv, ScheduleCorrect, Schedule!IsSchedule,
     Schedule!ScheduleByte, Schedule!Feedback, vars
<1>3. TypeOK' /\ InStep'
  BY DEF IInv, TypeOK, InStep, vars
<1> QED BY <1>1, <1>2, <1>3 DEF IInv

-----------------------------------------------------------------------------
(* Expand2: theorems                                                       *)

THEOREM Invariance == Spec => []IInv
<1>1. Init => IInv
  BY InitInv
<1>2. IInv /\ [Next]_vars => IInv'
  BY LoadKeyStep, DoKey1Step, DoKey2Step, ReturnStep, CallStep, StutterStep
     DEF Next
<1> QED BY <1>1, <1>2, PTL DEF Spec

\* Registers, pointer and memory keep their types: the pointer of
\* Rijndael_k32b32_expandkey stays within the 480 bytes of the schedule.
THEOREM TypeCorrect == Spec => []TypeOK
<1>1. IInv => TypeOK
  BY DEF IInv
<1> QED BY <1>1, Invariance, PTL

\* Whatever the S-box and the key, every word that expand2.s has written is
\* the word of the reference schedule.
THEOREM ScheduleIsCorrect == Spec => []ScheduleCorrect
<1>1. IInv => ScheduleCorrect
  BY DEF IInv
<1> QED BY <1>1, Invariance, PTL

\* The routine implements the abstract schedule: it only ever extends it, and
\* no other byte of the caller's memory changes.
THEOREM Implementation == Spec => ImplementsSchedule
<1>1. Init => Schedule!Init
  <2> SUFFICES ASSUME Init PROVE Schedule!Init
    OBVIOUS
  <2>1. Written = 0
    BY DEF Init, Written
  <2> QED BY <2>1, InitInv DEF Init, IInv, TypeOK, Schedule!Init,
            Schedule!Byte, Byte
<1>2. IInv /\ IInv' /\ [Next]_vars => [Schedule!Next]_(Schedule!vars)
  <2> SUFFICES ASSUME IInv, IInv', [Next]_vars
               PROVE  [Schedule!Next]_(Schedule!vars)
    OBVIOUS
  <2>1. ks' \in [Addr -> Schedule!Byte] /\ Schedule!IsSchedule(key', ks', Written')
    BY DEF IInv, TypeOK, ScheduleCorrect, Schedule!Byte, Byte
  <2>2. CASE LoadKey \/ DoKey1 \/ DoKey2
    <3>1. key' = key
      BY <2>2 DEF LoadKey, DoKey1, DoKey2
    <3>2. Written' \in (Written + 1)..NumWords
      BY <2>2, LengthAssumption DEF IInv, TypeOK, InStep, LoadKey, DoKey1, DoKey2, Written
    <3>3. Frame
      BY <2>2, LoadKeyStep, DoKey1Step, DoKey2Step
    <3>4. Schedule!Extend
      BY <2>1, <3>1, <3>2, <3>3 DEF Schedule!Extend, Frame
    <3> QED BY <3>4 DEF Schedule!Next
  <2>3. CASE Return
    BY <2>3, ReturnStep DEF Return, Schedule!vars
  <2>4. CASE Call
    <3>1. key' \in Keys
      BY DEF IInv, TypeOK
    <3> QED BY <2>1, <2>4, <3>1, CallStep, LengthAssumption DEF Call, Schedule!Next, Schedule!Again
  <2>5. CASE UNCHANGED vars
    BY <2>5, StutterStep DEF vars, Schedule!vars
  <2> QED BY <2>2, <2>3, <2>4, <2>5 DEF Next
<1> QED BY <1>1, <1>2, Invariance, PTL DEF Spec, ImplementsSchedule, Schedule!Spec

-----------------------------------------------------------------------------
(* The helper of rijn_k32ks.s                                              *)

\* The mask shuffles every byte a word up and clears the first word.
LEMMA ShuffleShifts ==
  ASSUME NEW x
  PROVE  \A i \in Lane : VPSHUFB(x, shuffle_mask)[i]
                           = IF i < 4 THEN Zero ELSE x[i - 4]
<1> SUFFICES ASSUME NEW i \in Lane
             PROVE  VPSHUFB(x, shuffle_mask)[i] = IF i < 4 THEN Zero ELSE x[i - 4]
  OBVIOUS
<1>1. VPSHUFB(x, shuffle_mask)[i] = IF shuffle_mask[i] >= 128 THEN Zero
                                    ELSE x[shuffle_mask[i] % 16]
  BY DEF VPSHUFB
<1>2. CASE i < 4
  BY <1>1, <1>2 DEF shuffle_mask
<1>3. CASE i >= 4
  <2>1. shuffle_mask[i] = i - 4 /\ ~(i - 4 >= 128) /\ (i - 4) % 16 = i - 4
    BY <1>3 DEF shuffle_mask, Lane
  <2> QED BY <1>1, <1>3, <2>1 DEF Lane
<1> QED BY <1>2, <1>3 DEF Lane

\* The xors of the helper come in another order than those of Expand2 and
\* chain the words alike.
LEMMA MixWords ==
  ASSUME NEW x \in Reg, NEW t \in Reg,
         \A i \in Lane : i >= 4 => t[i] = t[i - 4]
  PROVE  /\ mix(x, t) \in Reg
         /\ \A i \in Lane :
              mix(x, t)[i] = x[i] (+) (IF i < 4 THEN t[i] ELSE mix(x, t)[i - 4])
<1> DEFINE s1 == VPSHUFB(x, shuffle_mask)
           s2 == VPSHUFB(s1, shuffle_mask)
           s3 == VPSHUFB(s2, shuffle_mask)
           m == mix(x, t)
<1>1. m = VPXOR(VPXOR(VPXOR(VPXOR(x, s1), s2), s3), t)
  BY DEF mix
<1>2. /\ \A i \in Lane : s1[i] = IF i < 4 THEN Zero ELSE x[i - 4]
      /\ \A i \in Lane : s2[i] = IF i < 4 THEN Zero ELSE s1[i - 4]
      /\ \A i \in Lane : s3[i] = IF i < 4 THEN Zero ELSE s2[i - 4]
  BY ShuffleShifts
<1> HIDE DEF s1, s2, s3, m
<1>3. /\ m = [i \in Lane |-> m[i]]
      /\ \A i \in Lane :
           m[i] = (((x[i] (+) s1[i]) (+) s2[i]) (+) s3[i]) (+) t[i]
  BY <1>1 DEF VPXOR
<1>4. \A i \in Lane : m[i] = t[i] (+) (s3[i] (+) (s2[i] (+) (s1[i] (+) x[i])))
  BY <1>3 DEF (+)
<1>5. Chained(x, t, s1, s2, s3, m)
  BY <1>2, <1>3, <1>4 DEF Chained
<1> QED BY <1>5, ChainedWords DEF m

\* The last word of AESKEYGENASSIST, spread over the register, is the rotated
\* feedback of the first half of a round.
LEMMA RotSubFeedback ==
  ASSUME NEW x \in Reg, NEW rc \in Byte
  PROVE  LET T0 == VPSHUFD(VAESKEYGENASSIST(x, rc), 3)
         IN  /\ T0 \in Reg
             /\ \A i \in Lane : T0[i] =
                  Sbox[x[12 + ((i + 1) % 4)]] (+) (IF i % 4 = 0 THEN rc ELSE Zero)
<1> DEFINE T0 == VPSHUFD(VAESKEYGENASSIST(x, rc), 3)
<1>1. ASSUME NEW i \in Lane
      PROVE  T0[i] =
        Sbox[x[12 + ((i + 1) % 4)]] (+) (IF i % 4 = 0 THEN rc ELSE Zero)
  <2> DEFINE l == 4 * 3 + (i % 4)
  <2>1. /\ l \in Lane /\ ~(l < 8) /\ (l \div 4) % 2 # 0
        /\ (l + 1) % 4 = (i + 1) % 4 /\ l % 4 = i % 4
    BY DEF Lane
  <2>2. T0[i] = VAESKEYGENASSIST(x, rc)[l]
    BY DEF VPSHUFD
  <2> HIDE DEF l
  <2> QED BY <2>1, <2>2 DEF VAESKEYGENASSIST
<1>2. \A i \in Lane : 12 + ((i + 1) % 4) \in Lane
  BY DEF Lane
<1>3. T0 = [i \in Lane |-> T0[i]]
  BY DEF VPSHUFD
<1>4. \A i \in Lane : T0[i] \in Byte
  <2>1. \A i \in Lane : Sbox[x[12 + ((i + 1) % 4)]] \in Byte
    BY <1>2, Registers, SboxAssumption
  <2> HIDE DEF T0
  <2> QED BY <2>1, <1>1, XorByte
<1> HIDE DEF T0
<1>5. T0 \in Reg
  BY <1>3, <1>4 DEF Reg
<1> QED BY <1>1, <1>5 DEF T0

\* The third word is the feedback of the second half.
LEMMA SubFeedback ==
  ASSUME NEW x \in Reg
  PROVE  LET T0 == VPSHUFD(VAESKEYGENASSIST(x, Zero), 2)
         IN  /\ T0 \in Reg
             /\ \A i \in Lane : T0[i] = Sbox[x[12 + (i % 4)]]
<1> DEFINE T0 == VPSHUFD(VAESKEYGENASSIST(x, Zero), 2)
<1>1. ASSUME NEW i \in Lane PROVE T0[i] = Sbox[x[12 + (i % 4)]]
  <2> DEFINE l == 4 * 2 + (i % 4)
  <2>1. l \in Lane /\ ~(l < 8) /\ (l \div 4) % 2 = 0 /\ l % 4 = i % 4
    BY DEF Lane
  <2>2. T0[i] = VAESKEYGENASSIST(x, Zero)[l]
    BY DEF VPSHUFD
  <2> HIDE DEF l
  <2> QED BY <2>1, <2>2 DEF VAESKEYGENASSIST
<1>2. \A i \in Lane : Sbox[x[12 + (i % 4)]] \in Byte
  <2>1. \A i \in Lane : 12 + (i % 4) \in Lane
    BY DEF Lane
  <2> QED BY <2>1, Registers, SboxAssumption
<1>3. T0 = [i \in Lane |-> T0[i]]
  BY DEF VPSHUFD
<1> HIDE DEF T0
<1>4. T0 \in Reg
  BY <1>1, <1>2, <1>3 DEF Reg
<1> QED BY <1>1, <1>4 DEF T0

-----------------------------------------------------------------------------
(* K32ks: the inductive invariant                                          *)

\* The pointer is the end of the schedule so far, and the registers hold the
\* words last written: the next four words are computed from the registers
\* alone.
K32ksInStep ==
  /\ pc = "entry" => KS = 0
  /\ pc \in {"do", "half"} => c \in 1..14 /\ KS = 32 * c
  /\ pc \in {"ret", "returned"} => c = 15 /\ KS = 480
  /\ pc = "do" => \A i \in Lane : /\ KEY1[i] = ks[(KS - 32) + i]
                                /\ KEY2[i] = ks[(KS - 16) + i]
  /\ pc = "half" => \A i \in Lane : /\ KEY1[i] = ks[KS + i]
                                  /\ KEY2[i] = ks[(KS - 16) + i]

K32ksIInv == TypeOK /\ K32ksInStep /\ ScheduleCorrect

LEMMA K32ksInitInv == Init => K32ksIInv
<1> SUFFICES ASSUME Init PROVE K32ksIInv
  OBVIOUS
<1>1. TypeOK
  BY Registers, XorByte DEF Init, TypeOK
<1>2. K32ksInStep
  BY DEF Init, K32ksInStep
<1>3. ScheduleCorrect
  BY DEF Init, ScheduleCorrect, Written, Schedule!IsSchedule
<1> QED BY <1>1, <1>2, <1>3 DEF K32ksIInv

LEMMA loadk32Step == K32ksIInv /\ loadk32 => K32ksIInv' /\ Frame
<1> SUFFICES ASSUME K32ksIInv, loadk32 PROVE K32ksIInv' /\ Frame
  OBVIOUS
<1>1. /\ ks \in [Addr -> Byte] /\ key \in [0..31 -> Byte]
      /\ pc = "entry" /\ KS = 0
  BY KeysAssumption DEF K32ksIInv, TypeOK, K32ksInStep, loadk32
<1>2. /\ KEY1' \in Reg /\ KEY2' \in Reg
      /\ ks' \in [Addr -> Byte]
      /\ \A i \in Lane : KEY1'[i] = ks'[i] /\ KEY2'[i] = ks'[16 + i]
      /\ \A a \in Addr : a \notin 0..31 => ks'[a] = ks[a]
      /\ IsSchedule(key, ks', 8)
  <2>1. /\ KEY1' = Load(key, 0) /\ KEY2' = Load(key, 16)
        /\ ks' = Store(Store(ks, 0, KEY1'), 16, KEY2')
    BY DEF loadk32
  <2> QED BY <2>1, <1>1, KeyStored
<1>3. Written = 0 /\ Written' = 8
  BY <1>1 DEF loadk32, Written
<1>4. Frame
  BY <1>2, <1>3 DEF Frame
<1>5. ScheduleCorrect'
  BY <1>2, <1>3, SameSchedule DEF ScheduleCorrect, loadk32
<1>6. TypeOK'
  BY <1>1, <1>2 DEF TypeOK, K32ksIInv, loadk32
<1>7. K32ksInStep'
  BY <1>1, <1>2 DEF K32ksInStep, loadk32, Lane
<1> QED BY <1>4, <1>5, <1>6, <1>7 DEF K32ksIInv

LEMMA expand_key1Step == K32ksIInv /\ expand_key1 => K32ksIInv' /\ Frame
<1> SUFFICES ASSUME K32ksIInv, expand_key1 PROVE K32ksIInv' /\ Frame
  OBVIOUS
<1> DEFINE m == 8 * c
           rc == ExpandConst[c]
           T0 == VPSHUFD(VAESKEYGENASSIST(KEY2, rc), 3)
<1>1. /\ ks \in [Addr -> Byte] /\ KEY1 \in Reg /\ KEY2 \in Reg
      /\ pc = "do" /\ c \in 1..14 /\ KS = 32 * c
      /\ \A i \in Lane : /\ KEY1[i] = ks[(KS - 32) + i]
                        /\ KEY2[i] = ks[(KS - 16) + i]
  BY DEF K32ksIInv, TypeOK, K32ksInStep, expand_key1
<1>2. /\ m \in 8..116 /\ m % 8 = 0 /\ m % 4 = 0 /\ m \div 8 = c
      /\ KS - 32 = 4 * (m - 8) /\ KS = 4 * m
      /\ Written = m /\ Written' = m + 4
  BY <1>1 DEF expand_key1, Written
<1>3. rc = Rcon[c] /\ rc \in Byte
  BY <1>1, Registers, ExpandConstAssumption
<1>4. /\ T0 \in Reg
      /\ \A i \in Lane : T0[i] =
           Sbox[KEY2[12 + ((i + 1) % 4)]] (+) (IF i % 4 = 0 THEN rc ELSE Zero)
  BY <1>1, <1>3, RotSubFeedback
<1>5. \A i \in Lane : i >= 4 => T0[i] = T0[i - 4]
  <2>1. \A i \in Lane : i >= 4 => /\ i - 4 \in Lane
                                /\ (i - 4) % 4 = i % 4
                                /\ ((i - 4) + 1) % 4 = (i + 1) % 4
    BY DEF Lane
  <2> QED BY <2>1, <1>4
<1>6. /\ KEY1' \in Reg
      /\ \A i \in Lane :
           KEY1'[i] = KEY1[i] (+) (IF i < 4 THEN T0[i] ELSE KEY1'[i - 4])
  BY <1>1, <1>4, <1>5, MixWords DEF expand_key1
<1>7. ks' = Store(ks, 4 * m, KEY1')
  BY <1>2 DEF expand_key1
<1> HIDE DEF m, rc, T0
<1>8. ASSUME NEW b \in 0..3 PROVE T0[b] = Feedback(ks, m, b)
  <2>1. /\ b \in Lane /\ b % 4 = b /\ 12 + ((b + 1) % 4) \in Lane
        /\ (KS - 16) + (12 + ((b + 1) % 4)) = 4 * (m - 1) + ((b + 1) % 4)
    BY <1>2 DEF Lane
  <2>2. KEY2[12 + ((b + 1) % 4)] = ks[4 * (m - 1) + ((b + 1) % 4)]
    BY <2>1, <1>1
  <2> QED BY <2>1, <2>2, <1>2, <1>3, <1>4, SameXor DEF Feedback, W!Feedback
<1>9. /\ ks' \in [Addr -> Byte]
      /\ \A i \in Lane : ks'[4 * m + i] = KEY1'[i]
      /\ \A a \in Addr : a \notin (4 * m)..(4 * m + 15) => ks'[a] = ks[a]
      /\ IsSchedule(key, ks', m + 4)
  <2>1. IsSchedule(key, ks, m)
    BY <1>2, SameSchedule DEF K32ksIInv, ScheduleCorrect
  <2>2. \A i \in Lane : KEY1[i] = ks[4 * (m - 8) + i]
    BY <1>1, <1>2
  <2>3. m \in Nat /\ m >= 8 /\ m + 4 <= NumWords /\ m % 4 = 0
    BY <1>2, LengthAssumption
  <2>4. HalfRound(key, ks, m, KEY1, T0, KEY1')
    BY <2>1, <2>2, <2>3, <1>1, <1>2, <1>6, <1>8 DEF HalfRound
  <2> QED BY <2>4, <1>7, FourWords
<1>10. ScheduleCorrect'
  BY <1>2, <1>9, SameSchedule DEF ScheduleCorrect, expand_key1
<1>11. TypeOK'
  BY <1>1, <1>6, <1>9 DEF TypeOK, K32ksIInv, expand_key1
<1>12. K32ksInStep'
  <2>1. \A i \in Lane : /\ KEY1'[i] = ks'[KS + i]
                        /\ KEY2[i] = ks'[(KS - 16) + i]
    <3> SUFFICES ASSUME NEW i \in Lane
                 PROVE  /\ KEY1'[i] = ks'[KS + i]
                        /\ KEY2[i] = ks'[(KS - 16) + i]
      OBVIOUS
    <3>1. /\ KS + i = 4 * m + i
          /\ (KS - 16) + i \in 0..479
          /\ (KS - 16) + i \notin (4 * m)..(4 * m + 15)
      BY <1>2 DEF Lane
    <3> QED BY <3>1, <1>1, <1>9, AddrAssumption, LengthAssumption
  <2> QED BY <2>1, <1>1 DEF K32ksInStep, expand_key1
<1>13. Frame
  BY <1>2, <1>9 DEF Frame
<1> QED BY <1>10, <1>11, <1>12, <1>13 DEF K32ksIInv

LEMMA expand_key2Step == K32ksIInv /\ expand_key2 => K32ksIInv' /\ Frame
<1> SUFFICES ASSUME K32ksIInv, expand_key2 PROVE K32ksIInv' /\ Frame
  OBVIOUS
<1> DEFINE m == 8 * c + 4
           T0 == VPSHUFD(VAESKEYGENASSIST(KEY1, Zero), 2)
<1>1. /\ ks \in [Addr -> Byte] /\ KEY1 \in Reg /\ KEY2 \in Reg
      /\ pc = "half" /\ c \in 1..14 /\ KS = 32 * c
      /\ \A i \in Lane : KEY1[i] = ks[KS + i] /\ KEY2[i] = ks[(KS - 16) + i]
  BY DEF K32ksIInv, TypeOK, K32ksInStep, expand_key2
<1>2. /\ m \in 8..116 /\ m % 8 = 4 /\ m % 4 = 0
      /\ KS = 4 * (m - 4) /\ KS - 16 = 4 * (m - 8) /\ KS + 16 = 4 * m
      /\ Written = m /\ Written' = m + 4
  BY <1>1 DEF expand_key2, Written
<1>3. T0 \in Reg /\ \A i \in Lane : T0[i] = Sbox[KEY1[12 + (i % 4)]]
  BY <1>1, SubFeedback
<1>4. \A i \in Lane : i >= 4 => T0[i] = T0[i - 4]
  <2>1. \A i \in Lane : i >= 4 => i - 4 \in Lane /\ (i - 4) % 4 = i % 4
    BY DEF Lane
  <2> QED BY <2>1, <1>3
<1>5. /\ KEY2' \in Reg
      /\ \A i \in Lane :
           KEY2'[i] = KEY2[i] (+) (IF i < 4 THEN T0[i] ELSE KEY2'[i - 4])
  BY <1>1, <1>3, <1>4, MixWords DEF expand_key2
<1>6. ks' = Store(ks, 4 * m, KEY2')
  BY <1>2 DEF expand_key2
<1> HIDE DEF m, T0
<1>7. ASSUME NEW b \in 0..3 PROVE T0[b] = Feedback(ks, m, b)
  <2>1. /\ b \in Lane /\ b % 4 = b /\ 12 + b \in Lane
        /\ KS + (12 + b) = 4 * (m - 1) + b
    BY <1>2 DEF Lane
  <2>2. KEY1[12 + b] = ks[4 * (m - 1) + b]
    BY <2>1, <1>1
  <2> QED BY <2>1, <2>2, <1>2, <1>3 DEF Feedback, W!Feedback
<1>8. /\ ks' \in [Addr -> Byte]
      /\ \A i \in Lane : ks'[4 * m + i] = KEY2'[i]
      /\ \A a \in Addr : a \notin (4 * m)..(4 * m + 15) => ks'[a] = ks[a]
      /\ IsSchedule(key, ks', m + 4)
  <2>1. IsSchedule(key, ks, m)
    BY <1>2, SameSchedule DEF K32ksIInv, ScheduleCorrect
  <2>2. \A i \in Lane : KEY2[i] = ks[4 * (m - 8) + i]
    BY <1>1, <1>2
  <2>3. m \in Nat /\ m >= 8 /\ m + 4 <= NumWords /\ m % 4 = 0
    BY <1>2, LengthAssumption
  <2>4. HalfRound(key, ks, m, KEY2, T0, KEY2')
    BY <2>1, <2>2, <2>3, <1>1, <1>2, <1>5, <1>7 DEF HalfRound
  <2> QED BY <2>4, <1>6, FourWords
<1>9. ScheduleCorrect'
  BY <1>2, <1>8, SameSchedule DEF ScheduleCorrect, expand_key2
<1>10. TypeOK'
  BY <1>1, <1>5, <1>8 DEF TypeOK, K32ksIInv, expand_key2
<1>11. K32ksInStep'
  <2>1. \A i \in Lane : /\ KEY1[i] = ks'[KS + i]
                        /\ KEY2'[i] = ks'[KS + 16 + i]
    <3> SUFFICES ASSUME NEW i \in Lane
                 PROVE  /\ KEY1[i] = ks'[KS + i]
                        /\ KEY2'[i] = ks'[KS + 16 + i]
      OBVIOUS
    <3>1. /\ KS + 16 + i = 4 * m + i
          /\ KS + i \in 0..479
          /\ KS + i \notin (4 * m)..(4 * m + 15)
      BY <1>2 DEF Lane
    <3> QED BY <3>1, <1>1, <1>8, AddrAssumption, LengthAssumption
  <2> QED BY <2>1, <1>1 DEF K32ksInStep, expand_key2
<1>12. Frame
  BY <1>2, <1>8 DEF Frame
<1> QED BY <1>9, <1>10, <1>11, <1>12 DEF K32ksIInv

LEMMA returnStep == K32ksIInv /\ return => K32ksIInv' /\ Written = 120 /\ Written' = 120
<1> SUFFICES ASSUME K32ksIInv, return
             PROVE  K32ksIInv' /\ Written = 120 /\ Written' = 120
  OBVIOUS
<1>1. Written = 120 /\ Written' = 120
  BY DEF return, Written
<1>2. ScheduleCorrect'
  BY <1>1 DEF K32ksIInv, ScheduleCorrect, Schedule!IsSchedule,
     Schedule!ScheduleByte, Schedule!Feedback, return
<1>3. TypeOK' /\ K32ksInStep'
  BY Registers DEF K32ksIInv, TypeOK, K32ksInStep, return
<1> QED BY <1>1, <1>2, <1>3 DEF K32ksIInv

LEMMA callStep == K32ksIInv /\ call => K32ksIInv' /\ Written = 120 /\ Written' = 0
<1> SUFFICES ASSUME K32ksIInv, call
             PROVE  K32ksIInv' /\ Written = 120 /\ Written' = 0
  OBVIOUS
<1>1. Written = 120 /\ Written' = 0
  BY DEF call, Written
<1>2. ScheduleCorrect'
  BY <1>1 DEF ScheduleCorrect, Schedule!IsSchedule
<1>3. TypeOK' /\ K32ksInStep'
  BY DEF K32ksIInv, TypeOK, K32ksInStep, call
<1> QED BY <1>1, <1>2, <1>3 DEF K32ksIInv

LEMMA K32ksStutterStep == K32ksIInv /\ UNCHANGED vars => K32ksIInv' /\ Written' = Written
<1> SUFFICES ASSUME K32ksIInv, UNCHANGED vars PROVE K32ksIInv' /\ Written' = Written
  OBVIOUS
<1>1. Written' = Written
  BY DEF vars, Written
<1>2. ScheduleCorrect'
  BY <1>1 DEF K32ksIInv, ScheduleCorrect, Schedule!IsSchedule,
     Schedule!ScheduleByte, Schedule!Feedback, vars
<1>3. TypeOK' /\ K32ksInStep'
  BY DEF K32ksIInv, TypeOK, K32ksInStep, vars
<1> QED BY <1>1, <1>2, <1>3 DEF K32ksIInv

-----------------------------------------------------------------------------
(* K32ks: theorems                                                         *)

THEOREM K32ksInvariance == K32ksSpec => []K32ksIInv
<1>1. Init => K32ksIInv
  BY K32ksInitInv
<1>2. K32ksIInv /\ [K32ksNext]_vars => K32ksIInv'
  BY loadk32Step, expand_key1Step, expand_key2Step, returnStep, callStep,
     K32ksStutterStep DEF K32ksNext
<1> QED BY <1>1, <1>2, PTL DEF K32ksSpec

\* Registers, pointer and memory keep their types: rdi of
\* Rijndael_k32b32_expandkey never leaves the 480 bytes of the schedule.
THEOREM K32ksTypeCorrect == K32ksSpec => []TypeOK
<1>1. K32ksIInv => TypeOK
  BY DEF K32ksIInv
<1> QED BY <1>1, K32ksInvariance, PTL

\* The routine implements the abstract schedule: whatever the S-box and the
\* key, each call writes the reference schedule in order and in place, and no
\* other byte of the caller's memory changes.
THEOREM K32ksImplementation == K32ksSpec => ImplementsSchedule
<1>1. Init => Schedule!Init
  <2> SUFFICES ASSUME Init PROVE Schedule!Init
    OBVIOUS
  <2>1. Written = 0
    BY DEF Init, Written
  <2> QED BY <2>1, K32ksInitInv DEF Init, K32ksIInv, TypeOK, Schedule!Init,
            Schedule!Byte, Byte
<1>2. K32ksIInv /\ K32ksIInv' /\ [K32ksNext]_vars => [Schedule!Next]_(Schedule!vars)
  <2> SUFFICES ASSUME K32ksIInv, K32ksIInv', [K32ksNext]_vars
               PROVE  [Schedule!Next]_(Schedule!vars)
    OBVIOUS
  <2>1. ks' \in [Addr -> Schedule!Byte] /\ Schedule!IsSchedule(key', ks', Written')
    BY DEF K32ksIInv, TypeOK, ScheduleCorrect, Schedule!Byte, Byte
  <2>2. CASE loadk32 \/ expand_key1 \/ expand_key2
    <3>1. key' = key
      BY <2>2 DEF loadk32, expand_key1, expand_key2
    <3>2. Written' \in (Written + 1)..NumWords
      BY <2>2, LengthAssumption DEF K32ksIInv, TypeOK, K32ksInStep, loadk32, expand_key1, expand_key2,
         Written
    <3>3. Frame
      BY <2>2, loadk32Step, expand_key1Step, expand_key2Step
    <3>4. Schedule!Extend
      BY <2>1, <3>1, <3>2, <3>3 DEF Schedule!Extend, Frame
    <3> QED BY <3>4 DEF Schedule!Next
  <2>3. CASE return
    BY <2>3, returnStep DEF return, Schedule!vars
  <2>4. CASE call
    <3>1. key' \in Keys
      BY DEF K32ksIInv, TypeOK
    <3> QED BY <2>1, <2>4, <3>1, callStep, LengthAssumption DEF call, Schedule!Next, Schedule!Again
  <2>5. CASE UNCHANGED vars
    BY <2>5, K32ksStutterStep DEF vars, Schedule!vars
  <2> QED BY <2>2, <2>3, <2>4, <2>5 DEF K32ksNext
<1> QED BY <1>1, <1>2, K32ksInvariance, PTL DEF K32ksSpec, ImplementsSchedule, Schedule!Spec
=============================================================================
