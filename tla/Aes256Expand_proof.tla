------------------------- MODULE Aes256Expand_proof -------------------------
(***************************************************************************)
(* Proofs about Aes256Expand: for every S-box, key and contents of the     *)
(* buffer the routine writes the AES-256 schedule, whenever the powers of  *)
(* two are the round constants and however the key overlaps the buffer,    *)
(* and it implements the abstract schedule.  And about the program around  *)
(* it, ExpansionTest: its test passes and its two chains of dependent      *)
(* calls agree, for loops of any length.                                   *)
(***************************************************************************)
EXTENDS ExpansionTest, Expansion_proof

-----------------------------------------------------------------------------
(* The instructions                                                        *)

\* The instructions are those of the shared lemmas.
LEMMA SameInstructions ==
  \A r, t : /\ linearmix(r, t) = Mixed(r, t)
            /\ RotSub(r, t) = Unrotate(r, t)
            /\ SubLast(r) = SubShuffled(r)
BY DEF linearmix, Mixed, RotSub, Unrotate, SubLast, SubShuffled,
   SHUF_L, ShufL, SHUF_1, Shuf1, SHUF_2, Shuf2

\* A round constant on byte 9 and nowhere else.
OnByte9(v, rc) == ConstantOn(v, {9}, rc)

\* The register starts with the first constant, and a shift makes the next.
LEMMA FirstConstant == OnByte9(_RC, Rcon[1])
<1>2. Rcon[1] = Hex(1)
  BY ShiftAssumption DEF PowersOfTwo
<1>3. _RC \in Reg
  BY Registers, XorByte DEF _RC, Reg
<1> QED BY <1>2, <1>3 DEF OnByte9, ConstantOn, _RC

-----------------------------------------------------------------------------
(* The inductive invariant                                                 *)

\* The schedule of the abstract specification is the one of the lemmas.
LEMMA SameSchedule ==
  \A k, s, m : Schedule!IsSchedule(k, s, m) <=> IsSchedule(k, s, m)
BY DEF Schedule!IsSchedule, IsSchedule, W!IsSchedule,
   Schedule!ScheduleByte, W!ScheduleByte, Schedule!Feedback, W!Feedback,
   Schedule!KeyWords, W!KeyWords, Schedule!(+), W!(+), Schedule!Zero, W!Zero

\* The keys that callers have in their memory.
LEMMA KeysInMemory ==
  /\ \A mem \in [Addr -> Byte], p \in KeyAddr : KeyIn(mem, p) \in Key
  /\ 0 \in KeyAddr
<1>1. 0..31 \subseteq Addr
  BY AddrAssumption
<1> QED BY <1>1 DEF KeyIn, Key, KeyAddr

\* Until it is loaded the key is at KEY.  The pointer and the round constant
\* count the calls of .L_DR, and the
\* registers hold the words last written: the next four words are computed
\* from these alone.
InStep == /\ pc \in {"entry", "returned", "idle"} => KS = 0
          /\ pc = "entry" => key = KeyIn(ks, KEY)
          /\ pc = "dr" => /\ KS = 32 * calls + 32
                          /\ OnByte9(RC, Rcon[calls + 1])
                          /\ \A i \in Lane : /\ KEY1[i] = ks[KS - 32 + i]
                                             /\ KEY2[i] = ks[KS - 16 + i]
          /\ pc = "half" => /\ calls <= 5 /\ KS = 32 * calls + 32
                            /\ OnByte9(RC, Rcon[calls + 2])
                            /\ \A i \in Lane : /\ KEY1[i] = ks[KS + i]
                                               /\ KEY2[i] = ks[KS - 16 + i]

IInv == TypeOK /\ InStep /\ ScheduleCorrect

\* What a step of the routine may change of the memory.
Frame == \A a \in Addr : a \notin (4 * Written)..(4 * Written' - 1)
                        => ks'[a] = ks[a]

LEMMA InitInv == Init => IInv
<1> SUFFICES ASSUME NEW mem \in [Addr -> Byte], NEW p \in KeyAddr, Start(mem, p)
             PROVE  IInv
  BY DEF Init
<1>1. TypeOK
  BY Registers, KeysInMemory DEF Start, TypeOK
<1>2. InStep
  BY DEF Start, InStep
<1>3. ScheduleCorrect
  BY DEF Start, ScheduleCorrect, Written, Schedule!IsSchedule
<1> QED BY <1>1, <1>2, <1>3 DEF IInv

LEMMA LoadKeyStep == IInv /\ LoadKey => IInv' /\ Frame
<1> SUFFICES ASSUME IInv, LoadKey PROVE IInv' /\ Frame
  OBVIOUS
<1>1. /\ ks \in [Addr -> Byte] /\ key \in [0..31 -> Byte] /\ pc = "entry"
  BY DEF IInv, TypeOK, LoadKey, Key
<1>2. /\ KEY1' \in Reg /\ KEY2' \in Reg
      /\ ks' \in [Addr -> Byte]
      /\ \A i \in Lane : KEY1'[i] = ks'[i] /\ KEY2'[i] = ks'[16 + i]
      /\ \A a \in Addr : a \notin 0..31 => ks'[a] = ks[a]
      /\ IsSchedule(key, ks', 8)
  <2>1. /\ KEY1' = Load(key, 0) /\ KEY2' = Load(key, 16)
        /\ ks' = Store(Store(ks, 0, KEY1'), 16, KEY2')
    <3>1. key = KeyIn(ks, KEY) /\ KEY \in Int
      BY <1>1, AddrAssumption DEF IInv, InStep, TypeOK, KeyAddr
    <3>2. \A i \in Lane : /\ i \in 0..31 /\ KEY + (0 + i) = KEY + i
                          /\ 16 + i \in 0..31 /\ KEY + (16 + i) = (KEY + 16) + i
      BY <3>1 DEF Lane
    <3>3. Load(ks, KEY) = Load(key, 0) /\ Load(ks, KEY + 16) = Load(key, 16)
      BY <3>1, <3>2 DEF Load, KeyIn
    <3> QED BY <3>3 DEF LoadKey
  <2> QED BY <2>1, <1>1, KeyStored
<1>3. Written = 0 /\ Written' = 8
  BY <1>1 DEF LoadKey, Written
<1>4. Frame
  BY <1>2, <1>3 DEF Frame
<1>5. ScheduleCorrect'
  BY <1>2, <1>3, SameSchedule DEF ScheduleCorrect, LoadKey
<1>6. OnByte9(RC', Rcon[calls' + 1])
  BY FirstConstant DEF LoadKey
<1>7. TypeOK'
  BY <1>1, <1>2, <1>6 DEF TypeOK, IInv, LoadKey, OnByte9, ConstantOn
<1>8. InStep'
  BY <1>1, <1>2, <1>6 DEF InStep, LoadKey, Lane
<1> QED BY <1>4, <1>5, <1>7, <1>8 DEF IInv

\* The first half of a round, in .L_DR and at the end.
LEMMA FirstHalf ==
  ASSUME IInv, pc = "dr", NEW k1, k1 = linearmix(KEY1, RotSub(KEY2, RC)),
         NEW s, s = Store(ks, KS, k1)
  PROVE  /\ k1 \in Reg /\ s \in [Addr -> Byte]
         /\ calls \in 0..6 /\ KS = 32 * calls + 32
         /\ \A i \in Lane : s[KS + i] = k1[i]
         /\ \A a \in Addr : a \notin KS..(KS + 15) => s[a] = ks[a]
         /\ IsSchedule(key, s, 8 * calls + 12)
<1> DEFINE m == 8 * calls + 8
           rc == Rcon[calls + 1]
           T0 == RotSub(KEY2, RC)
<1>1. /\ ks \in [Addr -> Byte] /\ KEY1 \in Reg /\ KEY2 \in Reg
      /\ calls \in 0..6 /\ KS = 32 * calls + 32
      /\ OnByte9(RC, rc)
      /\ \A i \in Lane : KEY1[i] = ks[KS - 32 + i] /\ KEY2[i] = ks[KS - 16 + i]
  BY DEF IInv, TypeOK, InStep
<1>2. /\ m \in Nat /\ m >= 8 /\ m + 4 <= NumWords /\ m % 4 = 0
      /\ m % 8 = 0 /\ m \div 8 = calls + 1
      /\ KS = 4 * m /\ KS - 32 = 4 * (m - 8) /\ m + 4 = 8 * calls + 12
  BY <1>1, LengthAssumption
<1>3. rc \in Byte
  BY <1>1, Registers
<1>4. /\ T0 \in Reg
      /\ \A i \in Lane : T0[i] =
           Sbox[KEY2[12 + ((i + 1) % 4)]] (+) (IF i % 4 = 0 THEN rc ELSE Zero)
  BY <1>1, <1>3, UnrotateWords, SameInstructions DEF OnByte9, Rotated
<1>5. \A i \in Lane : i >= 4 => T0[i] = T0[i - 4]
  <2>1. \A i \in Lane : i >= 4 => /\ i - 4 \in Lane
                                /\ (i - 4) % 4 = i % 4
                                /\ ((i - 4) + 1) % 4 = (i + 1) % 4
    BY DEF Lane
  <2> QED BY <2>1, <1>4
<1>6. /\ k1 \in Reg
      /\ \A i \in Lane : k1[i] = KEY1[i] (+) (IF i < 4 THEN T0[i] ELSE k1[i - 4])
  BY <1>1, <1>4, <1>5, MixedWords, SameInstructions DEF Grows
<1>7. s = Store(ks, 4 * m, k1)
  BY <1>2
<1> HIDE DEF m, rc, T0
<1>8. ASSUME NEW b \in 0..3 PROVE T0[b] = Feedback(ks, m, b)
  <2>1. /\ b \in Lane /\ b % 4 = b /\ 12 + ((b + 1) % 4) \in Lane
        /\ KS - 16 + (12 + ((b + 1) % 4)) = 4 * (m - 1) + ((b + 1) % 4)
    BY <1>1, <1>2 DEF Lane
  <2>2. KEY2[12 + ((b + 1) % 4)] = ks[4 * (m - 1) + ((b + 1) % 4)]
    BY <2>1, <1>1
  <2>3. rc = Rcon[m \div 8]
    BY <1>2 DEF rc
  <2> QED BY <2>1, <2>2, <2>3, <1>2, <1>4, SameXor DEF Feedback, W!Feedback
<1>9. /\ s \in [Addr -> Byte]
      /\ \A i \in Lane : s[4 * m + i] = k1[i]
      /\ \A a \in Addr : a \notin (4 * m)..(4 * m + 15) => s[a] = ks[a]
      /\ IsSchedule(key, s, m + 4)
  <2>1. IsSchedule(key, ks, m)
    BY SameSchedule DEF IInv, ScheduleCorrect, Written, m
  <2>2. \A i \in Lane : KEY1[i] = ks[4 * (m - 8) + i]
    BY <1>1, <1>2
  <2>3. HalfRound(key, ks, m, KEY1, T0, k1)
    BY <2>1, <2>2, <1>1, <1>2, <1>6, <1>8 DEF HalfRound
  <2> QED BY <2>3, <1>7, FourWords
<1> QED BY <1>1, <1>2, <1>6, <1>9

LEMMA DRKey1Step == IInv /\ DRKey1 => IInv' /\ Frame
<1> SUFFICES ASSUME IInv, DRKey1 PROVE IInv' /\ Frame
  OBVIOUS
<1>1. /\ KEY1' \in Reg /\ ks' \in [Addr -> Byte]
      /\ calls \in 0..6 /\ KS = 32 * calls + 32
      /\ \A i \in Lane : ks'[KS + i] = KEY1'[i]
      /\ \A a \in Addr : a \notin KS..(KS + 15) => ks'[a] = ks[a]
      /\ IsSchedule(key, ks', 8 * calls + 12)
  BY FirstHalf DEF DRKey1
<1>2. /\ pc = "dr" /\ calls < 6 /\ OnByte9(RC, Rcon[calls + 1])
      /\ \A i \in Lane : KEY2[i] = ks[KS - 16 + i]
  BY DEF IInv, InStep, DRKey1
<1>3. Written = 8 * calls + 8 /\ Written' = 8 * calls + 12
  BY <1>2 DEF DRKey1, Written
<1>4. OnByte9(RC', Rcon[calls + 2])
  <2>1. calls + 1 \in 1..6 /\ (calls + 1) + 1 = calls + 2
    BY <1>1, <1>2
  <2>2. OnByte9(VPSLLD1(RC), Rcon[(calls + 1) + 1])
    BY <2>1, <1>2, NextConstant, ShiftAssumption DEF OnByte9
  <2> QED BY <2>1, <2>2 DEF DRKey1
<1>5. Frame
  BY <1>1, <1>3 DEF Frame
<1>6. ScheduleCorrect'
  BY <1>1, <1>3, SameSchedule DEF ScheduleCorrect, DRKey1
<1>7. TypeOK'
  BY <1>1, <1>4 DEF TypeOK, IInv, DRKey1, OnByte9, ConstantOn
<1>8. InStep'
  <2>1. \A i \in Lane : KEY2[i] = ks'[KS - 16 + i]
    <3> SUFFICES ASSUME NEW i \in Lane PROVE KEY2[i] = ks'[KS - 16 + i]
      OBVIOUS
    <3>1. KS - 16 + i \in 0..239 /\ KS - 16 + i \notin KS..(KS + 15)
      BY <1>1 DEF Lane
    <3> QED BY <3>1, <1>1, <1>2, AddrAssumption, LengthAssumption
  <2>2. /\ pc' = "half" /\ calls' = calls /\ KS' = KS /\ KEY2' = KEY2
        /\ calls <= 5
    BY <1>1, <1>2 DEF DRKey1
  <2> QED BY <2>1, <2>2, <1>1, <1>4 DEF InStep
<1> QED BY <1>5, <1>6, <1>7, <1>8 DEF IInv

LEMMA DRKey2Step == IInv /\ DRKey2 => IInv' /\ Frame
<1> SUFFICES ASSUME IInv, DRKey2 PROVE IInv' /\ Frame
  OBVIOUS
<1> DEFINE m == 8 * calls + 12
           T0 == SubLast(KEY1)
<1>1. /\ ks \in [Addr -> Byte] /\ KEY1 \in Reg /\ KEY2 \in Reg
      /\ pc = "half" /\ calls \in 0..5 /\ KS = 32 * calls + 32
      /\ RC \in Reg /\ OnByte9(RC, Rcon[calls + 2])
      /\ \A i \in Lane : KEY1[i] = ks[KS + i] /\ KEY2[i] = ks[KS - 16 + i]
  BY DEF IInv, TypeOK, InStep, DRKey2
<1>2. /\ m \in Nat /\ m >= 8 /\ m + 4 <= NumWords /\ m % 4 = 0 /\ m % 8 = 4
      /\ KS - 16 = 4 * (m - 8) /\ KS + 16 = 4 * m
      /\ Written = m /\ Written' = m + 4
  <2>1. Written = m /\ Written' = m + 4
    BY <1>1 DEF DRKey2, Written
  <2> QED BY <2>1, <1>1, LengthAssumption
<1>3. T0 \in Reg /\ \A i \in Lane : T0[i] = Sbox[KEY1[12 + (i % 4)]]
  BY <1>1, SubShuffledWords, SameInstructions DEF Repeated
<1>4. \A i \in Lane : i >= 4 => T0[i] = T0[i - 4]
  <2>1. \A i \in Lane : i >= 4 => i - 4 \in Lane /\ (i - 4) % 4 = i % 4
    BY DEF Lane
  <2> QED BY <2>1, <1>3
<1>5. /\ KEY2' \in Reg
      /\ \A i \in Lane :
           KEY2'[i] = KEY2[i] (+) (IF i < 4 THEN T0[i] ELSE KEY2'[i - 4])
  BY <1>1, <1>3, <1>4, MixedWords, SameInstructions DEF DRKey2, Grows
<1>6. ks' = Store(ks, 4 * m, KEY2')
  BY <1>2 DEF DRKey2
<1> HIDE DEF m, T0
<1>7. ASSUME NEW b \in 0..3 PROVE T0[b] = Feedback(ks, m, b)
  <2>1. /\ b \in Lane /\ b % 4 = b /\ 12 + b \in Lane
        /\ KS + (12 + b) = 4 * (m - 1) + b
    BY <1>1, <1>2 DEF Lane
  <2>2. KEY1[12 + b] = ks[4 * (m - 1) + b]
    BY <2>1, <1>1
  <2> QED BY <2>1, <2>2, <1>2, <1>3 DEF Feedback, W!Feedback
<1>8. /\ ks' \in [Addr -> Byte]
      /\ \A i \in Lane : ks'[4 * m + i] = KEY2'[i]
      /\ \A a \in Addr : a \notin (4 * m)..(4 * m + 15) => ks'[a] = ks[a]
      /\ IsSchedule(key, ks', m + 4)
  <2>1. IsSchedule(key, ks, m)
    BY <1>2, SameSchedule DEF IInv, ScheduleCorrect
  <2>2. \A i \in Lane : KEY2[i] = ks[4 * (m - 8) + i]
    BY <1>1, <1>2
  <2>3. HalfRound(key, ks, m, KEY2, T0, KEY2')
    BY <2>1, <2>2, <1>1, <1>2, <1>5, <1>7 DEF HalfRound
  <2> QED BY <2>3, <1>6, FourWords
<1>9. ScheduleCorrect'
  BY <1>2, <1>8, SameSchedule DEF ScheduleCorrect, DRKey2
<1>10. TypeOK'
  BY <1>1, <1>5, <1>8 DEF TypeOK, IInv, DRKey2
<1>11. InStep'
  <2>1. /\ pc' = "dr" /\ KS' = 32 * calls' + 32 /\ calls' = calls + 1
        /\ KS' - 32 = KS /\ KS' - 16 = 4 * m
    BY <1>1, <1>2 DEF DRKey2
  <2>2. \A i \in Lane : KEY1[i] = ks'[KS + i]
    <3> SUFFICES ASSUME NEW i \in Lane PROVE KEY1[i] = ks'[KS + i]
      OBVIOUS
    <3>1. KS + i \in 0..239 /\ KS + i \notin (4 * m)..(4 * m + 15)
      BY <1>1, <1>2 DEF Lane
    <3> QED BY <3>1, <1>1, <1>8, AddrAssumption, LengthAssumption
  <2>3. OnByte9(RC', Rcon[calls' + 1])
    BY <2>1, <1>1 DEF DRKey2
  <2>4. KEY1' = KEY1
    BY DEF DRKey2
  <2> QED BY <2>1, <2>2, <2>3, <2>4, <1>8 DEF InStep
<1>12. Frame
  BY <1>2, <1>8 DEF Frame
<1> QED BY <1>9, <1>10, <1>11, <1>12 DEF IInv

LEMMA Round14Step == IInv /\ Round14 => IInv' /\ Frame
<1> SUFFICES ASSUME IInv, Round14 PROVE IInv' /\ Frame
  OBVIOUS
<1>1. /\ KEY1' \in Reg /\ ks' \in [Addr -> Byte]
      /\ KS = 32 * calls + 32
      /\ \A a \in Addr : a \notin KS..(KS + 15) => ks'[a] = ks[a]
      /\ IsSchedule(key, ks', 8 * calls + 12)
  BY FirstHalf DEF Round14
<1>2. /\ pc = "dr" /\ calls = 6 /\ pc' = "ret"
  BY DEF Round14
<1>3. Written = 56 /\ Written' = 60 /\ KS = 224
  BY <1>1, <1>2 DEF Written
<1>4. Frame
  BY <1>1, <1>3 DEF Frame
<1>5. ScheduleCorrect'
  BY <1>1, <1>2, <1>3, SameSchedule DEF ScheduleCorrect, Round14
<1>6. TypeOK'
  BY <1>1, <1>2 DEF TypeOK, IInv, Round14
<1>7. InStep'
  BY <1>2 DEF InStep
<1> QED BY <1>4, <1>5, <1>6, <1>7 DEF IInv

LEMMA ReturnStep == IInv /\ Return => IInv' /\ Written = 60 /\ Written' = 60
<1> SUFFICES ASSUME IInv, Return
             PROVE  IInv' /\ Written = 60 /\ Written' = 60
  OBVIOUS
<1>1. Written = 60 /\ Written' = 60
  BY DEF Return, Written
<1>2. ScheduleCorrect'
  BY <1>1 DEF IInv, ScheduleCorrect, Schedule!IsSchedule,
     Schedule!ScheduleByte, Schedule!Feedback, Return
<1>3. TypeOK' /\ InStep'
  BY Registers, KeysInMemory DEF IInv, TypeOK, InStep, Return
<1> QED BY <1>1, <1>2, <1>3 DEF IInv

\* A step of the caller, between calls.
LEMMA CallerStep ==
  IInv /\ (Use \/ \E p \in KeyAddr : Call(p))
    => IInv' /\ Written \in {0, 60} /\ Written' = 0
<1> SUFFICES ASSUME IInv, Use \/ \E p \in KeyAddr : Call(p)
             PROVE  IInv' /\ Written \in {0, 60} /\ Written' = 0
  OBVIOUS
<1>1. Written \in {0, 60} /\ Written' = 0
  BY DEF Use, Call, Written
<1>2. ScheduleCorrect'
  BY <1>1 DEF ScheduleCorrect, Schedule!IsSchedule
<1>3. TypeOK' /\ InStep'
  BY KeysInMemory DEF IInv, TypeOK, InStep, Use, Call
<1> QED BY <1>1, <1>2, <1>3 DEF IInv

LEMMA StutterStep == IInv /\ UNCHANGED vars => IInv' /\ Written' = Written
<1> SUFFICES ASSUME IInv, UNCHANGED vars PROVE IInv' /\ Written' = Written
  OBVIOUS
<1>1. Written' = Written
  BY DEF vars, Written
<1>2. ScheduleCorrect'
  BY <1>1 DEF IInv, ScheduleCorrect, Schedule!IsSchedule,
     Schedule!ScheduleByte, Schedule!Feedback, vars
<1>3. TypeOK' /\ InStep'
  BY DEF IInv, TypeOK, InStep, vars
<1> QED BY <1>1, <1>2, <1>3 DEF IInv

-----------------------------------------------------------------------------
(* Theorems                                                                *)

LEMMA NextInv == IInv /\ [Next]_vars => IInv'
BY LoadKeyStep, DRKey1Step, DRKey2Step, Round14Step, ReturnStep, CallerStep,
   StutterStep DEF Next, Routine

THEOREM Invariance == Spec => []IInv
BY InitInv, NextInv, PTL DEF Spec

\* Registers, pointer and memory keep their types: the pointer of
\* Rijndael_k8w4_expandkey stays between 0 and 224 through all calls.
THEOREM TypeCorrect == Spec => []TypeOK
<1>1. IInv => TypeOK
  BY DEF IInv
<1> QED BY <1>1, Invariance, PTL

\* Whatever the S-box and the key, every word that expand.s has written is
\* the word of the reference schedule.
THEOREM ScheduleIsCorrect == Spec => []ScheduleCorrect
<1>1. IInv => ScheduleCorrect
  BY DEF IInv
<1> QED BY <1>1, Invariance, PTL

\* The routine implements the abstract schedule of sixty words: it only ever
\* extends it, and no other byte of the caller's memory changes.
THEOREM Implementation == Spec => ImplementsSchedule
<1>1. Init => Schedule!Init
  <2> SUFFICES ASSUME Init PROVE Schedule!Init
    OBVIOUS
  <2>1. Written = 0
    BY DEF Init, Start, Written
  <2> QED BY <2>1, InitInv DEF Init, IInv, TypeOK, Schedule!Init,
            Schedule!Byte, Byte
<1>2. IInv /\ IInv' /\ [Next]_vars => [Schedule!Next]_(Schedule!vars)
  <2> SUFFICES ASSUME IInv, IInv', [Next]_vars
               PROVE  [Schedule!Next]_(Schedule!vars)
    OBVIOUS
  <2>1. ks' \in [Addr -> Schedule!Byte] /\ Schedule!IsSchedule(key', ks', Written')
    BY DEF IInv, TypeOK, ScheduleCorrect, Schedule!Byte, Byte
  <2>2. CASE LoadKey \/ DRKey1 \/ DRKey2 \/ Round14
    <3>1. key' = key
      BY <2>2 DEF LoadKey, DRKey1, DRKey2, Round14
    <3>2. Written' \in (Written + 1)..NumWords
      BY <2>2, LengthAssumption
         DEF IInv, TypeOK, InStep, LoadKey, DRKey1, DRKey2, Round14, Written
    <3>3. Frame
      BY <2>2, LoadKeyStep, DRKey1Step, DRKey2Step, Round14Step
    <3>4. Schedule!Extend
      BY <2>1, <3>1, <3>2, <3>3 DEF Schedule!Extend, Frame
    <3> QED BY <3>4 DEF Schedule!Next
  <2>3. CASE Return
    BY <2>3, ReturnStep DEF Return, Schedule!vars
  <2>4. CASE Use \/ \E p \in KeyAddr : Call(p)
    <3>1. Written \in {0, NumWords} /\ Written' = 0
      BY <2>4, CallerStep, LengthAssumption
    <3>2. key' \in Key
      BY DEF IInv, TypeOK
    <3> QED BY <3>1, <3>2, <2>1 DEF Schedule!Next, Schedule!Again
  <2>5. CASE UNCHANGED vars
    BY <2>5, StutterStep DEF vars, Schedule!vars
  <2> QED BY <2>2, <2>3, <2>4, <2>5 DEF Next, Routine
<1> QED BY <1>1, <1>2, Invariance, PTL DEF Spec, ImplementsSchedule, Schedule!Spec

-----------------------------------------------------------------------------
(* The program of expansion/mini.c                                         *)

Table == [Buffer -> Byte]

\* OpenSSL's expansion and NSS's, as the proofs name them.
Expanded(k) == aesni_set_encrypt_key(k)

\* A whole schedule, wherever it is, is the one OpenSSL's expansion makes.
LEMMA ExpandedKey ==
  ASSUME NEW k \in Key
  PROVE  /\ Expanded(k) \in Table
         /\ \A s : IsSchedule(k, s, 60) => \A a \in Buffer : s[a] = Expanded(k)[a]
<1>1. Expanded(k) = Aes!Schedule(k)
  BY ShiftAssumption, OsslSchedule DEF Expanded, Key
<1>2. Expanded(k) \in Table /\ IsSchedule(k, Expanded(k), 60)
  BY <1>1, AesSchedule DEF Table, Key, Buffer, Aes!Buffer
<1>3. 60 \in Nat /\ Buffer = 0..(4 * 60 - 1)
  BY DEF Buffer
<1> HIDE DEF IsSchedule, Expanded
<1> QED BY <1>2, <1>3, OneSchedule

\* NSS's expansion is OpenSSL's.
LEMMA NssSchedule ==
  ASSUME NEW k \in Key
  PROVE  intel_aes_encrypt_init_256(k) = Expanded(k)
<1> DEFINE s == Aes!Schedule(k)
           p0 == <<Load(k, 0), Load(k, 16), con1>>
           p1 == Lenc_256_ks_loop(p0)
           p2 == Lenc_256_ks_loop(p1)
           p3 == Lenc_256_ks_loop(p2)
           p4 == Lenc_256_ks_loop(p3)
           p5 == Lenc_256_ks_loop(p4)
           p6 == Lenc_256_ks_loop(p5)
           p7 == <<half(p6[1], p6[2], p6[3])>>
           p == <<p0, p1, p2, p3, p4, p5, p6, p7>>
           next(q, j) == KeyPair(q, s, j) /\ ConstantOn(q[3], Columns, Rcon[j + 1])
<1>1. s \in [0..239 -> Byte] /\ IsSchedule(k, s, 60)
  BY AesSchedule DEF Aes!Buffer, Key
<1>2. intel_aes_encrypt_init_256(k) = RoundKeys(p)
  BY DEF intel_aes_encrypt_init_256
<1>3. ConstantOn(con1, Columns, Rcon[1])
  <2>1. \A i \in Lane : i % 4 = 0 <=> i \in Columns
    BY DEF Lane, Columns
  <2>2. \A i \in Lane : con1[i] = IF i \in Columns THEN Hex(1) ELSE Zero
    BY <2>1 DEF con1
  <2>3. con1 \in Reg
    BY Registers, XorByte DEF con1, Reg
  <2>4. Rcon[1] = Hex(1)
    BY ShiftAssumption DEF PowersOfTwo
  <2> QED BY <2>2, <2>3, <2>4 DEF ConstantOn
<1>4. next(p0, 0)
  BY <1>1, <1>3, FirstPair DEF Key
<1> HIDE DEF s, p0
<1>5. ASSUME NEW j \in 1..6, NEW q, next(q, j - 1)
      PROVE  next(Lenc_256_ks_loop(q), j)
  <2>1. ConstantOn(q[3], Columns, Rcon[j])
    BY <1>5
  <2> QED BY <1>1, <1>5, <2>1, ShiftAssumption, NssTurn
<1> HIDE DEF next
<1>6. next(p1, 1)
  BY <1>4, <1>5
<1> HIDE DEF p1
<1>7. next(p2, 2)
  BY <1>5, <1>6
<1> HIDE DEF p2
<1>8. next(p3, 3)
  BY <1>5, <1>7
<1> HIDE DEF p3
<1>9. next(p4, 4)
  BY <1>5, <1>8
<1> HIDE DEF p4
<1>10. next(p5, 5)
  BY <1>5, <1>9
<1> HIDE DEF p5
<1>11. next(p6, 6)
  BY <1>5, <1>10
<1> HIDE DEF p6
<1>12. IsKey(p7[1], s, 14)
  <2>1. 7 - 1 = 6 /\ 6 + 1 = 7 /\ 2 * 7 = 14
    OBVIOUS
  <2>2. KeyPair(p6, s, 7 - 1) /\ ConstantOn(p6[3], Columns, Rcon[7])
    BY <1>11, <2>1 DEF next
  <2>3. IsKey(half(p6[1], p6[2], p6[3]), s, 2 * 7)
    BY <1>1, <2>2, NssEvenKey
  <2> QED BY <2>1, <2>3
<1> HIDE DEF p7
<1>13. \A j \in 0..6 : KeyPair(p[j + 1], s, j)
  BY <1>4, <1>6, <1>7, <1>8, <1>9, <1>10, <1>11 DEF next
<1>14. IsKey(p[8][1], s, 14)
  BY <1>12
<1> HIDE DEF p
<1>15. RoundKeys(p) = s
  BY <1>1, <1>13, <1>14, EightTurns
<1>16. Expanded(k) = s
  BY ShiftAssumption, OsslSchedule DEF Expanded, Key, s
<1> QED BY <1>2, <1>15, <1>16 DEF p, p0, p1, p2, p3, p4, p5, p6, p7

LEMMA KeyInKey == \A s \in Table : KeyIn(s, LastKeys) \in Key
<1>1. \A b \in 0..31 : LastKeys + b \in Buffer
  BY DEF LastKeys, Buffer
<1> QED BY <1>1 DEF KeyIn, Key, Table

\* The schedules of the keys that the dependent calls take from one another.
Dependent == [i \in 1..(2 * N) |-> [s \in Table |-> Expanded(KeyIn(s, LastKeys))]]

IsChain(f) == f \in [0..(2 * N) -> Table] /\ Listed(f, 2 * N, Expanded(test_k), Dependent)

Chain == CHOOSE f : IsChain(f)

LEMMA ChainExists ==
  ASSUME test_k \in Key
  PROVE  /\ \A i \in 0..(2 * N) : Chain[i] \in Table
         /\ Chain[0] = Expanded(test_k)
         /\ \A i \in 1..(2 * N) : Chain[i] = Expanded(KeyIn(Chain[i - 1], LastKeys))
<1>1. \A s \in Table : Expanded(KeyIn(s, LastKeys)) \in Table
  BY KeyInKey, ExpandedKey
<1>2. Dependent \in [1..(2 * N) -> [Table -> Table]]
  BY <1>1 DEF Dependent
<1>3. 2 * N \in Nat
  BY TurnsAssumption
<1>4. \E f : IsChain(f)
  BY <1>2, <1>3, ExpandedKey, Recursion DEF IsChain
<1>5. IsChain(Chain)
  BY <1>4 DEF Chain
<1> HIDE DEF Chain
<1>6. ASSUME NEW i \in 1..(2 * N)
      PROVE  Chain[i] = Expanded(KeyIn(Chain[i - 1], LastKeys))
  <2>1. i - 1 \in 0..(2 * N)
    BY <1>3
  <2>2. Chain[i] = Dependent[i][Chain[i - 1]] /\ Chain[i - 1] \in Table
    BY <2>1, <1>5 DEF IsChain, Listed
  <2> QED BY <2>2 DEF Dependent
<1> QED BY <1>5, <1>6 DEF IsChain, Listed

\* How many of the dependent calls are made, in OpenSSL's array and here.
OsslCalls == IF stmt = 4 THEN turn ELSE IF stmt = 5 THEN N + turn
             ELSE IF stmt < 4 THEN 0 ELSE 2 * N

LocalCalls == IF stmt = 6 THEN turn ELSE IF stmt = 7 THEN N + turn
              ELSE IF stmt = 8 THEN 2 * N ELSE 0

\* Between nss's schedule of test_k and the first call that takes its key from it.
Filled == (stmt = 3 /\ turn > 0) \/ stmt \in {4, 5} \/ (stmt = 6 /\ turn = 0)

\* From that call to the next use of the buffer.
Calling == (stmt = 6 /\ turn > 0) \/ stmt = 7 \/ (stmt = 8 /\ turn = 0)

ChainInv ==
  /\ rd_key = Chain[OsslCalls]
  /\ Filled => pc = "idle" /\ \A a \in Buffer : ks[a] = Chain[0][a]
  /\ Calling => pc # "idle" /\ key = KeyIn(Chain[LocalCalls - 1], LastKeys)

TestTypes == /\ stmt \in 0..10 /\ turn \in 0..(N - 1)
             /\ test_k \in Key
             /\ stmt = 10 => turn = 0

TestInv == /\ IInv /\ TestTypes /\ ChainInv
           /\ verdict # "FAIL"
           /\ stmt = 0 => key = test_k /\ turn = 0

\* A buffer the routine has returned from holds the schedule of its key.
LEMMA ReturnedSchedule ==
  ASSUME IInv, pc = "returned"
  PROVE  \A a \in Buffer : ks[a] = Expanded(key)[a]
<1>1. key \in Key
  BY DEF IInv, TypeOK
<1>2. IsSchedule(key, ks, 60)
  <2>1. Written = 60
    BY DEF Written
  <2> QED BY <2>1, SameSchedule DEF IInv, ScheduleCorrect
<1> HIDE DEF IsSchedule
<1> QED BY <1>1, <1>2, ExpandedKey

LEMMA TestInitInv == TestInit => TestInv
<1> SUFFICES ASSUME TestInit PROVE TestInv
  OBVIOUS
<1>1. PICK k \in TestKeys : /\ Start(TestMem(k), TestAt)
                            /\ stmt = 0 /\ turn = 0
                            /\ rd_key = Expanded(k)
                            /\ verdict = "none"
  BY DEF TestInit, Expanded
<1>2. k \in Key /\ TestMem(k) \in [Addr -> Byte]
  BY TestKeysAssumption, XorByte DEF Key, TestMem
<1>3. IInv
  <2>1. Init
    BY <1>1, <1>2, TestAtAssumption DEF Init
  <2> QED BY <2>1, InitInv
<1>4. key = k /\ test_k = k
  <2>1. KeyIn(TestMem(k), TestAt) = k
    <3>1. KeyIn(TestMem(k), TestAt) = [b \in 0..31 |-> k[b]]
      <4>1. ASSUME NEW b \in 0..31 PROVE TestMem(k)[TestAt + b] = k[b]
        <5>1. TestAt \in Int /\ TestAt + b \in Addr
          BY TestAtAssumption, AddrAssumption DEF KeyAddr
        <5>2. (TestAt + b) - TestAt = b
          BY <5>1
        <5> QED BY <5>1, <5>2 DEF TestMem
      <4> QED BY <4>1 DEF KeyIn
    <3> QED BY <3>1, <1>2 DEF Key
  <2> QED BY <2>1, <1>1 DEF Start, test_k
<1>5. TestTypes
  BY <1>1, <1>2, <1>4, TurnsAssumption DEF TestTypes
<1>6. ChainInv
  <2>1. OsslCalls = 0 /\ ~Filled /\ ~Calling
    BY <1>1 DEF OsslCalls, Filled, Calling
  <2> HIDE DEF Chain
  <2> QED BY <2>1, <1>1, <1>2, <1>4, ChainExists DEF ChainInv
<1> QED BY <1>1, <1>3, <1>4, <1>5, <1>6 DEF TestInv

\* The test and the timing loops leave the routine as they find it, call it,
\* or put another schedule into its buffer.
LEMMA ProgramStep ==
  ASSUME IInv, TestTypes, [TestNext]_allVars
  PROVE  IInv'
<1>1. CASE Routine
  <2>1. [Next]_vars
    BY <1>1 DEF Next
  <2> QED BY <2>1, NextInv
<1>2. CASE test_expansion
  BY <1>2, CallerStep DEF test_expansion
<1>3. CASE ossl
  BY <1>3, StutterStep DEF ossl
<1>4. CASE nss
  BY <1>4, CallerStep DEF nss
<1>5. CASE local
  <2>1. LastKeys \in KeyAddr
    BY AddrAssumption, LengthAssumption DEF LastKeys, KeyAddr
  <2>2. \E p \in KeyAddr : Call(p)
    BY <1>5, <2>1, TestAtAssumption DEF local
  <2> QED BY <2>2, CallerStep
<1>6. CASE UNCHANGED allVars
  BY <1>6, StutterStep DEF allVars
<1> QED BY <1>1, <1>2, <1>3, <1>4, <1>5, <1>6 DEF TestNext

\* Nothing writes test_k: it is apart from the buffer.
LEMMA TestKeyKept == IInv /\ [TestNext]_allVars => test_k' = test_k
<1> SUFFICES ASSUME IInv, [TestNext]_allVars PROVE test_k' = test_k
  OBVIOUS
<1> DEFINE kept == \A a \in Addr : a \notin 0..239 => ks'[a] = ks[a]
<1>1. ASSUME LoadKey \/ DRKey1 \/ DRKey2 \/ Round14 PROVE kept
  <2>1. Frame
    BY <1>1, LoadKeyStep, DRKey1Step, DRKey2Step, Round14Step
  <2>2. Written' \in (Written + 1)..60
    BY <1>1 DEF IInv, TypeOK, InStep, LoadKey, DRKey1, DRKey2, Round14, Written
  <2>3. Written \in 0..60
    BY DEF IInv, TypeOK, InStep, Written
  <2> DEFINE from == Written
             to == Written'
  <2>4. /\ from \in 0..60 /\ to \in (from + 1)..60
        /\ \A a \in Addr : a \notin (4 * from)..(4 * to - 1) => ks'[a] = ks[a]
    BY <2>1, <2>2, <2>3 DEF Frame
  <2> HIDE DEF from, to
  <2>5. (4 * from)..(4 * to - 1) \subseteq 0..239
    BY <2>4
  <2> QED BY <2>4, <2>5
<1>2. ASSUME Return \/ UNCHANGED vars PROVE kept
  BY <1>2 DEF Return, vars
<1>3. ASSUME test_expansion \/ nss PROVE kept
  BY <1>3 DEF test_expansion, nss, Fill, Buffer
<1>4. ASSUME local PROVE kept
  BY <1>4 DEF local, Call
<1>5. kept
  BY <1>1, <1>2, <1>3, <1>4 DEF TestNext, Routine, ossl, allVars, vars
<1>6. \A b \in 0..31 : TestAt + b \in Addr /\ TestAt + b \notin 0..239
  BY TestAtAssumption DEF KeyAddr
<1> QED BY <1>5, <1>6 DEF test_k, KeyIn

LEMMA TypesStep == IInv /\ TestTypes /\ [TestNext]_allVars => TestTypes'
<1> SUFFICES ASSUME IInv, TestTypes, [TestNext]_allVars PROVE TestTypes'
  OBVIOUS
<1>0. test_k' = test_k
  BY TestKeyKept
<1>1. CASE Turn
  BY <1>0, <1>1, TurnsAssumption DEF Turn, TestTypes
<1>2. CASE test_expansion
  BY <1>0, <1>2, TurnsAssumption DEF test_expansion, TestTypes
<1>3. CASE UNCHANGED testVars
  BY <1>0, <1>3 DEF testVars, TestTypes
<1> QED BY <1>1, <1>2, <1>3 DEF TestNext, ossl, nss, local, allVars

\* Steps of the routine move no counter of the program, and return.
LEMMA RoutineChain ==
  ASSUME TestInv, Routine \/ UNCHANGED vars, UNCHANGED testVars
  PROVE  ChainInv'
<1>0. test_k' = test_k
  BY TestKeyKept DEF TestInv, TestNext, allVars
<1>1. Chain' = Chain /\ OsslCalls' = OsslCalls /\ LocalCalls' = LocalCalls
      /\ rd_key' = rd_key /\ Filled' = Filled /\ Calling' = Calling
  BY <1>0 DEF testVars, Chain, IsChain, OsslCalls, LocalCalls, Filled, Calling
<1>2. CASE UNCHANGED vars
  <2>1. pc' = pc /\ ks' = ks /\ key' = key
    BY <1>2 DEF vars
  <2> HIDE DEF Chain, OsslCalls, LocalCalls, Filled, Calling
  <2> QED BY <1>1, <2>1 DEF ChainInv, TestInv
<1>3. CASE Routine
  <2>1. pc # "idle" /\ pc' # "idle" /\ key' = key
    BY <1>3 DEF Routine, LoadKey, DRKey1, DRKey2, Round14, Return
  <2>2. ~Filled
    BY <2>1 DEF TestInv, ChainInv
  <2> QED BY <1>1, <2>1, <2>2 DEF ChainInv, TestInv
<1> QED BY <1>2, <1>3

LEMMA TestExpansionChain ==
  ASSUME TestInv, test_expansion
  PROVE  ChainInv' /\ verdict' = "OKAY"
<1>1. stmt = 0 /\ turn = 0 /\ key = test_k /\ test_k \in Key /\ pc = "returned"
  BY DEF TestInv, TestTypes, test_expansion
<1>2. stmt' = 1 /\ turn' = 0 /\ test_k' = test_k /\ rd_key' = rd_key
  BY TestKeyKept DEF test_expansion, TestInv, TestNext
<1>3. rd_key = Chain[0]
  BY <1>1 DEF TestInv, ChainInv, OsslCalls
<1>4. ChainInv'
  <2>1. Chain' = Chain /\ OsslCalls' = 0 /\ ~Filled' /\ ~Calling'
    BY <1>2 DEF Chain, IsChain, OsslCalls, Filled, Calling
  <2> QED BY <1>2, <1>3, <2>1 DEF ChainInv
<1>5. \A a \in Buffer : ks[a] = rd_key[a]
  BY <1>1, <1>3, ReturnedSchedule, ChainExists DEF TestInv
<1> QED BY <1>4, <1>5 DEF test_expansion

LEMMA OsslChain ==
  ASSUME TestInv, ossl
  PROVE  ChainInv'
<1>1. /\ stmt \in 0..10 /\ turn \in 0..(N - 1) /\ N \in Nat \ {0}
      /\ test_k \in Key /\ test_k' = test_k
      /\ pc' = pc /\ ks' = ks /\ key' = key
  <2>1. test_k' = test_k
    BY TestKeyKept DEF TestInv, TestNext
  <2> QED BY <2>1, TurnsAssumption DEF TestInv, TestTypes, ossl, Turn, vars
<1>2. Chain' = Chain
  BY <1>1 DEF Chain, IsChain
<1>3. CASE stmt = 1
  <2>1. rd_key' = Chain[0]
    <3> HIDE DEF Chain
    <3> QED BY <1>1, <1>3, ChainExists DEF ossl, Expanded
  <2>2. stmt' \in {1, 2} /\ turn' \in Nat
    BY <1>1, <1>3 DEF ossl, Turn
  <2>3. OsslCalls' = 0 /\ ~Filled' /\ ~Calling'
    BY <2>2 DEF OsslCalls, Filled, Calling
  <2> QED BY <1>2, <2>1, <2>3 DEF ChainInv
<1>4. CASE stmt \in {4, 5}
  <2>1. /\ OsslCalls \in 0..(2 * N - 1) /\ OsslCalls' = OsslCalls + 1
        /\ Filled /\ Filled' /\ ~Calling'
    BY <1>1, <1>4 DEF OsslCalls, Filled, Calling, ossl, Turn
  <2>2. rd_key' = Expanded(KeyIn(rd_key, LastKeys))
    BY <1>4 DEF ossl, Expanded
  <2>3. rd_key = Chain[OsslCalls] /\ pc = "idle" /\ \A a \in Buffer : ks[a] = Chain[0][a]
    BY <2>1 DEF TestInv, ChainInv
  <2> HIDE DEF Chain, OsslCalls
  <2>4. Chain[OsslCalls + 1] = Expanded(KeyIn(Chain[OsslCalls], LastKeys))
    <3>1. OsslCalls + 1 \in 1..(2 * N) /\ (OsslCalls + 1) - 1 = OsslCalls
      BY <2>1, <1>1
    <3> QED BY <3>1, <1>1, ChainExists
  <2> QED BY <1>1, <1>2, <2>1, <2>2, <2>3, <2>4 DEF ChainInv
<1> QED BY <1>3, <1>4 DEF ossl

LEMMA NssChain ==
  ASSUME TestInv, nss
  PROVE  ChainInv'
<1>1. /\ stmt \in 0..10 /\ turn \in 0..(N - 1) /\ N \in Nat \ {0}
      /\ test_k \in Key /\ test_k' = test_k
      /\ rd_key' = rd_key /\ pc' = "idle"
  <2>1. test_k' = test_k
    BY TestKeyKept DEF TestInv, TestNext
  <2> QED BY <2>1, TurnsAssumption DEF TestInv, TestTypes, nss, Turn, Use
<1>2. Chain' = Chain
  BY <1>1 DEF Chain, IsChain
<1>3. CASE stmt = 3
  <2>1. /\ stmt' = 3 \/ (stmt' = 4 /\ turn' = 0)
        /\ OsslCalls = 0 /\ OsslCalls' = 0 /\ ~Calling'
    BY <1>1, <1>3 DEF OsslCalls, Calling, nss, Turn
  <2>2. ks' = Fill(Expanded(test_k))
    BY <1>1, <1>3, NssSchedule DEF nss
  <2>3. \A a \in Buffer : ks'[a] = Chain[0][a]
    <3>1. \A a \in Buffer : a \in Addr
      BY AddrAssumption, LengthAssumption DEF Buffer
    <3> QED BY <2>2, <3>1, <1>1, ChainExists DEF Fill
  <2> QED BY <1>1, <1>2, <2>1, <2>3 DEF ChainInv, TestInv
<1>4. CASE stmt \in {8, 9}
  <2>1. /\ OsslCalls' = OsslCalls /\ ~Filled' /\ ~Calling'
    BY <1>1, <1>4 DEF OsslCalls, Filled, Calling, nss, Turn
  <2> QED BY <1>1, <1>2, <2>1 DEF ChainInv, TestInv
<1> QED BY <1>3, <1>4 DEF nss

LEMMA LocalChain ==
  ASSUME TestInv, local
  PROVE  ChainInv'
<1>1. /\ stmt \in 0..10 /\ turn \in 0..(N - 1) /\ N \in Nat \ {0}
      /\ test_k \in Key /\ test_k' = test_k
      /\ rd_key' = rd_key /\ pc' = "entry" /\ pc \in {"returned", "idle"}
  <2>1. test_k' = test_k
    BY TestKeyKept DEF TestInv, TestNext
  <2> QED BY <2>1, TurnsAssumption DEF TestInv, TestTypes, local, Turn, Call
<1>2. Chain' = Chain
  BY <1>1 DEF Chain, IsChain
<1>3. CASE stmt = 2
  <2>1. /\ OsslCalls = 0 /\ OsslCalls' = 0 /\ ~Filled' /\ ~Calling'
    BY <1>1, <1>3 DEF OsslCalls, Filled, Calling, local, Turn
  <2> QED BY <1>1, <1>2, <2>1 DEF ChainInv, TestInv
<1>4. CASE stmt \in {6, 7}
  <2>1. /\ LocalCalls \in 0..(2 * N - 1) /\ LocalCalls' = LocalCalls + 1
        /\ ~Filled' /\ Calling' /\ OsslCalls' = OsslCalls
        /\ Filled \/ Calling
        /\ Filled => LocalCalls = 0
    BY <1>1, <1>4 DEF LocalCalls, OsslCalls, Filled, Calling, local, Turn
  <2>2. key' = KeyIn(ks, LastKeys)
    BY <1>4 DEF local, Call
  <2>3. \A a \in Buffer : ks[a] = Chain[LocalCalls][a]
    <3>1. CASE Filled
      BY <3>1, <2>1 DEF TestInv, ChainInv
    <3>2. CASE ~Filled
      <4>1. pc = "returned" /\ key = KeyIn(Chain[LocalCalls - 1], LastKeys)
        BY <3>2, <2>1, <1>1 DEF TestInv, ChainInv
      <4>2. LocalCalls \in 1..(2 * N)
        BY <3>2, <2>1, <1>1, <1>4 DEF LocalCalls, Filled
      <4> HIDE DEF Chain, LocalCalls
      <4>3. Chain[LocalCalls] = Expanded(key)
        BY <4>1, <4>2, <1>1, ChainExists
      <4> QED BY <4>1, <4>3, ReturnedSchedule DEF TestInv
    <3> QED BY <3>1, <3>2
  <2> HIDE DEF Chain, LocalCalls
  <2>4. KeyIn(ks, LastKeys) = KeyIn(Chain[LocalCalls], LastKeys)
    <3>1. \A b \in 0..31 : LastKeys + b \in Buffer
      BY DEF LastKeys, Buffer
    <3> QED BY <2>3, <3>1 DEF KeyIn
  <2>5. (LocalCalls + 1) - 1 = LocalCalls
    BY <2>1
  <2> QED BY <1>1, <1>2, <2>1, <2>2, <2>4, <2>5 DEF ChainInv, TestInv
<1> QED BY <1>3, <1>4 DEF local

LEMMA TestStep == TestInv /\ [TestNext]_allVars => TestInv'
<1> SUFFICES ASSUME TestInv, [TestNext]_allVars PROVE TestInv'
  OBVIOUS
<1>1. IInv'
  BY ProgramStep DEF TestInv
<1>2. TestTypes'
  BY TypesStep DEF TestInv
<1>3. ChainInv' /\ verdict' # "FAIL"
  <2>1. CASE (Routine \/ UNCHANGED vars) /\ UNCHANGED testVars
    BY <2>1, RoutineChain DEF TestInv, testVars
  <2>2. CASE test_expansion
    BY <2>2, TestExpansionChain
  <2>3. CASE ossl
    BY <2>3, OsslChain DEF ossl, Turn, TestInv
  <2>4. CASE nss
    BY <2>4, NssChain DEF nss, Turn, TestInv
  <2>5. CASE local
    BY <2>5, LocalChain DEF local, Turn, TestInv
  <2> QED BY <2>1, <2>2, <2>3, <2>4, <2>5 DEF TestNext, allVars
<1>4. stmt' = 0 => key' = test_k' /\ turn' = 0
  <2>1. CASE Turn \/ test_expansion
    <3>1. stmt' # 0
      BY <2>1 DEF Turn, test_expansion, TestInv, TestTypes
    <3> QED BY <3>1
  <2>2. CASE (Routine \/ UNCHANGED vars) /\ UNCHANGED testVars
    <3>1. test_k' = test_k
      BY TestKeyKept DEF TestInv
    <3>2. key' = key /\ stmt' = stmt /\ turn' = turn
      BY <2>2 DEF Routine, LoadKey, DRKey1, DRKey2, Round14, Return, vars, testVars
    <3> QED BY <3>1, <3>2 DEF TestInv
  <2> QED BY <2>1, <2>2 DEF TestNext, allVars, ossl, nss, local
<1> QED BY <1>1, <1>2, <1>3, <1>4 DEF TestInv

THEOREM TestInvariance == TestSpec => []TestInv
BY TestInitInv, TestStep, PTL DEF TestSpec

\* For every S-box and whatever follows the sixteen bytes of test_k, the test
\* of expansion/mini.c prints OKAY.
THEOREM TestNeverFails == TestSpec => []TestPasses
<1>1. TestInv => TestPasses
  BY DEF TestInv, TestPasses
<1> QED BY <1>1, TestInvariance, PTL

\* However long the loops, the chain of dependent calls ends with the schedule
\* that the chain of OpenSSL's calls ends with: each call takes its key from
\* the buffer before it overwrites it.
THEOREM ChainsAgree == TestSpec => []SameChain
<1>1. TestInv => SameChain
  <2> SUFFICES ASSUME TestInv, stmt = 8, turn = 0, pc = "returned"
               PROVE  \A a \in Buffer : ks[a] = rd_key[a]
    BY DEF SameChain
  <2>1. OsslCalls = 2 * N /\ LocalCalls = 2 * N /\ Calling
    BY DEF OsslCalls, LocalCalls, Calling
  <2>2. rd_key = Chain[2 * N] /\ key = KeyIn(Chain[2 * N - 1], LastKeys)
    BY <2>1 DEF TestInv, ChainInv
  <2>3. 2 * N \in 1..(2 * N)
    BY TurnsAssumption
  <2> HIDE DEF Chain
  <2>4. Chain[2 * N] = Expanded(key)
    BY <2>2, <2>3, ChainExists DEF TestInv, TestTypes
  <2> QED BY <2>2, <2>4, ReturnedSchedule DEF TestInv
<1> QED BY <1>1, TestInvariance, PTL
=============================================================================
