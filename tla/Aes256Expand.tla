---------------------------- MODULE Aes256Expand ----------------------------
(***************************************************************************)
(* expansion/expand.s: Rijndael_k8w4_expandkey, the AES-256 key expansion. *)
(* Six calls of .L_DR make eight words each, and round 14 is its first     *)
(* half written out again.  The round constant lives in a register that    *)
(* every call shifts.  inline64B/expand.s is the same with a counted loop, *)
(* and the _ssse3 files in two-operand instructions.  T1 and T2 are        *)
(* written before they are read in each half and are local to an action.   *)
(* The key is in the memory that the routine writes, and may overlap the   *)
(* buffer from either side, as it does where mini.c chains the calls.      *)
(*                                                                         *)
(* key is history: the 32 bytes at KEY when the current call began.        *)
(***************************************************************************)
EXTENDS Expansion

VARIABLES
  pc,        \* where the routine is
  calls,     \* calls of .L_DR so far
  KS, KEY,   \* the pointers, as offsets from the buffer it was given
  KEY1, KEY2,\* %xmm0 and %xmm3
  RC,        \* %xmm4
  ks,        \* the caller's memory, around the buffer
  key        \* history

vars == <<pc, calls, KS, KEY, KEY1, KEY2, RC, ks, key>>

\* Eight words of key and four for each of thirteen rounds.
ASSUME LengthAssumption == NumWords = 60

ASSUME ShiftAssumption == PowersOfTwo

Key == [0..31 -> Byte]

\* The key at offset p, and the offsets that have one.
KeyIn(mem, p) == [b \in 0..31 |-> mem[p + b]]

KeyAddr == {p \in Addr : \A b \in 0..31 : p + b \in Addr}

-----------------------------------------------------------------------------
(* Operations                                                              *)

_RC_OnFirstByte == [i \in Lane |-> IF i = 0 THEN Hex(1) ELSE Zero]

_RC == [i \in Lane |-> IF i = 9 THEN Hex(1) ELSE Zero]

\* Bytes 12, 13, 14 and 15 to every doubleword.
SHUF_1 == [i \in Lane |-> 12 + (i % 4)]

\* Where ShiftRows leaves bytes 13, 14, 15 and 12.
SHUF_2 == [i \in Lane |-> <<9, 6, 3, 12>>[(i % 4) + 1]]

SHUF_L == [i \in Lane |-> IF i < 4 THEN 255 ELSE i - 4]

\* The register grows by a shift of itself three times.
linearmix(k, new) ==
  LET k1 == VPXOR(k, VPSHUFB(k, SHUF_L))
      k2 == VPXOR(k1, VPSHUFB(k1, SHUF_L))
      k3 == VPXOR(k2, VPSHUFB(k2, SHUF_L))
  IN  VPXOR(k3, new)

\* The round constant is on byte 9 before the shuffle and on byte 0 after it.
RotSub(k, rc) == VPSHUFB(VAESENCLAST(k, rc), SHUF_2)

SubLast(k) == VAESENCLAST(VPSHUFB(k, SHUF_1), ZeroReg)

-----------------------------------------------------------------------------
\* A call with the key at offset p.
Start(mem, p) == /\ pc = "entry"
                 /\ calls = 0
                 /\ KS = 0 /\ KEY = p
                 /\ KEY1 = ZeroReg /\ KEY2 = ZeroReg /\ RC = ZeroReg
                 /\ ks = mem
                 /\ key = KeyIn(mem, p)

Init == \E mem \in [Addr -> Byte], p \in KeyAddr : Start(mem, p)

LoadKey_AfterStore ==
  /\ pc = "entry"
  /\ KEY1' = Load(ks, KEY)
  /\ KEY2' = Load(Store(ks, 0, KEY1'), KEY + 16)
  /\ RC' = _RC
  /\ ks' = Store(Store(ks, 0, KEY1'), 16, KEY2')
  /\ KS' = 32
  /\ calls' = 0
  /\ pc' = "dr"
  /\ UNCHANGED <<KEY, key>>

\* Load both halves of the key and the first round constant, and then store:
\* the key is the first eight words.
LoadKey == /\ pc = "entry"
           /\ KEY1' = Load(ks, KEY)
           /\ KEY2' = Load(ks, KEY + 16)
           /\ RC' = _RC
           /\ ks' = Store(Store(ks, 0, KEY1'), 16, KEY2')
           /\ KS' = 32
           /\ calls' = 0
           /\ pc' = "dr"
           /\ UNCHANGED <<KEY, key>>

\* .L_DR up to the store of KEY1, the round constant shifted for the next.
DRKey1 == /\ pc = "dr" /\ calls < 6
          /\ KEY1' = linearmix(KEY1, RotSub(KEY2, RC))
          /\ RC' = VPSLLD1(RC)
          /\ ks' = Store(ks, KS, KEY1')
          /\ pc' = "half"
          /\ UNCHANGED <<calls, KS, KEY, KEY2, key>>

\* The rest of .L_DR, and its return.
DRKey2 == /\ pc = "half"
          /\ KEY2' = linearmix(KEY2, SubLast(KEY1))
          /\ ks' = Store(ks, KS + 16, KEY2')
          /\ KS' = KS + 32
          /\ calls' = calls + 1
          /\ pc' = "dr"
          /\ UNCHANGED <<KEY, KEY1, RC, key>>

Round14_StoresBehind ==
  /\ pc = "dr" /\ calls = 6
  /\ KEY1' = linearmix(KEY1, RotSub(KEY2, RC))
  /\ ks' = Store(ks, KS + 16, KEY1')
  /\ pc' = "ret"
  /\ UNCHANGED <<calls, KS, KEY, KEY2, RC, key>>

\* The last four words.
Round14 == /\ pc = "dr" /\ calls = 6
           /\ KEY1' = linearmix(KEY1, RotSub(KEY2, RC))
           /\ ks' = Store(ks, KS, KEY1')
           /\ pc' = "ret"
           /\ UNCHANGED <<calls, KS, KEY, KEY2, RC, key>>

Return_KeepsPointer ==
  /\ pc = "ret"
  /\ KEY1' = ZeroReg /\ KEY2' = ZeroReg /\ RC' = ZeroReg
  /\ KS' = KS + 32 /\ KEY' = 0
  /\ pc' = "returned"
  /\ UNCHANGED <<calls, ks, key>>

\* VZEROALL, the pointers cleared, RET.
Return == /\ pc = "ret"
          /\ KEY1' = ZeroReg /\ KEY2' = ZeroReg /\ RC' = ZeroReg
          /\ KS' = 0 /\ KEY' = 0
          /\ pc' = "returned"
          /\ UNCHANGED <<calls, ks, key>>

Routine == LoadKey \/ DRKey1 \/ DRKey2 \/ Round14 \/ Return

\* Between calls the memory is the caller's.
Use == /\ pc \in {"returned", "idle"}
       /\ ks' \in [Addr -> Byte]
       /\ pc' = "idle"
       /\ UNCHANGED <<calls, KS, KEY, KEY1, KEY2, RC, key>>

\* The next call, with the key at p: apart from the buffer, or over some of it.
Call(p) == /\ pc \in {"returned", "idle"}
           /\ KEY' = p
           /\ key' = KeyIn(ks, p)
           /\ pc' = "entry"
           /\ UNCHANGED <<calls, KS, KEY1, KEY2, RC, ks>>

Next == Routine \/ Use \/ \E p \in KeyAddr : Call(p)

Spec == Init /\ [][Next]_vars

-----------------------------------------------------------------------------
(* Properties                                                              *)

TypeOK == /\ pc \in {"entry", "dr", "half", "ret", "returned", "idle"}
          /\ calls \in 0..6
          /\ KS \in 0..224 /\ KEY \in KeyAddr
          /\ KEY1 \in Reg /\ KEY2 \in Reg /\ RC \in Reg
          /\ key \in Key
          /\ ks \in [Addr -> Byte]

\* Words of the schedule in memory, as far as this call has come.
Written == CASE pc \in {"entry", "idle"} -> 0
             [] pc = "dr"    -> 8 * calls + 8
             [] pc = "half"  -> 8 * calls + 12
             [] OTHER        -> 60

Schedule == INSTANCE KeySchedule WITH n <- Written, Keys <- Key

\* Each word written so far is the word of the reference schedule of what was at
\* KEY when the call began, wherever the stores fall on it: both halves are read
\* before the first, and the round constant has been shifted as often as the
\* schedule asks.
ScheduleCorrect == Schedule!IsSchedule(key, ks, Written)

\* Every step extends the schedule of AES-256 in order and in place, the half
\* round at the end included, and the last store ends with byte 239 of 240.
ImplementsSchedule == Schedule!Spec
=============================================================================
