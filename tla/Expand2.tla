------------------------------ MODULE Expand2 ------------------------------
(***************************************************************************)
(* Nk8Nw8/expand2.s: Rijndael_k32b32_expandkey, the key expansion the      *)
(* build links with the counter mode driver.  The two halves of the last   *)
(* eight words stay in KEY1 and KEY2; each of the fourteen unrolled `do'   *)
(* makes four words from KEY1 and then four from KEY2.  T0, T1 and RC are  *)
(* written before they are read in each half and are local to an action.   *)
(***************************************************************************)
EXTENDS ExpandKey

\* The arguments of the fourteen `do'.
DoConst == [r \in 1..14 |->
              <<Hex(1), Hex(2), Hex(4), Hex(8), Hex(16), Hex(32), Hex(64),
                Hex(128), Hex(27), Hex(54), Hex(108), Hex(216), Hex(171),
                Hex(77)>>[r]]

ASSUME ConstAssumption == DoConst = Rcon

-----------------------------------------------------------------------------
(* Operations                                                              *)

\* __shuf_2: bytes 13, 14, 15, 12 to every doubleword.
SHUF_2 == [i \in Lane |-> 12 + ((i + 1) % 4)]

\* PSHUFD $0 of the literal: the constant byte at the foot of each word.
BroadcastRC(rc) == [i \in Lane |-> IF i % 4 = 0 THEN rc ELSE Zero]

linearmix_OneShiftShort(r, T0) ==
  LET T1a == VPSLLDQ4(r)
      ra  == VPXOR(T1a, r)
      T1b == VPSLLDQ4(T1a)
      rb  == VPXOR(T1b, ra)
  IN  VPXOR(T0, rb)

linearmix(r, T0) ==
  LET T1a == VPSLLDQ4(r)
      ra  == VPXOR(T1a, r)
      T1b == VPSLLDQ4(T1a)
      rb  == VPXOR(T1b, ra)
      T1c == VPSLLDQ4(T1b)
      rc  == VPXOR(T1c, rb)
  IN  VPXOR(T0, rc)

RotSub(r, rc) == VAESENCLAST(VPSHUFB(r, SHUF_2), BroadcastRC(rc))

SubLast(r) == VAESENCLAST(VPSHUFD(r, 3), ZeroReg)

-----------------------------------------------------------------------------
\* Load the key and make it the first eight words.
LoadKey == /\ pc = "entry"
           /\ KEY1' = Load(key, 0)
           /\ KEY2' = Load(key, 16)
           /\ ks' = Store(Store(ks, 0, KEY1'), 16, KEY2')
           /\ pc' = "do"
           /\ UNCHANGED <<c, KS, key>>

\* First half of `do const': four words from KEY1.
DoKey1 == /\ pc = "do"
          /\ KEY1' = linearmix(KEY1, RotSub(KEY2, DoConst[c]))
          /\ ks' = Store(ks, KS + 32, KEY1')
          /\ pc' = "half"
          /\ UNCHANGED <<c, KS, KEY2, key>>

\* Second half: four words from KEY2, and the pointer moves on.
DoKey2 == /\ pc = "half"
          /\ KEY2' = linearmix(KEY2, SubLast(KEY1))
          /\ ks' = Store(ks, KS + 48, KEY2')
          /\ KS' = KS + 32
          /\ c' = c + 1
          /\ pc' = IF c = 14 THEN "ret" ELSE "do"
          /\ UNCHANGED <<KEY1, key>>

\* VZEROALL, the pointers cleared, RET.
Return == /\ pc = "ret"
          /\ KEY1' = ZeroReg /\ KEY2' = ZeroReg
          /\ KS' = 0
          /\ pc' = "returned"
          /\ UNCHANGED <<c, key, ks>>

\* The caller's next call, into the buffer that holds the old schedule.
Call == /\ pc = "returned"
        /\ key' \in Keys
        /\ pc' = "entry"
        /\ c' = 1
        /\ UNCHANGED <<KS, KEY1, KEY2, ks>>

Next == LoadKey \/ DoKey1 \/ DoKey2 \/ Return \/ Call

Spec == Init /\ [][Next]_vars
=============================================================================
