------------------------------- MODULE K32ks -------------------------------
(***************************************************************************)
(* Nk8Nw8/rijn_k32ks.s, and its .gnu.S translation in the SUPERCOP tree:   *)
(* the other Rijndael_k32b32_expandkey, with AESKEYGENASSIST and a helper  *)
(* called once a round.  The pointer is one round ahead of the one in      *)
(* Expand2, and the shifts are byte shuffles through a mask.  xmm2 and     *)
(* xmm4 are written before they are read in each half.                     *)
(***************************************************************************)
EXTENDS ExpandKey

\* The arguments of the fourteen k32_expand.
ExpandConst == [i \in 1..14 |->
                  <<Hex(1), Hex(2), Hex(4), Hex(8), Hex(16), Hex(32), Hex(64),
                    Hex(128), Hex(27), Hex(54), Hex(108), Hex(216), Hex(171),
                    Hex(77)>>[i]]

ASSUME ExpandConstAssumption == ExpandConst = Rcon

-----------------------------------------------------------------------------
shuffle_mask_KeepsFirst == [i \in Lane |-> IF i < 4 THEN i ELSE i - 4]

\* _Rijndael_k32_shuffle_mask: zero, then the three lower words.
shuffle_mask == [i \in Lane |-> IF i < 4 THEN 255 ELSE i - 4]

\* The shuffles and xors of one half of _Rijndael_k32_expand_one.
mix(k, xmm2) ==
  LET m1 == VPSHUFB(k, shuffle_mask)
      k1 == VPXOR(k, m1)
      m2 == VPSHUFB(m1, shuffle_mask)
      k2 == VPXOR(k1, m2)
      m3 == VPSHUFB(m2, shuffle_mask)
      k3 == VPXOR(k2, m3)
  IN  VPXOR(k3, xmm2)

\* vzeroall, loadk32.
loadk32 == /\ pc = "entry"
           /\ KEY1' = Load(key, 0)
           /\ KEY2' = Load(key, 16)
           /\ ks' = Store(Store(ks, 0, KEY1'), 16, KEY2')
           /\ KS' = 32
           /\ c' = 1
           /\ pc' = "do"
           /\ UNCHANGED key

\* k32_expand, up to the store of KEY1.
expand_key1 == /\ pc = "do"
               /\ KEY1' = mix(KEY1,
                              VPSHUFD(VAESKEYGENASSIST(KEY2, ExpandConst[c]), 3))
               /\ ks' = Store(ks, KS, KEY1')
               /\ pc' = "half"
               /\ UNCHANGED <<c, KS, KEY2, key>>

expand_key2_AdvanceTwice ==
  /\ pc = "half"
  /\ KEY2' = mix(KEY2, VPSHUFD(VAESKEYGENASSIST(KEY1, Zero), 2))
  /\ ks' = Store(ks, KS + 16, KEY2')
  /\ KS' = KS + 64
  /\ c' = c + 1
  /\ pc' = IF c = 14 THEN "ret" ELSE "do"
  /\ UNCHANGED <<KEY1, key>>

\* The rest of _Rijndael_k32_expand_one, and its return.
expand_key2 == /\ pc = "half"
               /\ KEY2' = mix(KEY2, VPSHUFD(VAESKEYGENASSIST(KEY1, Zero), 2))
               /\ ks' = Store(ks, KS + 16, KEY2')
               /\ KS' = KS + 32
               /\ c' = c + 1
               /\ pc' = IF c = 14 THEN "ret" ELSE "do"
               /\ UNCHANGED <<KEY1, key>>

\* vzeroall, ret; the pointers are left as they are.
return == /\ pc = "ret"
          /\ KEY1' = ZeroReg /\ KEY2' = ZeroReg
          /\ pc' = "returned"
          /\ UNCHANGED <<c, KS, key, ks>>

\* The caller's next call, into the buffer that holds the old schedule.
call == /\ pc = "returned"
        /\ key' \in Keys
        /\ pc' = "entry"
        /\ KS' = 0
        /\ UNCHANGED <<c, KEY1, KEY2, ks>>

K32ksNext == loadk32 \/ expand_key1 \/ expand_key2 \/ return \/ call

K32ksSpec == Init /\ [][K32ksNext]_vars
=============================================================================
