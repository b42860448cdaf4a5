--------------------------- MODULE MCAes256Expand ---------------------------
(***************************************************************************)
(* ExpansionTest for TLC: the key of mini.c followed by two different runs *)
(* of sixteen bytes.  And Aes256Expand by itself, on keys that overlap the *)
(* buffer from either side.                                                *)
(***************************************************************************)
EXTENDS ExpansionTest, MCAes

\* test_k is apart from the buffer.
MCAddr == (0 - 32)..287
MCTestAt == 256
MCN == 2

\* Little-endian test_k, and what may follow it.
TestK(f(_)) ==
  LET w == <<68, 51, 34, 17, 64, 48, 32, 16, 13, 12, 11, 10, 32, 16, 240, 224>>
  IN  [b \in 0..31 |-> IF b < 16 THEN Hex(w[b + 1]) ELSE Hex(f(b))]

MCTestKeys == {TestK(LAMBDA b : 0), TestK(LAMBDA b : (11 * b + 5) % 256)}

MCPastKeys == {TestKey}

\* A call outside the program, which is at its end.
OverlapInit ==
  /\ \E p \in {-32, -20, -16, -8, -1, 0, 8, 16, 100, 176, 208, 230} :
       Start([a \in Addr |-> Char((a + 64) % 256)], p)
  /\ stmt = 10 /\ turn = 0
  /\ rd_key = [a \in Buffer |-> Zero]
  /\ verdict = "none"

MCSpec == (TestInit \/ OverlapInit) /\ [][TestNext]_allVars
=============================================================================
