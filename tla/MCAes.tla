------------------------------- MODULE MCAes -------------------------------
(***************************************************************************)
(* What TLC gives the cipher modules for their constants: the tables of    *)
(* the Python reference, and keys.                                         *)
(***************************************************************************)
EXTENDS Integers, FiniteSets

Tables == INSTANCE RijndaelTables

MCBit  == 0..7
MCSbox == Tables!S
Mul2Table == [b \in SUBSET (0..7) |-> Tables!mul({1}, b)]
MCMul2 == Mul2Table
MCRcon == [i \in 1..14 |-> Tables!rcon[i - 1]]

Char(n) == {i \in 0..7 : (n \div 2^i) % 2 = 1}

\* k32 of test_rijn256ctr.c and ctr_testgen.py.
TestKey ==
  LET k32 == <<1, 17, 2, 34, 3, 51, 4, 68, 85, 5, 102, 6, 119, 7, 136, 8, 9, 153,
               10, 170, 11, 187, 12, 204, 221, 13, 238, 14, 255, 15, 241, 31>>
  IN  [i \in 0..31 |-> Char(k32[i + 1])]

ZeroKey == [i \in 0..31 |-> {}]

MCKeys == {TestKey, ZeroKey, [i \in 0..31 |-> Char((7 * i + 3) % 256)]}
=============================================================================
