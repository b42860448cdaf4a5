----------------------------- MODULE MCK32b32 -----------------------------
(***************************************************************************)
(* K32b32 for TLC: the schedules of two keys, and calls with input and     *)
(* output apart, in one place, and overlapping either way.                 *)
(***************************************************************************)
EXTENDS K32b32, MCAes, Sequences

KS == INSTANCE KeySchedule
        WITH Rcon <- MCRcon, Keys <- MCKeys, NumWords <- 120,
             key <- 0, ks <- mem, n <- 0

\* The bytes of the first m words of the schedule, as KeySchedule makes them.
TestWords[m \in 8..120] ==
  IF m = 8 THEN [a \in 1..32 |-> TestKey[a - 1]]
  ELSE LET s == TestWords[m - 1]
           at0 == [a \in 0..(4 * m - 5) |-> s[a + 1]]
       IN  s \o [b \in 1..4 |-> KS!ScheduleByte(TestKey, at0, m - 1, b - 1)]

TestSchedule == LET s == TestWords[120] IN [a \in 0..479 |-> s[a + 1]]

\* Sixteen bytes on either side of 128, which hold the counter blocks 0 to 3
\* of the zero nonce, as in test_rijn256ctr.c, or a byte of each value.
MCAddr == 0..159
MCMems ==
  {[a \in MCAddr |->
      CASE a \notin 16..143 -> Hex(a)
        [] (a - 16) % 32 = 24 -> Hex((a - 16) \div 32)
        [] OTHER -> Zero],
   [a \in MCAddr |-> Hex(255 - a)]}

\* In place, overlapping by a register on either side, and by all but one.
Places == {<<16, 16>>, <<16, 32>>, <<16, 0>>, <<0, 32>>}

MCArgs ==
  LET ke == TestSchedule
  IN  {[Ke |-> ke, src |-> p[1], dst |-> p[2]] : p \in Places}

\* How each of the first four blocks begins that ctr_testgen.py prints.
Keystream ==
  <<<<50, 241, 11, 225, 115, 154, 140, 78>>, <<43, 39, 17, 124, 57, 237, 118, 171>>,
    <<232, 251, 250, 144, 80, 12, 77, 171>>, <<195, 140, 54, 44, 216, 212, 12, 186>>>>

\* From the counter blocks of the test the routine makes the keystream that
\* the Python test generator prints, in the order of the counters.
KnownAnswer ==
  pc = "returned" /\ arg.src = 16 /\ arg.dst = 16 /\ mem[0] = Zero =>
    \A b \in Block, n \in 0..7 :
      mem[16 + 32 * b + n] = Hex(Keystream[b + 1][n + 1])
=============================================================================
