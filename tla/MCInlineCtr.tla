---------------------------- MODULE MCInlineCtr ----------------------------
(***************************************************************************)
(* InlineCtrCorrect for TLC: a memory of 160 bytes, two keys, counters     *)
(* from zero, over a byte boundary and over 2^32, and every length of the  *)
(* program's test with the two beyond it.  MCAes comes first: TLC computes *)
(* constant definitions in this order, and the cipher from its tables.     *)
(***************************************************************************)
EXTENDS MCAes, InlineCtrCorrect

MCKeys2 == {TestKey, ZeroKey}

\* iv of inline_test.c, and two whose last word is near a carry.
Nonce(w) ==
  [i \in 0..15 |-> IF i < 12 THEN Hex(239) ELSE Hex(w[i - 11])]

Near8  == Nonce(<<0, 0, 0, 253>>)
Near32 == Nonce(<<255, 255, 255, 251>>)

MCNonces == {Nonce(<<0, 0, 0, 0>>), Near8, Near32}

MCAddr == 0..239
MCMemSize == 160

MCInitMem == [a \in 0..159 |-> Hex((3 * a + 1) % 256)]

\* The reference for blocks of any length, with the counter as a number: that
\* the two agree is assumed, so that TLC compares them, and tabulates both.
Ref == INSTANCE Reference256

\* TLC evaluates the body of a definition that a constant is replaced by at
\* every use of the constant, and a definition in that body once.
RefSchedules == Ref!Tabled(MCKeys2, LAMBDA k : Ref!Schedule(k, 4))

ASSUME SchedulesAgree ==
  Schedules = [k \in MCKeys2 |-> [a \in Aes!Buffer |->
                 Ref!KeyByte(RefSchedules[k], a \div 16, a % 16)]]

ASSUME CiphersAgree ==
  Cipher = [c \in MCKeys2 \X MCNonces \X Block |->
              Ref!Encrypted(RefSchedules[c[1]], Ref!CounterBlock(c[2], c[3]), 4)]

Lengths == 0..129

Req(o, i, len, k, n) == [out |-> o, in |-> i, len |-> len, k |-> k, n |-> n]

\* In place, for every length; trailing by a byte and by more than a block;
\* apart; and the counters that carry.
MCRequests ==
  {Req(0, 0, len, TestKey, Nonce(<<0, 0, 0, 0>>)) : len \in Lengths}
    \cup {Req(16, 17, len, TestKey, Near32) : len \in {31, 95, 128}}
    \cup {Req(0, 20, 128, ZeroKey, Near8), Req(100, 0, 60, ZeroKey, Near32),
          Req(0, 100, 44, TestKey, Near8)}
=============================================================================
