------------------------------ MODULE MCStream ------------------------------
(***************************************************************************)
(* StreamCorrect for TLC: two and a half vectors of memory, the key of the *)
(* test program, its nonce and another.  The schedule and the cipher are   *)
(* compared with those of the Python reference.                            *)
(***************************************************************************)
EXTENDS MCAes, StreamCorrect, TLC

Reference == INSTANCE Reference256

MCKeys1 == {TestKey}

ZeroNonce == [j \in 0..23 |-> {}]

OtherNonce == [j \in 0..23 |-> Char(255 - 9 * j)]

MCNonces == {ZeroNonce, OtherNonce}

MCMemSize == 320

MCInitMem == [a \in 0..319 |-> Char((5 * a + 1) % 256)]

Req(fn, o, i, len, n) ==
  [fn |-> fn, out |-> o, in |-> i, len |-> len, k |-> TestKey, n |-> n]

\* In place on both sides of each number of vectors, with a tail too; trailing
\* by a vector; without input; and off the boundary of vectors.
MCRequests ==
  {Req("xor", 0, 0, len, ZeroNonce) : len \in {0, 1, 127, 128, 129, 256}}
    \cup {Req("stream", 0, 0, len, OtherNonce) : len \in {0, 31, 128, 259}}
    \cup {Req("xor", 0, 128, 150, OtherNonce), Req("xor", 5, 5, 130, OtherNonce),
          Req("stream", 33, 0, 287, ZeroNonce)}

ReferenceKey(k) == Reference!Schedule(k, 8)

\* The schedule in the array is the reference's.
ASSUME SchedulesAgree ==
  \A k \in Keys :
    LET ke == ReferenceKey(k)
    IN  \A j \in 0..479 : Schedules[k][j] = Reference!KeyByte(ke, j \div 32, j % 32)

\* And so are the blocks, counter by counter.
ASSUME CiphersAgree ==
  \A k \in Keys :
    LET ke == ReferenceKey(k)
    IN  \A n \in Nonces, c \in 0..(CtrMod - 1) :
          Cipher[<<k, n, c>>] = Reference!Encrypted(ke, Reference!QQQQ(n, c), 8)

\* How some of the blocks begin that ctr_testgen.py prints, by their counter.
Printed ==
  (0 :> <<50, 241, 11, 225, 115, 154, 140, 78>>)
    @@ (3 :> <<195, 140, 54, 44, 216, 212, 12, 186>>)
    @@ (4 :> <<245, 124, 108, 39, 206, 204, 188, 25>>)
    @@ (7 :> <<112, 220, 23, 204, 158, 187, 94, 50>>)
    @@ (8 :> <<125, 110, 238, 139, 136, 189, 86, 150>>)

\* A call for the keystream of the test's key and nonce leaves what the Python
\* program prints, through two vectors and into the remaining bytes.
KnownAnswer ==
  pc = "idle" /\ calls > 0 /\ req = Req("stream", 33, 0, 287, ZeroNonce) =>
    \A c \in DOMAIN Printed, j \in 0..7 :
      mem[33 + 32 * c + j] = Char(Printed[c][j + 1])
=============================================================================
