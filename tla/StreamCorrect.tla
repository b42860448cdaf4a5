---------------------------- MODULE StreamCorrect ----------------------------
(***************************************************************************)
(* What Stream has to do: step for step it is the driver RijnCtr, whose    *)
(* cipher is Rijndael-256 on the blocks that ctr_testgen.py packs.  And so *)
(* it does for its callers what RijnCtr does, which is the abstract        *)
(* stream.                                                                 *)
(***************************************************************************)
EXTENDS Stream

CONSTANT CtrBits    \* 64 in the code: the bits of a counter that are told apart

-----------------------------------------------------------------------------
(* Keys, nonces and counters in the arrays                                 *)

\* For n up to 64.
TwoTo(n) ==
  LET power[m \in 0..64] == IF m = 0 THEN 1 ELSE 2 * power[m - 1] IN power[n]

\* The number whose one bits among 64 are x, from the top bit down.
Value(x) ==
  LET value[m \in 0..64] ==
        IF m = 0 THEN 0 ELSE 2 * value[m - 1] + (IF 64 - m \in x THEN 1 ELSE 0)
  IN  value[64]

\* The 64 low bits of a number.
Bits(c) ==
  LET half[b \in 0..63] == IF b = 0 THEN c ELSE half[b - 1] \div 2
  IN  {b \in 0..63 : half[b] % 2 = 1}

\* QQQQ(n0, n1, n2, c): the nonce, and the counter as ctr_testgen.py packs it,
\* least significant byte first.
QQQQ(n, c) ==
  LET bits == Bits(c)
  IN  [j \in 0..31 |-> IF j < CRYPTO_NONCEBYTES THEN n[j]
                       ELSE {b \in 0..7 : 8 * (j - CRYPTO_NONCEBYTES) + b \in bits}]

Schedules == Held([k \in Keys |-> Rijndael_k32b32_expandkey(k)])

CtrMod == TwoTo(CtrBits)

\* The keys, and the array ks when it is all zero.
Cipher ==
  Held([c \in (Keys \cup {Zeros(480)}) \X Nonces \X (0..(CtrMod - 1)) |->
          Held(Kernel!Encrypted(IF c[1] \in Keys THEN Schedules[c[1]] ELSE c[1],
                                Held(QQQQ(c[2], c[3]))))])

\* The key whose schedule the array holds, or the array if it holds none.
KeyOf(s) == IF \E k \in Keys : s = Schedules[k]
            THEN CHOOSE k \in Keys : s = Schedules[k] ELSE s

\* Nonce and counter of a lane of the vector.
LaneOf(v, l) == [n |-> [j \in 0..(CRYPTO_NONCEBYTES - 1) |-> v[32 * l + j]],
                 c |-> Value(word(v, 4 * l + 3))]

\* Vectors of keystream the call has had made.
Chunks == CASE pc = "entry" -> 0
            [] pc \in {"full", "rest", "trapped"} -> at \div 128
            [] pc = "bytes" -> at \div 128 + 1
            [] pc = "idle"  -> IF calls = 0 THEN 0 ELSE (req.len + 127) \div 128

Driver == INSTANCE RijnCtr
            WITH BlockBytes <- 32, Lanes <- 4,
                 ZeroNonce <- Zeros(CRYPTO_NONCEBYTES), NoKey <- Zeros(480), E <- Cipher,
                 ks <- KeyOf(ks), nc <- [l \in 0..3 |-> LaneOf(nc, l)], i <- off,
                 spent <- {<<req.n, c>> : c \in 0..(4 * Chunks - 1)}

ASSUME CounterAssumption == CtrBits \in 2..64
ASSUME CallerAssumption ==
  /\ Zeros(CRYPTO_NONCEBYTES) \in Nonces
  /\ Requests # {} /\ Requests \subseteq Driver!Request
  /\ \A q \in Requests : Driver!Admissible(q)

-----------------------------------------------------------------------------
(* Properties                                                              *)

\* Types; the vectors done and left are within the request.
TypeOK == /\ pc \in {"idle", "entry", "full", "rest", "bytes", "trapped"}
          /\ req \in Requests
          /\ mem \in [Addr -> Byte] /\ mem0 \in [Addr -> Byte]
          /\ ks \in [0..479 -> Byte]
          /\ nc \in [Vector -> Byte] /\ buf \in [Vector -> Byte]
          /\ nblocks \in Nat /\ at \in 0..MemSize /\ off \in Vector
          /\ calls \in 0..MaxCalls
          /\ pc = "full" => at + 128 * nblocks <= req.len

\* Every step of the code on bytes is the step of RijnCtr of the same name on
\* keys, nonces and counters: the schedule in the array is the reference's for
\* the key, the vector holds its nonce and the next four counters, and memory
\* changes as with the reference's cipher.
ImplementsDriver == Driver!Init /\ [][Driver!Next]_(Driver!vars)

\* At every moment of a call on bytes the output up to there is input xor the
\* Rijndael-256 encryptions of the nonce with the counters 0, 1, 2, ... as 64
\* bits, and every other byte of memory is as it was.
KeystreamSoFar == Driver!OutputSoFar

\* A call on bytes that returns has done one step of the abstract stream with
\* that cipher.
ImplementsStream == Driver!ImplementsStream
=============================================================================
