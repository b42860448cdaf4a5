------------------------------- MODULE Stream -------------------------------
(***************************************************************************)
(* crypto_stream/rijn256ctr/gil/stream.c on the bytes it works on: the     *)
(* array ks of 480 bytes, the vector nc of 128, and the keystream that the *)
(* two routines in assembly make of them, which are taken here to do what  *)
(* ScheduleWords and Cipher256 say.  RijnCtr is the same driver with keys, *)
(* nonces and counters as such and any cipher; StreamCorrect shows that    *)
(* this one implements it.                                                 *)
(*                                                                         *)
(* mem0 is history: the memory when the current call began.                *)
(***************************************************************************)
EXTENDS Naturals, Bytes

CONSTANTS
  Sbox, Mul2, Rcon,  \* the tables of the routines
  MemSize,           \* bytes of the caller's memory, from a vector boundary on
  Keys, Nonces,      \* what callers pass for k and _n
  InitMem,           \* the memory callers start from
  Requests,          \* what callers ask for
  MaxCalls           \* bound on the number of calls

CRYPTO_KEYBYTES == 32
CRYPTO_NONCEBYTES == 24

\* sizeof(v16u8): 128 bytes, sixteen words of 64 bits.
Vector == 0..127

ASSUME StreamKeyAssumption ==
  /\ Keys \subseteq [0..(CRYPTO_KEYBYTES - 1) -> Byte]
  /\ Nonces \subseteq [0..(CRYPTO_NONCEBYTES - 1) -> Byte]
\* 0 is not a fixed point of the S-box, so that no schedule is all zero.
ASSUME StreamTableAssumption ==
  /\ Bit = 0..7
  /\ Sbox \in [Byte -> Byte] /\ Mul2 \in [Byte -> Byte] /\ Rcon \in [1..14 -> Byte]
  /\ Sbox[Zero] # Zero
ASSUME StreamMemAssumption ==
  /\ MemSize \in Nat /\ MaxCalls \in Nat
  /\ InitMem \in [0..(MemSize - 1) -> Byte]

VARIABLES
  pc,           \* where the call is
  mem,          \* the caller's memory
  req,          \* the arguments of the current call
  ks, nc,       \* the arrays on the stack
  buf,          \* the keystream of the remaining bytes
  nblocks,      \* vectors left for the loop
  at,           \* outv - out, and inv - in, in bytes
  off,          \* index of the byte loop
  calls,        \* calls made
  mem0          \* history

vars == <<pc, mem, req, ks, nc, buf, nblocks, at, off, calls, mem0>>

-----------------------------------------------------------------------------
(* The routines in assembly                                                *)

Words == INSTANCE ScheduleWords

Kernel == INSTANCE Cipher256

Rijndael_k32b32_expandkey(k) == Words!ScheduleOf(k, 120)

\* Four blocks, each on its own.
Rijndael_k32b32_encrypt_x4(ke, v) ==
  LET out == [b \in 0..3 |-> Held(Kernel!Encrypted(ke, Held(Kernel!BlockAt(v, 0, b))))]
  IN  Held([j \in Vector |-> Held(out)[j \div 32][j % 32]])

-----------------------------------------------------------------------------
(* Operations                                                              *)

Addr == 0..(MemSize - 1)

Zeros(n) == [j \in 0..(n - 1) |-> Zero]

\* Word q of a vector as the set of its one bits: x86 has the least
\* significant byte first.
word(v, q) == {b \in 0..63 : (b % 8) \in v[8 * q + b \div 8]}

\* Addition in 64 bits: a carry comes into bit b from a place below it where
\* both have a one, through places where either has; out of the last it is lost.
carry(x, y, b) ==
  \E j \in 0..(b - 1) : /\ j \in x /\ j \in y
                       /\ \A i \in (j + 1)..(b - 1) : i \in x \/ i \in y

plus(x, y) == {b \in 0..63 : (b \in x) # ((b \in y) # carry(x, y, b))}

\* {0, 0, 0, 4}, four times.
increment == [q \in 0..15 |-> IF q % 4 = 3 THEN {2} ELSE {}]

added_EveryWord(v) ==
  LET sums == Held([q \in 0..15 |-> plus(word(v, q), {2})])
  IN  Held([j \in Vector |-> {b \in 0..7 : 8 * (j % 8) + b \in sums[j \div 8]}])

\* *nc + increment.
added(v) ==
  LET sums == Held([q \in 0..15 |-> plus(word(v, q), increment[q])])
  IN  Held([j \in Vector |-> {b \in 0..7 : 8 * (j % 8) + b \in sums[j \div 8]}])

\* The numbers from 0 to 3.
small(c) == {b \in {0, 1} : (c \div (b + 1)) % 2 = 1}

counters_BigEndian(n) ==
  [j \in Vector |-> CASE j % 32 < 24 -> n[j % 32]
                      [] j % 32 = 31 -> small(j \div 32)
                      [] OTHER -> Zero]

\* { n[0], n[1], n[2], c }, for c from 0 to 3.
counters(n) ==
  [j \in Vector |-> CASE j % 32 < 24 -> n[j % 32]
                      [] j % 32 = 24 -> small(j \div 32)
                      [] OTHER -> Zero]

done == (req.len \div 128) * 128
rest == req.len - done

\* n bytes of dst set to byte, and the macro, whose arguments are the value
\* and the length in that order.
memset(dst, byte, n) == [j \in DOMAIN dst |-> IF j < n THEN byte ELSE dst[j]]
memset_s(dst, dstlen, val, oplen) ==
  memset(dst, {b \in 0..7 : (dstlen \div 2^b) % 2 = 1}, val)

-----------------------------------------------------------------------------
Init == /\ pc = "idle"
        /\ mem = InitMem /\ mem0 = InitMem
        /\ req = CHOOSE q \in Requests : TRUE    \* none yet
        /\ ks = Zeros(480) /\ nc = Zeros(128) /\ buf = Zeros(128)
        /\ nblocks = 0 /\ at = 0 /\ off = 0 /\ calls = 0

Call(q) == /\ pc = "idle" /\ calls < MaxCalls
           /\ req' = q
           /\ mem0' = mem
           /\ calls' = calls + 1
           /\ at' = 0 /\ off' = 0 /\ nblocks' = 0
           /\ pc' = "entry"
           /\ UNCHANGED <<mem, ks, nc, buf>>

ReturnEmpty == /\ pc = "entry" /\ req.len = 0
               /\ pc' = "idle"
               /\ UNCHANGED <<mem, req, ks, nc, buf, nblocks, at, off, calls, mem0>>

Setup_RoundsUp == /\ pc = "entry" /\ req.len # 0
                  /\ nc' = counters(req.n)
                  /\ ks' = Rijndael_k32b32_expandkey(req.k)
                  /\ nblocks' = (req.len + 127) \div 128
                  /\ pc' = IF req.len >= 128 THEN "full" ELSE "rest"
                  /\ UNCHANGED <<mem, req, buf, at, off, calls, mem0>>

Setup == /\ pc = "entry" /\ req.len # 0
         /\ nc' = counters(req.n)
         /\ ks' = Rijndael_k32b32_expandkey(req.k)
         /\ nblocks' = req.len \div 128
         /\ pc' = IF req.len >= 128 THEN "full" ELSE "rest"
         /\ UNCHANGED <<mem, req, buf, at, off, calls, mem0>>

\* One round of a vector loop; text is what there is to xor at an offset.
NextVector(text(_)) ==
  /\ pc = "full" /\ nblocks # 0
  /\ \E b \in {Rijndael_k32b32_encrypt_x4(ks, nc)} :
       mem' = [a \in Addr |->
                 IF a \in (req.out + at)..(req.out + at + 127)
                 THEN text(a - req.out) (+) b[a - req.out - at]
                 ELSE mem[a]]
  /\ at' = at + 128
  /\ nblocks' = nblocks - 1
  /\ nc' = added(nc)
  /\ UNCHANGED <<pc, req, ks, buf, off, calls, mem0>>

_full_xor    == NextVector(LAMBDA x : mem[req.in + x])
_full_stream == NextVector(LAMBDA x : Zero)

\* A vector off its boundary: the access may be done all the same, or trap.
Trap == /\ pc = "full" /\ nblocks # 0
        /\ req.out % 128 # 0 \/ (req.fn = "xor" /\ req.in % 128 # 0)
        /\ pc' = "trapped"
        /\ UNCHANGED <<mem, req, ks, nc, buf, nblocks, at, off, calls, mem0>>

FullEnd == /\ pc = "full" /\ nblocks = 0
           /\ pc' = "rest"
           /\ UNCHANGED <<mem, req, ks, nc, buf, nblocks, at, off, calls, mem0>>

\* Any remaining bytes: a buffer of keystream, and then byte by byte.
Partial == /\ pc = "rest" /\ rest # 0
           /\ buf' = Rijndael_k32b32_encrypt_x4(ks, nc)
           /\ off' = 0
           /\ pc' = "bytes"
           /\ UNCHANGED <<mem, req, ks, nc, nblocks, at, calls, mem0>>

NextByte(text(_)) ==
  /\ pc = "bytes" /\ off < rest
  /\ mem' = [mem EXCEPT ![req.out + done + off] = text(done + off) (+) buf[off]]
  /\ off' = off + 1
  /\ UNCHANGED <<pc, req, ks, nc, buf, nblocks, at, calls, mem0>>

_partial_xor    == Partial \/ NextByte(LAMBDA x : mem[req.in + x])
_partial_stream == Partial \/ NextByte(LAMBDA x : Zero)

\* The two memset_s and the return.
Cleanup == /\ \/ pc = "rest" /\ rest = 0
              \/ pc = "bytes" /\ off = rest
           /\ ks' = memset_s(ks, 480, 0, 480)
           /\ nc' = memset_s(nc, 128, 0, 128)
           /\ pc' = "idle"
           /\ UNCHANGED <<mem, req, buf, nblocks, at, off, calls, mem0>>

crypto_stream_rijn256ctr_gil_xor ==
  /\ req.fn = "xor"
  /\ \/ ReturnEmpty \/ Setup \/ _full_xor \/ Trap \/ FullEnd \/ _partial_xor \/ Cleanup

crypto_stream_rijn256ctr_gil ==
  /\ req.fn = "stream"
  /\ \/ ReturnEmpty \/ Setup \/ _full_stream \/ Trap \/ FullEnd \/ _partial_stream \/ Cleanup

Stopped == /\ pc = "trapped" \/ (pc = "idle" /\ calls = MaxCalls)
           /\ UNCHANGED vars

Next == \/ crypto_stream_rijn256ctr_gil_xor
        \/ crypto_stream_rijn256ctr_gil
        \/ \E q \in Requests : Call(q)
        \/ Stopped

Spec == Init /\ [][Next]_vars
=============================================================================
