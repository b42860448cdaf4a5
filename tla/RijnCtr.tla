------------------------------ MODULE RijnCtr ------------------------------
(***************************************************************************)
(* Nk8Nw8/rijn_ctr.c, rijndael256_ctr_xor and rijndael256_ctr_stream, and  *)
(* the same functions under their SUPERCOP names in                        *)
(* crypto_stream/rijn256ctr/gil/stream.c.  The cipher is a parameter: the  *)
(* driver hands it a schedule and four counter blocks and xors what comes  *)
(* back.  Callers call again and again over one memory, in which input and *)
(* output may be the same place.                                           *)
(*                                                                         *)
(* mem0 and spent are history: the memory when the current call began, and *)
(* the counter blocks it has had enciphered.                               *)
(***************************************************************************)
EXTENDS Naturals, Bytes

CONSTANTS
  BlockBytes,   \* 32 in the code
  Lanes,        \* 4 in the code: blocks enciphered at a time
  CtrMod,       \* 2^64 in the code: one lane of the vector of counters
  MemSize,      \* bytes of the caller's memory, from a vector boundary on
  Keys, Nonces, \* what callers pass for k and _n
  ZeroNonce,    \* the nonce of all zero bytes
  NoKey,        \* what the array ks is when it is all zero
  E,            \* the cipher: E[<<schedule, nonce, counter>>][byte]
  InitMem,      \* the memory callers start from
  Requests,     \* what callers ask for
  MaxCalls      \* bound on the number of calls

Chunk == Lanes * BlockBytes

Request == [fn : {"xor", "stream"}, out : Nat, in : Nat, len : Nat,
            k : Keys, n : Nonces]

\* Output and input are in memory.  They may be one place or two, and output
\* may trail input by whole vectors: a chunk is read before it is written.
Admissible(q) ==
  /\ q.out + q.len <= MemSize
  /\ q.fn = "xor" =>
       /\ q.in + q.len <= MemSize
       /\ \/ q.out <= q.in /\ (q.in - q.out) % Chunk = 0
          \/ q.out + q.len <= q.in
          \/ q.in + q.len <= q.out
  /\ (q.len \div Chunk + 1) * Lanes <= CtrMod

ASSUME SizeAssumption ==
  /\ BlockBytes \in Nat \ {0} /\ Lanes \in Nat \ {0} /\ CtrMod \in Nat \ {0}
  /\ MemSize \in Nat /\ MaxCalls \in Nat
ASSUME KeyAssumption == NoKey \notin Keys /\ ZeroNonce \in Nonces
ASSUME CipherAssumption ==
  E \in [(Keys \cup {NoKey}) \X Nonces \X (0..(CtrMod - 1))
            -> [0..(BlockBytes - 1) -> Byte]]
ASSUME MemAssumption == InitMem \in [0..(MemSize - 1) -> Byte]
ASSUME RequestAssumption ==
  Requests \subseteq Request /\ \A q \in Requests : Admissible(q)

VARIABLES
  pc,           \* where the call is
  mem,          \* the caller's memory
  req,          \* the arguments of the current call
  ks,           \* the array ks on the stack: whose schedule it holds
  nc,           \* the four counter blocks, on the stack too
  nblocks,      \* chunks left for the vector loop
  at,           \* outv - out, and inv - in, in bytes
  i,            \* index of the byte loop
  calls,        \* calls made
  mem0, spent   \* history

vars == <<pc, mem, req, ks, nc, nblocks, at, i, calls, mem0, spent>>

-----------------------------------------------------------------------------
(* Operations                                                              *)

Lane == 0..(Lanes - 1)
Addr == 0..(MemSize - 1)
ZeroNc == [l \in Lane |-> [n |-> ZeroNonce, c |-> 0]]

\* Byte j of the buffer that Rijndael_k32b32_encrypt_x4 fills.
encrypt_x4(s, v, j) ==
  LET b == v[j \div BlockBytes] IN E[<<s, b.n, b.c>>][j % BlockBytes]

increment_ByOne(v) ==
  [l \in Lane |-> [n |-> v[l].n, c |-> (v[l].c + 1) % CtrMod]]

\* {0, 0, 0, 4}, four times: the nonce is in lanes to which 0 is added.
increment(v) ==
  [l \in Lane |-> [n |-> v[l].n, c |-> (v[l].c + Lanes) % CtrMod]]

\* What the call reads at offset x: *inv and inb[i], or no input at all.
input(x) == IF req.fn = "xor" THEN mem[req.in + x] ELSE Zero

done == (req.len \div Chunk) * Chunk
rest == req.len - done

Enciphered == {<<nc[l].n, nc[l].c>> : l \in Lane}

\* Vectors are accessed at multiples of their size.
Aligned == /\ req.out % Chunk = 0
           /\ req.fn = "xor" => req.in % Chunk = 0

\* n bytes of dst set to c; zeroed is what dst is when all its bytes are zero.
memset(dst, zeroed, c, n) == IF n # 0 /\ c = 0 THEN zeroed ELSE dst

\* The macro: memset((DST), (DSTLEN), (VAL)).
memset_s(dst, zeroed, dstlen, val, oplen) == memset(dst, zeroed, dstlen, val)

-----------------------------------------------------------------------------
Init == /\ pc = "idle"
        /\ mem = InitMem /\ mem0 = InitMem
        /\ req \in Requests
        /\ ks = NoKey /\ nc = ZeroNc
        /\ nblocks = 0 /\ at = 0 /\ i = 0 /\ calls = 0
        /\ spent = {}

Call(q) == /\ pc = "idle" /\ calls < MaxCalls
           /\ req' = q
           /\ mem0' = mem
           /\ spent' = {}
           /\ calls' = calls + 1
           /\ at' = 0 /\ i' = 0 /\ nblocks' = 0
           /\ pc' = "entry"
           /\ UNCHANGED <<mem, ks, nc>>

\* if (oplen == 0) return 0.
ReturnEmpty == /\ pc = "entry" /\ req.len = 0
               /\ pc' = "idle"
               /\ UNCHANGED <<mem, req, ks, nc, nblocks, at, i, calls, mem0, spent>>

Setup_OneCounter ==
  /\ pc = "entry" /\ req.len # 0
  /\ nc' = [l \in Lane |-> [n |-> req.n, c |-> 0]]
  /\ ks' = req.k
  /\ nblocks' = IF req.len >= Chunk THEN req.len \div Chunk ELSE 0
  /\ pc' = IF req.len >= Chunk THEN "full" ELSE "rest"
  /\ UNCHANGED <<mem, req, at, i, calls, mem0, spent>>

\* Four counter blocks, and the schedule expanded into a zeroed array.
Setup == /\ pc = "entry" /\ req.len # 0
         /\ nc' = [l \in Lane |-> [n |-> req.n, c |-> l]]
         /\ ks' = req.k
         /\ nblocks' = IF req.len >= Chunk THEN req.len \div Chunk ELSE 0
         /\ pc' = IF req.len >= Chunk THEN "full" ELSE "rest"
         /\ UNCHANGED <<mem, req, at, i, calls, mem0, spent>>

\* One round of the loop of _full_xor or _full_stream.
FullChunk ==
  /\ pc = "full" /\ nblocks # 0
  /\ mem' = [a \in Addr |->
               IF a \in (req.out + at)..(req.out + at + Chunk - 1)
               THEN input(a - req.out) (+) encrypt_x4(ks, nc, a - req.out - at)
               ELSE mem[a]]
  /\ spent' = spent \cup Enciphered
  /\ at' = at + Chunk
  /\ nblocks' = nblocks - 1
  /\ nc' = increment(nc)
  /\ UNCHANGED <<pc, req, ks, i, calls, mem0>>

\* A vector that is not at a multiple of its size is undefined behaviour: the
\* access may be done all the same, or trap.
Trap == /\ pc = "full" /\ nblocks # 0 /\ ~Aligned
        /\ pc' = "trapped"
        /\ UNCHANGED <<mem, req, ks, nc, nblocks, at, i, calls, mem0, spent>>

FullEnd == /\ pc = "full" /\ nblocks = 0
           /\ pc' = "rest"
           /\ UNCHANGED <<mem, req, ks, nc, nblocks, at, i, calls, mem0, spent>>

\* Any remaining bytes: one more buffer of keystream.
Partial == /\ pc = "rest" /\ rest # 0
           /\ spent' = spent \cup Enciphered
           /\ i' = 0
           /\ pc' = "bytes"
           /\ UNCHANGED <<mem, req, ks, nc, nblocks, at, calls, mem0>>

PartialByte_WholeBuffer ==
  /\ pc = "bytes" /\ i < Chunk
  /\ mem' = [mem EXCEPT ![req.out + done + i] =
               input(done + i) (+) encrypt_x4(ks, nc, i)]
  /\ i' = i + 1
  /\ UNCHANGED <<pc, req, ks, nc, nblocks, at, calls, mem0, spent>>

PartialByte_FromStart ==
  /\ pc = "bytes" /\ i < rest
  /\ mem' = [mem EXCEPT ![req.out + i] =
               input(done + i) (+) encrypt_x4(ks, nc, i)]
  /\ i' = i + 1
  /\ UNCHANGED <<pc, req, ks, nc, nblocks, at, calls, mem0, spent>>

PartialByte_SameByte ==
  /\ pc = "bytes" /\ i < rest
  /\ mem' = [mem EXCEPT ![req.out + done + i] =
               input(done + i) (+) encrypt_x4(ks, nc, i)]
  /\ i' = i
  /\ UNCHANGED <<pc, req, ks, nc, nblocks, at, calls, mem0, spent>>

PartialByte ==
  /\ pc = "bytes" /\ i < rest
  /\ mem' = [mem EXCEPT ![req.out + done + i] =
               input(done + i) (+) encrypt_x4(ks, nc, i)]
  /\ i' = i + 1
  /\ UNCHANGED <<pc, req, ks, nc, nblocks, at, calls, mem0, spent>>

\* The two memset_s and the return.
Cleanup == /\ \/ pc = "rest" /\ rest = 0
              \/ pc = "bytes" /\ i = rest
           /\ ks' = memset_s(ks, NoKey, 120 * 4, 0, 120 * 4)
           /\ nc' = memset_s(nc, ZeroNc, Chunk, 0, Chunk)
           /\ pc' = "idle"
           /\ UNCHANGED <<mem, req, nblocks, at, i, calls, mem0, spent>>

Function == \/ ReturnEmpty \/ Setup \/ FullChunk \/ Trap \/ FullEnd
            \/ Partial \/ PartialByte \/ Cleanup

Next == Function \/ \E q \in Requests : Call(q)

\* One thread: a call that can go on does.
Fairness == WF_vars(Function)

Spec == Init /\ [][Next]_vars /\ Fairness

-----------------------------------------------------------------------------
(* Properties                                                              *)

TypeOK == /\ pc \in {"idle", "entry", "full", "rest", "bytes", "trapped"}
          /\ mem \in [Addr -> Byte] /\ mem0 \in [Addr -> Byte]
          /\ req \in Requests
          /\ ks \in Keys \cup {NoKey}
          /\ nc \in [Lane -> [n : Nonces, c : 0..(CtrMod - 1)]]
          /\ nblocks \in Nat /\ at \in 0..MemSize /\ i \in 0..(Chunk - 1)
          /\ calls \in 0..MaxCalls
          /\ spent \subseteq Nonces \X (0..(CtrMod - 1))

\* The abstract stream sees a call when it returns.
Stream == INSTANCE CtrStream
            WITH mem   <- IF pc = "idle" THEN mem ELSE mem0,
                 calls <- IF pc = "idle" THEN calls ELSE calls - 1

\* Bytes of output written so far.
Progress == CASE pc = "entry" -> 0
              [] pc \in {"full", "trapped"} -> at
              [] pc = "rest"  -> done
              [] pc = "bytes" -> done + i
              [] pc = "idle"  -> req.len

\* At every moment of a call the output up to there is what the whole call
\* promises of the memory it began with, and every other byte is as it was:
\* in place or not, at each edge between vectors and bytes, with the input
\* read before the output overwrites it and nothing written past the end.
OutputSoFar ==
  calls > 0 =>
    \A a \in Addr :
      mem[a] = IF a \in req.out..(req.out + Progress - 1)
               THEN Stream!Crypt(mem0, req)[a] ELSE mem0[a]

\* A call that returns has done what the abstract stream does in one step.
ImplementsStream == Stream!Spec

\* No counter block is enciphered twice in a call: the vector loop leaves the
\* counters where the remaining bytes go on.
NoCounterTwice ==
  [][FullChunk \/ Partial => Enciphered \cap spent = {}]_vars

\* A call that expanded a key leaves its schedule and its counters zeroed, as
\* its last two statements before the return read.
ScratchCleared ==
  pc = "idle" /\ calls > 0 /\ req.len # 0 => ks = NoKey /\ nc = ZeroNc

\* Every call returns, unless a misaligned vector access trapped.
CallReturns == pc = "entry" ~> pc \in {"idle", "trapped"}
=============================================================================
