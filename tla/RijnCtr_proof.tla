--------------------------- MODULE RijnCtr_proof ---------------------------
(***************************************************************************)
(* Proofs about RijnCtr, for blocks, vectors and memories of any size, any *)
(* cipher and any admissible requests: a call writes what the abstract     *)
(* stream promises and nothing else, and enciphers no counter block twice. *)
(***************************************************************************)
EXTENDS RijnCtr, Integers, TLAPS

-----------------------------------------------------------------------------
(* Arithmetic                                                              *)

LEMMA Division ==
  ASSUME NEW x \in Nat, NEW b \in Nat \ {0}
  PROVE  /\ x \div b \in Nat
         /\ x % b \in 0..(b - 1)
         /\ x = ((x \div b) * b) + (x % b)
<1>1. x \div b \in Int /\ x % b \in 0..(b - 1)
  OBVIOUS
<1>2. x = (b * (x \div b)) + (x % b)
  BY SMTT(30)
<1>3. x \div b >= 0
  OBVIOUS
<1> QED BY <1>1, <1>2, <1>3

LEMMA Quotient ==
  ASSUME NEW b \in Nat \ {0}, NEW p \in Nat, NEW r \in 0..(b - 1)
  PROVE  (p * b + r) \div b = p /\ (p * b + r) % b = r
OBVIOUS

LEMMA NoWrap ==
  ASSUME NEW b \in Nat \ {0}, NEW x \in 0..(b - 1)
  PROVE  x % b = x
OBVIOUS

LEMMA Below ==
  ASSUME NEW b \in Nat \ {0}, NEW p \in Nat, NEW m \in Nat, p < m
  PROVE  p * b + b <= m * b
OBVIOUS

LEMMA ChunkSize ==
  /\ Chunk \in Nat \ {0}
  /\ \A p \in Nat : p * Lanes \in Nat /\ p * Chunk \in Nat
  /\ \A p \in Nat : /\ (p + 1) * Chunk = p * Chunk + Chunk
                    /\ (p + 1) * Lanes = p * Lanes + Lanes
  /\ \A p \in Nat : p * Chunk = (p * Lanes) * BlockBytes
<1>1. Chunk \in Nat /\ Chunk # 0
  BY SizeAssumption DEF Chunk
<1>2. \A p \in Nat : p * Lanes \in Nat /\ p * Chunk \in Nat
  BY <1>1, SizeAssumption
<1>3. \A p \in Nat : /\ (p + 1) * Chunk = p * Chunk + Chunk
                     /\ (p + 1) * Lanes = p * Lanes + Lanes
  BY <1>1, SizeAssumption
<1>4. \A p \in Nat : p * (Lanes * BlockBytes) = (p * Lanes) * BlockBytes
  BY SizeAssumption
<1> QED BY <1>1, <1>2, <1>3, <1>4 DEF Chunk

\* Byte j of chunk p is in lane j \div BlockBytes, block p * Lanes more.
LEMMA LaneOfByte ==
  ASSUME NEW p \in Nat, NEW j \in 0..(Chunk - 1)
  PROVE  /\ j \div BlockBytes \in Lane
         /\ j % BlockBytes \in 0..(BlockBytes - 1)
         /\ (p * Chunk + j) \div BlockBytes = p * Lanes + (j \div BlockBytes)
         /\ (p * Chunk + j) % BlockBytes = j % BlockBytes
<1> DEFINE d == j \div BlockBytes
           r == j % BlockBytes
<1>1. j \in Nat /\ BlockBytes \in Nat \ {0} /\ Lanes \in Nat \ {0}
  BY SizeAssumption, ChunkSize
<1>2. d \in Nat /\ r \in 0..(BlockBytes - 1) /\ j = (d * BlockBytes) + r
  BY <1>1, Division
<1> HIDE DEF d, r
<1>3. d < Lanes
  <2> SUFFICES ASSUME d >= Lanes PROVE FALSE
    BY <1>1, <1>2
  <2>1. d * BlockBytes >= Lanes * BlockBytes
    BY <1>1, <1>2
  <2> QED BY <2>1, <1>1, <1>2 DEF Chunk
<1>4. p * Chunk + j = ((p * Lanes + d) * BlockBytes) + r
  <2>1. p * Lanes \in Nat /\ p * Chunk = (p * Lanes) * BlockBytes
    BY ChunkSize
  <2>2. (p * Lanes + d) * BlockBytes = (p * Lanes) * BlockBytes + d * BlockBytes
    BY <2>1, <1>1, <1>2
  <2>3. (p * Lanes) * BlockBytes \in Nat /\ d * BlockBytes \in Nat
    BY <2>1, <1>1, <1>2
  <2> QED BY <2>1, <2>2, <2>3, <1>2
<1>5. p * Lanes + d \in Nat
  BY ChunkSize, <1>2
<1>6. (p * Chunk + j) \div BlockBytes = p * Lanes + d
      /\ (p * Chunk + j) % BlockBytes = r
  <2> DEFINE e == p * Lanes + d
  <2>1. e \in Nat
    BY <1>5
  <2> HIDE DEF e
  <2>2. (e * BlockBytes + r) \div BlockBytes = e
        /\ (e * BlockBytes + r) % BlockBytes = r
    BY <1>1, <1>2, <2>1, Quotient
  <2> QED BY <1>4, <2>2 DEF e
<1> QED BY <1>1, <1>2, <1>3, <1>6 DEF d, r, Lane

-----------------------------------------------------------------------------
(* The invariant                                                           *)

\* Chunks of the vector loop, and those of them done.
Q == req.len \div Chunk
p == Q - nblocks

\* The counter blocks when m chunks are done.
Counters(m) == [l \in Lane |-> [n |-> req.n, c |-> m * Lanes + l]]

Before(m) == {<<req.n, x>> : x \in 0..(m * Lanes - 1)}

LoopInv ==
  /\ pc # "idle" => calls > 0
  /\ pc = "entry" => at = 0 /\ spent = {}
  /\ pc \in {"full", "rest", "bytes"} =>
       /\ nblocks <= Q
       /\ at = p * Chunk
       /\ ks = req.k
       /\ nc = Counters(p)
  /\ pc \in {"rest", "bytes"} => nblocks = 0
  /\ pc = "bytes" => i <= rest
  /\ pc \in {"full", "rest"} => spent \subseteq Before(p)

IInv == TypeOK /\ LoopInv /\ OutputSoFar

-----------------------------------------------------------------------------
(* What is known of an admissible request                                  *)

LEMMA RequestFacts ==
  ASSUME req \in Requests
  PROVE  /\ req.len \in Nat /\ req.out \in Nat /\ req.in \in Nat
         /\ req.k \in Keys /\ req.n \in Nonces
         /\ Q \in Nat /\ done = Q * Chunk /\ done \in Nat
         /\ rest \in 0..(Chunk - 1) /\ done + rest = req.len
         /\ Admissible(req)
         /\ (Q + 1) * Lanes <= CtrMod
<1>1. req \in Request /\ Admissible(req)
  BY RequestAssumption
<1>2. /\ req.len \in Nat /\ req.out \in Nat /\ req.in \in Nat
      /\ req.k \in Keys /\ req.n \in Nonces
  BY <1>1 DEF Request
<1>3. /\ Q \in Nat /\ req.len % Chunk \in 0..(Chunk - 1)
      /\ req.len = (Q * Chunk) + (req.len % Chunk)
  <2>1. Chunk \in Nat \ {0}
    BY ChunkSize
  <2>2. /\ req.len \div Chunk \in Nat /\ req.len % Chunk \in 0..(Chunk - 1)
        /\ req.len = ((req.len \div Chunk) * Chunk) + (req.len % Chunk)
    BY <1>2, <2>1, Division
  <2> QED BY <2>2 DEF Q
<1>4. Q * Chunk \in Nat
  BY <1>3, ChunkSize
<1>5. done = Q * Chunk
  BY DEF done, Q
<1>6. rest = req.len % Chunk
  BY <1>2, <1>3, <1>4, <1>5 DEF rest
<1>7. (Q + 1) * Lanes <= CtrMod
  BY <1>1 DEF Admissible, Q
<1> QED BY <1>1, <1>2, <1>3, <1>4, <1>5, <1>6, <1>7

\* A byte of the buffer is the byte of the keystream that the abstract stream
\* xors there.
LEMMA BufferByte ==
  ASSUME req \in Requests, NEW m \in 0..Q, NEW j \in 0..(Chunk - 1)
  PROVE  /\ encrypt_x4(req.k, Counters(m), j)
              = Stream!Keystream(req, m * Chunk + j)
         /\ Stream!Keystream(req, m * Chunk + j) \in Byte
<1> DEFINE d == j \div BlockBytes
<1>1. Q \in Nat /\ m \in Nat /\ m <= Q /\ (Q + 1) * Lanes <= CtrMod
      /\ req.k \in Keys /\ req.n \in Nonces
  BY RequestFacts
<1>2. /\ d \in Lane /\ j % BlockBytes \in 0..(BlockBytes - 1)
      /\ (m * Chunk + j) \div BlockBytes = m * Lanes + d
      /\ (m * Chunk + j) % BlockBytes = j % BlockBytes
  BY <1>1, LaneOfByte
<1> HIDE DEF d
<1>3. Counters(m)[d] = [n |-> req.n, c |-> m * Lanes + d]
  BY <1>2 DEF Counters
<1>4. encrypt_x4(req.k, Counters(m), j)
        = E[<<req.k, req.n, m * Lanes + d>>][j % BlockBytes]
  BY <1>3 DEF encrypt_x4, d
<1>5. m * Lanes + d \in 0..(CtrMod - 1)
  <2>1. m * Lanes \in Nat /\ (m + 1) * Lanes = m * Lanes + Lanes
    BY <1>1, ChunkSize
  <2>2. (m + 1) * Lanes <= (Q + 1) * Lanes
    BY <1>1, SizeAssumption
  <2>3. Q * Lanes \in Nat /\ (Q + 1) * Lanes = Q * Lanes + Lanes
    BY <1>1, ChunkSize
  <2> QED BY <2>1, <2>2, <2>3, <1>1, <1>2, SizeAssumption DEF Lane
<1>6. E[<<req.k, req.n, m * Lanes + d>>] \in [0..(BlockBytes - 1) -> Byte]
  BY <1>1, <1>5, CipherAssumption
<1> QED BY <1>2, <1>4, <1>6 DEF Stream!Keystream

\* Input not yet passed by the output is as it was when the call began.
LEMMA UnreadInput ==
  ASSUME TypeOK, OutputSoFar, calls > 0,
         Progress \in Nat,
         NEW x \in Nat, Progress <= x, x < req.len
  PROVE  /\ input(x) = Stream!Source(mem0, req, x)
         /\ input(x) \in Byte
<1>1. CASE req.fn # "xor"
  BY <1>1 DEF input, Stream!Source, Zero, Byte, Stream!Zero
<1>2. CASE req.fn = "xor"
  <2>1. /\ req.len \in Nat /\ req.out \in Nat /\ req.in \in Nat
        /\ Admissible(req)
    BY RequestFacts DEF TypeOK
  <2>2. /\ req.in + req.len <= MemSize
        /\ \/ req.out <= req.in
           \/ req.out + req.len <= req.in
           \/ req.in + req.len <= req.out
    BY <1>2, <2>1 DEF Admissible
  <2>3. req.in + x \in Addr
    BY <2>1, <2>2, SizeAssumption DEF Addr
  <2>4. req.in + x \notin req.out..(req.out + Progress - 1)
    BY <2>1, <2>2
  <2>5. mem[req.in + x] = mem0[req.in + x]
    BY <2>3, <2>4 DEF OutputSoFar
  <2> QED BY <1>2, <2>3, <2>5 DEF input, Stream!Source, TypeOK
<1> QED BY <1>1, <1>2

LEMMA XorByte ==
  ASSUME NEW a \in Byte, NEW b \in Byte
  PROVE  a (+) b \in Byte
BY DEF Byte, (+)

\* Within the output, the promise for a byte at offset x.
LEMMA Promise ==
  ASSUME req \in Requests, NEW a \in Addr,
         a \in req.out..(req.out + req.len - 1)
  PROVE  Stream!Crypt(mem0, req)[a]
           = Stream!Source(mem0, req, a - req.out)
               (+) Stream!Keystream(req, a - req.out)
BY DEF Stream!Crypt, Stream!MemAddr, Addr, (+), Stream!(+)

-----------------------------------------------------------------------------
(* Each step keeps the invariant                                           *)

LEMMA InitInv == Init => IInv
<1> SUFFICES ASSUME Init PROVE IInv
  OBVIOUS
<1>1. TypeOK
  BY SizeAssumption, KeyAssumption, MemAssumption, ChunkSize
    DEF Init, TypeOK, ZeroNc, Addr, Lane
<1>2. LoopInv /\ OutputSoFar
  BY DEF Init, LoopInv, OutputSoFar
<1> QED BY <1>1, <1>2 DEF IInv

\* What steps that leave the request alone leave alone.
LEMMA SameRequest ==
  ASSUME UNCHANGED <<req, mem0>>
  PROVE  /\ Q' = Q /\ done' = done /\ rest' = rest
         /\ Stream!Crypt(mem0, req)' = Stream!Crypt(mem0, req)
<1>1. req' = req /\ mem0' = mem0
  OBVIOUS
<1>2. Q' = Q /\ done' = done /\ rest' = rest
  BY <1>1 DEF Q, done, rest, Chunk
<1>3. Stream!Crypt(mem0, req)' = Stream!Crypt(mem0, req)
  BY <1>1 DEF Stream!Crypt, Stream!Source, Stream!Keystream, Stream!MemAddr, Stream!(+)
<1> QED BY <1>2, <1>3

LEMMA StutterInv ==
  ASSUME IInv, UNCHANGED vars
  PROVE  IInv'
<1>1. TypeOK'
  BY DEF IInv, TypeOK, vars, Chunk
<1>2. LoopInv'
  BY DEF IInv, LoopInv, vars, p, Q, Chunk, Counters, Before, rest, done
<1>3. OutputSoFar'
  <2>1. Stream!Crypt(mem0, req)' = Stream!Crypt(mem0, req) /\ done' = done
    BY SameRequest DEF vars
  <2>2. Progress' = Progress
    BY <2>1 DEF vars, Progress
  <2> QED BY <2>1, <2>2 DEF vars, IInv, OutputSoFar
<1> QED BY <1>1, <1>2, <1>3 DEF IInv

LEMMA CallInv ==
  ASSUME IInv, NEW q \in Requests, Call(q)
  PROVE  IInv'
<1>1. TypeOK'
  BY SizeAssumption, ChunkSize DEF Call, IInv, TypeOK, Chunk
<1>2. LoopInv'
  BY DEF Call, IInv, TypeOK, LoopInv
<1>3. OutputSoFar'
  <2>1. Progress' = 0 /\ mem' = mem0'
    BY DEF Call, Progress
  <2>2. req'.out \in Nat
    BY RequestAssumption DEF Call, Request
  <2>3. \A a : a \notin req'.out..(req'.out + 0 - 1)
    BY <2>2
  <2> QED BY <2>1, <2>3 DEF OutputSoFar
<1> QED BY <1>1, <1>2, <1>3 DEF IInv

LEMMA ReturnEmptyInv ==
  ASSUME IInv, ReturnEmpty
  PROVE  IInv'
<1>1. TypeOK' /\ LoopInv'
  BY DEF ReturnEmpty, IInv, TypeOK, LoopInv
<1>2. OutputSoFar'
  <2>1. Stream!Crypt(mem0, req)' = Stream!Crypt(mem0, req)
    BY SameRequest DEF ReturnEmpty
  <2> QED BY <2>1 DEF ReturnEmpty, IInv, OutputSoFar, Progress
<1> QED BY <1>1, <1>2 DEF IInv

LEMMA SetupInv ==
  ASSUME IInv, Setup
  PROVE  IInv'
<1>1. /\ Q \in Nat /\ done = Q * Chunk /\ rest \in 0..(Chunk - 1)
      /\ done + rest = req.len /\ done \in Nat
      /\ req.k \in Keys /\ req.n \in Nonces /\ req.len \in Nat
      /\ (Q + 1) * Lanes <= CtrMod
  BY RequestFacts DEF IInv, TypeOK
<1>2. /\ Chunk \in Nat \ {0} /\ Lanes \in Nat \ {0} /\ CtrMod \in Nat \ {0}
      /\ Lanes <= CtrMod /\ 0 * Chunk = 0 /\ 0 * Lanes = 0
  <2>1. (Q + 1) * Lanes = Q * Lanes + Lanes /\ Q * Lanes \in Nat
    BY <1>1, ChunkSize
  <2> QED BY <1>1, <2>1, ChunkSize, SizeAssumption
<1>3. nblocks' = Q
  <2>1. CASE req.len >= Chunk
    BY <2>1 DEF Setup, Q
  <2>2. CASE ~(req.len >= Chunk)
    <3>1. Q = 0
      <4> SUFFICES ASSUME Q >= 1 PROVE FALSE
        BY <1>1
      <4>1. Q * Chunk >= Chunk
        BY <1>1, <1>2
      <4> QED BY <4>1, <2>2, <1>1, <1>2
    <3> QED BY <3>1, <2>2 DEF Setup
  <2> QED BY <2>1, <2>2
<1>4. p' = 0 /\ Q' = Q
  BY <1>1, <1>3 DEF p, Setup, Q
<1>5. nc' = Counters(p)'
  <2>1. \A l \in Lane : 0 * Lanes + l = l
    BY <1>2 DEF Lane
  <2> QED BY <2>1, <1>4 DEF Setup, Counters
<1>6. TypeOK'
  BY <1>1, <1>2, <1>3 DEF Setup, IInv, TypeOK, Lane
<1>7. pc' = "rest" => nblocks' = 0
  BY DEF Setup
<1>8. at' = p' * Chunk' /\ nblocks' <= Q'
  <2>1. at' = 0 /\ Chunk' = Chunk
    BY DEF Setup, IInv, LoopInv, Chunk
  <2>2. p' * Chunk' = 0
    BY <2>1, <1>2, <1>4
  <2> QED BY <2>1, <2>2, <1>1, <1>3, <1>4
<1>9. calls' > 0 /\ ks' = req'.k /\ spent' = {}
  BY DEF Setup, IInv, LoopInv
<1>10. LoopInv'
  BY <1>4, <1>5, <1>7, <1>8, <1>9 DEF LoopInv, Setup
<1>11. OutputSoFar'
  <2>1. Stream!Crypt(mem0, req)' = Stream!Crypt(mem0, req)
    BY SameRequest DEF Setup
  <2>2. Progress = 0
    BY DEF Setup, Progress
  <2>3. Progress' = 0
    <3>1. pc' = "full" => at' = 0
      BY DEF Setup, IInv, LoopInv
    <3>2. pc' = "rest" => done' = 0
      <4>1. done' = done
        BY SameRequest DEF Setup
      <4>2. pc' = "rest" => Q = 0
        BY <1>3, <1>7
      <4> QED BY <4>1, <4>2, <1>1, <1>2
    <3> QED BY <3>1, <3>2 DEF Setup, Progress
  <2> QED BY <2>1, <2>2, <2>3 DEF OutputSoFar, Setup, IInv
<1> QED BY <1>6, <1>10, <1>11 DEF IInv

\* The arithmetic of the vector loop.
LEMMA LoopFacts ==
  ASSUME IInv, pc \in {"full", "rest", "bytes"}
  PROVE  /\ p \in 0..Q /\ p = Q - nblocks /\ p + nblocks = Q
         /\ at = p * Chunk /\ at \in Nat /\ at <= done
         /\ p * Lanes \in Nat
         /\ \A l \in Lane : p * Lanes + l \in 0..(CtrMod - 1)
         /\ Enciphered = {<<req.n, p * Lanes + l>> : l \in Lane}
<1>1. Q \in Nat /\ done = Q * Chunk /\ (Q + 1) * Lanes <= CtrMod
  BY RequestFacts DEF IInv, TypeOK
<1>2. nblocks \in Nat /\ nblocks <= Q /\ at = p * Chunk /\ nc = Counters(p)
  BY DEF IInv, TypeOK, LoopInv
<1>3. p \in 0..Q /\ p = Q - nblocks /\ p + nblocks = Q
  BY <1>1, <1>2 DEF p
<1> HIDE DEF p
<1>4. p * Chunk \in Nat /\ Q * Chunk \in Nat /\ p * Lanes \in Nat
      /\ Q * Lanes \in Nat /\ (Q + 1) * Lanes = Q * Lanes + Lanes
  BY <1>1, <1>3, ChunkSize
<1>5. p * Chunk <= Q * Chunk /\ p * Lanes <= Q * Lanes
  BY <1>1, <1>3, ChunkSize, SizeAssumption
<1>6. \A l \in Lane : p * Lanes + l \in 0..(CtrMod - 1)
  BY <1>1, <1>4, <1>5, SizeAssumption DEF Lane
<1>7. Enciphered = {<<req.n, p * Lanes + l>> : l \in Lane}
  BY <1>2 DEF Enciphered, Counters
<1> QED BY <1>1, <1>2, <1>3, <1>4, <1>5, <1>6, <1>7

\* What one round of the vector loop writes.
LEMMA ChunkOutput ==
  ASSUME IInv, FullChunk,
         NEW a \in Addr, a \in (req.out + at)..(req.out + at + Chunk - 1)
  PROVE  /\ a \in req.out..(req.out + req.len - 1)
         /\ mem'[a] = Stream!Crypt(mem0, req)[a]
         /\ mem'[a] \in Byte
<1> DEFINE j == a - req.out - at
           x == a - req.out
<1>1. /\ p \in 0..Q /\ p + nblocks = Q
      /\ at = p * Chunk /\ at \in Nat /\ at <= done
  BY LoopFacts DEF FullChunk
<1>2. /\ req \in Requests /\ Q \in Nat /\ done = Q * Chunk /\ done \in Nat
      /\ rest \in 0..(Chunk - 1) /\ done + rest = req.len
      /\ req.out \in Nat /\ req.len \in Nat
  BY RequestFacts DEF IInv, TypeOK
<1>3. Chunk \in Nat \ {0} /\ nblocks \in Nat \ {0} /\ a \in Nat
  BY ChunkSize DEF FullChunk, IInv, TypeOK, Addr
<1>4. at + Chunk <= done
  <2>1. p \in Nat /\ p < Q
    BY <1>1, <1>2, <1>3
  <2> QED BY <2>1, <1>1, <1>2, <1>3, Below
<1>5. j \in 0..(Chunk - 1) /\ x \in Nat /\ x = at + j /\ x < req.len /\ at <= x
  BY <1>1, <1>2, <1>3, <1>4
<1>6. a \in req.out..(req.out + req.len - 1)
  BY <1>2, <1>3, <1>5
<1> HIDE DEF j, x
<1>7. mem'[a] = input(x) (+) encrypt_x4(ks, nc, j)
  BY DEF FullChunk, j, x
<1>8. ks = req.k /\ nc = Counters(p) /\ calls > 0 /\ Progress = at
  BY DEF FullChunk, IInv, LoopInv, Progress
<1>9. encrypt_x4(ks, nc, j) = Stream!Keystream(req, x)
      /\ Stream!Keystream(req, x) \in Byte
  BY <1>1, <1>2, <1>5, <1>8, BufferByte
<1>10. input(x) = Stream!Source(mem0, req, x) /\ input(x) \in Byte
  BY <1>1, <1>5, <1>8, UnreadInput DEF IInv
<1>11. Stream!Crypt(mem0, req)[a]
         = Stream!Source(mem0, req, x) (+) Stream!Keystream(req, x)
  BY <1>2, <1>6, Promise DEF x
<1> QED BY <1>6, <1>7, <1>9, <1>10, <1>11, XorByte

LEMMA FullChunkInv ==
  ASSUME IInv, FullChunk
  PROVE  IInv'
<1>1. /\ p \in 0..Q /\ p + nblocks = Q /\ p = Q - nblocks
      /\ at = p * Chunk /\ at \in Nat /\ p * Lanes \in Nat
      /\ \A l \in Lane : p * Lanes + l \in 0..(CtrMod - 1)
      /\ Enciphered = {<<req.n, p * Lanes + l>> : l \in Lane}
  BY LoopFacts DEF FullChunk
<1>2. /\ req \in Requests /\ Q \in Nat /\ (Q + 1) * Lanes <= CtrMod
      /\ req.n \in Nonces /\ req.out \in Nat
  BY RequestFacts DEF IInv, TypeOK
<1>3. nblocks \in Nat \ {0} /\ nblocks' = nblocks - 1 /\ at' = at + Chunk
      /\ Chunk \in Nat \ {0} /\ Lanes \in Nat \ {0} /\ CtrMod \in Nat \ {0}
  BY ChunkSize, SizeAssumption DEF FullChunk, IInv, TypeOK
<1>4. Q' = Q /\ done' = done /\ rest' = rest
      /\ Stream!Crypt(mem0, req)' = Stream!Crypt(mem0, req)
  BY SameRequest DEF FullChunk
<1>5. p' = p + 1
  BY <1>1, <1>2, <1>3, <1>4 DEF p
<1>6. p' * Chunk = p * Chunk + Chunk /\ p' * Lanes = p * Lanes + Lanes
  BY <1>1, <1>5, ChunkSize
<1>7. nc' = Counters(p)'
  <2>1. \A l \in Lane : nc[l].n = req.n /\ nc[l].c = p * Lanes + l
    BY DEF FullChunk, IInv, LoopInv, Counters
  <2>2. \A l \in Lane : (p * Lanes + l + Lanes) % CtrMod = p' * Lanes + l
    <3> SUFFICES ASSUME NEW l \in Lane
                 PROVE  (p * Lanes + l + Lanes) % CtrMod = p' * Lanes + l
      OBVIOUS
    <3>1. l \in 0..(Lanes - 1)
      BY DEF Lane
    <3>2. (p + 2) * Lanes <= (Q + 1) * Lanes
      BY <1>1, <1>2, <1>3
    <3>3. (p + 2) * Lanes = p * Lanes + Lanes + Lanes
      BY <1>1, <1>3
    <3>4. p * Lanes + l + Lanes \in 0..(CtrMod - 1)
      BY <3>1, <3>2, <3>3, <1>1, <1>2, <1>3
    <3>5. (p * Lanes + l + Lanes) % CtrMod = p * Lanes + l + Lanes
      <4> DEFINE y == p * Lanes + l + Lanes
      <4>1. y \in 0..(CtrMod - 1)
        BY <3>4
      <4> HIDE DEF y
      <4>2. y % CtrMod = y
        BY <4>1, <1>3, NoWrap
      <4> QED BY <4>2 DEF y
    <3> QED BY <3>1, <3>5, <1>1, <1>3, <1>6
  <2>3. nc' = [l \in Lane |-> [n |-> req.n, c |-> p' * Lanes + l]]
    <3>1. ASSUME NEW l \in Lane
          PROVE  nc[l].n = req.n /\ (nc[l].c + Lanes) % CtrMod = p' * Lanes + l
      BY <2>1, <2>2, Zenon
    <3> QED BY <3>1 DEF FullChunk, increment
  <2>4. req' = req
    BY DEF FullChunk
  <2> QED BY <2>3, <2>4 DEF Counters, Lane
<1>8. LoopInv'
  <2>1. spent' \subseteq Before(p)'
    <3>1. spent \subseteq {<<req.n, y>> : y \in 0..(p * Lanes - 1)}
      BY DEF FullChunk, IInv, LoopInv, Before
    <3>2. \A l \in Lane : p * Lanes + l \in 0..(p' * Lanes - 1)
      BY <1>1, <1>3, <1>6 DEF Lane
    <3>3. 0..(p * Lanes - 1) \subseteq 0..(p' * Lanes - 1)
      BY <1>1, <1>3, <1>6
    <3>4. spent' \subseteq {<<req.n, y>> : y \in 0..(p' * Lanes - 1)}
      BY <3>1, <3>2, <3>3, <1>1 DEF FullChunk
    <3> QED BY <3>4 DEF FullChunk, Before
  <2>2. nblocks' <= Q' /\ at' = p' * Chunk'
    BY <1>1, <1>2, <1>3, <1>4, <1>6 DEF Chunk
  <2>3. ks' = req'.k /\ calls' > 0
    BY DEF FullChunk, IInv, LoopInv
  <2> QED BY <2>1, <2>2, <2>3, <1>7 DEF LoopInv, FullChunk
<1>9. mem' \in [Addr -> Byte]
  <2> SUFFICES ASSUME NEW a \in Addr PROVE mem'[a] \in Byte
    BY DEF FullChunk
  <2>1. CASE a \in (req.out + at)..(req.out + at + Chunk - 1)
    BY <2>1, ChunkOutput
  <2>2. CASE a \notin (req.out + at)..(req.out + at + Chunk - 1)
    BY <2>2 DEF FullChunk, IInv, TypeOK
  <2> QED BY <2>1, <2>2
<1>10. TypeOK'
  <2>1. nc' \in [Lane -> [n : Nonces, c : 0..(CtrMod - 1)]]
    <3>1. \A l \in Lane : (nc[l].c + Lanes) % CtrMod \in 0..(CtrMod - 1)
      BY <1>3 DEF IInv, TypeOK
    <3> QED BY <3>1 DEF FullChunk, increment, IInv, TypeOK
  <2>2. spent' \subseteq Nonces \X (0..(CtrMod - 1))
    BY <1>1, <1>2 DEF FullChunk, IInv, TypeOK
  <2>3. at' \in 0..MemSize /\ nblocks' \in Nat
    <3>1. p \in Nat /\ p < Q
      BY <1>1, <1>2, <1>3
    <3>2. at + Chunk <= done
      BY <3>1, <1>1, <1>2, <1>3, RequestFacts, Below
    <3>3. done <= MemSize
      BY <1>2, RequestFacts, ChunkSize, SizeAssumption DEF Admissible
    <3>4. done \in Nat /\ MemSize \in Nat
      BY <1>2, RequestFacts, SizeAssumption
    <3> QED BY <1>1, <1>3, <3>2, <3>3, <3>4
  <2>4. i' = i /\ Chunk' = Chunk
    BY DEF FullChunk, Chunk
  <2> QED BY <1>9, <2>1, <2>2, <2>3, <2>4 DEF FullChunk, IInv, TypeOK
<1>11. OutputSoFar'
  <2> SUFFICES ASSUME NEW a \in Addr
               PROVE  mem'[a] = IF a \in req.out..(req.out + at' - 1)
                                THEN Stream!Crypt(mem0, req)[a] ELSE mem0[a]
    BY <1>4 DEF OutputSoFar, FullChunk, Progress
  <2>1. CASE a \in (req.out + at)..(req.out + at + Chunk - 1)
    <3>1. a \in req.out..(req.out + at' - 1)
      BY <2>1, <1>1, <1>2, <1>3
    <3> QED BY <2>1, <3>1, ChunkOutput
  <2>2. CASE a \notin (req.out + at)..(req.out + at + Chunk - 1)
    <3>1. a \in req.out..(req.out + at' - 1)
            <=> a \in req.out..(req.out + at - 1)
      BY <2>2, <1>1, <1>2, <1>3 DEF Addr
    <3>2. mem'[a] = mem[a]
      BY <2>2 DEF FullChunk
    <3> QED BY <3>1, <3>2 DEF FullChunk, IInv, LoopInv, OutputSoFar, Progress
  <2> QED BY <2>1, <2>2
<1> QED BY <1>8, <1>10, <1>11 DEF IInv

LEMMA FullEndInv ==
  ASSUME IInv, FullEnd
  PROVE  IInv'
<1>1. /\ p = Q /\ at = done /\ Q \in Nat
  <2>1. p + nblocks = Q /\ at = p * Chunk /\ nblocks = 0 /\ p \in 0..Q
    BY LoopFacts DEF FullEnd
  <2>2. Q \in Nat /\ done = Q * Chunk
    BY RequestFacts DEF IInv, TypeOK
  <2> QED BY <2>1, <2>2
<1>2. TypeOK'
  BY DEF FullEnd, IInv, TypeOK
<1>3. LoopInv'
  BY DEF FullEnd, IInv, LoopInv, p, Q, Chunk, Counters, Before
<1>4. OutputSoFar'
  <2>1. Stream!Crypt(mem0, req)' = Stream!Crypt(mem0, req) /\ done' = done
    BY SameRequest DEF FullEnd
  <2>2. Progress' = Progress
    BY <2>1, <1>1 DEF FullEnd, Progress
  <2> QED BY <2>1, <2>2 DEF FullEnd, IInv, OutputSoFar
<1> QED BY <1>2, <1>3, <1>4 DEF IInv

LEMMA TrapInv ==
  ASSUME IInv, Trap
  PROVE  IInv'
<1>1. TypeOK' /\ LoopInv'
  BY DEF Trap, IInv, TypeOK, LoopInv
<1>2. OutputSoFar'
  <2>1. Stream!Crypt(mem0, req)' = Stream!Crypt(mem0, req)
    BY SameRequest DEF Trap
  <2>2. Progress' = Progress
    BY DEF Trap, Progress
  <2> QED BY <2>1, <2>2 DEF Trap, IInv, OutputSoFar
<1> QED BY <1>1, <1>2 DEF IInv

LEMMA PartialInv ==
  ASSUME IInv, Partial
  PROVE  IInv'
<1>1. /\ req.n \in Nonces /\ rest \in Nat /\ done \in Nat
  BY RequestFacts, ChunkSize DEF IInv, TypeOK
<1>2. /\ \A l \in Lane : p * Lanes + l \in 0..(CtrMod - 1)
      /\ Enciphered = {<<req.n, p * Lanes + l>> : l \in Lane}
  BY LoopFacts DEF Partial
<1>3. TypeOK'
  <2>1. i' \in 0..(Chunk' - 1)
    BY ChunkSize DEF Partial, Chunk
  <2> QED BY <1>1, <1>2, <2>1 DEF Partial, IInv, TypeOK
<1>4. rest' = rest /\ done' = done
      /\ Stream!Crypt(mem0, req)' = Stream!Crypt(mem0, req)
  BY SameRequest DEF Partial
<1>5. LoopInv'
  BY <1>1, <1>4 DEF Partial, IInv, LoopInv, p, Q, Chunk, Counters
<1>6. OutputSoFar'
  <2>1. Progress' = Progress
    BY <1>1, <1>4 DEF Partial, Progress
  <2> QED BY <1>4, <2>1 DEF Partial, IInv, OutputSoFar
<1> QED BY <1>3, <1>5, <1>6 DEF IInv

LEMMA PartialByteInv ==
  ASSUME IInv, PartialByte
  PROVE  IInv'
<1> DEFINE x == done + i
           b == req.out + done + i
<1>1. /\ req \in Requests /\ rest \in 0..(Chunk - 1) /\ done \in Nat
      /\ done + rest = req.len /\ req.out \in Nat /\ req.len \in Nat
      /\ Q \in Nat /\ done = Q * Chunk /\ Admissible(req)
  BY RequestFacts DEF IInv, TypeOK
<1>2. /\ i \in Nat /\ i < rest /\ i' = i + 1 /\ calls > 0
      /\ ks = req.k /\ nc = Counters(p) /\ Progress = done + i
  BY DEF PartialByte, IInv, TypeOK, LoopInv, Progress
<1>3. p = Q
  BY <1>1 DEF PartialByte, IInv, LoopInv, p
<1>4. i \in 0..(Chunk - 1) /\ x \in Nat /\ x < req.len /\ b = req.out + x
      /\ b \in Addr
  BY <1>1, <1>2, ChunkSize, SizeAssumption DEF Admissible, Addr
<1>5. input(x) = Stream!Source(mem0, req, x) /\ input(x) \in Byte
  BY <1>2, <1>4, UnreadInput DEF IInv
<1>6. encrypt_x4(ks, nc, i) = Stream!Keystream(req, x)
      /\ Stream!Keystream(req, x) \in Byte
  BY <1>1, <1>2, <1>3, <1>4, BufferByte
<1>7. Stream!Crypt(mem0, req)[b]
        = Stream!Source(mem0, req, x) (+) Stream!Keystream(req, x)
  <2>1. b \in req.out..(req.out + req.len - 1) /\ b - req.out = x
    BY <1>1, <1>4
  <2> QED BY <2>1, <1>1, <1>4, Promise
<1>8. mem' = [mem EXCEPT ![b] = input(x) (+) encrypt_x4(ks, nc, i)]
  BY DEF PartialByte
<1> HIDE DEF x
<1>9. mem' = [mem EXCEPT ![b] = Stream!Crypt(mem0, req)[b]]
      /\ Stream!Crypt(mem0, req)[b] \in Byte
  BY <1>5, <1>6, <1>7, <1>8, XorByte
<1>10. rest' = rest /\ done' = done
       /\ Stream!Crypt(mem0, req)' = Stream!Crypt(mem0, req)
  BY SameRequest DEF PartialByte
<1>11. TypeOK'
  <2>1. i' \in 0..(Chunk' - 1)
    BY <1>1, <1>2, ChunkSize DEF Chunk
  <2>2. mem' \in [Addr -> Byte]
    <3> HIDE DEF b
    <3> QED BY <1>9 DEF IInv, TypeOK
  <2> QED BY <2>1, <2>2 DEF PartialByte, IInv, TypeOK
<1>12. LoopInv'
  BY <1>1, <1>2, <1>10 DEF PartialByte, IInv, LoopInv, p, Q, Chunk, Counters
<1>13. OutputSoFar'
  <2>1. Progress' = done + i + 1
    BY <1>1, <1>2, <1>10 DEF PartialByte, Progress
  <2>2. \A a \in Addr : mem[a] = IF a \in req.out..(req.out + (done + i) - 1)
                                 THEN Stream!Crypt(mem0, req)[a] ELSE mem0[a]
    BY <1>2 DEF IInv, OutputSoFar
  <2>3. \A a \in Addr : a \in req.out..(req.out + (done + i + 1) - 1)
                          <=> a = b \/ a \in req.out..(req.out + (done + i) - 1)
    BY <1>1, <1>2, <1>4 DEF Addr
  <2>4. \A a \in Addr : mem'[a] = IF a = b THEN Stream!Crypt(mem0, req)[b] ELSE mem[a]
    BY <1>4, <1>9 DEF IInv, TypeOK
  <2> HIDE DEF b
  <2>5. \A a \in Addr : mem'[a] = IF a \in req.out..(req.out + (done + i + 1) - 1)
                                  THEN Stream!Crypt(mem0, req)[a] ELSE mem0[a]
    BY <2>2, <2>3, <2>4
  <2> QED BY <2>1, <2>5, <1>10 DEF OutputSoFar, PartialByte
<1> QED BY <1>11, <1>12, <1>13 DEF IInv

LEMMA CleanupInv ==
  ASSUME IInv, Cleanup
  PROVE  IInv'
<1>1. TypeOK'
  BY KeyAssumption, SizeAssumption
    DEF Cleanup, IInv, TypeOK, memset_s, memset, ZeroNc, Lane
<1>2. LoopInv'
  BY DEF Cleanup, IInv, LoopInv
<1>3. OutputSoFar'
  <2>1. Stream!Crypt(mem0, req)' = Stream!Crypt(mem0, req)
    BY SameRequest DEF Cleanup
  <2>2. done + rest = req.len /\ done \in Nat /\ rest \in Nat
    BY RequestFacts, ChunkSize DEF IInv, TypeOK
  <2>3. Progress' = Progress
    BY <2>2 DEF Cleanup, Progress
  <2> QED BY <2>1, <2>3 DEF Cleanup, IInv, OutputSoFar
<1> QED BY <1>1, <1>2, <1>3 DEF IInv

LEMMA NextInv ==
  ASSUME IInv, [Next]_vars
  PROVE  IInv'
<1>1. CASE \E q \in Requests : Call(q)
  BY <1>1, CallInv
<1>2. CASE ReturnEmpty
  BY <1>2, ReturnEmptyInv
<1>3. CASE Setup
  BY <1>3, SetupInv
<1>4. CASE FullChunk
  BY <1>4, FullChunkInv
<1>5. CASE Trap
  BY <1>5, TrapInv
<1>6. CASE FullEnd
  BY <1>6, FullEndInv
<1>7. CASE Partial
  BY <1>7, PartialInv
<1>8. CASE PartialByte
  BY <1>8, PartialByteInv
<1>9. CASE Cleanup
  BY <1>9, CleanupInv
<1>10. CASE UNCHANGED vars
  BY <1>10, StutterInv
<1> QED BY <1>1, <1>2, <1>3, <1>4, <1>5, <1>6, <1>7, <1>8, <1>9, <1>10
     DEF Next, Function

-----------------------------------------------------------------------------
(* Theorems                                                                *)

\* Over any memory, for any sizes and any admissible requests, the driver
\* keeps its loop counters, counter blocks and output in step.
THEOREM Invariance == Spec => []IInv
BY InitInv, NextInv, PTL DEF Spec

\* Every variable keeps its type: in particular no byte index leaves the
\* memory and no counter leaves its lane.
THEOREM TypeCorrect == Spec => []TypeOK
BY Invariance, PTL DEF IInv

\* At every moment of every call memory is what it was when the call began,
\* but for the output so far, which is the plain counter mode of that memory.
THEOREM OutputIsCorrect == Spec => []OutputSoFar
BY Invariance, PTL DEF IInv

\* No call has a counter block enciphered twice.
THEOREM CountersFresh == Spec => NoCounterTwice
<1>1. IInv /\ (FullChunk \/ Partial) => Enciphered \cap spent = {}
  <2> SUFFICES ASSUME IInv, FullChunk \/ Partial
               PROVE  Enciphered \cap spent = {}
    OBVIOUS
  <2>1. pc \in {"full", "rest"}
    BY DEF FullChunk, Partial
  <2>2. Enciphered = {<<req.n, p * Lanes + l>> : l \in Lane} /\ p * Lanes \in Nat
    BY <2>1, LoopFacts
  <2>3. spent \subseteq {<<req.n, x>> : x \in 0..(p * Lanes - 1)}
    BY <2>1 DEF IInv, LoopInv, Before
  <2>4. \A l \in Lane : p * Lanes + l \notin 0..(p * Lanes - 1)
    BY <2>2, SizeAssumption DEF Lane
  <2> QED BY <2>2, <2>3, <2>4
<1>2. IInv /\ [Next]_vars => [FullChunk \/ Partial => Enciphered \cap spent = {}]_vars
  BY <1>1
<1> QED BY <1>2, Invariance, PTL DEF Spec, NoCounterTwice

\* To a caller every step is one of the abstract stream, or none.
LEMMA StreamInit == Init => Stream!Init
BY MemAssumption DEF Init, Stream!Init, Stream!MemAddr, Addr, Stream!Byte, Byte

LEMMA StreamStep ==
  ASSUME IInv, IInv', [Next]_vars
  PROVE  [Stream!Next]_Stream!vars
<1>1. CASE \E q \in Requests : Call(q)
  BY <1>1 DEF Call, Stream!vars, IInv, TypeOK
<1>2. CASE ReturnEmpty \/ Cleanup
  <2>1. /\ pc # "idle" /\ pc' = "idle" /\ mem0' = mem0 /\ req' = req
        /\ calls' = calls /\ calls > 0
    BY <1>2 DEF ReturnEmpty, Cleanup, IInv, LoopInv
  <2>2. mem' = Stream!Crypt(mem0, req)
    <3>1. Stream!Crypt(mem0, req)' = Stream!Crypt(mem0, req)
      BY <2>1, SameRequest
    <3>2. \A a \in Addr :
            mem'[a] = IF a \in req.out..(req.out + req.len - 1)
                      THEN Stream!Crypt(mem0, req)[a] ELSE mem0[a]
      BY <2>1, <3>1 DEF IInv, OutputSoFar, Progress
    <3>3. \A a \in Addr : a \notin req.out..(req.out + req.len - 1)
                           => Stream!Crypt(mem0, req)[a] = mem0[a]
      BY DEF Stream!Crypt, Stream!MemAddr, Addr
    <3>4. \A a \in Addr : mem'[a] = Stream!Crypt(mem0, req)[a]
      BY <3>2, <3>3
    <3>5. mem' \in [Addr -> Byte]
      BY DEF IInv, TypeOK
    <3> QED BY <3>4, <3>5 DEF Stream!Crypt, Stream!MemAddr, Addr
  <2>3. calls - 1 < MaxCalls /\ calls = (calls - 1) + 1
    BY <2>1, SizeAssumption DEF IInv, TypeOK
  <2>4. Stream!Call(req)
    BY <2>1, <2>2, <2>3 DEF Stream!Call
  <2> QED BY <2>4 DEF Stream!Next, IInv, TypeOK
<1>3. CASE Setup \/ FullChunk \/ Trap \/ FullEnd \/ Partial \/ PartialByte
  <2>1. /\ pc # "idle" /\ pc' # "idle" /\ mem0' = mem0 /\ calls' = calls
    BY <1>3 DEF Setup, FullChunk, Trap, FullEnd, Partial, PartialByte
  <2> QED BY <2>1 DEF Stream!vars
<1>4. CASE UNCHANGED vars
  BY <1>4 DEF vars, Stream!vars
<1> QED BY <1>1, <1>2, <1>3, <1>4 DEF Next, Function

\* The driver implements the abstract stream: what a caller sees of a call is
\* one step that applies Crypt to memory.
THEOREM Implementation == Spec => ImplementsStream
BY StreamInit, StreamStep, Invariance, PTL DEF Spec, ImplementsStream, Stream!Spec
=============================================================================
