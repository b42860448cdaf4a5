----------------------------- MODULE InlineCtr -----------------------------
(***************************************************************************)
(* inline64B/inline.s: aes256_ctr, AES-256 in counter mode for up to 128   *)
(* bytes, with the key expanded between the rounds.  One of eight branches *)
(* is taken by the number of blocks; they are the same code for that many  *)
(* registers.  Whole blocks are xored and stored one after the other; what *)
(* is left of the last goes eight bytes and then one byte at a time.  KEY, *)
(* NC and every counter are read before the first store.                   *)
(*                                                                         *)
(* mem0 is history: the memory when the current call began.                *)
(***************************************************************************)
EXTENDS Xmm

CONSTANTS
  MemSize,      \* bytes of the caller's memory
  Keys,         \* what callers pass for key and nc
  Nonces,
  InitMem,      \* the memory callers start from
  Requests,     \* what callers ask for
  MaxCalls      \* bound on the number of calls

Request == [out : Nat, in : Nat, len : Nat, k : Keys, n : Nonces]

\* Output and input are in memory, in one place or apart, or output trails.
Admissible(q) ==
  /\ q.out + q.len <= MemSize /\ q.in + q.len <= MemSize
  /\ q.out <= q.in \/ q.in + q.len <= q.out

MemAddr == 0..(MemSize - 1)

ASSUME KeyAssumption == Keys \subseteq [0..31 -> Byte]
ASSUME NonceAssumption == Nonces \subseteq [0..15 -> Byte]
ASSUME MemAssumption == MemSize \in Nat /\ InitMem \in [MemAddr -> Byte]
ASSUME CallsAssumption == MaxCalls \in Nat
ASSUME RequestAssumption ==
  /\ Requests # {} /\ Requests \subseteq Request
  /\ \A q \in Requests : Admissible(q)

VARIABLES
  pc,           \* where the call is
  req,          \* its arguments
  KEY1, KEY2,   \* round keys, of an even and an odd round
  RC,           \* the round constant
  T0,           \* what the next linearmix adds
  X,            \* X0..X7, the blocks
  I,            \* rounds of the loop left
  block,        \* blocks stored
  LEN,          \* bytes left, from xorlast on
  rcx,          \* where the tail is
  rax,          \* eight bytes of keystream
  mem,          \* the caller's memory
  calls,        \* calls made
  mem0          \* history

keys == <<KEY1, KEY2, RC, T0>>
tail == <<LEN, rcx, rax>>
vars == <<pc, req, keys, X, I, block, tail, mem, calls, mem0>>

-----------------------------------------------------------------------------
(* Operations                                                              *)

Block == 0..7

\* .byte 1, 0, 0, 0, four times.
rc == [i \in Lane |-> IF i % 4 = 0 THEN Hex(1) ELSE Zero]

SHUF_2_NotRotated == [i \in Lane |-> 12 + (i % 4)]

\* Bytes 13, 14, 15, 12 to every doubleword: all columns are equal, and
\* ShiftRows leaves them so.
SHUF_2 == [i \in Lane |-> 12 + ((i + 1) % 4)]

\* The last doubleword with its bytes reversed.
ctrswap == [i \in Lane |-> IF i < 12 THEN i ELSE 27 - i]

\* A register of zeros but for its last doubleword.
lastDword(n) == [i \in Lane |-> IF i = 12 THEN Hex(n) ELSE Zero]

linearmix(key, new) ==
  LET t1 == Held(VPSLLDQ4(key))
      t2 == Held(VPSLLDQ4(t1))
      t3 == Held(VPSLLDQ4(t2))
  IN  Held(VPXOR(VPXOR(VPXOR(VPXOR(key, t1), t2), t3), new))

RotSub(key, const) == Held(VAESENCLAST(VPSHUFB(key, SHUF_2), const))

SubLast(key) == Held(VAESENCLAST(VPSHUFD(key, 3), ZeroReg))

counters_CarryLost(nc, k0) ==
  LET swapped == VPSHUFB(nc, ctrswap)
      by(n) == [swapped EXCEPT ![12] = DwordByte(ADD(Dword(swapped, 3), {i \in 0..3 : (n \div 2^i) % 2 = 1}), 0)]
  IN  [c \in Block |-> VPXOR(VPSHUFB(by(c), ctrswap), k0)]

\* The blocks before the first round.  Counters 1 to 6 are made two at a time
\* in the halves of Y1, Y3 and Y5; the last is made in integer registers and
\* inserted into the first.
counters(nc, k0) ==
  LET x0 == VPXOR(nc, k0)
      swapped == Held(VPSHUFB(nc, ctrswap))
      plus(a, n) == Held(VPADDD(a, lastDword(n)))
      y1 == <<plus(swapped, 1), plus(swapped, 2)>>
      y3 == <<plus(y1[1], 2), plus(y1[2], 2)>>
      y5 == <<plus(y3[1], 2), plus(y3[2], 2)>>
      ready(y) == VPXOR(VPSHUFB(y, ctrswap), k0)
      r9 == ADD(BSWAP(Dword(nc, 3)), {0, 1, 2})
      x7 == VPINSRD(x0, 3, {n \in 0..31 : (n \in BSWAP(r9)) # (n \in Dword(k0, 3))})
  IN  [c \in Block |-> CASE c = 0 -> x0
                         [] c \in 1..2 -> ready(y1[c])
                         [] c \in 3..4 -> ready(y3[c - 2])
                         [] c \in 5..6 -> ready(y5[c - 4])
                         [] c = 7 -> x7]

\* The branch for a length: the number of blocks it enciphers.
fly(len) == (len + 15) \div 16

\* VAESENC of the branch's registers; the others are not touched.
enc(n, key, xs) == [c \in Block |-> IF c < n THEN VAESENC(xs[c], key) ELSE xs[c]]

\* n bytes at offset o, from the first bytes of s.
xored(m, o, n, s) ==
  [a \in MemAddr |-> IF a \in (req.out + o)..(req.out + o + n - 1)
                  THEN m[req.in + (a - req.out)] (+) s[a - req.out - o]
                  ELSE m[a]]

\* VZEROALL, and the integer registers cleared.
cleared == /\ KEY1' = ZeroReg /\ KEY2' = ZeroReg /\ RC' = ZeroReg /\ T0' = ZeroReg
           /\ X' = [c \in Block |-> ZeroReg]
           /\ LEN' = 0 /\ rcx' = 0 /\ rax' = [i \in 0..7 |-> Zero]

-----------------------------------------------------------------------------
Init == /\ pc = "idle"
        /\ req = CHOOSE q \in Requests : TRUE    \* none yet
        /\ KEY1 = ZeroReg /\ KEY2 = ZeroReg /\ RC = ZeroReg /\ T0 = ZeroReg
        /\ X = [c \in Block |-> ZeroReg]
        /\ I = 0 /\ block = 0
        /\ LEN = 0 /\ rcx = 0 /\ rax = [i \in 0..7 |-> Zero]
        /\ mem = InitMem /\ calls = 0 /\ mem0 = InitMem

Call(q) == /\ pc = "idle" /\ calls < MaxCalls
           /\ req' = q
           /\ LEN' = q.len
           /\ calls' = calls + 1
           /\ mem0' = mem
           /\ pc' = "entry"
           /\ UNCHANGED <<keys, X, I, block, rcx, rax, mem>>

ReturnEmpty == /\ pc = "entry" /\ LEN = 0
               /\ pc' = "idle"
               /\ UNCHANGED <<req, keys, X, I, block, tail, mem, calls, mem0>>

\* A jump to _expand_key, which no file defines.
TooLong == /\ pc = "entry" /\ LEN > 128
           /\ pc' = "undefined"
           /\ UNCHANGED <<req, keys, X, I, block, tail, mem, calls, mem0>>

\* Keys and counters, the first halves of the expansion hoisted.
Setup == /\ pc = "entry" /\ LEN \in 1..128
         /\ KEY2' = Load(req.k, 16)
         /\ LET k0 == Load(req.k, 0)
            IN  /\ KEY1' = linearmix(k0, RotSub(KEY2', rc))
                /\ X' = counters(req.n, k0)
         /\ RC' = VPSLLD1(rc)
         /\ T0' = SubLast(KEY1')
         /\ block' = 0
         /\ pc' = "fly"
         /\ UNCHANGED <<req, I, tail, mem, calls, mem0>>

\* The branch: round 1, and the key of round 3.
Round1 == /\ pc = "fly"
          /\ X' = enc(fly(LEN), KEY2, X)
          /\ KEY2' = linearmix(KEY2, T0)
          /\ pc' = "round2"
          /\ UNCHANGED <<req, KEY1, RC, T0, I, block, tail, mem, calls, mem0>>

Round2 == /\ pc = "round2"
          /\ X' = enc(fly(LEN), KEY1, X)
          /\ I' = 5
          /\ pc' = "ctr"
          /\ UNCHANGED <<req, keys, block, tail, mem, calls, mem0>>

expand1 == /\ T0' = RotSub(KEY2, RC)
           /\ RC' = VPSLLD1(RC)
           /\ KEY1' = linearmix(KEY1, T0')
           /\ KEY2' = KEY2

expand2 == /\ T0' = SubLast(KEY1)
           /\ KEY2' = linearmix(KEY2, T0')
           /\ UNCHANGED <<KEY1, RC>>

OddRound_NewKey == /\ pc = "ctr" /\ I # 0
                   /\ expand1
                   /\ X' = enc(fly(LEN), KEY1', X)
                   /\ pc' = "half"
                   /\ UNCHANGED <<req, I, block, tail, mem, calls, mem0>>

\* The loop: one register is used while the other is made, and vice versa.
OddRound == /\ pc = "ctr" /\ I # 0
            /\ expand1
            /\ X' = enc(fly(LEN), KEY2, X)
            /\ pc' = "half"
            /\ UNCHANGED <<req, I, block, tail, mem, calls, mem0>>

EvenRound == /\ pc = "half"
             /\ expand2
             /\ X' = enc(fly(LEN), KEY1, X)
             /\ I' = I - 1
             /\ pc' = "ctr"
             /\ UNCHANGED <<req, block, tail, mem, calls, mem0>>

Round13 == /\ pc = "ctr" /\ I = 0
           /\ expand1
           /\ X' = enc(fly(LEN), KEY2, X)
           /\ pc' = "last"
           /\ UNCHANGED <<req, I, block, tail, mem, calls, mem0>>

Round14 == /\ pc = "last"
           /\ X' = [c \in Block |-> IF c < fly(LEN) THEN VAESENCLAST(X[c], KEY1)
                                    ELSE X[c]]
           /\ pc' = "store"
           /\ UNCHANGED <<req, keys, I, block, tail, mem, calls, mem0>>

StoreBlock_Again == /\ pc = "store" /\ block < fly(LEN) - 1
                    /\ mem' = xored(mem, 16 * block, 16, X[block])
                    /\ UNCHANGED <<pc, req, keys, X, I, block, tail, calls, mem0>>

\* A block that is not the last.
StoreBlock == /\ pc = "store" /\ block < fly(LEN) - 1
              /\ mem' = xored(mem, 16 * block, 16, X[block])
              /\ block' = block + 1
              /\ UNCHANGED <<pc, req, keys, X, I, tail, calls, mem0>>

\* xorlast of a last block that is whole.
LastBlock == /\ pc = "store" /\ block = fly(LEN) - 1
             /\ LEN - 16 * block >= 16
             /\ mem' = xored(mem, 16 * block, 16, X[block])
             /\ cleared
             /\ pc' = "idle"
             /\ UNCHANGED <<req, I, block, calls, mem0>>

ToMopup_LengthKept ==
  /\ pc = "store" /\ block = fly(LEN) - 1
  /\ LEN - 16 * block < 16
  /\ X' = [X EXCEPT ![0] = X[block]]
  /\ rcx' = 16 * block
  /\ rax' = [i \in 0..7 |-> X[block][i]]
  /\ pc' = "mopup"
  /\ UNCHANGED <<LEN, req, keys, I, block, mem, calls, mem0>>

\* And of one that is not.
ToMopup == /\ pc = "store" /\ block = fly(LEN) - 1
           /\ LEN - 16 * block < 16
           /\ X' = [X EXCEPT ![0] = X[block]]
           /\ rcx' = 16 * block
           /\ LEN' = LEN - 16 * block
           /\ rax' = [i \in 0..7 |-> X[block][i]]
           /\ pc' = "mopup"
           /\ UNCHANGED <<req, keys, I, block, mem, calls, mem0>>

\* Eight bytes at once.  The jump over the loop when they were the last names
\* `done', a macro: no label of this name is defined.
Mopup == /\ pc = "mopup" /\ LEN >= 8
         /\ X' = [X EXCEPT ![0] = [i \in Lane |-> X[0][IF i < 8 THEN 8 + i ELSE i % 4]]]
         /\ mem' = xored(mem, rcx, 8, rax)
         /\ rcx' = rcx + 8
         /\ LEN' = LEN - 8
         /\ IF LEN' = 0
            THEN pc' = "undefined" /\ rax' = [i \in 0..7 |-> mem[req.in + rcx + i] (+) rax[i]]
            ELSE pc' = "loop" /\ rax' = [i \in 0..7 |-> X'[0][i]]
         /\ UNCHANGED <<req, keys, I, block, calls, mem0>>

SkipMopup == /\ pc = "mopup" /\ LEN < 8
             /\ pc' = "loop"
             /\ UNCHANGED <<req, keys, X, I, block, tail, mem, calls, mem0>>

\* One byte, al, and the next rotated into its place.
MopupLoop == /\ pc = "loop"
             /\ mem' = xored(mem, rcx, 1, rax)
             /\ IF LEN = 1 THEN cleared /\ pc' = "idle"
                ELSE /\ rax' = [i \in 0..7 |-> IF i < 7 THEN rax[i + 1]
                                              ELSE mem[req.in + rcx] (+) rax[0]]
                     /\ rcx' = rcx + 1
                     /\ LEN' = LEN - 1
                     /\ UNCHANGED <<pc, keys, X>>
             /\ UNCHANGED <<req, I, block, calls, mem0>>

Routine == \/ ReturnEmpty \/ TooLong \/ Setup \/ Round1 \/ Round2 \/ OddRound
           \/ EvenRound \/ Round13 \/ Round14 \/ StoreBlock \/ LastBlock
           \/ ToMopup \/ Mopup \/ SkipMopup \/ MopupLoop

Running == pc \notin {"idle", "undefined"}

\* The only states from which nothing goes on.
Stopped == /\ pc = "undefined" \/ (pc = "idle" /\ calls = MaxCalls)
           /\ UNCHANGED vars

Next == Routine \/ (\E q \in Requests : Call(q)) \/ Stopped

\* One thread: a routine that can go on does.  This is weak fairness of Routine
\* as long as Routine is enabled while the routine is running, and that is what
\* the absence of deadlock says.
Fairness == []<>~Running \/ []<><<Running>>_vars

Spec == Init /\ [][Next]_vars /\ Fairness
=============================================================================
