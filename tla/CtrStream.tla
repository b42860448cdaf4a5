----------------------------- MODULE CtrStream -----------------------------
(***************************************************************************)
(* What the counter mode functions promise a caller, as py/ctr_testgen.py  *)
(* computes it: byte i of the output is byte i of the input, or nothing,   *)
(* xor byte i of the keystream, which is the cipher applied to the nonce   *)
(* with the counters 0, 1, 2, ... and cut to the length asked for.  A call *)
(* is one step; what memory holds while it runs is nobody's business.      *)
(***************************************************************************)
EXTENDS Naturals, Bytes

CONSTANTS
  BlockBytes,   \* bytes of a cipher block
  MemSize,      \* bytes of the caller's memory
  E,            \* the cipher: E[<<key, nonce, counter>>][byte of the block]
  Requests,     \* what callers ask for
  MaxCalls      \* how many calls are made

VARIABLES
  mem,          \* the caller's memory
  calls         \* calls completed

vars == <<mem, calls>>

MemAddr == 0..(MemSize - 1)

\* Byte i of the keystream: whole blocks, the last one truncated.
Keystream(q, i) == E[<<q.k, q.n, i \div BlockBytes>>][i % BlockBytes]

Source(m, q, i) == IF q.fn = "xor" THEN m[q.in + i] ELSE Zero

\* Memory after the call q on memory m.
Crypt(m, q) ==
  [a \in MemAddr |->
     IF a \in q.out..(q.out + q.len - 1)
     THEN Source(m, q, a - q.out) (+) Keystream(q, a - q.out)
     ELSE m[a]]

Init == mem \in [MemAddr -> Byte] /\ calls = 0

Call(q) == /\ calls < MaxCalls
           /\ calls' = calls + 1
           /\ mem' = Crypt(mem, q)

Next == \E q \in Requests : Call(q)

Spec == Init /\ [][Next]_vars
=============================================================================
