-------------------------- MODULE InlineCtrCorrect --------------------------
(***************************************************************************)
(* What InlineCtr has to do: the round keys, the keystream and the memory  *)
(* that the Python reference's AES-256 gives in counter mode, with the     *)
(* 32-bit big-endian counter of aesni_ctr32_encrypt_blocks, against which  *)
(* inline_test.c times it.                                                 *)
(***************************************************************************)
EXTENDS InlineCtr, Expansion

\* The schedules are those of a buffer of sixty words.
ASSUME CtrLengthAssumption == NumWords = 60
ASSUME CtrShiftAssumption == PowersOfTwo

Schedules == [k \in Keys |-> Aes!Schedule(k)]

\* Each block of each keystream.
Cipher ==
  Held([c \in Keys \X Nonces \X Block |->
          Held(Aes!Encrypted(Schedules[c[1]], Held(Aes!CounterBlock(c[2], c[3]))))])

-----------------------------------------------------------------------------
\* The cipher's blocks fill a register, whatever the constants.
TypeOK == /\ Cipher \in [Keys \X Nonces \X Block -> Reg]
          /\ pc \in {"idle", "entry", "fly", "round2", "ctr", "half", "last", "store",
                    "mopup", "loop", "undefined"}
          /\ req \in Requests
          /\ {KEY1, KEY2, RC, T0} \subseteq Reg /\ X \in [Block -> Reg]
          /\ I \in 0..5 /\ block \in Block
          /\ LEN \in Nat /\ rcx \in 0..127 /\ rax \in [0..7 -> Byte]
          /\ pc = "mopup" => LEN < 16
          /\ pc = "loop" => LEN \in 1..7 /\ rcx + LEN = req.len
          /\ mem \in [MemAddr -> Byte] /\ mem0 \in [MemAddr -> Byte]
          /\ calls \in 0..MaxCalls

\* The two key registers hold the round keys of the schedule that the next two
\* rounds need, at each turn of the loop and in whichever of the branches,
\* though nothing but these registers is kept of the schedule.
KeysInStep ==
  LET is(reg, r) == \A n \in Lane : reg[n] = Schedules[req.k][16 * r + n]
  IN  /\ pc = "fly"    => is(KEY1, 2) /\ is(KEY2, 1)
      /\ pc = "round2" => is(KEY1, 2) /\ is(KEY2, 3)
      /\ pc = "ctr"    => is(KEY1, 12 - 2 * I) /\ is(KEY2, 13 - 2 * I)
      /\ pc = "half"   => is(KEY1, 14 - 2 * I) /\ is(KEY2, 13 - 2 * I)
      /\ pc = "last"   => is(KEY1, 14)

\* The requests that the routine is written for.
Answered == {[fn |-> "xor", out |-> q.out, in |-> q.in, len |-> q.len, k |-> q.k, n |-> q.n] :
               q \in {r \in Requests : r.len <= 128}}

\* A call that returns has done what the abstract stream does in one step; one
\* that jumps away never returns.
Returned == pc = "idle"

Stream == INSTANCE CtrStream
            WITH BlockBytes <- 16, E <- Cipher,
                 Requests <- Answered,
                 mem   <- IF Returned THEN mem ELSE mem0,
                 calls <- IF Returned THEN calls ELSE calls - 1

ImplementsStream == Stream!Spec

\* Bytes of output written so far.
Progress == CASE pc \in {"entry", "fly", "round2", "ctr", "half", "last"} -> 0
              [] pc = "store" -> 16 * block
              [] pc \in {"mopup", "loop"} -> rcx
              [] pc \in {"idle", "undefined"} -> IF req.len > 128 THEN 0 ELSE req.len

\* At every moment of a call the output up to there is what is promised of the
\* memory the call began with, and every other byte is as it was: each counter
\* wherever it was made, each register of each branch, and the tail to its
\* last byte and no further.
OutputSoFar ==
  calls > 0 =>
    \A a \in MemAddr :
      mem[a] = IF a \in req.out..(req.out + Progress - 1)
               THEN mem0[req.in + (a - req.out)]
                      (+) Cipher[<<req.k, req.n, (a - req.out) \div 16>>][(a - req.out) % 16]
               ELSE mem0[a]

\* Every call comes to an end: it returns, or jumps to a label there is not.
CallEnds == pc = "entry" ~> pc \in {"idle", "undefined"}

\* Only lengths the routine is not written for jump to such a label, as
\* test_ctrs of inline_test.c has it, which calls it for every length from 128
\* down to 1 and prints OKAY or FAIL for each.
EveryLengthReturns == pc = "undefined" => req.len > 128
=============================================================================
