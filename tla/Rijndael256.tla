---------------------------- MODULE Rijndael256 ----------------------------
(***************************************************************************)
(* What the assembly for four blocks at once promises, and is held to:     *)
(* four blocks of Cipher256 read from one place of a memory, rounds in     *)
(* step, and written to another place.                                     *)
(***************************************************************************)
EXTENDS Cipher256

CONSTANTS
  Addr,      \* the byte offsets of the caller's memory
  Args       \* calls: a schedule Ke of 480 bytes, where from and where to

VARIABLES
  arg,       \* the current call
  r,         \* the round that comes next, and 15 when the blocks are stored
  t,         \* the state of the four blocks
  mem        \* the caller's memory

vars == <<arg, r, t, mem>>

Block == 0..3

-----------------------------------------------------------------------------
Init == /\ arg \in Args
        /\ r = 0
        /\ t \in [Block -> State]
        /\ mem \in [Addr -> Byte]

Start == /\ r = 0
         /\ t' = [b \in Block |-> first(BlockAt(mem, arg.src, b), arg.Ke)]
         /\ r' = 1
         /\ UNCHANGED <<arg, mem>>

Round == /\ r \in 1..(ROUNDS - 1)
         /\ t' = [b \in Block |-> round(t[b], arg.Ke, r)]
         /\ r' = r + 1
         /\ UNCHANGED <<arg, mem>>

\* The last round, and its result to memory; the state is not needed again.
Last == /\ r = ROUNDS
        /\ mem' = [a \in Addr |->
                     IF a \in arg.dst..(arg.dst + 127)
                     THEN last(t[(a - arg.dst) \div 32], arg.Ke)[(a - arg.dst) % 32]
                     ELSE mem[a]]
        /\ r' = ROUNDS + 1
        /\ t' \in [Block -> State]
        /\ UNCHANGED arg

\* Another call, from memory the caller has filled anew.
Again == /\ r = ROUNDS + 1
         /\ r' = 0
         /\ arg' \in Args
         /\ t' \in [Block -> State]
         /\ mem' \in [Addr -> Byte]

Next == Start \/ Round \/ Last \/ Again

Spec == Init /\ [][Next]_vars
=============================================================================
