-------------------------- MODULE EcbInlineCorrect --------------------------
(***************************************************************************)
(* What EcbInline has to do: the eight blocks and the schedule that the    *)
(* Python reference's AES-256 gives.                                       *)
(***************************************************************************)
EXTENDS EcbInline, FiniteSets

-----------------------------------------------------------------------------
TypeOK == /\ pc \in {"idle", "entry", "run", "store"}
          /\ req \in Requests
          /\ step \in 0..Len(Program)
          /\ K \in [1..4 -> Reg] /\ RC \in Reg /\ x \in [Block -> Reg]
          /\ KS \in {0} \cup {32 * d : d \in 1..7}
          /\ ks \in [Addr -> Byte]
          /\ mem \in [MemAddr -> Byte] /\ mem0 \in [MemAddr -> Byte]
          /\ calls \in 0..MaxCalls /\ owner \subseteq Keys

\* The number of rounds that the instructions before this one have done.
Rounds(n) == Cardinality({m \in 1..(n - 1) : Program[m].op = "BLOCK"})

\* The round that an instruction does finds its key in the register it names,
\* and not the key of two rounds before or after, though the expansion is up
\* to three keys ahead of the encryption and writes to four registers in turn.
KeyInRegister ==
  pc = "run" /\ req.fn = "expandkey" /\ Program[step].op \in {"BLOCK", "BLOCKLAST"} =>
    \A n \in Lane :
      K[R(1)][n] = Schedules[req.k][16 * (Rounds(step) + 1) + n]

\* When a call returns its output is the cipher of what memory held at the
\* input when it began, of each block and in its order, wherever the two
\* overlap, and whether the keys came from the schedule of an earlier call,
\* from OpenSSL's, or were made between the rounds.
Enciphered ==
  pc = "idle" /\ calls > 0 =>
    \A b \in Block :
      Load(mem, req.out + 16 * b)
        = Aes!Encrypted(Schedules[req.k], Load(mem0, req.in + 16 * b))

\* A call changes the 128 bytes of its output only, once; and the buffer of the
\* schedule only if it expands, when it is left with the whole schedule and
\* what lies behind it as it was.
LeavesTheRest ==
  pc = "idle" /\ calls > 0 =>
    /\ \A a \in MemAddr : a \notin req.out..(req.out + 127) => mem[a] = mem0[a]
    /\ \A a \in Addr : ks[a] = IF a \in Aes!Buffer THEN Schedules[req.k][a] ELSE Zero
=============================================================================
