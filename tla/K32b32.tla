------------------------------- MODULE K32b32 -------------------------------
(***************************************************************************)
(* Nk8Nw8/rijn_k32b32.s, and its .gnu.S translation in the SUPERCOP tree:  *)
(* Rijndael_k32b32_encrypt_x4.  A block is two registers of four columns;  *)
(* AES rounds shift within a register, so before each one bytes change     *)
(* sides and a shuffle puts right the two rows that Rijndael shifts        *)
(* further.  temp1, the round keys and the masks are read where they are   *)
(* used.  All four blocks are loaded before the first is stored.           *)
(***************************************************************************)
EXTENDS Xmm

CONSTANTS
  Addr,      \* offsets of the caller's memory
  Args,      \* calls: the schedule at rdi, and rdx and rsi into the memory
  Mems       \* what the caller's memory holds at a call

ASSUME AddrAssumption == Addr \subseteq Nat
ASSUME MemsAssumption == Mems \subseteq [Addr -> Byte]
ASSUME ArgsAssumption ==
  Args \subseteq {q \in [Ke : [0..479 -> Byte], src : Nat, dst : Nat] :
                    /\ q.src..(q.src + 127) \subseteq Addr
                    /\ q.dst..(q.dst + 127) \subseteq Addr}

VARIABLES
  pc,        \* where the routine is
  arg,       \* the current call
  ks,        \* rdi, as an offset from r10
  r8,        \* the round counter
  x,         \* x0..x7, by block
  mem        \* the caller's memory

vars == <<pc, arg, ks, r8, x, mem>>

Block == 0..3
Half == [data1 : Reg, data2 : Reg]

-----------------------------------------------------------------------------
(* Operations                                                              *)

rijndael256_mask ==
  [i \in Lane |-> <<0, 1, 6, 7, 4, 5, 10, 11, 8, 9, 14, 15, 12, 13, 2, 3>>[i + 1]]

\* As if the rows were shifted by 1, 2 and 3, like those of four columns.
sel2_ShortShift == [i \in Lane |-> IF i \in {1, 2, 3, 6, 7, 11} THEN Bit ELSE Zero]

\* 0xff in the second row of the first column, and so on; zero elsewhere.
sel2 == [i \in Lane |-> IF i \in {1, 2, 3, 6, 7, 10, 11, 15} THEN Bit ELSE Zero]

blockblend(h) ==
  LET temp1 == VPAND(VPXOR(h.data1, h.data2), sel2)
  IN  [data1 |-> VPSHUFB(VPXOR(h.data1, temp1), rijndael256_mask),
       data2 |-> VPSHUFB(VPXOR(h.data2, temp1), rijndael256_mask)]

roundx(h, ke, at) ==
  LET b == blockblend(h)
  IN  [data1 |-> VAESENC(b.data1, Load(ke, at)),
       data2 |-> VAESENC(b.data2, Load(ke, at + 16))]

lastx_MixesColumns(h, ke) == roundx(h, ke, 14 * 32)

lastx(h, ke) ==
  LET b == blockblend(h)
  IN  [data1 |-> VAESENCLAST(b.data1, Load(ke, 14 * 32)),
       data2 |-> VAESENCLAST(b.data2, Load(ke, 14 * 32 + 16))]

StoreBlock(m, at, h) == Store(Store(m, at + 16, h.data2), at, h.data1)

\* Block after block, as the four k32b32_lastx do.
StoreBlocks(m, at, hs) ==
  LET s(n, b) == StoreBlock(n, at + 32 * b, hs[b])
  IN  s(s(s(s(m, 0), 1), 2), 3)

-----------------------------------------------------------------------------
Init == /\ pc = "entry"
        /\ arg \in Args
        /\ ks = 0 /\ r8 = 1
        /\ x = [b \in Block |-> [data1 |-> ZeroReg, data2 |-> ZeroReg]]
        /\ mem \in Mems

\* Round 0: four blocks in, xored with the key.
Round0 ==
  /\ pc = "entry"
  /\ x' = [b \in Block |->
             [data1 |-> VPXOR(Load(arg.Ke, 0), Load(mem, arg.src + 32 * b)),
              data2 |-> VPXOR(Load(arg.Ke, 16), Load(mem, arg.src + 32 * b + 16))]]
  /\ ks' = 0 /\ r8' = 1
  /\ pc' = "rounds"
  /\ UNCHANGED <<arg, mem>>

Rounds_OneTooMany ==
  /\ pc = "rounds"
  /\ ks' = ks + 32
  /\ x' = [b \in Block |-> roundx(x[b], arg.Ke, ks')]
  /\ r8' = r8 + 1
  /\ pc' = IF r8' # 15 THEN "rounds" ELSE "last"
  /\ UNCHANGED <<arg, mem>>

\* The body of ._rounds, and the jump back.
Rounds ==
  /\ pc = "rounds"
  /\ ks' = ks + 32
  /\ x' = [b \in Block |-> roundx(x[b], arg.Ke, ks')]
  /\ r8' = r8 + 1
  /\ pc' = IF r8' # 14 THEN "rounds" ELSE "last"
  /\ UNCHANGED <<arg, mem>>

\* Round 14, vzeroall and the return.
Round14 ==
  /\ pc = "last"
  /\ mem' = StoreBlocks(mem, arg.dst, [b \in Block |-> lastx(x[b], arg.Ke)])
  /\ x' = [b \in Block |-> [data1 |-> ZeroReg, data2 |-> ZeroReg]]
  /\ pc' = "returned"
  /\ UNCHANGED <<arg, ks, r8>>

\* The caller's next call, from memory it has filled anew.
Call == /\ pc = "returned"
        /\ arg' \in Args
        /\ mem' \in Mems
        /\ pc' = "entry"
        /\ UNCHANGED <<ks, r8, x>>

Next == Round0 \/ Rounds \/ Round14 \/ Call

Spec == Init /\ [][Next]_vars

-----------------------------------------------------------------------------
(* Properties                                                              *)

TypeOK == /\ pc \in {"entry", "rounds", "last", "returned"}
          /\ arg \in Args
          /\ ks \in 0..416 /\ r8 \in 1..14
          /\ x \in [Block -> Half]
          /\ mem \in [Addr -> Byte]

\* The block a pair of registers holds.
Joined(h) == [n \in 0..31 |-> IF n < 16 THEN h.data1[n] ELSE h.data2[n - 16]]

RoundNumber == CASE pc = "entry"    -> 0
                 [] pc = "rounds"   -> r8
                 [] pc = "last"     -> 14
                 [] pc = "returned" -> 15

Reference == INSTANCE Rijndael256
               WITH r <- RoundNumber, t <- [b \in Block |-> Joined(x[b])]

\* Every round of the routine is a round of the reference on all four blocks,
\* the swap of bytes between registers, the shuffle and AESENC together being
\* ShiftRow by 1, 3 and 4 over eight columns; and what lands in memory is the
\* four encrypted blocks, wherever input and output lie.
ImplementsReference == Reference!Spec
=============================================================================
