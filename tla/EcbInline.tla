------------------------------ MODULE EcbInline ------------------------------
(***************************************************************************)
(* ecb_inline/expand.s: Rijndael_k8w4_expandkey, which enciphers eight     *)
(* blocks with AES-256 while it expands the key and stores the schedule,   *)
(* and ecb, which enciphers eight blocks with a schedule it is given.  The *)
(* first is straight-line code: Program is its calls of DRm and BLOCK, in  *)
(* order, with the registers each names.  ecb's round keys are read from   *)
(* memory.  The rest of the two is the same, and so is the caller's memory *)
(* around them: mini.c enciphers in place with a schedule that OpenSSL     *)
(* made.                                                                   *)
(*                                                                         *)
(* mem0 and owner are history: the memory when the current call began, and *)
(* the key whose schedule the caller has in ks.                            *)
(***************************************************************************)
EXTENDS Expansion, Sequences

CONSTANTS
  MemSize,    \* bytes of the caller's memory that output and input are in
  Keys,       \* what callers pass for the key
  InitMem,    \* the memory callers start from
  Requests,   \* where output and input are, what is called, and with which key
  MaxCalls    \* bound on the number of calls

Request == [fn : {"expandkey", "ecb"}, out : Nat, in : Nat, k : Keys]

\* The bytes of output and input; Addr is those of the schedule's buffer.
MemAddr == 0..(MemSize - 1)

ASSUME EcbLengthAssumption == NumWords = 60
ASSUME EcbShiftAssumption == PowersOfTwo
ASSUME EcbKeysAssumption == Keys \subseteq [0..31 -> Byte]
ASSUME EcbMemAssumption == MemSize \in Nat /\ InitMem \in [MemAddr -> Byte]
ASSUME EcbCallsAssumption == MaxCalls \in Nat
ASSUME EcbRequestAssumption ==
  /\ Requests # {} /\ Requests \subseteq Request
  /\ \A q \in Requests : q.out + 128 <= MemSize /\ q.in + 128 <= MemSize

VARIABLES
  pc,         \* "idle", "entry", "run" or "store"
  req,        \* the arguments of the current call
  step,       \* which instruction of Program or round of ecb comes next
  K,          \* xK1 to xK4
  RC,         \* the round constant
  x,          \* x0 to x7, the blocks
  KS,         \* the pointer, as an offset from the buffer it was given
  ks, mem,    \* the schedule's buffer and the caller's memory
  calls,      \* calls made
  mem0, owner \* history

vars == <<pc, req, step, K, RC, x, KS, ks, mem, calls, mem0, owner>>

-----------------------------------------------------------------------------
(* Operations                                                              *)

Block == 0..7

\* The reference's, by key, so that each is expanded once.
Schedules == [k \in Keys |-> Aes!Schedule(k)]

\* The caller's memory with rd_key as aesni_set_encrypt_key leaves it.
OsslSchedules == [k \in Keys |-> Held(aesni_set_encrypt_key(k))]

set_rd_key(k) ==
  [a \in Addr |-> IF a \in 0..239 THEN OsslSchedules[k][a] ELSE ks[a]]

__rc == [i \in Lane |-> IF i = 9 THEN Hex(1) ELSE Zero]

__shuf_1 == [i \in Lane |-> 12 + (i % 4)]

\* InvShiftColumns: where ShiftRows leaves bytes 13, 14, 15 and 12.
__shuf_2 == [i \in Lane |-> <<9, 6, 3, 12>>[(i % 4) + 1]]

__shuf_l == [i \in Lane |-> IF i < 4 THEN 255 ELSE i - 4]

linearmix(key, new) ==
  LET grown(r) == Held(VPXOR(r, VPSHUFB(r, __shuf_l)))
  IN  Held(VPXOR(grown(grown(grown(key))), new))

RotSub(key, rc) == Held(VPSHUFB(VAESENCLAST(key, rc), __shuf_2))

SubLast(key) == Held(VAESENCLAST(VPSHUFB(key, __shuf_1), ZeroReg))

DRm(k1, k2, to1, to2) == [op |-> "DRm", k |-> <<k1, k2, to1, to2>>]

BLOCK(k) == [op |-> "BLOCK", k |-> <<k>>]

\* Round 14: xK1 once more, from xK2, and the last of the encryption.
linearmix_xK1 == [op |-> "linearmix", k |-> <<1, 2>>]
BLOCKLAST == [op |-> "BLOCKLAST", k |-> <<1>>]

Program_KeyOverwritten ==
  <<DRm(1, 2, 3, 4), DRm(3, 4, 1, 2), BLOCK(2), BLOCK(3), BLOCK(4),
    DRm(1, 2, 3, 4), BLOCK(1), BLOCK(2), DRm(3, 4, 1, 2), BLOCK(3), BLOCK(4),
    DRm(1, 2, 3, 4), BLOCK(1), BLOCK(2), DRm(3, 4, 1, 2), BLOCK(3), BLOCK(4),
    BLOCK(1), BLOCK(2), linearmix_xK1, BLOCKLAST>>

Program_WholeLastDRm ==
  <<DRm(1, 2, 3, 4), BLOCK(2), DRm(3, 4, 1, 2), BLOCK(3), BLOCK(4),
    DRm(1, 2, 3, 4), BLOCK(1), BLOCK(2), DRm(3, 4, 1, 2), BLOCK(3), BLOCK(4),
    DRm(1, 2, 3, 4), BLOCK(1), BLOCK(2), DRm(3, 4, 1, 2), BLOCK(3), BLOCK(4),
    BLOCK(1), BLOCK(2), DRm(1, 2, 1, 2), BLOCKLAST>>

Program ==
  <<DRm(1, 2, 3, 4), BLOCK(2), DRm(3, 4, 1, 2), BLOCK(3), BLOCK(4),
    DRm(1, 2, 3, 4), BLOCK(1), BLOCK(2), DRm(3, 4, 1, 2), BLOCK(3), BLOCK(4),
    DRm(1, 2, 3, 4), BLOCK(1), BLOCK(2), DRm(3, 4, 1, 2), BLOCK(3), BLOCK(4),
    BLOCK(1), BLOCK(2), linearmix_xK1, BLOCKLAST>>

rounds(VA(_, _), key) == [b \in Block |-> VA(x[b], key)]

Doing(op) == pc = "run" /\ req.fn = "expandkey" /\ Program[step].op = op

\* The registers the instruction names.
R(n) == Program[step].k[n]

-----------------------------------------------------------------------------
Init == /\ pc = "idle"
        /\ req = CHOOSE q \in Requests : TRUE    \* none yet
        /\ step = 0 /\ KS = 0 /\ calls = 0
        /\ K = [r \in 1..4 |-> ZeroReg] /\ RC = ZeroReg
        /\ x = [b \in Block |-> ZeroReg]
        /\ ks = [a \in Addr |-> Zero]
        /\ mem = InitMem /\ mem0 = InitMem
        /\ owner = {}

\* A caller of expandkey has a buffer; one of ecb has a schedule in it, which
\* an earlier call left there or OpenSSL makes now.
Call(q) ==
  /\ pc = "idle" /\ calls < MaxCalls
  /\ IF q.fn = "ecb" /\ owner # {q.k}
     THEN ks' = set_rd_key(q.k)
     ELSE ks' = ks
  /\ owner' = {q.k}
  /\ req' = q /\ mem0' = mem /\ calls' = calls + 1
  /\ pc' = "entry"
  /\ UNCHANGED <<step, K, RC, x, KS, mem>>

loaded(key) == [b \in Block |-> VPXOR(Load(mem, req.in + 16 * b), key)]

\* The key is the first two round keys; the first whitens the blocks.
expandkey == /\ pc = "entry" /\ req.fn = "expandkey"
             /\ K' = [K EXCEPT ![1] = Load(req.k, 0), ![2] = Load(req.k, 16)]
             /\ RC' = __rc
             /\ ks' = Store(Store(ks, 0, Load(req.k, 0)), 16, Load(req.k, 16))
             /\ KS' = 32
             /\ x' = loaded(Load(req.k, 0))
             /\ step' = 1 /\ pc' = "run"
             /\ UNCHANGED <<req, mem, calls, mem0, owner>>

DoDRm_SameSlot ==
  /\ Doing("DRm")
  /\ LET k1 == linearmix(K[R(1)], RotSub(K[R(2)], RC))
         k2 == linearmix(K[R(2)], SubLast(k1))
     IN  /\ K' = [K EXCEPT ![R(3)] = k1, ![R(4)] = k2]
         /\ ks' = Store(Store(ks, KS, k1), KS + 16, k2)
  /\ RC' = VPSLLD1(RC)
  /\ KS' = KS
  /\ step' = step + 1
  /\ UNCHANGED <<pc, req, x, mem, calls, mem0, owner>>

\* Two round keys, into the other pair of registers and to memory.
DoDRm == /\ Doing("DRm")
         /\ LET k1 == linearmix(K[R(1)], RotSub(K[R(2)], RC))
                k2 == linearmix(K[R(2)], SubLast(k1))
            IN  /\ K' = [K EXCEPT ![R(3)] = k1, ![R(4)] = k2]
                /\ ks' = Store(Store(ks, KS, k1), KS + 16, k2)
         /\ RC' = VPSLLD1(RC)
         /\ KS' = KS + 32
         /\ step' = step + 1
         /\ UNCHANGED <<pc, req, x, mem, calls, mem0, owner>>

DoBLOCK == /\ Doing("BLOCK")
           /\ x' = rounds(VAESENC, K[R(1)])
           /\ step' = step + 1
           /\ UNCHANGED <<pc, req, K, RC, KS, ks, mem, calls, mem0, owner>>

DoLinearmix == /\ Doing("linearmix")
               /\ K' = [K EXCEPT ![1] = linearmix(K[1], RotSub(K[2], RC))]
               /\ ks' = Store(ks, KS, K'[1])
               /\ step' = step + 1
               /\ UNCHANGED <<pc, req, RC, x, KS, mem, calls, mem0, owner>>

DoBLOCKLAST == /\ Doing("BLOCKLAST")
               /\ x' = rounds(VAESENCLAST, K[1])
               /\ pc' = "store"
               /\ UNCHANGED <<req, step, K, RC, KS, ks, mem, calls, mem0, owner>>

\* ecb: round 0, and the others with keys from memory.
ecb == /\ pc = "entry" /\ req.fn = "ecb"
       /\ K' = [K EXCEPT ![1] = Load(ks, 0)]
       /\ x' = loaded(Load(ks, 0))
       /\ KS' = 0
       /\ step' = 1 /\ pc' = "run"
       /\ UNCHANGED <<req, RC, ks, mem, calls, mem0, owner>>

ecbRound_Short == /\ pc = "run" /\ req.fn = "ecb"
                  /\ IF step < 13
                     THEN /\ x' = rounds(VAESENC, Load(ks, 16 * step))
                          /\ step' = step + 1 /\ pc' = pc
                     ELSE /\ x' = rounds(VAESENCLAST, Load(ks, 16 * 13))
                          /\ step' = step /\ pc' = "store"
                  /\ UNCHANGED <<req, K, RC, KS, ks, mem, calls, mem0, owner>>

ecbRound == /\ pc = "run" /\ req.fn = "ecb"
            /\ IF step < 14
               THEN /\ x' = rounds(VAESENC, Load(ks, 16 * step))
                    /\ step' = step + 1 /\ pc' = pc
               ELSE /\ x' = rounds(VAESENCLAST, Load(ks, 16 * 14))
                    /\ step' = step /\ pc' = "store"
            /\ UNCHANGED <<req, K, RC, KS, ks, mem, calls, mem0, owner>>

\* The eight stores, VZEROALL and RET.
Return == /\ pc = "store"
          /\ mem' = [a \in MemAddr |->
                       IF a \in req.out..(req.out + 127)
                       THEN x[(a - req.out) \div 16][(a - req.out) % 16]
                       ELSE mem[a]]
          /\ K' = [r \in 1..4 |-> ZeroReg] /\ RC' = ZeroReg
          /\ x' = [b \in Block |-> ZeroReg]
          /\ pc' = "idle"
          /\ UNCHANGED <<req, step, KS, ks, calls, mem0, owner>>

Stopped == pc = "idle" /\ calls = MaxCalls /\ UNCHANGED vars

Next == \/ expandkey \/ DoDRm \/ DoBLOCK \/ DoLinearmix \/ DoBLOCKLAST
        \/ ecb \/ ecbRound \/ Return
        \/ \E q \in Requests : Call(q)
        \/ Stopped

Spec == Init /\ [][Next]_vars
=============================================================================
