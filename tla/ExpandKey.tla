----------------------------- MODULE ExpandKey -----------------------------
(***************************************************************************)
(* What the two routines linked as Rijndael_k32b32_expandkey share:        *)
(* Nk8Nw8/expand2.s (module Expand2) and Nk8Nw8/rijn_k32ks.s (K32ks) both  *)
(* keep the two halves of the last eight words in registers and make four  *)
(* words from each in turn, fourteen times.  They differ in their          *)
(* instructions, in where the pointer stands and in what they clear.       *)
(***************************************************************************)
EXTENDS Expansion

CONSTANT Keys      \* keys the caller passes

ASSUME KeysAssumption == Keys \subseteq [0..31 -> Byte]

\* Eight words of key and eight for each of fourteen rounds.
ASSUME LengthAssumption == NumWords = 120

VARIABLES
  pc,        \* where the routine is
  c,         \* which `do', or k32_expand, comes next, 1..15
  KS,        \* the pointer, as an offset from the buffer it was given
  KEY1, KEY2,\* %xmm2 and %xmm3; in rijn_k32ks.s %xmm1 and %xmm3
  key,       \* the 32 bytes KEY points to
  ks         \* memory from the buffer on

vars == <<pc, c, KS, KEY1, KEY2, key, ks>>

Init == /\ pc = "entry"
        /\ c = 1
        /\ KS = 0
        /\ KEY1 = ZeroReg /\ KEY2 = ZeroReg
        /\ key \in Keys
        /\ ks = [a \in Addr |-> Zero]

\* Words of the schedule in memory, as far as this call has come.
Written == CASE pc = "entry" -> 0
             [] pc = "do"    -> 8 * c
             [] pc = "half"  -> 8 * c + 4
             [] OTHER        -> 120

Schedule == INSTANCE KeySchedule WITH n <- Written

-----------------------------------------------------------------------------
(* Properties, of either routine                                           *)

\* The pointer of one stands at the last round key when it is done, that of the
\* other a round further, at the end of the schedule.
TypeOK == /\ pc \in {"entry", "do", "half", "ret", "returned"}
          /\ c \in 1..15
          /\ KS \in 0..480
          /\ KEY1 \in Reg /\ KEY2 \in Reg
          /\ key \in Keys
          /\ ks \in [Addr -> Byte]

\* Each word written so far is the word of the reference schedule, also when
\* the buffer held the schedule of another key before: the recurrence runs
\* over words that went through two registers and three shifted copies.
ScheduleCorrect == Schedule!IsSchedule(key, ks, Written)

\* Every step of the routine extends the schedule in order and in place: no
\* word is written twice, none skipped, and the last store ends with byte 479
\* of the 480 the driver reserves.  As both routines do, they leave a caller
\* with the same bytes, as linking either under the same name supposes.
ImplementsSchedule == Schedule!Spec
=============================================================================
