------------------------------- MODULE Bytes -------------------------------
(***************************************************************************)
(* Bytes as the code's exclusive-ors see them.  A byte is the set of its   *)
(* one bits, so VPXOR on a byte, `^' on a uint8_t and on a vector lane are *)
(* the symmetric difference.  Bit is 0..7 where a byte goes through the    *)
(* S-box; where it does not (the counter mode driver only xors) Bit may be *)
(* any set of atoms, a byte then being a formal sum of atoms: two equal    *)
(* terms cancel, exactly as in the code, and different terms never do.     *)
(***************************************************************************)
EXTENDS Naturals

CONSTANT Bit

Byte == SUBSET Bit

Zero == {}

a (+) b == (a \ b) \cup (b \ a)

\* The value itself; to compare it, TLC computes all of its bytes, and keeps them.
Held(r) == CHOOSE v \in {r} : v = r
=============================================================================
