------------------------------- MODULE TBoxes -------------------------------
(***************************************************************************)
(* T1 to T4 of Nk8Nw8/py/rijndael.py, SubBytes and a column of MixColumn   *)
(* in one table: the columns of a round of encryption are sums of them,    *)
(* whatever the length of the block.                                       *)
(***************************************************************************)
EXTENDS Naturals, Bytes

CONSTANTS
  Sbox,      \* SubBytes on one byte
  Mul2       \* multiplication by 2 in GF(2^8)

\* Entry k of G[j]: 2 on the diagonal, 3 before it, 1 elsewhere.
G(j, k) == CASE j = k -> 2
             [] j = (k + 1) % 4 -> 3
             [] OTHER -> 1

times(g, b) == CASE g = 1 -> b
                 [] g = 2 -> Mul2[b]
                 [] g = 3 -> Mul2[b] (+) b

\* Byte k of the entry for b in T-box j + 1.
TBox(j, b, k) == times(G(j, k), Sbox[b])
=============================================================================
