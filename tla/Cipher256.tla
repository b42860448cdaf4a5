----------------------------- MODULE Cipher256 -----------------------------
(***************************************************************************)
(* Encryption of a block of eight words as Rijndael.encrypt in             *)
(* Nk8Nw8/py/rijndael.py does it, with the T-boxes, byte 4 * i + j being   *)
(* row j of word i.  A schedule Ke is 480 bytes.                           *)
(***************************************************************************)
EXTENDS TBoxes

BC == 8
ROUNDS == 14
State == [0..31 -> Byte]

\* shifts[2], encryption.
shift(j) == IF j >= 2 THEN j + 1 ELSE j

\* Row j of the word that ShiftRow brings to word i.
shifted(s, i, j) == s[4 * ((i + shift(j)) % BC) + j]

RoundKey(ke, n, r0) == ke[32 * r0 + n]

first(p, ke) == [n \in 0..31 |-> p[n] (+) RoundKey(ke, n, 0)]

round(s, ke, r0) ==
  [n \in 0..31 |->
     LET T(j) == TBox(j, shifted(s, n \div 4, j), n % 4)
     IN  ((T(0) (+) T(1)) (+) (T(2) (+) T(3))) (+) RoundKey(ke, n, r0)]

last(s, ke) ==
  [n \in 0..31 |-> Sbox[shifted(s, n \div 4, n % 4)] (+) RoundKey(ke, n, ROUNDS)]

\* The state before round n + 1 of one block.
States(ke, p) ==
  LET state[n \in 0..(ROUNDS - 1)] ==
        IF n = 0 THEN Held(first(p, ke)) ELSE Held(round(state[n - 1], ke, n))
  IN  state

Encrypted(ke, p) == last(States(ke, p)[ROUNDS - 1], ke)

\* Block b of the four at an address.
BlockAt(m, at, b) == [n \in 0..31 |-> m[at + 32 * b + n]]
=============================================================================
