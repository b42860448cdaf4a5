------------------------------- MODULE Aes256 -------------------------------
(***************************************************************************)
(* AES-256 as the class Rijndael of Nk8Nw8/py/rijndael.py computes it with *)
(* 32 bytes of key and 16 of text, byte 4 * i + j being row j of word i.   *)
(* The AES-256 routines are held to this, for every S-box.  Also the       *)
(* counter blocks that AES in counter mode enciphers.                      *)
(***************************************************************************)
EXTENDS ScheduleWords

Buffer == 0..239

\* Ke of a key.
Schedule(k) == ScheduleOf(k, 60)

\* Row j of the word that ShiftRow brings to word i.
shifted(s, i, j) == s[4 * ((i + j) % 4) + j]

first(text, ke) == [n \in 0..15 |-> text[n] (+) ke[n]]

round(s, ke, r) ==
  [n \in 0..15 |->
     LET T(j) == TBox(j, shifted(s, n \div 4, j), n % 4)
     IN  ((T(0) (+) T(1)) (+) (T(2) (+) T(3))) (+) ke[16 * r + n]]

last(s, ke) ==
  [n \in 0..15 |-> Sbox[shifted(s, n \div 4, n % 4)] (+) ke[16 * 14 + n]]

\* The state before round r + 1.
States(ke, text) ==
  LET state[r \in 0..13] == IF r = 0 THEN Held(first(text, ke))
                            ELSE Held(round(state[r - 1], ke, r))
  IN  state

Encrypted(ke, text) == last(States(ke, text)[13], ke)

-----------------------------------------------------------------------------
\* One more than a number of 32 bits, as the set of its one bits: a bit turns
\* over when all bits below it are one.
Successor(x) == {n \in 0..31 : (n \in x) # (\A j \in 0..(n - 1) : j \in x)}

\* The last word of a counter block, its most significant byte first, as a
\* number; and a block with another number in its place.
Number(nc) == {n \in 0..31 : (n % 8) \in nc[15 - n \div 8]}

Numbered(nc, x) ==
  [i \in 0..15 |-> IF i < 12 THEN nc[i] ELSE {b \in 0..7 : 8 * (15 - i) + b \in x}]

\* The block c after nc.
CounterBlock(nc, c) ==
  LET number[n \in 0..c] == IF n = 0 THEN Number(nc) ELSE Successor(number[n - 1])
  IN  Numbered(nc, number[c])
=============================================================================
