----------------------------- MODULE Reference256 -----------------------------
(***************************************************************************)
(* Rijndael with a key of 32 bytes as the class Rijndael of                *)
(* Nk8Nw8/py/rijndael.py computes it, all rounds in one expression, for    *)
(* blocks of BC words: AES-256 with four, Rijndael-256 with eight.  The    *)
(* routines in assembly and C are held to this.  Also the counter blocks   *)
(* that AES in counter mode enciphers.                                     *)
(***************************************************************************)
EXTENDS RijndaelRounds

\* The values of F on a set, which TLC computes once.
Tabled(D, F(_)) == Tabulated([d \in D |-> F(d)])

\* F(x), of an x that TLC computes before it turns to F.
Applied(F(_), x) == CHOOSE y \in {F(v) : v \in {x}} : TRUE

\* The round keys, BC words each, that __init__ makes of a key.
Schedule(key, BC) ==
  LET tk[n \in 0..14] ==
        IF n = 0 THEN words(key, 8)
        ELSE LET next(before) == Tabulated(phi(before, 8, rcon[n - 1]))
             IN  Applied(next, tk[n - 1])
      list == Tabulated([n \in 0..((15 * BC - 1) \div 8) |-> tk[n]])
      at(w) == list[w \div 8][w % 8]
  IN  [r \in 0..14 |-> Tabulated([w \in 0..(BC - 1) |-> at(BC * r + w)])]

\* encrypt, from round keys and a block.
Encrypted(ke, text, BC) ==
  LET state[r \in 0..13] ==
        IF r = 0 THEN Tabulated(AddKey(words(text, BC), ke[0]))
        ELSE LET before == state[r - 1] IN Tabulated(round(before, ke[r], BC, 1))
      end == last(state[13], ke[14], BC, 1)
  IN  Tabulated([n \in 0..(4 * BC - 1) |-> end[n \div 4][n % 4]])

\* Byte n of a round key.
KeyByte(ke, r, n) == ke[r][n \div 4][n % 4]

Value(byte) == MapThenSumSet(LAMBDA bit : 2^bit, byte)

\* The nonce and counter nc, c blocks on: its last four bytes are a number,
\* the most significant byte first.
CounterBlock(nc, c) ==
  LET digit[n \in 12..15] ==
        Value(nc[n]) + (IF n = 15 THEN c ELSE digit[n + 1] \div 256)
  IN  [n \in 0..15 |-> IF n < 12 THEN nc[n]
                       ELSE {bit \in 0..7 : (digit[n] \div 2^bit) % 2 = 1}]

\* QQQQ(n0, n1, n2, c): a nonce of 24 bytes and a counter, least significant
\* byte first; c is below 256.
QQQQ(nonce, c) ==
  [n \in 0..31 |-> IF n < 24 THEN nonce[n]
                   ELSE IF n = 24 THEN {bit \in 0..7 : (c \div 2^bit) % 2 = 1} ELSE {}]
=============================================================================
