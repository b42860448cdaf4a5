--------------------------- MODULE RijndaelTables ---------------------------
(***************************************************************************)
(* The tables Rijndael.create builds in Nk8Nw8/py/rijndael.py, from the    *)
(* logarithms of GF(2^8) to the base 3, with a byte as the set of its one  *)
(* bits.  They give TLC the S-box, the field doubling and the round        *)
(* constants the assembly is checked with.                                 *)
(***************************************************************************)
EXTENDS Naturals, SequencesExt

Octet == SUBSET (0..7)

\* j << 1 ^ j, with j ^= 0x11B when bit 8 is set.
timesThree(j) ==
  LET p == SymDiff({i + 1 : i \in j}, j)
  IN  IF 8 \in p THEN SymDiff(p, {0, 1, 3, 4, 8}) ELSE p

\* 2^k elements of the list that alog.append makes, from j on.
powersFrom[k \in 0..8, j \in Octet] ==
  IF k = 0 THEN <<j>>
  ELSE LET first == powersFrom[k - 1, j]
       IN  first \o powersFrom[k - 1, timesThree(Last(first))]

\* The whole list; its index 0 is 1 here.
alog == powersFrom[8, {0}]

\* The loop that fills log stops short of alog[255], so that log of 1 is 0.
log ==
  LET list == alog
  IN  [b \in Octet |-> IF b \in {{}, {0}} THEN 0
                       ELSE CHOOSE i \in 1..254 : list[i + 1] = b]

mul(a, b) ==
  IF {} \in {a, b} THEN {} ELSE alog[((log[a] + log[b]) % 255) + 1]

\* box: the inverse of i, with 0 and 1 set apart.
box(i) == IF i \in {{}, {0}} THEN i ELSE alog[255 - log[i] + 1]

\* Column j of row t of the matrix A is one; rows and columns count from the
\* most significant bit.
A(t, j) == (j + 8 - t) % 8 \in 0..4

B == {1, 2, 6, 7}

\* cox: B + A * box.
cox(i) ==
  LET ones == {7 - bit : bit \in box(i)}
      odd(t) == Cardinality({j \in ones : A(t, j)}) % 2 = 1
  IN  {t \in 0..7 : (t \in B) # odd(t)}

S == [i \in Octet |-> {7 - t : t \in cox(i)}]

rcon[t \in 0..29] ==
  IF t = 0 THEN {0} ELSE LET r == rcon[t - 1] IN mul({1}, r)
=============================================================================
