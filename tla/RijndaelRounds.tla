--------------------------- MODULE RijndaelRounds ---------------------------
(***************************************************************************)
(* The pure part of Nk8Nw8/py/rijndael.py for keys and blocks of four, six *)
(* and eight words: the number of rounds, the tables of both directions,   *)
(* the round key evolution and the rounds.  A word is its four bytes, the  *)
(* most significant first, and a state or a round key a function on the    *)
(* words of a block.                                                       *)
(***************************************************************************)
EXTENDS Integers, RijndaelTables

\* A list: the function f itself, all of whose values TLC then computes once.
Tabulated(f) == f @@ <<>>

SubByte == Tabulated(S)

Row == 0..3

Word == [Row -> Octet]

Xor(v, w) == Tabulated([k \in Row |-> SymDiff(v[k], w[k])])

num_rounds(keylen, blocklen) == Max({keylen, blocklen}) \div 4 + 6

shifts_ByRowNumber(BC, j) == <<j, BC - j>>

\* The columns rows 1, 2 and 3 are shifted by, for the two directions.
shifts(BC, j) ==
  CASE BC = 4 -> <<<<1, 3>>, <<2, 2>>, <<3, 1>>>>[j]
    [] BC = 6 -> <<<<1, 5>>, <<2, 4>>, <<3, 3>>>>[j]
    [] BC = 8 -> <<<<1, 7>>, <<3, 5>>, <<4, 4>>>>[j]

shift(BC, j, dir) == IF j = 0 THEN 0 ELSE shifts(BC, j)[dir]

-----------------------------------------------------------------------------
(* The matrix of MixColumn and its inverse by Gauss and Jordan             *)

One == {0}

\* 2 on the diagonal, 3 before it, 1 elsewhere.
G == [i \in Row |-> [j \in Row |-> CASE j = i -> {1}
                                     [] i = (j + 1) % 4 -> {0, 1}
                                     [] OTHER -> One]]

AA == [i \in Row |-> [j \in 0..7 |-> IF j < 4 THEN G[i][j]
                                     ELSE IF j = i + 4 THEN One ELSE {}]]

quotient(a, pivot) ==
  IF a = {} THEN {} ELSE alog[((255 + log[a] - log[pivot]) % 255) + 1]

\* One round of the elimination.  No pivot of G is zero (PivotAssumption), and
\* the exchange of rows is not reached.
Eliminate(m, i) ==
  LET row == [j \in 0..7 |-> quotient(m[i][j], m[i][i])]
  IN  [t \in Row |->
         IF t = i THEN row
         ELSE [j \in 0..7 |-> CASE j < i -> m[t][j]
                                [] j = i -> {}
                                [] j > i -> SymDiff(m[t][j], mul(row[j], m[t][i]))]]

reduced[i \in 0..4] ==
  IF i = 0 THEN AA ELSE LET m == reduced[i - 1] IN Eliminate(m, i - 1)

ASSUME PivotAssumption == \A i \in Row : reduced[i][i][i] # {}

iG == [i \in Row |-> [j \in Row |-> reduced[4][i][j + 4]]]

mul4(a, bs) == Tabulated([k \in Row |-> mul(a, bs[k])])

Si == Tabulated([b \in Octet |-> CHOOSE i \in Octet : SubByte[i] = b])

\* T1 to T4, T5 to T8 and U1 to U4.
T  == [i \in Row |-> Tabulated([b \in Octet |-> mul4(SubByte[b], G[i])])]
TI == [i \in Row |-> Tabulated([b \in Octet |-> mul4(Si[b], iG[i])])]
U  == [i \in Row |-> Tabulated([b \in Octet |-> mul4(b, iG[i])])]

-----------------------------------------------------------------------------
(* Keys                                                                    *)

\* User material as words.
words(key, KC) == [i \in 0..(KC - 1) |-> Tabulated([k \in Row |-> key[4 * i + k]])]

\* What is xored to tk[0]: the last word rotated and substituted.
first(tt, r) ==
  [k \in Row |-> SymDiff(SubByte[tt[(k + 1) % 4]], IF k = 0 THEN r ELSE {})]

SubWord(tt) == [k \in Row |-> SubByte[tt[k]]]

phi_NoMiddle(tk, KC, r) ==
  LET next[i \in 0..(KC - 1)] ==
        Xor(tk[i], IF i = 0 THEN first(tk[KC - 1], r) ELSE next[i - 1])
  IN  [i \in 0..(KC - 1) |-> next[i]]

\* The round key evolution function: each word gets the new one before it,
\* which eight-word keys substitute in the middle.
phi(tk, KC, r) ==
  LET next[i \in 0..(KC - 1)] ==
        Xor(tk[i], IF i = 0 THEN first(tk[KC - 1], r)
                   ELSE LET before == next[i - 1]
                        IN  IF KC = 8 /\ i = 4 THEN SubWord(before) ELSE before)
  IN  [i \in 0..(KC - 1) |-> next[i]]

\* Inverse MixColumn of a word of a round key.
inverse(tt) == Xor(Xor(U[0][tt[0]], U[1][tt[1]]), Xor(U[2][tt[2]], U[3][tt[3]]))

-----------------------------------------------------------------------------
(* Rounds, dir being 1 to encrypt and 2 to decrypt                         *)

AddKey(t, rk) == [i \in DOMAIN rk |-> Xor(t[i], rk[i])]

\* The byte of row j that comes to word i.
from(t, BC, i, j, dir) == t[(i + shift(BC, j, dir)) % BC][j]

round(t, rk, BC, dir) ==
  LET boxes == IF dir = 1 THEN T ELSE TI
      col(i, j) == boxes[j][from(t, BC, i, j, dir)]
  IN  [i \in 0..(BC - 1) |->
         Xor(Xor(Xor(col(i, 0), col(i, 1)), Xor(col(i, 2), col(i, 3))), rk[i])]

last(t, rk, BC, dir) ==
  LET subst == IF dir = 1 THEN SubByte ELSE Si
  IN  [i \in 0..(BC - 1) |->
         [j \in Row |-> SymDiff(subst[from(t, BC, i, j, dir)], rk[i][j])]]
=============================================================================
