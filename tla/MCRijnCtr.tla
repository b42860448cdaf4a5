----------------------------- MODULE MCRijnCtr -----------------------------
(***************************************************************************)
(* RijnCtr for TLC: blocks of two bytes, vectors of eight, and a memory of *)
(* 40 atoms, one in each byte.  The cipher gives a different atom for each *)
(* byte of each counter block, so that nothing cancels by accident.        *)
(***************************************************************************)
EXTENDS RijnCtr

MCKeys   == {"k"}
MCNonces == {"n0", "n1"}

MCE == [b \in (MCKeys \cup {"zero"}) \X MCNonces \X (0..15) |->
          [j \in 0..1 |-> {<<"e", b, j>>}]]

MCInitMem == [a \in 0..39 |-> {<<"m", a>>}]

MCBit == {<<"m", a>> : a \in 0..39}
           \cup {<<"e", b, j>> : b \in DOMAIN MCE, j \in 0..1}

\* No byte, one, a vector short of one, one, one more, and two and three more.
Lengths == {0, 1, 7, 8, 9, 19}

\* In place; to the end of memory; trailing by a vector; no input; and, off
\* the vector boundary, in place and without input.
Places == {<<"xor", 0, 0>>, <<"xor", 20, 0>>, <<"xor", 8, 16>>,
           <<"stream", 16, 0>>, <<"stream", 21, 0>>}

Req(p, len, n) ==
  [fn |-> p[1], out |-> p[2], in |-> p[3], len |-> len, k |-> "k", n |-> n]

MCRequests == {Req(p, len, "n0") : p \in Places, len \in Lengths}
                \cup {Req(<<"xor", 0, 0>>, 9, "n1")}
=============================================================================
