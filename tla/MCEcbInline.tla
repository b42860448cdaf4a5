----------------------------- MODULE MCEcbInline -----------------------------
(***************************************************************************)
(* EcbInlineCorrect for TLC: two keys, and output in place, overlapping    *)
(* the input from either side, and apart.                                  *)
(***************************************************************************)
EXTENDS EcbInlineCorrect, MCAes

\* As MCAes256Expand has test_k, with the words of inline_test.c behind it.
MiniKey ==
  LET w == <<68, 51, 34, 17, 64, 48, 32, 16, 13, 12, 11, 10, 32, 16, 240, 224,
             255, 0, 0, 0, 204, 0, 0, 0, 221, 0, 0, 0, 238, 0, 0, 0>>
  IN  [i \in 0..31 |-> Char(w[i + 1])]

MCKeys2 == {MiniKey, TestKey}

MCMemSize == 272
MCAddr == 0..255

\* io[i] = i, twice.
MCInitMem == [a \in 0..271 |-> Char(a % 128)]

Req(fn, o, i, k) == [fn |-> fn, out |-> o, in |-> i, k |-> k]

MCRequests ==
  {Req(fn, p[1], p[2], MiniKey) : fn \in {"expandkey", "ecb"},
                                  p \in {<<0, 0>>, <<16, 0>>, <<0, 40>>, <<144, 8>>}}
    \cup {Req("expandkey", 0, 0, TestKey), Req("ecb", 0, 0, TestKey)}
=============================================================================
