------------------------------- MODULE TestCtr -------------------------------
(***************************************************************************)
(* inlineNk8Nw4/testctr.c: test_0 to test_7, which have a routine encipher *)
(* so many blocks and compare, and test_all, which goes from one to the    *)
(* next.  The routines are from outside src, as far as this program can    *)
(* tell: they leave anything in the buffer.  Buffers are eight blocks of   *)
(* 16 bytes: "ks" is a block as OpenSSL makes it, "zero" one of zeros,     *)
(* "other" anything else.  Of what a test prints only the verdicts are     *)
(* kept, not the dumps of the buffers after FAIL.  The functions of type   *)
(* int that have no return statement give any value.                       *)
(*                                                                         *)
(* left is history: what each routine left in its buffer.                  *)
(***************************************************************************)
EXTENDS Naturals, Sequences

Block == 0..7

Outcomes == [Block -> {"ks", "zero", "other"}]

VARIABLES
  pc,             \* "call", "compare", "overwrite", "return" or "done"
  N,              \* the test
  buf, buf_ossl,  \* its buffers
  err,            \* of test_all; what test_all returns when it is done
  stdout,         \* the verdicts of the current test, or of the last
  judged,         \* the tests that have ended
  left            \* history

vars == <<pc, N, buf, buf_ossl, err, stdout, judged, left>>

Tests == 0..7

ZERO == [b \in Block |-> "zero"]

\* memcmp of n bytes from byte at on.
memcmp(a, b, at, n) ==
  IF \A i \in at..(at + n - 1) : a[i \div 16] = b[i \div 16] THEN 0 ELSE 1

\* The literals written out in each test: the blocks that OpenSSL makes, the
\* bytes compared, and where the bytes behind them begin and how many there are.
literals_Test5AsTest4 ==
  << <<0, 0, 0, 128>>,  <<1, 16, 16, 112>>, <<2, 32, 32, 96>>, <<3, 48, 48, 80>>,
     <<4, 64, 64, 64>>, <<5, 80, 64, 48>>,  <<6, 96, 96, 32>>, <<7, 112, 112, 16>> >>

literals ==
  << <<0, 0, 0, 128>>,  <<1, 16, 16, 112>>, <<2, 32, 32, 96>>, <<3, 48, 48, 80>>,
     <<4, 64, 64, 64>>, <<5, 80, 80, 48>>,  <<6, 96, 96, 32>>, <<7, 112, 112, 16>> >>

literal(i) == literals[N + 1][i]

-----------------------------------------------------------------------------
Init == /\ pc = "call" /\ N = 0 /\ err = 0
        /\ buf = ZERO /\ buf_ossl = ZERO
        /\ stdout = <<>> /\ judged = {}
        /\ left = ZERO

\* New buffers, the routine on one and OpenSSL's on the other.
call == /\ pc = "call"
        /\ buf' \in Outcomes
        /\ left' = buf'
        /\ buf_ossl' = [b \in Block |-> IF b < literal(1) THEN "ks" ELSE "zero"]
        /\ stdout' = <<>>
        /\ pc' = "compare"
        /\ UNCHANGED <<N, err, judged>>

compare == /\ pc = "compare"
           /\ stdout' = IF memcmp(buf, buf_ossl, 0, literal(2)) # 0
                        THEN <<<<N, "FAIL">>>> ELSE <<<<N, "OKAY">>>>
           /\ pc' = "overwrite"
           /\ UNCHANGED <<N, buf, buf_ossl, err, judged, left>>

\* And the blocks behind them.
overwrite == /\ pc = "overwrite"
             /\ stdout' = IF /\ 128 - 16 * N # 0
                             /\ memcmp(buf, ZERO, literal(3), literal(4)) # 0
                          THEN Append(stdout, <<N, "OVERWRITE">>) ELSE stdout
             /\ pc' = "return"
             /\ UNCHANGED <<N, buf, buf_ossl, err, judged, left>>

return_SevenTests ==
  /\ pc = "return"
  /\ err' \in {0, 1}
  /\ judged' = judged \cup {N}
  /\ IF err' # 0 \/ N = 6 THEN pc' = "done" /\ N' = N
     ELSE pc' = "call" /\ N' = N + 1
  /\ buf' = ZERO /\ buf_ossl' = ZERO /\ left' = ZERO
  /\ UNCHANGED stdout

\* err = test_N(); if (err) { return err; }, with whatever test_N returned.  The
\* buffers are gone.
return == /\ pc = "return"
          /\ err' \in {0, 1}
          /\ judged' = judged \cup {N}
          /\ IF err' # 0 \/ N = 7 THEN pc' = "done" /\ N' = N
             ELSE pc' = "call" /\ N' = N + 1
          /\ buf' = ZERO /\ buf_ossl' = ZERO /\ left' = ZERO
          /\ UNCHANGED stdout

\* main returns 0 in any case.
Exit == pc = "done" /\ UNCHANGED vars

Next == call \/ compare \/ overwrite \/ return \/ Exit

Spec == Init /\ [][Next]_vars

-----------------------------------------------------------------------------
(* Properties                                                              *)

TypeOK == /\ pc \in {"call", "compare", "overwrite", "return", "done"}
          /\ N \in Tests
          /\ buf \in Outcomes /\ left \in Outcomes
          /\ buf_ossl \in [Block -> {"ks", "zero"}]
          /\ err \in {0, 1} /\ judged \subseteq Tests /\ Len(stdout) \in 0..2
          /\ pc = "done" /\ err = 0 => judged = Tests
          /\ pc = "call" => judged = 0..(N - 1)

\* What a test has printed when it ends is true of what the routine left: OKAY
\* if and only if each block it was asked for is OpenSSL's, and OVERWRITE if
\* and only if it wrote to one behind them.  No outcome passes unseen, in any
\* of the eight tests with the literals written out in it.
VerdictTrue ==
  pc = "return" =>
    /\ stdout[1] = <<N, IF \A b \in 0..(N - 1) : left[b] = "ks" THEN "OKAY" ELSE "FAIL">>
    /\ (stdout[Len(stdout)] = <<N, "OVERWRITE">>) <=> \E b \in N..7 : left[b] # "zero"

\* What test_all says it does with err: it ends before the last test only after
\* one that has failed.  Not so, as the tests return nothing: after a test that
\* printed OKAY and no more, the rest may be left out.
StopsOnlyOnFailure ==
  pc = "done" /\ judged # Tests => stdout # <<<<N, "OKAY">>>>
=============================================================================
