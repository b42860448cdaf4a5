---------------------------- MODULE ExpansionTest ----------------------------
(***************************************************************************)
(* expansion/mini.c around Aes256Expand: the comparison with OpenSSL's     *)
(* expansion, then the loops that time it, first with one key for every    *)
(* call and then with a key taken from the schedule that the call before   *)
(* left in the buffer.  test_k has sixteen bytes and every routine reads   *)
(* thirty-two: the rest is whatever the program keeps there.  The branch   *)
(* for APPLE_LIBCRYPTO_MADNESS, for a library that is not here, is not     *)
(* compiled.                                                               *)
(***************************************************************************)
EXTENDS Aes256Expand

CONSTANTS
  N,         \* turns of a loop, 2^21 in the code
  TestAt,    \* where test_k is, from the buffer
  TestKeys,  \* the 32 bytes there may be
  PastKeys   \* the 32 bytes there may be 176 bytes beyond

ASSUME TurnsAssumption == N \in Nat \ {0}
ASSUME TestKeysAssumption == TestKeys \cup PastKeys \subseteq Key
ASSUME TestAtAssumption ==
  TestAt \in KeyAddr /\ \A b \in 0..31 : TestAt + b \notin 0..239

VARIABLES
  stmt,      \* which REP of time_expansion, 0 before it
  turn,      \* the counter of its loop, i
  rd_key,    \* aeskey.rd_key
  verdict    \* what test_expansion printed

testVars == <<stmt, turn, rd_key, verdict>>

allVars == <<vars, testVars>>

-----------------------------------------------------------------------------
(* NSS's expansion, as a value                                             *)

\* Intel's, in intel-nss-avx.s: KS for the key k.
intel_aes_encrypt_init_256(k) ==
  LET p0 == <<Load(k, 0), Load(k, 16), con1>>
      p1 == Lenc_256_ks_loop(p0)
      p2 == Lenc_256_ks_loop(p1)
      p3 == Lenc_256_ks_loop(p2)
      p4 == Lenc_256_ks_loop(p3)
      p5 == Lenc_256_ks_loop(p4)
      p6 == Lenc_256_ks_loop(p5)
      p7 == <<half(p6[1], p6[2], p6[3])>>
  IN  RoundKeys(<<p0, p1, p2, p3, p4, p5, p6, p7>>)

-----------------------------------------------------------------------------
(* The program                                                             *)

\* Sixteen words before the end of a schedule.
LastKeys == 4 * (60 - 16)

Buffer == 0..239

test_k == KeyIn(ks, TestAt)

\* Another library's expansion into ks_this.
Fill(bytes) == [a \in Addr |-> IF a \in Buffer THEN bytes[a] ELSE ks[a]]

\* The bytes k at TestAt, and zeros, which ks_this starts with.
TestMem(k) == [a \in Addr |-> IF a - TestAt \in 0..31 THEN k[a - TestAt] ELSE Zero]

TestInit == \E k \in TestKeys :
              /\ Start(TestMem(k), TestAt)
              /\ stmt = 0 /\ turn = 0
              /\ rd_key = aesni_set_encrypt_key(k)
              /\ verdict = "none"

\* memcmp of test_expansion; time_expansion begins with arrays of its own.
test_expansion ==
  /\ stmt = 0 /\ pc = "returned"
  /\ verdict' = IF \A a \in Buffer : ks[a] = rd_key[a] THEN "OKAY" ELSE "FAIL"
  /\ ks' = Fill([a \in Buffer |-> Zero])
  /\ Use
  /\ stmt' = 1 /\ turn' = 0
  /\ UNCHANGED rd_key

\* One turn of REP, from one statement to the next.
Turn == /\ stmt \in 1..9
        /\ IF turn + 1 < N THEN stmt' = stmt /\ turn' = turn + 1
                        ELSE stmt' = stmt + 1 /\ turn' = 0
        /\ UNCHANGED verdict

\* The first argument of a chained call is 16 words before the end.
ossl == /\ pc \in {"returned", "idle"}
        /\ Turn
        /\ \/ stmt = 1 /\ rd_key' = aesni_set_encrypt_key(test_k)
           \/ /\ stmt \in {4, 5}
              /\ rd_key' = aesni_set_encrypt_key(KeyIn(rd_key, LastKeys))
        /\ UNCHANGED vars

\* The reads of the last two loops are past the end of test_k.
nss == /\ Turn
       /\ \/ stmt = 3 /\ ks' = Fill(intel_aes_encrypt_init_256(test_k))
          \/ /\ stmt \in {8, 9}
             /\ \E k \in PastKeys : ks' = Fill(intel_aes_encrypt_init_256(k))
       /\ Use
       /\ UNCHANGED rd_key

local_LastRoundKeys == /\ Turn
                       /\ \/ stmt = 2 /\ Call(TestAt)
                          \/ stmt \in {6, 7} /\ Call(4 * (60 - 8))
                       /\ UNCHANGED rd_key

\* One call, of the first loop or of the two whose keys are in the buffer.
local == /\ Turn
         /\ \/ stmt = 2 /\ Call(TestAt)
            \/ stmt \in {6, 7} /\ Call(LastKeys)
         /\ UNCHANGED rd_key

TestNext == \/ Routine /\ UNCHANGED testVars
            \/ test_expansion \/ ossl \/ nss \/ local

TestSpec == TestInit /\ [][TestNext]_allVars

-----------------------------------------------------------------------------
\* The program's own test does not fail, whatever follows the sixteen bytes
\* of test_k: both expansions read the same thirty-two.
TestPasses == verdict # "FAIL"

\* The two chains of dependent calls, OpenSSL's in its array and this one in
\* the buffer it reads its next key from, end with the same schedule.
SameChain ==
  stmt = 8 /\ turn = 0 /\ pc = "returned" => \A a \in Buffer : ks[a] = rd_key[a]
=============================================================================
