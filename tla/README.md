# Verification of rijn

TLA+ models, model-checking runs and machine-checked proofs for *rijn*, an
implementation of Rijndael with 32-byte keys and 32-byte blocks in counter
mode, written in C and x86 assembly (AVX, AES-NI), with a Python reference, and
of the AES-256 experiments kept in the same repository. Paths below are those
of the repository.

## 1. Inventory

| part | where | state it keeps | operations |
|---|---|---|---|
| counter mode driver | `Nk8Nw8/rijn_ctr.c`; twin `crypto_stream/rijn256ctr/gil/stream.c` | schedule `ks[120]` and four counter blocks `nc` on the stack; the caller's memory | `rijndael256_ctr_xor`, `rijndael256_ctr_stream` |
| key expansion, AESENCLAST | `Nk8Nw8/expand2.s` (the one `build.ninja` links) | two key registers, a pointer, the schedule | `Rijndael_k32b32_expandkey` |
| key expansion, AESKEYGENASSIST | `Nk8Nw8/rijn_k32ks.s`, `.gnu.S` twins (the one SUPERCOP links) | the same | `Rijndael_k32b32_expandkey` |
| four-block kernel | `Nk8Nw8/rijn_k32b32.s`, `.gnu.S` twins | eight registers of state, two round counters | `Rijndael_k32b32_encrypt_x4` |
| Python reference | `Nk8Nw8/py/rijndael.py` | tables, two schedules | `Rijndael(key, blocklen)`, `encrypt`, `decrypt` |
| test generator | `Nk8Nw8/py/ctr_testgen.py` | none | `ctr_test` |
| AES-256 expansion | `expansion/`, `ecb_inline/expand_ssse3.s`, `inline64B/expand.s` | registers, round constant, schedule | `Rijndael_k8w4_expandkey` |
| its test and timing program | `expansion/mini.c` | the schedules of three implementations | `test_expansion`, `time_expansion` |
| OpenSSL's and NSS's expansions | `expansion/ossl_expansion.s` (a copy in `ecb_inline/`), `expansion/intel-nss-avx.s` | registers, the schedule | `aesni_set_encrypt_key`, `intel_aes_encrypt_init_256` |
| AES-256 ECB, eight blocks | `ecb_inline/expand.s` | four key registers, eight blocks, the schedule | `Rijndael_k8w4_expandkey` with inlined encryption, `ecb` |
| AES-256 CTR, up to 128 bytes | `inline64B/inline.s`, `tedious-macros.s` | two key registers, eight blocks, the tail | `aes256_ctr` |
| block counter test | `inlineNk8Nw4/testctr.c`, generated from `testctr.ginger.c` | two buffers, an error code | `test_0` to `test_7`, `test_all` |
| AES-256 CTR template | `inlineNk8Nw4/partial.ginger.s` | | not modelled; section 8 |
| everything else | fragments, Go generator, other test programs, the other third-party baselines, preprocessor outputs | | not modelled; section 8 |

**Interaction.** Everything is sequential: no threads, callbacks or persistent
state. A caller calls the driver; the driver fills `nc`, calls the expansion
once to fill `ks`, and then the kernel once for every 128 bytes and once more
for a remainder. Expansion, kernel and driver share memory only: 480 bytes of
schedule and 128-byte buffers at fixed offsets, with no length passed. The two
expansions are interchangeable at link time. The Python reference is what the
test program's output is compared with, by `diff`, on one key, one nonce and
one length (1530). (The two print in different layouts, one block to a line
against 128 bytes with blanks between groups, so that `diff` is never empty.)

The AES-256 routines are apart from that chain, and from each other: each
expands a key and, but for the first, enciphers with it in one call. Their test
programs compare them with OpenSSL.

**What is hard.** Not concurrency but interleaving *within* a routine:

* two counters of one loop in different units (rounds and bytes, vectors and
  bytes), and the edges where a loop hands over to straight-line code;
* values updated in place in registers and memory, input and output possibly
  the same memory;
* hand-copied constants and shuffle masks, of which a wrong byte shows on some
  states only;
* code that is right only through what another part left behind: the counters
  after the vector loop, the pointer after fourteen rounds;
* undefined behaviour: 128-byte vectors accessed at the caller's addresses;
* scratch memory that should not outlive the call.

`PROJECT.json` lists each at its line, with the property that would catch it.

**What makes each part correct.** Driver: at each moment of a call, memory is
what counter mode promises up to there and untouched elsewhere; no counter is
used twice; the scratch is cleared; and on bytes, its vectors and schedules are
the keys, nonces and counters it is described with. Expansions: word by word the
reference schedule, written once, nothing outside it. Kernel: each round is a
reference round on four blocks; the result lands whole whatever the overlap.
Routines that expand while they encipher: each round finds its own key in the
register it names; output and schedule are the reference's and other memory is
untouched; every call returns. Python class: decryption undoes encryption. Test
programs: the verdicts they print are true of what the routine left.

## 2. Modules

| module | what it is |
|---|---|
| `Bytes` | a byte as the set of its one bits, `(+)` the exclusive or |
| `Xmm` | the AVX and AES-NI instructions the assembly uses |
| `RijndaelTables` | S-box, GF(2^8) and round constants as `rijndael.py` computes them |
| `KeySchedule` | **abstract**: a schedule appears in a buffer, in order |
| `Expansion` | what all key expansions share; OpenSSL's expansion for a key of 256 bits, and the loop of NSS's, as values |
| `Expand2`, `K32ks` | the two expansions; each implements `KeySchedule`; `ExpandKey` has their common state, caller and promise |
| `Cipher256` | encryption of one block as `rijndael.py` does it, for any S-box and doubling |
| `Rijndael256` | **abstract**: four blocks of `Cipher256` in step, from memory to memory |
| `K32b32` | the kernel; implements `Rijndael256` |
| `CtrStream` | **abstract**: a call of counter mode in one step |
| `RijnCtr` | the driver, for any cipher; implements `CtrStream` |
| `Stream`, `StreamCorrect` | the driver of `stream.c` on bytes, **composed** with the key schedule and the block cipher; implements `RijnCtr` and, through it, `CtrStream` |
| `RijndaelRounds`, `PyRijndael` | the Python class for its nine combinations of sizes: tables in both directions, schedule, `encrypt`, `decrypt` |
| `Reference256` | the same, for keys of 32 bytes, as operators from key and text to schedule and cipher |
| `TBoxes`, `ScheduleWords` | the tables of an encryption round and the words of a schedule, which the references below share |
| `Aes256` | **abstract**: AES-256 of `rijndael.py` and its counter blocks, for any S-box and doubling; what the AES-256 routines are proved against |
| `Aes256Expand` | the AES-256 expansion; implements `KeySchedule` with sixty words |
| `ExpansionTest` | `mini.c` around it: the comparisons and the chained calls |
| `EcbInline`, `EcbInlineCorrect` | expansion and encryption of eight blocks in one pass, and `ecb` |
| `InlineCtr`, `InlineCtrCorrect` | AES-256 in counter mode for up to 128 bytes; implements `CtrStream` |
| `TestCtr` | the block counter test, on any outcome of what it tests |
| `*_proof` | theorems about the module they extend; `Expansion_proof` the lemmas that the expansions share |
| `MC*` | constants for TLC; `MCAes` holds those the cipher modules share, `MCExpandKey` takes either expansion |

A `...Correct` module holds the properties of a module that the Python reference
is needed to state. `Aes256` is AES-256 byte by byte on any S-box, with counters
as sets of 32 bits, the form the proofs need; `Reference256` is the class itself, words, tables
and all, for blocks of any length, with counters as integers. That the two agree
on the keys and counter blocks of the run is `SchedulesAgree` and `CiphersAgree`
of `MCInlineCtr`, which TLC evaluates. `ScheduleWords` and `Cipher256` are the
same for Rijndael-256, and `MCStream` compares them with `Reference256` in the
same way.

**Abstraction of data.** A byte is the set of its one bits, so exclusive or is
symmetric difference and its laws are set theory. Where bytes go through the
S-box `Bit` is `0..7`. The driver only xors, so there `Bit` may be any set of
atoms: the run gives every byte of memory and every byte of every keystream
block an atom of its own, and then no wrong byte can equal a right one by
accident. `Sbox` and `Mul2` (doubling) are parameters: the proofs hold for any
functions on bytes, the runs use the tables `RijndaelTables` computes.

**State and code.**

* `RijnCtr`: `req`, `ks`, `nc`, `nblocks`, `i` are the arguments and locals;
  `at` is how far `outv` and `inv` have moved; `mem` is the caller's memory.
  `entry`, `full`, `rest`, `bytes` are the places before the early return, in
  the vector loop, after it, and in the byte loop. One action is one iteration
  of a loop or one straight-line part. `mem0` and `spent` are history. `E`, the
  cipher, is indexed by the schedule, the nonce and the counter. Call sites of
  the xor and the stream functions are one action: their code differs in whether
  input is read (`input`). A misaligned vector access may be done or may trap
  (`Trap`).
* `Expand2`, `K32ks`: one action for the load, one for each half of a round, one
  for the return. `KS` is the pointer relative to the buffer, `c` the round that
  comes next; the names are those of `expand2.s`.
  Temporaries are written before they are read and are local to an action. The
  buffer of a second call holds the first call's schedule.
* `K32b32`: one action for round 0, for an iteration of `._rounds` and for round
  14 with its stores; `ks` and `r8` are the code's two counters. Stores are
  sequential, in the code's order.
* `Stream`: the variables of `RijnCtr`, but `ks` is the array of 480 bytes, `nc`
  the 128 bytes of the vector, and counters are its 64-bit elements, added with
  carries. What the two routines in assembly leave is
  `ScheduleOf` and `Encrypted`, to which their own modules hold them. `KeyOf` and
  `LaneOf` in `StreamCorrect` are the refinement mapping: they read key, nonce
  and counter back out of the bytes. `memset_s` is the
  macro as it is, so a second call starts from what the first left.
* `PyRijndael`: an instance's state is its key, its block length and its two
  lists of round keys; one action per step of the extrapolation loop, per round
  of `encrypt` or `decrypt`, and for the pass of the inverse MixColumn. Key and
  block length are any of the instance's; the ValueErrors are actions.
* `Aes256Expand`: as `Expand2`, with `RC` the register that is shifted. The key
  is 32 bytes of the same memory, at the pointer `KEY`, and a call may have it
  apart from the buffer or over some of it, from either side: `LoadKey` reads
  both halves from memory and then stores them, in that order. `key` is history,
  what those bytes were when the call began.
* `ExpansionTest` adds OpenSSL's and NSS's expansions and the loop of `REP`.
  The two are modelled register by register as `ossl_expansion.s` and
  `intel-nss-avx.s` have them, but as values, in one step of the caller, as
  nothing looks into the buffer meanwhile. `test_k` is 32 bytes apart from the
  buffer, of which `mini.c` declares sixteen; what lies behind those, which
  all routines read, is chosen by the instance. The comment at
  `mini.c:77` has calls chain on the last round keys; the code takes words 44
  to 51, which are not the last eight. Both chains do, so they agree. The branch
  for `APPLE_LIBCRYPTO_MADNESS`, which swaps the bytes of another library's
  schedule, is not compiled.
* `EcbInline`: `Program` is the source's list of `DRm` and `BLOCK` with their
  registers, and `step` is the place in it; for `ecb`, `step` is the round. The
  first half of the last key comes before round 13 in the source and is part of
  `DoLinearmix` here: round 13 reads neither register that it writes. The
  schedules `ecb` is called with are those OpenSSL's expansion makes, as in
  `ecb_inline/mini.c`. The file `ecb.s` is not `ecb` but a part of it, ending in
  `BLOCK` where `BLOCKLAST` belongs, without stores or a return.
* `InlineCtr`: `entry` is before the dispatch; `fly` and `round2` are the first
  two rounds of a branch, `ctr` and `half` the two halves of a turn of its loop;
  `store` the stores, with `block` the next one; `mopup` and `loop` the tail. The
  eight branches differ in how many registers they name and in nothing else, so
  `enc` and the stores are parameterised by `fly(LEN)`. Jumps to labels that no
  file defines lead to `undefined`, where nothing goes on.
* `TestCtr`: a buffer is eight blocks, of which each is OpenSSL's, zero or
  anything else, because every comparison begins and ends at a block.
  `literals` has what the source writes out in each of the eight tests: the
  blocks OpenSSL is asked for, and the bytes at which the comparisons begin and
  end. A function of type `int` without a return statement returns 0 or 1.
  The dumps of both buffers after FAIL are left out. As committed the
  program does not compile: it passes three arguments to `aes256_ctr1` to
  `aes256_ctr7`, which `aesctr.h` declares with five, calls an `aes256_ctr0`
  that is declared nowhere, and declares `AES_encrypt` twice with different
  types. The model is of the program with prototypes that fit.
* `.gnu.S` files are the same instructions in another syntax, covered by the
  model of their twin.

**Environment.** AES-256 counter mode is held to `aesni_ctr32_encrypt_blocks`,
whose counter is 32 bits wide as the routine's is; `AES_ctr128_encrypt`, which
`inline_test.c` compares with, carries on into the nonce, which no test reaches
from a counter of zero. `InlineCtr` takes in place, apart, or output trailing
the input by any number of bytes; `EcbInline` any overlap.

Callers of the driver pass requests that fit in memory and in
which input and output are the same, apart, or output trails input by a
multiple of 128 (`Admissible`); any other overlap reads input already
overwritten, and no code of the repository asks for it. The third conjunct of
`Admissible`, that the counter can number the blocks, always holds in the code:
a length below 2^64 needs fewer than 2^60 of 2^64 counters.

## 3. Runs

| run | instance | what it shows |
|---|---|---|
| `rijn_ctr` | blocks of 2 bytes, 4 lanes, counter mod 16, 40 bytes, 31 requests, 2 calls | `OutputSoFar`, `ImplementsStream`, `NoCounterTwice`, `CallReturns` |
| `rijn_ctr_scratch` | the same | finding 4.1: scratch is not cleared |
| `stream` | full size, real tables, 320 bytes of memory, 13 requests, 2 calls | `ImplementsDriver`: the driver on bytes is the driver; `KeystreamSoFar`, `ImplementsStream`, `KnownAnswer` |
| `expandkey` | either routine, full size, real S-box, 3 keys, 16 bytes of memory beyond the schedule | `ScheduleCorrect`, `ImplementsSchedule` |
| `k32b32` | full size, real S-box, a schedule, 4 placements, 2 memories | `ImplementsReference`, `KnownAnswer` |
| `py_rijndael` | full size, all nine combinations, encryption and decryption in either order | `RoundTrip`, `Retraces`, `ScheduleAgrees`, `RoundsAgree` |
| `aes256_expand` | full size, real S-box, keys ending in any of several words, chains of calls, keys that overlap the buffer | `ScheduleCorrect`, `TestPasses`, `SameChain`, `ImplementsSchedule` |
| `ecb_inline` | full size, real tables, 2 keys, 4 overlaps, both routines, 2 calls | `KeyInRegister`, `Enciphered`, `LeavesTheRest` |
| `inline_ctr` | full size, real tables, every length from 0 to 129, 1 call | `KeysInStep`, `OutputSoFar`, `ImplementsStream`, `CallEnds` |
| `inline_ctr_tail` | the same | finding 4.2: some lengths do not return |
| `testctr` | every one of 6561 outcomes for each of eight tests | `VerdictTrue` |
| `testctr_return` | the same | finding 4.3: tests left out after a test that printed OKAY |

**Bounds.** `BlockBytes = 2` keeps the two divisions of the code (bytes in
blocks, bytes in vectors) distinct and nontrivial. Lengths 0, 1, 7, 8, 9 and 19
are: the early return, a tail only, a vector less one, exactly a vector, one
more, and two vectors with a tail of more than one block. `MaxCalls = 2` lets
every request follow every other, so whatever a call leaves in the locals'
memory is there for the next; `req`, `nc` and `ks` are reset by each call,
so a third adds nothing. `CtrMod = 16` exceeds the twelve counters that the
longest request uses. The driver may stop after `MaxCalls`, hence
`CHECK_DEADLOCK FALSE`. The cipher modules have no bound: their constants are
the code's. Three keys (the test's, zero, and one with distinct bytes), each
expanded over the schedule of each, reach every step of the routines; that the
result does not depend on the key's value is what the proofs add.
`inline_ctr` has every length that its test calls and the two beside them, and
the branches and the tail depend on nothing else; counters start at zero, four
below 2^32 and three below 2^8, so that each of the eight carries somewhere.
Its calls share no state, all registers being cleared or loaded anew, hence
`MaxCalls = 1`. `stream` calls twice, on both sides of each number of vectors.
`CtrBits = 4` there bounds the table of keystream blocks that TLC fills in, and
with it the requests: sixteen counters, where the longest uses twelve. Words are
64 bits wide all the same. TLC does not reach the sixty-fourth vector, where a
counter's second byte moves; the proof does. In `ecb_inline` and `stream` a state
has one successor except where a call is chosen: what is explored is calls and their
order. `aes256_expand` begins either as `mini.c` does or with one call whose key
overlaps the buffer at one of the offsets named in the instance. `testctr` has
no bound.

`KnownAnswer` ties the whole chain `RijndaelTables`, `KeySchedule`, `Xmm` and
`K32b32` to numbers from outside the model: the first bytes of the four blocks
that `ctr_testgen.py` prints for the test's key.

**Fairness.** `RijnCtr` and `InlineCtr` state weak fairness of the function's
steps: a running thread goes on. Callers need not call. In `InlineCtr` it reads
`[]<>~Running \/ []<><<Running>>_vars`: always eventually outside the routine, or
steps of it forever. That is weak fairness of `Routine` wherever `Routine` is
enabled while `Running`, which is what the run's deadlock check says; TLC
evaluates ENABLED of the AES steps too slowly for `WF_vars(Routine)`. A trap
ends `RijnCtr`'s call, and an undefined jump `InlineCtr`'s, and `CallReturns` and
`CallEnds` say so. The other modules are straight-line code with one counted
loop; that they end is the type invariant's bound on the counter with each step
advancing it. Deadlock is checked except in `rijn_ctr`,
`py_rijndael` and `aes256_expand`, whose callers may stop calling; elsewhere
`Stopped` and `Exit` are the states in which a run is meant to end.

## 4. Findings

### 4.1 The scratch is not cleared

`rijn_ctr.c:25` and `stream.c:33` define

    #define memset_s(DST, DSTLEN, VAL, OPLEN) memset((DST), (DSTLEN), (VAL))

so `memset_s(ks, 120*4, 0, 120*4)` is `memset(ks, 480, 0)`: zero bytes are set.
The statements before each return, which read as zeroing the schedule and the
counters, do nothing. Run `rijn_ctr_scratch` shows a call that returns with both
as they were (`ScratchCleared`). Output is not affected.

### 4.2 A tail of eight bytes jumps to a label there is not

`inline.s:266-267`, after the eight bytes at once, says

    SUBQ $8, LEN
    JZ done

`done` is the macro of lines 133 to 142, and no file defines a label `done`. Every
length with eight bytes in its last block (8, 24, ..., 120) takes the jump, while
`inline_test.c:74` calls every length from 128 down to 1 and expects each to
return. As it stands the program does not link, for this and for `_expand_key`
(line 154, lengths above 128 only). Run `inline_ctr_tail` shows the call
(`EveryLengthReturns`); `OutputSoFar` shows that its output is right by then.

### 4.3 The tests return nothing

`testctr.c:243-258` ends `test_all` when a test returns an error:

    err = test_0();
    if (err) { return err; }

None of `test_0` to `test_7` has a return statement, so `err` is whatever the
register held. Run `testctr_return` shows `test_0` print OKAY and nothing else,
and `test_all` end there with seven tests left out (`StopsOnlyOnFailure`). The
verdicts printed are true all the same (`VerdictTrue`), and `main` drops the
result, so that nothing tells of the tests left out.

### 4.4 Found while reading

No run is about these: a constant verdict, or files no program is made of.

* `ecb_inline/mini.c:32-34`: the call of the expansion is commented out and
  `aesni_ecb_encrypt` is called with `enc` 0, which deciphers, so that the
  program prints `KS:FAIL` and `ENC:FAIL` whatever the routines do.
* `testctr.c:322`: `main` drops the result of `test_all` and returns 0.
* `partial.ginger.s`: `NC` and `IN` share a register; block 0 is xored twice with
  the input; the tail's comparison has no branch.

## 5. Proofs

All theorems are checked by TLAPS to the last leaf. They hold for every value
of the constants that meets the assumptions named in the modules.

* **Driver** (`RijnCtr_proof`), for every block size, number of lanes, counter
  range, memory size, cipher and set of admissible requests.
  `OutputSoFar` is not inductive: it says nothing of what the next chunk will
  be made of. `IInv` adds `LoopInv`: with `p` vectors done, `at` is `p` vectors,
  `nc` holds the counters from `p * Lanes` on, `ks` is the schedule of the
  request, and `spent` lies below `p * Lanes`. From it, byte `j` of the buffer is
  byte `at + j` of the abstract keystream (`BufferByte`: the quotient and
  remainder of a sum), input not yet read is input as it was when the call
  began, in place or not (`UnreadInput`), and no counter wraps (`NoWrap`).
  `Invariance`, then `TypeCorrect`, `OutputIsCorrect`, `CountersFresh` and the
  refinement `Implementation` follow.
* **Expansions** (`ExpandKey_proof`, both routines), for every S-box, key and
  initial buffer. `IInv`, and `K32ksIInv` for the other, says that the two key
  registers are the last eight words in memory, where the pointer is (`32 * (c - 1)` in one, a round further
  in the other), and that the words written form a schedule. What they have in
  common is in `Expansion_proof`: three shifted copies of a register make the
  chained recurrence of the reference (`ChainedWords`), and four chained words
  with the right feedback extend the schedule and disturb nothing
  (`FourWords`). Each routine's own proof then shows that its shuffles shift by
  a word, and that its AESENCLAST on a spread word, or its AESKEYGENASSIST, is
  the feedback. `Implementation` and
  `K32ksImplementation`: a caller cannot tell which was linked.
* **AES-256 expansion** (`Aes256Expand_proof`), for every S-box and every key,
  also one that lies in the buffer being filled. Six calls of `.L_DR` and a half
  round; the same lemmas of `Expansion_proof` serve. The round constant is not a
  literal but a register that is shifted, so `IInv` also says what is in it: the
  constant of the round to come, on the byte where AESENCLAST's ShiftRows takes
  it from. Before `LoadKey` it says that `key` is what is at `KEY`, and nothing
  after it does: that is where it counts that both halves are read before the
  first store.
  OpenSSL's expansion and NSS's are proved to make the reference schedule, for
  every S-box and key (`OsslSchedule`, `NssSchedule`): the first sums words with
  shuffles instead of shifts (`SHUFPS`), the second has the constants in a
  register that is shifted.
  `mini.c` around it, whose invariant is `TestInv`: `TestNeverFails`, whatever
  lies behind `test_k` (which no call overwrites, `TestKeyKept`), and
  `ChainsAgree`, for any number of turns. The second
  needs the list of schedules that the dependent calls make one from another
  (`Chain`), and where in that list each of the two buffers is at each statement
  (`ChainInv`).
* **One-pass ECB** (`EcbInline_proof`), for every S-box, doubling, key, memory
  and overlap. At each of the 21 instructions, tables say which round key each of
  the four registers holds, how many keys are stored and how many rounds done
  (`KeyOf`, `Made`, `Done`); that those follow from the instructions is
  `ProgramFacts`. `IInv` says that the registers, the round constant, the buffer
  and the eight blocks are what the tables say (`Expanding`), the same for `ecb`
  (`Loading`), that the schedule is whole when it is read (`Ready`), that what is
  stored is the cipher (`Ciphered`), and that memory is as it was until then
  (`InCall`, `Untouched`). That the schedule `ecb` reads is one of a key is
  `OsslSchedulesAreSchedules`. `KeyInRegister`, `Enciphered` and `LeavesTheRest`
  follow.
* **AES-256 counter mode** (`InlineCtr_proof`), for every S-box, doubling, key,
  counter block, memory and admitted request. `IInv` strengthens `KeysInStep` and
  `OutputSoFar` with the ranges of the counters at each place (`Counted`), the
  round constant and the word substituted ahead (`Constants`), the state of every
  block (`Rounds`), and where the keystream of the bytes not yet written is, in
  vectors, in `rax` or being shifted out of it (`Ready`). `Stored`: a store behind
  the reads leaves the rest of the input as it was. `CountersAreCounters`: the
  eight counters, made by vector additions on byte-swapped words and one by
  integer arithmetic, are the successors of the first in the reference, modulo
  2^32 and for every counter. Sums of 32-bit numbers are sets of bits, so this
  is about carries: adding one turns over a bit and all ones below it (`Up`,
  `SuccessorIsUp`), adding a power of two does so from that bit (`UpTwice`), and an
  addend with one more bit turns over one more (`AddBit`). `Implementation` is
  the refinement of `CtrStream`.

  A request above 128 bytes never returns, and the stream is not asked it
  (`Answered`): `OutputSoFar` says of it, and of the lengths of finding 4.2, that
  memory is right where it stops.
* **Driver on bytes** (`Stream_proof`), for every S-box that moves 0, doubling,
  round constants, set of keys and nonces, memory, set of admissible requests and
  width of counter from 2 to 64 bits. Three steps: the code on bytes is the driver
  (`Implementation`), so it inherits the driver's inductive invariant
  (`DriverInvariance`, citing `RijnCtr_proof` for an instance whose assumptions
  `DriverAssumptions` discharges), and so what it writes is counter mode
  (`KeystreamIsCorrect`) and a step of the abstract stream
  (`StreamImplementation`).

  `ImplementsDriver` is a statement about the mapping, and needs `LoopInv`: with
  `p` vectors done, word 3 of lane `l` is the 64 bits of `4 * p + l` and the other
  words are the nonce's, and `ks` is the schedule of the request's key from
  `Setup` to `Cleanup`, as long as its bytes count. `LaneAdded` is the heart:
  adding `{0, 0, 0, 4}` to the vector adds four to the counter of each lane and
  leaves the nonce alone. Words are sets of bits, so a sum is about carries:
  `ValueTop` and `BitsOfValue` make a set and its number one to one, `CarryStep` is
  the full adder from a bit to the next, and `Sum` says that `plus` is addition
  modulo 2^64 for all words. `SumFits` and `CounterFits` use that an admissible
  request has fewer blocks than counters. `BlockIsQQQQ`: the 32 bytes that the
  kernel reads are the block that `ctr_testgen.py` packs. `KeyFound`: the key whose
  schedule is in the array gives the array back, since a schedule begins with its
  key. Before the first call the array is all zero, and that it is no key's
  schedule is where the S-box must not fix 0 (`StreamTableAssumption`; the
  reference's has 99 there).
* **Kernel** (`K32b32_proof`), for every S-box and doubling, schedule, memory
  and placement. `Exchange` and `Gather`: after the masked swap and the shuffle,
  byte `i` of a register, taken through ShiftRows, is the byte that Rijndael's
  ShiftRow by 0, 1, 3 and 4 over eight columns brings there. `AesRound`:
  AESENC's column sum is the sum of the four T-box entries, in another order,
  by the laws of exclusive or. `RoundIsRound` and `LastIsLast` put the halves
  together, `StoreFour` shows the eight stores to be one store of 128 bytes, and
  `Implementation` is the refinement, with `IInv` tying the key pointer to the
  round counter.

Recursively defined functions are reasoned about with a list of their values: there
is one of each length (`Recursion`, by `Induction` over a set, since induction over
a predicate is out of the provers' reach), and it is the only one. So schedules,
states of a cipher and counters are what their recurrences say (`AesSchedule`,
`StateByState`, `Counting`).

Assumptions: those on the constants (`SizeAssumption`, `CipherAssumption`,
`SboxAssumption`, ...). TLC evaluates each in the run whose module extends it:
`ConstAssumption` is where the hand-copied round constants of an expansion are
compared with the reference's. The AES-256 routines shift theirs, so they assume
that the first seven are the powers of two (`PowersOfTwo`, under the names
`ShiftAssumption`, `EcbShiftAssumption` and `CtrShiftAssumption`).

## 6. Model-checked only

* `CallReturns` and `CallEnds`: liveness and ENABLED are out of the prover's
  reach.
* `KnownAnswer`: computations on the real tables.
* The tables of `RijndaelTables` and `RijndaelRounds`, and with them `PyRijndael`,
  whose `RoundTrip` says that the two directions of the tables are inverse; and
  `RoundsAgree` and the agreement of `Reference256` with `Aes256`, `ScheduleWords`
  and `Cipher256`. All are
  computations in GF(2^8) over the tables as filled in, on given bytes.
* The agreement of the round constants with the reference's.
* `TestCtr`: it has no constants and finitely many states, all of which its run
  visits. A proof would say nothing more.

## 7. Plan

The modules planned are written, and every invariant and refinement of the C and
assembly code that is not a computation on particular tables is proved. What is
left are links that the project states in words only:

1. The kernel and the expansions are proved against `Rijndael256` and
   `KeySchedule`, the driver on bytes against the driver, and both stand on
   `ScheduleWords` and `Cipher256`. A module that runs the driver with the
   routines' own steps, instead of their results, would make the chain a theorem.
2. `PyRijndael`'s `TypeOK`, for any tables of the right types.

## 8. Not modelled

* `partial.ginger.s` and its output `partial.s`: an unfinished template. No build
  makes a program of it, labels and registers it names are not defined and its
  arguments fit none of the prototypes: there is no behaviour to be faithful to.
  What reading it showed is in 4.4 and among the hazards.
* `ctr.s`, `otfks.s`, `fly.ginger.s`, `new.gas`, `partial.ginger.s.old`:
  fragments that no build file assembles, with undefined labels.
* `go/ctrtestgen.go`: prints one block of a third-party cipher.
* `test_rijn256ctr.c`, `ecb_inline/mini.c`, `inline_test.c`, `test.c`: their calls are
  the calls of the routines' modules; output, timing and build files are not
  modelled, nor the functions of `print-impl.h` that nothing calls.
* Of `ossl_expansion.s`, keys of 128 and 192 bits, null pointers and wrong
  lengths, and the expansion for decryption: no program here asks for them. The
  other NSS and Intel files (`intel-nss-ssse3.s`, `intel-nss2.s`,
  `intel-aes-x64-masm.asm`), baselines of the same kind. Preprocessor outputs
  kept beside their inputs.
* Timing behaviour, register contents after return other than the key and state
  registers, and the processor: instructions are modelled by what they compute.
