----------------------------- MODULE PyRijndael -----------------------------
(***************************************************************************)
(* Nk8Nw8/py/rijndael.py, the class Rijndael, as a caller uses an object   *)
(* of it: an instance is made for a key and a block length, its keys for   *)
(* both directions filled in while the key is extrapolated, and then       *)
(* blocks are encrypted and decrypted in any order.  A round of a loop is  *)
(* a step.  calls and path are history: the calls that returned, and the   *)
(* state before each round of the last encryption.                         *)
(***************************************************************************)
EXTENDS RijndaelRounds

CONSTANTS
  Keys,        \* strings callers pass for key
  Blocklens,   \* and for blocklen
  Blocks,      \* strings callers encrypt or decrypt, besides earlier results
  MaxCalls     \* bound on the calls of one instance

VARIABLES
  pc,          \* what the object is doing
  key, blocklen,
  tk, filled, rconpointer, Ke, Kd,       \* __init__
  dir, input, work, rnd, result,         \* encrypt and decrypt
  calls, path

ivars == <<tk, filled, rconpointer, Ke, Kd>>
cvars == <<dir, input, work, rnd, result>>
vars == <<pc, key, blocklen, ivars, cvars, calls, path>>

Size(s) == Cardinality(DOMAIN s)

KC == Size(key) \div 4
BC == blocklen \div 4
ROUNDS == num_rounds(Size(key), blocklen)
ROUND_KEY_COUNT == (ROUNDS + 1) * BC

\* A call that raises ValueError returns nothing.
ValueError == <<>>

-----------------------------------------------------------------------------
(* Making an instance                                                      *)

NoWord == [k \in Row |-> {}]

\* The words w copied into the round keys from the tt-th on, as many as fit.
Copied(ke, tt, w) ==
  [n \in DOMAIN ke |-> [i \in DOMAIN ke[n] |->
     LET at == n * BC + i
     IN  IF at \in tt..(tt + KC - 1) THEN w[at - tt] ELSE ke[n][i]]]

CopiedBack_SameOrder(kd, tt, w) == Copied(kd, tt, w)

\* And into those of decryption, whose rounds count down.
CopiedBack(kd, tt, w) ==
  [n \in DOMAIN kd |-> [i \in DOMAIN kd[n] |->
     LET at == (ROUNDS - n) * BC + i
     IN  IF at \in tt..(tt + KC - 1) THEN w[at - tt] ELSE kd[n][i]]]

CopyWords(ke, kd, tt, w) ==
  /\ Ke' = Copied(ke, tt, w)
  /\ Kd' = CopiedBack(kd, tt, w)
  /\ filled' = Min({tt + KC, ROUND_KEY_COUNT})

Init == /\ pc = "init"
        /\ key \in Keys /\ blocklen \in Blocklens
        /\ tk = <<>> /\ filled = 0 /\ rconpointer = 0 /\ Ke = <<>> /\ Kd = <<>>
        /\ dir = 1 /\ input = <<>> /\ work = <<>> /\ rnd = 0 /\ result = <<>>
        /\ calls = <<>> /\ path = <<>>

\* __init__ raises.
NewRefused == /\ pc = "init"
              /\ ~(blocklen \in {16, 24, 32} /\ Size(key) \in {16, 24, 32})
              /\ result' = ValueError
              /\ pc' = "none"
              /\ UNCHANGED <<key, blocklen, ivars, dir, input, work, rnd, calls, path>>

\* Round keys of zeros, and the user material.
New == /\ pc = "init"
       /\ blocklen \in {16, 24, 32} /\ Size(key) \in {16, 24, 32}
       /\ tk' = words(key, KC)
       /\ LET zeros == [n \in 0..ROUNDS |-> [i \in 0..(BC - 1) |-> NoWord]]
          IN  CopyWords(zeros, zeros, 0, tk')
       /\ rconpointer' = 0
       /\ pc' = "phi"
       /\ UNCHANGED <<key, blocklen, cvars, calls, path>>

Extrapolate_WordAtATime ==
  /\ pc = "phi" /\ filled < ROUND_KEY_COUNT
  /\ tk' = phi(tk, KC, rcon[rconpointer])
  /\ rconpointer' = rconpointer + 1
  /\ CopyWords(Ke, Kd, filled - KC + 1, tk')
  /\ UNCHANGED <<pc, key, blocklen, cvars, calls, path>>

\* Extrapolate using phi, and copy values into round key arrays.
Extrapolate == /\ pc = "phi" /\ filled < ROUND_KEY_COUNT
               /\ tk' = phi(tk, KC, rcon[rconpointer])
               /\ rconpointer' = rconpointer + 1
               /\ CopyWords(Ke, Kd, filled, tk')
               /\ UNCHANGED <<pc, key, blocklen, cvars, calls, path>>

InverseMixColumn_AllRounds ==
  /\ pc = "phi" /\ filled >= ROUND_KEY_COUNT
  /\ Kd' = [n \in 0..ROUNDS |-> [i \in 0..(BC - 1) |-> inverse(Kd[n][i])]]
  /\ pc' = "ready"
  /\ UNCHANGED <<key, blocklen, tk, filled, rconpointer, Ke, cvars, calls, path>>

\* Inverse MixColumn where needed.
InverseMixColumn ==
  /\ pc = "phi" /\ filled >= ROUND_KEY_COUNT
  /\ Kd' = [n \in 0..ROUNDS |-> [i \in 0..(BC - 1) |->
              IF n \in 1..(ROUNDS - 1) THEN inverse(Kd[n][i]) ELSE Kd[n][i]]]
  /\ pc' = "ready"
  /\ UNCHANGED <<key, blocklen, tk, filled, rconpointer, Ke, cvars, calls, path>>

-----------------------------------------------------------------------------
(* encrypt and decrypt                                                     *)

RoundKeys == IF dir = 1 THEN Ke ELSE Kd

\* A string of the wrong length raises.
CallRefused(d, b) == /\ pc = "ready" /\ Len(calls) < MaxCalls
                     /\ Size(b) # blocklen
                     /\ dir' = d /\ input' = b
                     /\ result' = ValueError
                     /\ calls' = Append(calls, [dir |-> d, in |-> b, out |-> ValueError])
                     /\ UNCHANGED <<pc, key, blocklen, ivars, work, rnd, path>>

\* The text to ints, and the first key.
Call(d, b) == /\ pc = "ready" /\ Len(calls) < MaxCalls
              /\ Size(b) = blocklen
              /\ dir' = d /\ input' = b
              /\ work' = AddKey(words(b, BC), IF d = 1 THEN Ke[0] ELSE Kd[0])
              /\ rnd' = 1
              /\ path' = IF d = 1 THEN <<work'>> ELSE path
              /\ pc' = "rounds"
              /\ UNCHANGED <<key, blocklen, ivars, result, calls>>

\* Apply round transforms.
Round == /\ pc = "rounds" /\ rnd < ROUNDS
         /\ work' = round(work, RoundKeys[rnd], BC, dir)
         /\ rnd' = rnd + 1
         /\ path' = IF dir = 1 THEN Append(path, work') ELSE path
         /\ UNCHANGED <<pc, key, blocklen, ivars, dir, input, result, calls>>

Bytestring(w) == [n \in 0..(blocklen - 1) |-> w[n \div 4][n % 4]]

\* Last round is special.
LastRound == /\ pc = "rounds" /\ rnd = ROUNDS
         /\ result' = Bytestring(last(work, RoundKeys[ROUNDS], BC, dir))
         /\ calls' = Append(calls, [dir |-> dir, in |-> input, out |-> result'])
         /\ pc' = "ready"
         /\ UNCHANGED <<key, blocklen, ivars, dir, input, work, rnd, path>>

\* What a caller may pass: a text of its own, or the last call's result.
Texts == Blocks \cup (IF calls # <<>> /\ Last(calls).out # ValueError
                      THEN {Last(calls).out} ELSE {})

Next == \/ NewRefused \/ New \/ Extrapolate \/ InverseMixColumn
        \/ \E d \in {1, 2}, b \in Texts : CallRefused(d, b) \/ Call(d, b)
        \/ Round \/ LastRound

Spec == Init /\ [][Next]_vars

-----------------------------------------------------------------------------
(* Properties                                                              *)

TypeOK == /\ pc \in {"init", "none", "phi", "ready", "rounds"}
          /\ filled \in Nat /\ rconpointer \in 0..29
          /\ dir \in {1, 2} /\ rnd \in 0..14
          /\ pc \in {"phi", "ready", "rounds"} =>
               /\ DOMAIN Ke = 0..ROUNDS /\ DOMAIN Kd = 0..ROUNDS
               /\ filled \in KC..ROUND_KEY_COUNT
          /\ pc = "rounds" => work \in [0..(BC - 1) -> Word]

\* Decrypting what was encrypted gives the text back, and encrypting what was
\* decrypted too, for all nine sizes: test_encdec of rijndael.py with other
\* texts than its one.
RoundTrip ==
  \A n \in 2..Len(calls) :
    /\ calls[n].in = calls[n - 1].out
    /\ calls[n].dir # calls[n - 1].dir
    => calls[n].out = calls[n - 1].in

\* The rows of a state after SubBytes and ShiftRow: what a round makes of it
\* before MixColumn.
Shifted(w) ==
  [i \in 0..(BC - 1) |-> [j \in Row |-> SubByte[from(w, BC, i, j, 1)]]]

\* Decryption goes through its rounds with the rows still to be shifted back:
\* before its round r the state is that of the encryption before round
\* ROUNDS + 1 - r, substituted and shifted.  This is why Kd is filled in from
\* the end and passed through the inverse of MixColumn, except at both ends.
Retraces ==
  pc = "rounds" /\ dir = 2 /\ calls # <<>> /\ Last(calls).dir = 1
    /\ input = Last(calls).out
  => work = Shifted(path[ROUNDS + 1 - rnd])

\* The schedule for eight-word keys is the one the assembly's abstract
\* schedules promise, byte for byte, and the same whatever the block length.
Flat(n) == Ke[n \div blocklen][(n % blocklen) \div 4][n % 4]

Rcon == Tabulated([i \in 1..14 |-> rcon[i - 1]])

Doubled == Tabulated([b \in Octet |-> mul({1}, b)])

Schedule == INSTANCE KeySchedule
  WITH Bit <- 0..7, Sbox <- SubByte, Mul2 <- Doubled, Rcon <- Rcon,
       Addr <- 0..479, NumWords <- ROUND_KEY_COUNT,
       ks <- [n \in 0..(4 * filled - 1) |-> Flat(n)], n <- filled

Aes == INSTANCE Aes256
  WITH Bit <- 0..7, Sbox <- SubByte, Mul2 <- Doubled, Rcon <- Rcon

ScheduleAgrees ==
  pc = "phi" /\ KC = 8 =>
    LET s == [n \in 0..(4 * filled - 1) |-> Flat(n)]
    IN  /\ Schedule!IsSchedule(key, s, filled)
        /\ BC = 4 /\ filled = 60 => s = Aes!Schedule(key)

\* Rounds on eight words are those of the reference the kernel refines, and on
\* four those of the reference the AES-256 routines are held to.
Block256 == INSTANCE Rijndael256
  WITH Bit <- 0..7, Sbox <- SubByte, Mul2 <- Doubled,
       Addr <- 0..31, Args <- {}, arg <- <<>>, r <- rnd, t <- <<>>, mem <- <<>>

FlatState(w) == [n \in 0..(blocklen - 1) |-> w[n \div 4][n % 4]]

RoundsAgree ==
  [][Round /\ dir = 1 =>
       LET ke == [n \in 0..(15 * blocklen - 1) |-> Flat(n)]
       IN  /\ BC = 8 => FlatState(work') = Block256!round(FlatState(work), ke, rnd)
           /\ BC = 4 => FlatState(work') = Aes!round(FlatState(work), ke, rnd)]_vars
=============================================================================
