--------------------------- MODULE ScheduleWords ---------------------------
(***************************************************************************)
(* The words of a Rijndael schedule with eight key words, as               *)
(* Nk8Nw8/py/rijndael.py makes them, byte b of word i being byte 4 * i + b *)
(* of the array the assembly writes.                                       *)
(***************************************************************************)
EXTENDS TBoxes

CONSTANT
  Rcon       \* the round constant bytes, from 1

KeyWords == 8

\* What is xored to the word eight before to make byte b of word i.
Feedback(s, i, b) ==
  IF i % 8 = 0
  THEN Sbox[s[4 * (i - 1) + ((b + 1) % 4)]]
         (+) (IF b = 0 THEN Rcon[i \div 8] ELSE Zero)
  ELSE IF i % 8 = 4 THEN Sbox[s[4 * (i - 1) + b]]
  ELSE s[4 * (i - 1) + b]

ScheduleByte(k, s, i, b) ==
  IF i < KeyWords THEN k[4 * i + b]
  ELSE s[4 * (i - KeyWords) + b] (+) Feedback(s, i, b)

\* The first m words of the schedule of k, filled in word by word.
ScheduleOf(k, m) ==
  LET upTo[n \in 8..m] ==
        IF n = 8 THEN [a \in 0..(4 * m - 1) |-> IF a < 32 THEN k[a] ELSE Zero]
        ELSE LET s == upTo[n - 1]
                 byte(b) == ScheduleByte(k, s, n - 1, b)
             IN  [s EXCEPT ![4 * n - 4] = byte(0), ![4 * n - 3] = byte(1),
                           ![4 * n - 2] = byte(2), ![4 * n - 1] = byte(3)]
  IN  upTo[m]

\* The first m words of s are those of the schedule of k.
IsSchedule(k, s, m) ==
  \A i \in 0..(m - 1), b \in 0..3 : s[4 * i + b] = ScheduleByte(k, s, i, b)
=============================================================================
