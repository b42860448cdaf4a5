---------------------------- MODULE KeySchedule ----------------------------
(***************************************************************************)
(* What a key expansion promises: the schedule of Rijndael with eight key  *)
(* words, 120 words of it for blocks of eight words and 60 for blocks of   *)
(* four, which the Python reference writes as a list of words and the      *)
(* assembly as a byte array.  A caller hands over a key and a buffer; the  *)
(* words appear in order, any number of them at a step, and a word once    *)
(* there is not touched again, nor is any byte outside the schedule.       *)
(***************************************************************************)
EXTENDS ScheduleWords

CONSTANTS
  Addr,      \* the byte offsets of the caller's memory from its buffer
  Keys,      \* the keys callers pass, as functions on 0..31
  NumWords   \* ROUND_KEY_COUNT: words of the schedule

VARIABLES
  key,       \* the key of the current call
  ks,        \* the memory, offset 0 being the buffer of the schedule
  n          \* how many schedule words have been written

vars == <<key, ks, n>>

Init == /\ key \in Keys
        /\ ks \in [Addr -> Byte]
        /\ n = 0

Extend == /\ n' \in (n + 1)..NumWords
          /\ ks' \in [Addr -> Byte]
          /\ IsSchedule(key, ks', n')
          /\ \A a \in Addr : a \notin (4 * n)..(4 * n' - 1) => ks'[a] = ks[a]
          /\ UNCHANGED key

\* Between calls the buffer is the caller's, and so is the choice of a key:
\* another, the same, or bytes of the buffer itself.
Again == /\ n \in {0, NumWords}
         /\ n' = 0
         /\ key' \in Keys
         /\ ks' \in [Addr -> Byte]

Next == Extend \/ Again

Spec == Init /\ [][Next]_vars
=============================================================================
