---------------------------- MODULE MCExpandKey -----------------------------
(***************************************************************************)
(* Expand2 and K32ks for TLC, whichever of the two is linked: the real     *)
(* S-box, three keys and sixteen bytes of the caller's memory beyond the   *)
(* 480 of the schedule.                                                    *)
(***************************************************************************)
EXTENDS Expand2, K32ks, MCAes

VARIABLE linked

MCAddr == 0..495

MCInit == Init /\ linked \in {"expand2", "rijn_k32ks"}

MCNext == /\ \/ linked = "expand2" /\ Next
             \/ linked = "rijn_k32ks" /\ K32ksNext
          /\ UNCHANGED linked

MCSpec == MCInit /\ [][MCNext]_<<vars, linked>>
=============================================================================
