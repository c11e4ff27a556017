------------------------------- MODULE MCChat -------------------------------
(***************************************************************************)
(* The instance of the chat for TLC's safety checks.  Two bounds that are  *)
(* fine one at a time are too much together: turns with two chunks or      *)
(* calls meet one upset, and those with one meet two when one of them is   *)
(* the PATCH, and the other comes before its answer.                       *)
(***************************************************************************)
EXTENDS ChatTab

Bounded ==
    /\ work' <= 1 \/ upsets' <= 1
    /\ upsets' = 2 /\ upsets = 1 => patch.st # "none" \/ patch'.st # "none"

BoundedSpec == Init /\ [][Next /\ Bounded]_vars
=============================================================================
