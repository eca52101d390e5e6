------------------------------ MODULE MCPlayer ------------------------------
(* An item of four seconds with keyframes at 0 and 2, so that a seek to 3  *)
(* lands before its target, and jumps of a second either way.              *)
EXTENDS Player
Jumps == {-1, 1}
=============================================================================
