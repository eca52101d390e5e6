------------------------------- MODULE MCSubs -------------------------------
(* One line over the first two frames; workers are alike.                  *)
EXTENDS Subs, TLC
OneLine == {[start |-> 0, end |-> 2]}
Alike == Permutations(Workers)
=============================================================================
