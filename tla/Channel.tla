------------------------------ MODULE Channel ------------------------------
(***************************************************************************)
(* What jf/packet_queue.h promises the two threads at its ends, without    *)
(* the ring, the mutex or the waits: packets are numbered as they are      *)
(* made, go through in that order, and each is at one place for ever: in   *)
(* the sender's hand, inside, taken, or dropped.  Nothing is accepted once *)
(* it is shut; what is inside may still be taken.                          *)
(***************************************************************************)
EXTENDS Integers

VARIABLES made,     \* how many packets the sender made
          hand,     \* the one it is offering, if any
          inside,   \* those accepted and not yet taken
          taken,    \* those the receiver has
          dropped,  \* those freed
          open

vars == <<made, hand, inside, taken, dropped, open>>

Init ==
  /\ made = 0
  /\ hand = {} /\ inside = {} /\ taken = {} /\ dropped = {}
  /\ open = TRUE

(* A new packet is offered.  It may be accepted or dropped at once.        *)
Offer ==
  /\ hand = {}
  /\ made' = made + 1
  /\ \/ hand' = {made + 1} /\ UNCHANGED <<inside, dropped>>
     \/ open /\ inside' = inside \cup {made + 1} /\ UNCHANGED <<hand, dropped>>
     \/ ~open /\ dropped' = dropped \cup {made + 1} /\ UNCHANGED <<hand, inside>>
  /\ UNCHANGED <<taken, open>>

Accept ==
  /\ hand # {} /\ open
  /\ inside' = inside \cup hand
  /\ hand' = {}
  /\ UNCHANGED <<made, taken, dropped, open>>

Refuse ==
  /\ hand # {} /\ ~open
  /\ dropped' = dropped \cup hand
  /\ hand' = {}
  /\ UNCHANGED <<made, inside, taken, open>>

(* The oldest packet inside is taken, whether the channel is open or shut. *)
Take ==
  \E packet \in inside:
    /\ \A other \in inside: packet <= other
    /\ inside' = inside \ {packet}
    /\ taken' = taken \cup {packet}
    /\ UNCHANGED <<made, hand, dropped, open>>

Shut ==
  /\ open /\ open' = FALSE
  /\ UNCHANGED <<made, hand, inside, taken, dropped>>

(* Between two segments, with nobody at either end.                        *)
Reopen ==
  /\ ~open /\ hand = {}
  /\ open' = TRUE
  /\ dropped' = dropped \cup inside
  /\ inside' = {}
  /\ UNCHANGED <<made, hand, taken>>

Next == Offer \/ Accept \/ Refuse \/ Take \/ Shut \/ Reopen

Spec == Init /\ [][Next]_vars
=============================================================================
