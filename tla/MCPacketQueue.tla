--------------------------- MODULE MCPacketQueue ---------------------------
(* Two slots and a budget of four bytes: two packets of three do not fit   *)
(* together, one of five is oversized, and one of none takes only a slot.  *)
(* Four packets go round the ring twice and over a reset.                  *)
EXTENDS PacketQueue
=============================================================================
