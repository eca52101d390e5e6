----------------------------- MODULE MCSegment -----------------------------
(* Containers that lean either way: as much sound in a row, twice, as the  *)
(* audio queue and its lane take; a sound more than that; and more picture *)
(* ahead of the sound than the video queue and the pipeline hold.          *)
EXTENDS Segment
Containers ==
  {<<"audio", "audio", "video", "audio", "audio">>,
   <<"audio", "audio", "audio", "video">>,
   <<"video", "video", "video", "audio">>}
=============================================================================
