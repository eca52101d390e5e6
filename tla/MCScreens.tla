----------------------------- MODULE MCScreens -----------------------------
(* Two libraries, a film, and a series of two seasons, one of two episodes *)
(* so that there is a next one; two replies at once, and two entries of    *)
(* stack, so that the oldest is dropped.                                   *)
EXTENDS Screens
MCSeasons == [s \in Series |-> {"book1", "book2"}]
MCEpisodes == [s \in {"book1", "book2"} |-> IF s = "book1" THEN <<"e1", "e2">> ELSE <<"e3">>]
=============================================================================
