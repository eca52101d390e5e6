------------------------------ MODULE Requests ------------------------------
(* What the application asks of the server, in two parts of it that share    *)
(* nothing but the size of their pools: signing in, and a library's grid.    *)
EXTENDS SignIn

CONSTANTS Libraries, Length, WindowPages, CacheSize, Burst, PosterLimit, MaxAge,  \* Library
          GridEvents   \* its bound MaxEvents

\* 24 of 32 in main.c and api.h: a poster that is asked for finds a slot.
ASSUME PosterLimitAssumption == PosterLimit \in 0..Slots
ASSUME CacheSizeAssumption == CacheSize \in Nat /\ MaxAge \in Nat

VARIABLES
  gridFetcher, onGrid, parent, total, selected, requested, window, slots,
  frameRequested, gridEvents

Library == INSTANCE Library WITH
  fetcher <- gridFetcher, events <- gridEvents, MaxEvents <- GridEvents

(* Library: a poster comes back to the slot that asked for it.               *)
SlotAwaitsItsItem == Library!SlotAwaitsItsItem

(* Library: every card on screen gets its poster or keeps its placeholder.   *)
PostersSettle == Library!PostersSettle
=============================================================================
