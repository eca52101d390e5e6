----------------------------- MODULE MCLibrary ------------------------------
(* A library longer than the window, one that fits, and a cache that holds *)
(* just the posters the screen shows.                                      *)
EXTENDS Library
Shelves == {"films", "shows"}
Lengths == [films |-> 3, shows |-> 1]
=============================================================================
