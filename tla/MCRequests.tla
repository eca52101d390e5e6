----------------------------- MODULE MCRequests -----------------------------
(* What must happen in the end with what the application asks of the server: *)
(* a behaviour is one part's throughout and the other stays as it began.     *)
(* SignIn: Quick Connect from a start signed out.  Library: one longer than  *)
(* the window and one that fits, and a cache of posters that just holds what *)
(* the screen shows.                                                         *)
EXTENDS Requests

Address == {"here"}
SignedOut == {Session("here", NoToken, "none")}
Shelves == {"films", "shows"}
Lengths == [films |-> 3, shows |-> 1]

VARIABLE part

libraryVars == <<gridFetcher, onGrid, parent, total, selected, requested, window, slots,
                 frameRequested, gridEvents>>

MCInit == part \in {"sign-in", "library"} /\ Init /\ Library!Init

MCNext ==
  \/ part = "sign-in" /\ Next /\ UNCHANGED <<part, libraryVars>>
  \/ part = "library" /\ Library!Next /\ UNCHANGED <<part, vars>>

\* The fairness of each part, where it is the one.
Fairness ==
  /\ WF_vars(part = "sign-in" /\ Poll) /\ WF_vars(part = "sign-in" /\ TakeTask)
  /\ \A i \in SlotIds : WF_vars(part = "sign-in" /\ (Consume(i) \/ Serve(i)))
  /\ WF_libraryVars(part = "library" /\ Library!TakeTask)
  /\ \A i \in SlotIds : WF_libraryVars(part = "library" /\ Library!Work(i))
  /\ []<>(part # "library" \/ ~frameRequested) \/ []<><<Library!Draw>>_libraryVars

MCSpec == MCInit /\ [][MCNext]_<<part, vars, libraryVars>> /\ Fairness
=============================================================================
