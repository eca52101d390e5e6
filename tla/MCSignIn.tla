------------------------------ MODULE MCSignIn ------------------------------
(* A pool just deep enough for the home screen's requests.                 *)
EXTENDS SignIn
Addresses == {"here", "there"}

(* A start after signing out, or with a token -- Init chooses whether it    *)
(* has gone stale -- and a password the server takes, or none, after Quick *)
(* Connect.                                                                *)
LaterStarts ==
  {Session("here", NoToken, "none"), Session("here", Token("here", 1), "right"),
   Session("here", Token("here", 1), "none")}

Address == {"here"}
StaleToken == {Session("here", Token("here", 1), "right")}
=============================================================================
