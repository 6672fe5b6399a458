--------------------------- MODULE MCBrowserSessions ---------------------------
(* Symmetry sets for the instance of BrowserSessions that TLC checks. *)
EXTENDS BrowserSessions, TLC

Symmetric == Permutations(Users) \cup Permutations(Tabs)
=============================================================================
