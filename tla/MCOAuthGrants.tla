---------------------------- MODULE MCOAuthGrants ----------------------------
(* Symmetry sets for the instances of OAuthGrants that TLC checks. *)
EXTENDS OAuthGrants, TLC

\* Every id is drawn from its pool by name only.
Symmetric ==
  Permutations(Tokens) \cup Permutations(Reqs) \cup Permutations(Forms)
    \cup Permutations(Grants) \cup Permutations(Clients)
=============================================================================
