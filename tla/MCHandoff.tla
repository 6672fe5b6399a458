------------------------------ MODULE MCHandoff ------------------------------
(* Symmetry sets for the instance of Handoff that TLC checks. *)
EXTENDS Handoff, TLC

Symmetric ==
  Permutations(Users) \cup Permutations(Origins) \cup Permutations(Codes \ Lost)
    \cup Permutations(Issuers) \cup Permutations(Reqs)
=============================================================================
