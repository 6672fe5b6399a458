--------------------------- MODULE MCOAuthAuthorize ---------------------------
(* The redirect URIs and symmetry sets of the instance of OAuthAuthorize that *)
(* TLC checks.                                                                *)
EXTENDS OAuthAuthorize, TLC

\* Two the policy allows and one it does not.
SomeUris ==
  {[scheme |-> "https", host |-> "permitted", hash |-> FALSE, path |-> 1],
   [scheme |-> "https", host |-> "permitted", hash |-> FALSE, path |-> 2],
   [scheme |-> "http", host |-> "foreign", hash |-> FALSE, path |-> 1]}

AuthorizeSymmetric == Permutations(Users) \cup Permutations(Forms) \cup Permutations(Grants)
=============================================================================
