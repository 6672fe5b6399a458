---------------------------- MODULE MCSuperAdmins ----------------------------
(* One role of each kind, and the maps held and posted, for the runs of    *)
(* SuperAdmins.                                                            *)
EXTENDS SuperAdmins, TLC

CONSTANTS f1, ro, p1, e0, e1

\* One super-admin role or the other; both at once, which no form may post; a plain
\* role in a second scope.
SmallMaps ==
  {{<<f1, e0>>}, {<<ro, e0>>}, {<<f1, e0>>, <<ro, e0>>}, {<<p1, e1>>}}

\* To begin with a person may hold nothing, any of these, or one super-admin role in
\* two scopes, so that a map can drop it in one and keep it in the other.
StartMaps ==
  {{}, {<<f1, e0>>}, {<<f1, e0>>, <<f1, e1>>}, {<<ro, e0>>}, {<<p1, e1>>}}

Symmetric == Permutations(Users) \cup Permutations(Jobs)
=============================================================================
