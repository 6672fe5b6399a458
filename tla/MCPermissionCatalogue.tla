------------------------ MODULE MCPermissionCatalogue ------------------------
(* The ensure requests and the symmetry sets of the instance of             *)
(* PermissionCatalogue that TLC checks.                                    *)
EXTENDS PermissionCatalogue

CONSTANTS use_ai_skills, ai_skill_a, create_role

\* Two lists that name the same rows in opposite orders, one with a name twice,
\* one that starts well and leaves the namespace.
Lists ==
  {<<use_ai_skills, ai_skill_a>>, <<ai_skill_a, use_ai_skills>>,
   <<ai_skill_a, ai_skill_a>>, <<ai_skill_a, create_role>>}

Symmetric == Permutations(Calls) \cup Permutations(Dockers)
=============================================================================
