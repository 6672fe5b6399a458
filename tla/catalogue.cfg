\* Two servers that may die and start again, two ensure calls and two session responses.
CONSTANTS
  use_ai_skills = use_ai_skills
  ai_skill_a = ai_skill_a
  create_role = create_role
  BasePermissions = {create_role}
  AI_DOCK_PERMISSIONS = {ai_mode_auto, ai_dock_voice}
  RETIRED_PERMISSIONS = {create_department}
  SkillNames = {use_ai_skills, ai_skill_a}
  Bodies <- Lists
  MaxNames = 2
  Servers = {s1, s2}
  Calls = {c1, c2}
  Dockers = {d1, d2}
  Minute = 1
  MaxTime = 2
SPECIFICATION Spec
SYMMETRY Symmetric
INVARIANTS
  TypeOK
  
  CatalogueIsWhole
  MarkerStays
