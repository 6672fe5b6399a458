\* One person and one role, one mint at a time beside two saves of the role.
CONSTANTS
  u1 = u1
  r1 = r1
  e0 = e0
  e1 = e1
  e2 = e2
  Users = {u1}
  Roles = {r1}
  Entities = {e1, e2}
  Everywhere = e0
  Maps <- OneRole
  Forms <- FewForms
  Asked <- FewAsked
  Mints = {m1}
  Savers = {s1, s2}
  None = None
SPECIFICATION Spec
SYMMETRY Symmetric
INVARIANT TypeOK
PROPERTIES
  MintedWasQualified
  RefusedWasUnqualified
  LoneSaveReplaces
