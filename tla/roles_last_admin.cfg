\* Two deactivations of the two admins at once.
CONSTANTS
  f1 = f1
  ro = ro
  p1 = p1
  e0 = e0
  e1 = e1
  Users = {u1, u2}
  Full = {f1}
  ReadOnly = {ro}
  Plain = {p1}
  Entities = {e0, e1}
  Held <- StartMaps
  Maps <- SmallMaps
  Jobs = {j1, j2}
  Authority = Authority
  None = None
SPECIFICATION Spec
INVARIANT LastAdminStays
