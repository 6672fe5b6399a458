\* Two people at one browser, two requests at a time, four seconds.
CONSTANTS
  Users = {u1, u2}
  Tabs = {b1, b2}
  Lifetime = 2
  MaxTime = 3
  HasParentDomain = TRUE
  None = None
SPECIFICATION Spec
SYMMETRY Symmetric
INVARIANTS
  TypeOK
  SessionIsTheLast
  MeAnswersForTheLast
  GuardWindow
