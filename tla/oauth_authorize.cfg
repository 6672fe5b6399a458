\* Two people and one client; one page is processed at a time.
CONSTANTS
  Users = {u1, u2}
  Clients = {c1}
  Grants = {g1, g2}
  Tokens = {}
  Forms = {f1}
  Reqs = {}
  Offline = {TRUE}
  None = None
  Uris <- SomeUris
  AllowLoopbackRedirects = FALSE
  MaxSealed = 2
SPECIFICATION AuthorizeSpec
SYMMETRY AuthorizeSymmetric
INVARIANTS
  PagesTypeOK
  ConsentWasTyped
  RegistrationBounds
