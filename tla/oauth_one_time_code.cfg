\* Two concurrent exchanges of one code.
CONSTANTS
  Users = {u1}
  Clients = {c1}
  Grants = {g1}
  Tokens = {t1, t2}
  Forms = {f1}
  Reqs = {r1, r2}
  Offline = {TRUE}
  None = None
SPECIFICATION Spec
INVARIANT OneTimeCode
