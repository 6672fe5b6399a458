\* Code c1 under two exchanges at once from two origins; c2 is issued too, which
\* prunes c1: a code issued at 0 expires at 1, before the cutoff 3 - PruneAfter.
CONSTANTS
  Users = {u1}
  Origins = {o1, o2}
  Codes = {c1, c2}
  Lost = {c2}
  Issuers = {i1}
  Reqs = {r1, r2}
  TTL = 1
  PruneAfter = 1
  MaxTime = 3
  None = None
SPECIFICATION Spec
SYMMETRY Symmetric
INVARIANTS
  TypeOK
  RefusedMeansClosed
  PrunedIsExpired
PROPERTY ImplementsOneTimeCode
