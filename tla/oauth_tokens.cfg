\* One grant under two concurrent token requests, crashes and revocations.
CONSTANTS
  Users = {u1}
  Clients = {c1}
  Grants = {g1}
  Tokens = {t1, t2, t3}
  Forms = {f1}
  Reqs = {r1, r2}
  Offline = {TRUE, FALSE}
  None = None
SPECIFICATION Spec
SYMMETRY Symmetric
INVARIANTS
  TypeOK
  ChainIntegrity
  CaughtIsCutOff
  AlarmIsForTheCut
  SoleChain
PROPERTY ImplementsConsent
