\* Two grants of one person and one client, two forms at once; liveness, so without symmetry.
CONSTANTS
  Users = {u1}
  Clients = {c1}
  Grants = {g1, g2}
  Tokens = {}
  Forms = {f1, f2}
  Reqs = {r1}
  Offline = {FALSE}
  None = None
SPECIFICATION LiveSpec
INVARIANT LetInIsAnnounced
PROPERTY RevocationCompletes
