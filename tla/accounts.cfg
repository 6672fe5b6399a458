\* Three ids, two addresses in two spellings each, two calls at a time.
CONSTANTS
  Users = {1, 2, 3}
  Addresses = {a, b}
  Jobs = {j1, j2}
  None = None
  MaxTime = 2
SPECIFICATION Spec
INVARIANTS
  TypeOK
  AddressFindsItsOwner
PROPERTY LeavingDateStaysUnlessRaced
