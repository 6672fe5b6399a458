\* Four ids, two names, one reader, pages of two.
CONSTANTS
  Users = {1, 2, 3, 4}
  FullNames = {1, 2}
  Readers = {r1}
  Limit = 2
SPECIFICATION Spec
INVARIANT PagesAreWhole
