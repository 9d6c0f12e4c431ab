SPECIFICATION Spec

CONSTANTS
  a = a
  space = space
  Chars <- MCChars
  Space = space
  Plain = plain
  Matchings = {fuzzy}
  MaxLen = 2
  MaxKeys = 4
  MaxRebuilds = 1
  Nothing = Nothing

INVARIANTS
  ActiveIsComing
  ShowsLastAsked
  RefreshIsFresh

PROPERTY
  SpinnerStops

CHECK_DEADLOCK FALSE
