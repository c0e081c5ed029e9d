SPECIFICATION FairSpec
CONSTANTS
  Readers = {c1, c2}
  d1 = d1
  d2 = d2
  Dirs = {d1, d2}
  Size <- MCSize
  MaxListers = 2
  Indexes = {0, 1}
  Batch = 2
  Expiration = 0
  None = None
CHECK_DEADLOCK FALSE
INVARIANTS ListerClosedOnce CompleteListing
PROPERTIES ListerIsReleased
