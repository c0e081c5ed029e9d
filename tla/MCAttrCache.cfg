SPECIFICATION Spec
CONSTANTS
  Files = {f1, f2}
  a = a
  b = b
  Names <- MCNames
  Root = root
  None = None
  i1 = i1
  i2 = i2
  Handlers <- MCHandlers
  Timeout = 1
  MaxDelay = 1
  MaxEntries = 1
  MaxOpen = 1
  Asks <- MCAsks
  Decoded <- MCDecoded
SYMMETRY MCSymmetry
INVARIANTS BoundedStaleness ChangeReachesCache
