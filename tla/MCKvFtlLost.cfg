CONSTANTS
  k = k
  Colliding = {c1, c2}
  NrSlots = 3
  Keys <- MCKeys
  Hash <- MCHash
  Lens = {1, 2}
  SmallLen = 2
  StorageSize = 4
  NrIters = 1
  IterBuf = 1
  IterKeys <- MCIterKeys
SPECIFICATION Spec
SYMMETRY Symmetry
INVARIANTS EntryIsFound
CHECK_DEADLOCK FALSE
