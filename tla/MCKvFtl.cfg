\* Small values of two lengths in four cells, and one iterator.
CONSTANTS
  k = k
  Colliding = {c1, c2}
  NrSlots = 3
  Keys <- MCKeys
  Hash <- MCHash
  Lens = {1, 2}
  SmallLen = 2
  StorageSize = 4
  NrIters = 1
  IterBuf = 1
  IterKeys <- MCIterKeys
SPECIFICATION Spec
SYMMETRY Symmetry
INVARIANTS TypeOK SearchEnds FoundIsCurrent ValuesApart IterExact
CHECK_DEADLOCK FALSE
