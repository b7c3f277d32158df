\* Two logical pages on five lines of three pages.
CONSTANTS
  TtLines = 5
  NrChs = 1
  LunsPerCh = 1
  WlsPerBlk = 1
  PgsPerOneshot = 3
  Lpns = {l1, l2}
  UNMAPPED = UNMAPPED
  MaxWrites = 10
  MaxLoads = 1
SPECIFICATION MCSpec
SYMMETRY Symmetry
INVARIANTS Consistent DataRestored
CHECK_DEADLOCK FALSE
