CONSTANTS
  TtLines = 5
  NrChs = 1
  LunsPerCh = 1
  WlsPerBlk = 1
  PgsPerOneshot = 2
  Lpns = {l1}
  UNMAPPED = UNMAPPED
  MaxWrites = 8
  MaxLoads = 7
SPECIFICATION MCSpec
INVARIANTS FreeLineLeft
CHECK_DEADLOCK FALSE
