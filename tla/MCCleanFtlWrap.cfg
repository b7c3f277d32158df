\* The host has written the first page only: the run is shorter than
\* a stripe.
CONSTANTS
  NrParts = 2
  NrDies = 2
  PgsPerBlk = 4
  PgsPerOneshot = 2
  TtLines = 3
  NumList = 1
  MaxCon = 2
  Budget = 2
  StaleBudgets = {2, 3}
  Wrap = 64
  NrSmall = 1
  Lengths = {}
  MappedSets <- AnySets
SPECIFICATION Spec
CHECK_DEADLOCK FALSE
INVARIANTS OnlyMapped
