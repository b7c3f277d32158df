\* Chunks of a few turns of one one-shot page: waiting, preempting, lines that
\* fill; the budget is read through a freed pointer.
CONSTANTS
  NrParts = 2
  NrDies = 2
  PgsPerBlk = 4
  PgsPerOneshot = 2
  TtLines = 3
  NumList = 2
  MaxCon = 2
  Budget = 2
  StaleBudgets = {2, 3}
  Wrap = 128
  NrSmall = 5
  Lengths = {1, 7, 9, 13}
  MappedSets <- StripedSets
SPECIFICATION Spec
INVARIANTS TypeOK WorkPartition FlashDense
PROPERTIES CleanerEnds
CHECK_DEADLOCK FALSE
