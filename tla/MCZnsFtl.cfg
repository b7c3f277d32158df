\* Two zones of three pages of two blocks; a wordline has two pages, and the
\* end of the zone cuts the second one short.
CONSTANTS
  NrZones = 2
  Cap = 6
  SecsPerPg = 2
  PgsPerOneshot = 2
  WbSize = 4
  Zrwa = 2
  Zrwafg = 2
  ZrwaBuf = 2
  MaxLen = 2
  MaxZb = 4
  MaxWb = 8
SPECIFICATION MCSpec
INVARIANTS TypeOK ResourcesCounted WpMatchesState NeverExhausted BufferCovered
PROPERTIES WpMonotone
CHECK_DEADLOCK FALSE
