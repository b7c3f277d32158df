\* Two one-page wordlines on two luns: write pointers that change die and
\* wordline, lines full of valid pages, collections of partly valid victims
\* from a heap of up to four.
CONSTANTS
  TtLines = 8
  NrChs = 1
  LunsPerCh = 2
  WlsPerBlk = 2
  PgsPerOneshot = 1
  Lpns = {l1, l2, l3, l4}
  UNMAPPED = UNMAPPED
  MaxWrites = 20
SPECIFICATION MCSpec
SYMMETRY Symmetry
INVARIANTS TypeOK MapConsistent LinePlaces VictimProgress Frontiers FreeLineLeft CreditReserve VictimHeap
PROPERTIES NandDiscipline
