\* A ring of three slots for two commands, an admin queue of three slots.
CONSTANTS
  Tags = {t1, t2}
  QSize = 3
  AqDepth = 3
  NULL = NULL
SPECIFICATION Spec
INVARIANTS TypeOK RingsAgree NothingLost
CHECK_DEADLOCK FALSE
