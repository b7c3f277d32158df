\* The instance of the run ctrl.
CONSTANTS
  Tags = {t1, t2}
  QSize = 3
  AqDepth = 3
  NULL = NULL
SPECIFICATION Spec
INVARIANTS OrderPreserved
CHECK_DEADLOCK FALSE
