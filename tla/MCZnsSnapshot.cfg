\* A careful host.
CONSTANTS
  NrZones = 2
  Cap = 2
  SecsPerPg = 2
  PgsPerOneshot = 1
  WbSize = 3
  Zrwa = 1
  Zrwafg = 1
  ZrwaBuf = 0
  MaxLen = 2
  Careless = {}
  MaxCommands = 4
  MaxSince = 1
  MaxCopies = 2
SPECIFICATION MCSpec
INVARIANTS Consistent WrittenHeld ZonesRestored
CHECK_DEADLOCK FALSE
