\* Three usable entries for up to six operations: the queue fills, drops and wraps.
CONSTANTS
  N = 4
  NReqs = 4
  Writes = {1, 3}
  BufferSize = 1
  MaxTime = 1
  WorkerMayStall = FALSE
SPECIFICATION FairSpec
INVARIANTS TypeOK ListsPartition PendingSorted BufferAccounted
PROPERTIES EveryRequestFetched ImplementsQueue
