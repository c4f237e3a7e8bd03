SPECIFICATION FairSpec

CONSTANTS
  Client = {c1, c2}
  Worker = {w1, w2}
  MaxCallbacks = 3

CHECK_DEADLOCK FALSE

INVARIANTS StopRunsAll
PROPERTIES ImplementsExecutor DrainWaits NobodyWaitsForever
