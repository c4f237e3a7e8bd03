SPECIFICATION FairSpec

CONSTANTS
  Thread = {t1, t2}
  MaxCallbacks = 3

CHECK_DEADLOCK FALSE

INVARIANT NoLostWakeup
PROPERTIES ImplementsExecutor CallbacksRun TerminateReturns
