\* Four threads, re-entered twice: a holder, a barger and two waiters of either kind.
CONSTANTS
  Threads = {t1, t2, t3, t4}
  NoThread = NoThread
  MaxHolds = 2
\* A reader that re-enters behind a waiting writer parks for good.
CHECK_DEADLOCK FALSE
SPECIFICATION FairSpec
INVARIANTS NoLostWakeup
PROPERTIES ImplementsRWLock QueuedWriterIsWoken
