\* Three threads compete for one connection, of three ever created: a holder
\* and two waiters, and a new generation after a failed check or an eviction.
CONSTANTS
  Threads = {t1, t2, t3}
  MaxSize = 1
  HealthCheck = TRUE
  MaxConns = 3
\* A closed pool with nobody in it is the end.
CHECK_DEADLOCK FALSE
SPECIFICATION FairSpec
INVARIANTS ExclusiveUse NothingLeaks NoIdleWhileAllSleep
PROPERTIES WaitersReturn
