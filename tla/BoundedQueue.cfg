\* Three threads, so that two can sleep while a third acts; the marks of a
\* queue of three are 2 and 1, with a size on either side.
CONSTANTS
  Threads = {t1, t2, t3}
  Capacity = 3
  HighPercent = 67
  LowPercent = 34
\* Everybody may wait without a timeout, and then nothing happens.
CHECK_DEADLOCK FALSE
SPECIFICATION FairSpec
INVARIANTS NoLostWakeup CallbacksBalance
PROPERTIES TimedCallsReturn ClearedDequeuersReturn
