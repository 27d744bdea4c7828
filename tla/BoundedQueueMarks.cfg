\* Different ratios, 60 and 40 percent, that fall on one mark of a queue of three.
CONSTANTS
  Threads = {t1, t2}
  Capacity = 3
  HighPercent = 60
  LowPercent = 40
\* Everybody may wait without a timeout, and then nothing happens.
CHECK_DEADLOCK FALSE
SPECIFICATION Spec
INVARIANTS BelowLowIsReported
SYMMETRY Symmetric
