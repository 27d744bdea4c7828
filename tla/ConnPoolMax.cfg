\* One connection allowed: a reused one is no longer counted.
CONSTANTS
  Threads = {t1, t2}
  MaxSize = 1
  HealthCheck = TRUE
  MaxConns = 3
CHECK_DEADLOCK FALSE
SPECIFICATION Spec
INVARIANTS SizeWithinMax
SYMMETRY Symmetric
