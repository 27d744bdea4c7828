\* Two workers, a deque of two: a task for either end, the last one, and one that does
\* not fit; a restart, so that two threads may serve a worker; a handler that ends one.
\* A stopped pool comes to rest.
CONSTANTS
  Workers = {w1, w2}
  MaxTasks = 3
  Capacity = 2
  MaxStarts = 2
  MaxExits = 1
  None = None

SPECIFICATION Spec
CHECK_DEADLOCK FALSE

INVARIANTS TakenOnce NobodyBreaks
PROPERTIES BacklogClears
