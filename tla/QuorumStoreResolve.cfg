\* The instance of QuorumStore.cfg, resolve_conflict included in the promise.
CONSTANTS
  Replicas = {q1, q2, q3}
  MaxVersion = 3
  MaxClock = 5

SPECIFICATION Spec
SYMMETRY Symmetry
CHECK_DEADLOCK FALSE

INVARIANTS
  LastWriteWinsAlways
