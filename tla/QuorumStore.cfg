\* Three replicas, every valid pair of quorum sizes; a version that is written, one
\* that misses its quorum, and one that must win over both.
\* The clock and the versions are bounded: at the bounds nothing happens any more.
CONSTANTS
  Replicas = {q1, q2, q3}
  MaxVersion = 3
  MaxClock = 5

SPECIFICATION Spec
SYMMETRY Symmetry
CHECK_DEADLOCK FALSE

INVARIANTS LastWriteWins AcknowledgedIsKept RepairedReadsStay
