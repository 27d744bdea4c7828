\* The instance of Saga.cfg: what an interrupted compensation leaves behind.
CONSTANTS
  NumSteps = 3
  Attempts = 2
  UndoAttempts = 2
  MaxInterrupts = 2

SPECIFICATION SagaSpec
CHECK_DEADLOCK FALSE

INVARIANT CompensatedMeansCompensated
