\* Three steps, two attempts of an action and of its compensation, two interruptions:
\* one of the forward and one of the backward pass.
\* A saga that has ended stays so.
CONSTANTS
  NumSteps = 3
  Attempts = 2
  UndoAttempts = 2
  MaxInterrupts = 2

SPECIFICATION SagaSpec
CHECK_DEADLOCK FALSE

INVARIANTS AllOrNothing UndoneInReverse
PROPERTIES StartedEnds
