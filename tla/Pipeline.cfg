\* Two stages, more items than a queue holds, one retry.
CONSTANTS
  NumStages = 2
  NumItems = 2
  QueueCapacity = 1
  MaxRetries = 1
  HasTimeout = TRUE
\* A returned pipeline is the end.
CHECK_DEADLOCK FALSE
SPECIFICATION PipelineFairSpec
INVARIANTS CompletedIsComplete FlowIsConserved
PROPERTIES StoppedReturns ExecuteReturns
