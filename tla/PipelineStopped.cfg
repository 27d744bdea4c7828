\* One item between two stages when the pipeline stops.
CONSTANTS
  NumStages = 2
  NumItems = 1
  QueueCapacity = 1
  MaxRetries = 0
  HasTimeout = TRUE
CHECK_DEADLOCK FALSE
SPECIFICATION PipelineSpec
INVARIANTS SuccessIsComplete
