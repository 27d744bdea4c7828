\* Three messages with equal or different ids, a store of two records, a checkpoint
\* every two messages, and two failures.
CONSTANTS
  Ids = {a, b, c}
  Interval = 2
  MaxDedup = 2
  MaxMessages = 3
  MaxFaults = 2

SPECIFICATION EOSpec

INVARIANTS HandledOnce NothingSkipped
PROPERTIES SettledIsNotRepeated EverythingIsHandled
